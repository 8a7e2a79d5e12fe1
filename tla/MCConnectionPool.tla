--------------------------- MODULE MCConnectionPool ---------------------------
(* Small instances of the pooled waterfall for TLC: two worker processes. *)
EXTENDS ConnectionPool

CONSTANTS c1, r1, r2, s1, v1, w1, w2

MCMockEmail == [c \in Contacts |-> "mock"]

\* Hunter, then Apollo, for emails; nobody for phones and companies.
MCEmailOnly ==
  [f \in Fields |-> [p \in Providers |->
     CASE f # "email" -> 0 [] p = "hunter" -> 1 [] OTHER -> 2]]

MCScoreOf == [c \in Contacts |-> [v \in IcpConfigs |-> v]]

\* The scoring shares the pool of the first enrichment.
MCWorkerOf == [r \in Requests |-> IF r = r2 THEN w2 ELSE w1]
=============================================================================
