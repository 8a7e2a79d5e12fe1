----------------------------- MODULE MCWaterfall -----------------------------
(* Small instances of the waterfall for TLC. *)
EXTENDS WaterfallProperties

CONSTANTS c1, c2, e1, r1, r2, s1, v1

\* The mock address of a contact is one of its own.
MCEmails == {e1, "mock"}
MCMockEmail == [c \in Contacts |-> "mock"]

\* Hunter is tried first for emails, Apollo second; Apollo alone for the rest.
MCInitialConfigs ==
  [f \in Fields |-> [p \in Providers |->
     CASE p = "hunter" -> IF f = "email" THEN 1 ELSE 0
       [] p = "apollo" -> 2
       [] OTHER -> 0]]

\* The same seed without phone and company rows.
MCEmailOnly ==
  [f \in Fields |-> [p \in Providers |-> IF f = "email" THEN MCInitialConfigs[f][p] ELSE 0]]

\* A row with a name the registry does not know, behind Hunter.
MCMisspelt ==
  [f \in Fields |-> [p \in Providers |->
     CASE f = "email" /\ p = "hunter" -> 1
       [] f = "email" /\ p = "appolo" -> 2
       [] OTHER -> 0]]

MCScoreOf == [c \in Contacts |-> [v \in IcpConfigs |-> v]]

AnyFailure == {"rollback", "crash", "lost_ack", "refresh"}
HunterRow == {<<"email", "hunter">>}
=============================================================================
