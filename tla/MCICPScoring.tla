----------------------------- MODULE MCICPScoring -----------------------------
(* A small instance of the scoring for TLC. *)
EXTENDS ICPScoring

CONSTANTS a, b

\* Weights of 1, 3 and 28 make ties: 1/32 is 3.125 percent and 3/32 is 9.375.
MCWeights ==
  {[c \in Criteria |-> CASE c = "industry" -> w [] c = "employee_count" -> x
                         [] c = "revenue_range" -> 3 [] OTHER -> y] :
     w \in {0, 1}, x \in {0, 5}, y \in {0, 28}}

Bounds == {<<NoValue, NoValue>>, <<10, 50>>, <<NoValue, 50>>, <<10, NoValue>>, <<50, 10>>}

\* The first profile takes many shapes, the second one is a fixed fallback.
MCProfiles ==
  {[enabled |-> e, industries |-> i, lower |-> n[1], upper |-> n[2], revenues |-> r,
    keywords |-> k, weight |-> w] :
     e \in {TRUE}, i \in {{}, {a}}, n \in Bounds, r \in {{}, {a, b}}, k \in {{}, {b}}, w \in MCWeights}

Plain ==
  [enabled |-> TRUE, industries |-> {a}, lower |-> NoValue, upper |-> NoValue, revenues |-> {},
   keywords |-> {b}, weight |-> [c \in Criteria |-> 3]]

MCProfilesOf ==
  [i \in Ids |-> IF i = 1 THEN MCProfiles \cup {[Plain EXCEPT !.enabled = FALSE]}
                 ELSE {Plain, [Plain EXCEPT !.enabled = FALSE]}]

MCContacts ==
  {[industry |-> i, employees |-> n, revenue |-> i, title |-> t] :
     i \in {a, b, NoValue}, n \in {9, 10, 50, 51, NoValue}, t \in {{}, {b}}}
=============================================================================
