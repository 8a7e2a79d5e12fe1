--------------------------- MODULE EnrichmentLedger ---------------------------
(***************************************************************************)
(* What the enrichment and scoring endpoints promise, with no sessions,    *)
(* locks or provider calls: a request that takes effect does so once, all  *)
(* at once, and only on its own contact.  An enrichment adds its attempts  *)
(* to the log and may rewrite the email and the status; a scoring may      *)
(* rewrite the score.  Any other request leaves no trace.                  *)
(***************************************************************************)
CONSTANTS Contacts, EnrichRequests, ScoreRequests, MaybeEmail, Scores, NoScore

VARIABLES imported, contacts, jobs, settled

ledger == <<imported, contacts, jobs, settled>>

\* The log J holds an email hit on contact c that found e.
Found(J, c, e) ==
  \E j \in J : j.contact = c /\ j.field = "email" /\ j.success /\ j.email = e

LInit ==
  /\ imported = {}
  /\ jobs = {}
  /\ settled = {}

\* A new contact is pending, has no score, and may come with an email.
Import ==
  /\ \E c \in Contacts \ imported :
       /\ imported' = imported \cup {c}
       /\ \A d \in Contacts \ {c} : contacts'[d] = contacts[d]
       /\ contacts'[c].email \in MaybeEmail
       /\ contacts'[c].status = "pending"
       /\ contacts'[c].score = NoScore
  /\ UNCHANGED <<jobs, settled>>

\* The request r changes contact c, and no other, and is settled by it.
Settle(r, c) ==
  /\ r \notin settled
  /\ settled' = settled \cup {r}
  /\ c \in imported
  /\ \A d \in Contacts \ {c} : contacts'[d] = contacts[d]
  /\ UNCHANGED imported

\* The attempts of r on c join the log.  The email changes only to one that
\* r found; the status changes only to what r's email waterfall came to; and
\* a contact is enriched only with an email some logged attempt found for it.
Enrich(r, c) ==
  LET new   == jobs' \ jobs
      found == \E j \in new : j.field = "email" /\ j.success
      was   == contacts[c]
      is    == contacts'[c]
  IN  /\ Settle(r, c)
      /\ jobs \subseteq jobs'
      /\ \A j \in new : j.req = r /\ j.contact = c
      /\ is.score = was.score
      /\ is.email # was.email => Found(new, c, is.email)
      /\ is.status # was.status => is.status = IF found THEN "enriched" ELSE "failed"
      /\ is.status = "enriched" => Found(jobs', c, is.email)

Score(r, c) ==
  /\ Settle(r, c)
  /\ contacts'[c].email = contacts[c].email
  /\ contacts'[c].status = contacts[c].status
  /\ contacts'[c].score \in Scores
  /\ UNCHANGED jobs

LNext ==
  \/ Import
  \/ \E c \in Contacts :
       \/ \E r \in EnrichRequests : Enrich(r, c)
       \/ \E r \in ScoreRequests : Score(r, c)

LSpec == LInit /\ [][LNext]_ledger
=============================================================================
