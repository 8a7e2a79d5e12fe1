------------------------- MODULE WaterfallProperties -------------------------
(***************************************************************************)
(* What enrichment and scoring must get right when requests overlap, fail  *)
(* half-way or die, and what their documentation says that they do not.    *)
(***************************************************************************)
EXTENDS WaterfallEnrichment

Ledger == INSTANCE EnrichmentLedger

\* Every variable holds a value of its kind.
TypeOK ==
  /\ imported \subseteq Contacts
  /\ contacts \in [Contacts -> Rows]
  /\ jobs \subseteq Jobs
  /\ configs \in ConfigTables
  /\ icp \in IcpConfigs \cup {NoIcp}
  /\ rowLock \in [Contacts -> Requests \cup {NoRequest}]
  /\ settled \subseteq Requests
  /\ pc \in [Requests -> {"idle", "select", "try", "config", "commit", "refresh",
                          "ok", "notfound", "invalid", "error", "crashed"}]
  /\ target \in [Requests -> Contacts]
  /\ orig \in [Requests -> Rows]
  /\ row \in [Requests -> Rows]
  /\ field \in [Requests -> Fields]
  /\ plan \in [Requests -> ConfigTables]
  /\ todo \in [Requests -> SUBSET Providers]
  /\ pending \in [Requests -> SUBSET Jobs]
  /\ lastJob \in [Requests -> Jobs \cup {NoJob}]
  /\ returned \in [Requests -> SUBSET Jobs]
  /\ attempted \subseteq Requests \X Fields \X Providers

-----------------------------------------------------------------------------
(* The contact and the log.                                                *)

\* Some committed attempt found exactly this email for this contact.
Evidenced(c) == Ledger!Found(jobs, c, contacts[c].email)

\* A contact that says "enriched" carries an email that a logged attempt found
\* for it, whatever concurrent runs loaded, changed and wrote column by column.
EnrichedHasEvidence ==
  \A c \in Contacts : contacts[c].status = "enriched" => Evidenced(c)

JobsOf(r, f) == {j \in jobs : j.req = r /\ j.field = f}

\* The committed run r asked every provider that was enabled for field f when
\* it read the configuration, and every one of them missed.
MissedAll(r, f) ==
  \A p \in Providers : plan[r][f][p] > 0 =>
    \E j \in JobsOf(r, f) : j.provider = p /\ ~j.success

\* A contact that says "failed" has been through a committed run in which no
\* enabled email provider knew it: _apply_result and the final miss in
\* enrich_field never trade places.
FailedIsExhausted ==
  \A c \in Contacts : contacts[c].status = "failed" =>
    \E r \in settled \cap EnrichRequests :
      target[r] = c /\ MissedAll(r, "email") /\ \A j \in JobsOf(r, "email") : ~j.success

\* The log of a run is all or nothing: a run that committed accounts for each
\* field by one hit or by a miss of every enabled provider, and a run that did
\* not commit (error, crash, still going) has no row in the log.
AuditIsComplete ==
  \A r \in EnrichRequests :
    IF r \in settled
      THEN \A f \in Fields :
             \/ MissedAll(r, f)
             \/ Cardinality({j \in JobsOf(r, f) : j.success}) = 1
      ELSE \A f \in Fields : JobsOf(r, f) = {}

Done(r) == pc[r] \in {"ok", "notfound", "invalid", "error", "crashed"}

\* Cheapest first: a provider is asked, successfully or not, only after every
\* enabled provider with a smaller priority number has been asked for the same
\* field and has missed; so nothing is asked after a hit either.
Considered(r) == IF r \in settled THEN {j \in jobs : j.req = r} ELSE pending[r]
CheapestFirst ==
  \A r \in EnrichRequests : \A j \in Considered(r) : \A p \in Providers :
    (0 < plan[r][j.field][p] /\ plan[r][j.field][p] < plan[r][j.field][j.provider])
      => \E k \in Considered(r) : k.field = j.field /\ k.provider = p /\ ~k.success

\* A 200 reports nothing that could still be lost: every job of the result is
\* committed, under the request's own contact.
ReplyIsDurable ==
  \A r \in EnrichRequests : pc[r] = "ok" =>
    \A j \in returned[r] : j \in jobs /\ j.req = r /\ j.contact = target[r]

\* The row lock belongs to a transaction that is open, that is about this
\* contact and that has changed it; and an enrichment that has changed its
\* contact and is past the email field, calling providers, does hold it.
LockDiscipline ==
  /\ \A c \in Contacts : \A r \in Requests :
       rowLock[c] = r => InTransaction(r) /\ target[r] = c /\ Dirty(r)
  /\ \A r \in EnrichRequests :
       pc[r] = "try" /\ field[r] # "email" /\ Dirty(r) => rowLock[target[r]] = r

-----------------------------------------------------------------------------
(* Why the contact and the log agree: what holds of every open session.     *)

\* A logged attempt found an email.
EmailHits(J) == {j \in J : j.field = "email" /\ j.success}

\* What the email waterfall of r has come to: nothing yet, a miss that leaves
\* the loaded email alone, or a hit that the pending jobs bear out.
EmailOutcome(r) ==
  \/ field[r] = "email" /\ row[r] = orig[r] /\ EmailHits(pending[r]) = {}
  \/ /\ field[r] # "email"
     /\ row[r].status = "failed" /\ row[r].email = orig[r].email
     /\ EmailHits(pending[r]) = {}
  \/ /\ field[r] # "email"
     /\ row[r].status = "enriched"
     /\ Ledger!Found(pending[r], target[r], row[r].email)

EnrichSession(r) ==
  /\ row[r].score = orig[r].score
  /\ EmailOutcome(r)

ScoreSession(r) ==
  /\ row[r].email = orig[r].email
  /\ row[r].status = orig[r].status
  /\ pending[r] = {}
  /\ pc[r] = "commit" => row[r].score \in Scores

\* A session's copy may be out of date, but only in ways that cannot make its
\* net change wrong: since it was loaded, the contact's email has stayed as it
\* was or has become one that the log bears out, and a score has not vanished.
OpenSession(r) ==
  /\ target[r] \in imported
  /\ r \notin settled
  /\ \A j \in pending[r] : j.req = r /\ j.contact = target[r]
  /\ contacts[target[r]].email = orig[r].email \/ Evidenced(target[r])
  /\ orig[r].score \in Scores => contacts[target[r]].score \in Scores
  /\ r \in EnrichRequests => EnrichSession(r)
  /\ r \in ScoreRequests => ScoreSession(r)

\* A request that has not begun has left nothing anywhere.
Untouched(r) == r \notin settled /\ pending[r] = {} /\ field[r] = "email"

\* The inductive invariant behind EnrichedHasEvidence and ImplementsLedger.
StaleCopiesAreHarmless ==
  /\ EnrichedHasEvidence
  /\ \A j \in jobs : j.req \in settled
  /\ \A r \in Requests : pc[r] = "idle" => Untouched(r)
  /\ \A r \in Requests : InTransaction(r) => OpenSession(r)

-----------------------------------------------------------------------------
(* What one step may do.                                                   *)

\* A score survives enrichment and the other way round: the score of a contact
\* changes only when a scoring commits, and that step leaves the email and the
\* status alone; the email and the status change only when an enrichment
\* commits.  Each session wrote back a copy of the row it loaded earlier.
ColumnsAreIndependent ==
  [][\A c \in imported :
       /\ contacts'[c].score # contacts[c].score =>
            /\ \E r \in ScoreRequests : settled' = settled \cup {r} /\ target[r] = c
            /\ contacts'[c].email = contacts[c].email
            /\ contacts'[c].status = contacts[c].status
       /\ contacts'[c].email # contacts[c].email \/ contacts'[c].status # contacts[c].status =>
            \E r \in EnrichRequests : settled' = settled \cup {r} /\ target[r] = c
    ]_vars

-----------------------------------------------------------------------------
(* Liveness and refinement.                                                *)

\* Every request that has been taken up is answered, or its worker dies: no
\* waterfall goes on for ever and nobody waits for a row lock for ever.
EveryRequestEnds == \A r \in Requests : (pc[r] # "idle") ~> Done(r)

\* The endpoints do what the ledger promises.
ImplementsLedger == Ledger!LSpec

-----------------------------------------------------------------------------
(* Said of the code, and not so.                                           *)

\* "Every attempt (hit or miss) is logged as an EnrichmentJob."
EveryAttemptIsLogged ==
  \A call \in attempted :
    pc[call[1]] \in {"ok", "error"} =>
      \E j \in jobs : <<j.req, j.field, j.provider>> = call
=============================================================================
