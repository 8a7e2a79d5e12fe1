--------------------------- MODULE WaterfallProofs ---------------------------
(***************************************************************************)
(* Proofs about enrichment and scoring, for any contacts, providers,       *)
(* requests, configurations and failures: type correctness, the evidence   *)
(* behind an enriched contact, and the refinement of EnrichmentLedger.     *)
(***************************************************************************)
EXTENDS WaterfallProperties, TLAPS

\* Whatever a provider returns is one of three kinds of result, and a hit on
\* the email field carries an address.
LEMMA OutcomeKinds ==
  ASSUME NEW p \in Providers, NEW f \in Fields, NEW c \in Contacts,
         NEW out \in Outcomes(p, f, c)
  PROVE  /\ out.email \in MaybeEmail
         /\ f = "email" /\ out.kind = "hit" => out.email \in Emails
<1>1. ASSUME NEW e \in MaybeEmail PROVE Hit(e).kind = "hit" /\ Hit(e).email = e
  BY DEF Hit
<1>2. Miss.kind = "miss" /\ Miss.email = NoEmail /\ Raised.kind = "raised" /\ Raised.email = NoEmail
  BY DEF Miss, Raised
<1>3. MockEmail[c] \in Emails
  BY ProvidersAssumption
<1>4. out \in {Miss, Raised} \cup {Hit(e) : e \in Emails} \cup {Hit(NoEmail)}
  BY <1>3 DEF Outcomes, Hunter, HunterApi, Apollo
<1>5. out = Hit(NoEmail) => f # "email"
  <2>1. SUFFICES ASSUME out = Hit(NoEmail), f = "email" PROVE FALSE
    OBVIOUS
  <2>2. out \in {Miss, Raised} \cup {Hit(e) : e \in Emails}
    BY <1>3, <2>1 DEF Outcomes, Hunter, HunterApi, Apollo
  <2>3. \A e \in Emails : Hit(e).email = e
    BY DEF Hit
  <2>4. Hit(NoEmail).kind = "hit" /\ Hit(NoEmail).email = NoEmail
    BY DEF Hit
  <2> QED
    BY <1>2, <2>1, <2>2, <2>3, <2>4, ProvidersAssumption
<1>6. CASE out \in {Miss, Raised}
  BY <1>2, <1>6 DEF MaybeEmail
<1>7. CASE out \in {Hit(e) : e \in Emails}
  BY <1>7, <1>1 DEF MaybeEmail
<1>8. CASE out = Hit(NoEmail)
  BY <1>8, <1>5, <1>1 DEF MaybeEmail
<1> QED
  BY <1>4, <1>6, <1>7, <1>8

\* An attempt is a row of enrichment_jobs.
LEMMA AttemptType ==
  ASSUME TypeOK, NEW r \in EnrichRequests, NEW p \in Providers,
         NEW out \in Outcomes(p, field[r], target[r]) \cup {Miss}
  PROVE  Attempt(r, p, out) \in Jobs
<1>1. r \in Requests /\ field[r] \in Fields /\ target[r] \in Contacts
  BY DEF TypeOK, Requests
<1>2. out.email \in MaybeEmail
  BY <1>1, OutcomeKinds DEF Miss, MaybeEmail
<1>3. (out.kind = "hit") \in BOOLEAN
  OBVIOUS
<1> QED
  BY <1>1, <1>2, <1>3 DEF Attempt, Jobs

\* A column-wise update of a row is a row.
LEMMA PatchedType ==
  ASSUME TypeOK, NEW r \in Requests, NEW now \in Rows
  PROVE  Patched(r, now) \in Rows
  BY DEF TypeOK, Patched, Column, Rows

\* Setting columns of a row gives a row.
LEMMA RowScored ==
  ASSUME NEW w \in Rows, NEW s \in Scores
  PROVE  /\ [w EXCEPT !.score = s] = [email |-> w.email, status |-> w.status, score |-> s]
         /\ [w EXCEPT !.score = s] \in Rows
  BY DEF Rows

\* A row marked as failed is a row, with its other columns as they were.
LEMMA RowFailed ==
  ASSUME NEW w \in Rows
  PROVE  /\ [w EXCEPT !.status = "failed"] = [email |-> w.email, status |-> "failed", score |-> w.score]
         /\ [w EXCEPT !.status = "failed"] \in Rows
  BY DEF Rows

\* So is a row marked as enriched.
LEMMA RowEnriched ==
  ASSUME NEW w \in Rows, NEW e \in MaybeEmail
  PROVE  [email |-> e, status |-> "enriched", score |-> w.score] \in Rows
  BY DEF Rows

\* Leaving a field leads to another field and to a known place.
LEMMA LeaveFieldType ==
  ASSUME TypeOK, NEW r \in EnrichRequests, LeaveField(r)
  PROVE  /\ field' \in [Requests -> Fields]
         /\ pc' \in [Requests -> {"idle", "select", "try", "config", "commit", "refresh",
                                  "ok", "notfound", "invalid", "error", "crashed"}]
  BY DEF TypeOK, LeaveField, NextField, Goto, Fields, Requests

\* Every step keeps every variable to its type.
LEMMA TypesAreKept == ASSUME TypeOK, [Next]_vars PROVE TypeOK'
<1> USE RequestsAssumption, ProvidersAssumption
<1>1. CASE UNCHANGED vars
  BY <1>1 DEF TypeOK, vars, db, session, ConfigTables, Rows, Jobs
<1>2. ASSUME NEW c \in Contacts, NEW e \in CsvEmails, ImportContact(c, e) PROVE TypeOK'
  BY <1>2 DEF TypeOK, ImportContact, db, session, BlankRow, Rows
<1>3. ASSUME NEW f \in Fields, NEW p \in Providers, NEW n \in 0..MaxPriority, EditConfig(f, p, n)
      PROVE TypeOK'
  BY <1>3 DEF TypeOK, EditConfig, session, ConfigTables
<1>4. ASSUME NEW v \in IcpConfigs \cup {NoIcp}, EditIcp(v) PROVE TypeOK'
  BY <1>4 DEF TypeOK, EditIcp, session
<1>5. ASSUME NEW r \in Requests, LoadContact(r) PROVE TypeOK'
  <2>1. contacts[target[r]] \in Rows
    BY DEF TypeOK
  <2>2. CASE target[r] \in imported
    BY <1>5, <2>1, <2>2 DEF TypeOK, LoadContact, db, Goto
  <2>3. CASE target[r] \notin imported
    BY <1>5, <2>3 DEF TypeOK, LoadContact, db, Goto
  <2> QED
    BY <2>2, <2>3
<1>6. ASSUME NEW r \in EnrichRequests, SelectConfigs(r) PROVE TypeOK'
  BY <1>6 DEF TypeOK, SelectConfigs, EnabledProviders, Goto, Requests, ConfigTables
<1>7. ASSUME NEW r \in EnrichRequests, NEW p \in Providers, ProviderMiss(r, p) PROVE TypeOK'
  <2>1. Attempt(r, p, Miss) \in Jobs
    BY AttemptType
  <2> QED
    BY <1>7, <2>1 DEF TypeOK, ProviderMiss, Call, RemainingAfterMiss, db, Requests
<1>8. ASSUME NEW r \in EnrichRequests, NEW p \in Providers, ProviderRaises(r, p) PROVE TypeOK'
  BY <1>8 DEF TypeOK, ProviderRaises, Abandon, Released, Goto, Requests
<1>9. ASSUME NEW r \in EnrichRequests, NEW p \in Providers,
             NEW out \in Outcomes(p, field[r], target[r]), ProviderHit(r, p, out)
      PROVE TypeOK'
  <2>1. Attempt(r, p, out) \in Jobs
    BY AttemptType
  <2>2. out.email \in MaybeEmail
    BY OutcomeKinds DEF TypeOK, Requests
  <2>3. Applied(field[r], row[r], out.email) \in Rows
    BY <2>2, RowEnriched DEF TypeOK, Applied, Requests
  <2>4. row' \in [Requests -> Rows] /\ UNCHANGED <<db, target, orig, plan>>
    BY <1>9, <2>3 DEF TypeOK, ProviderHit, Requests
  <2>5. /\ pending' \in [Requests -> SUBSET Jobs]
        /\ returned' \in [Requests -> SUBSET Jobs]
        /\ lastJob' \in [Requests -> Jobs \cup {NoJob}]
        /\ todo' \in [Requests -> SUBSET Providers]
    BY <1>9, <2>1 DEF TypeOK, ProviderHit, Requests
  <2>6. attempted' \subseteq Requests \X Fields \X Providers
    BY <1>9 DEF TypeOK, ProviderHit, Call, Requests
  <2>7. LeaveField(r)
    BY <1>9 DEF ProviderHit
  <2> QED
    BY <2>4, <2>5, <2>6, <2>7, LeaveFieldType DEF TypeOK, db
<1>10. ASSUME NEW r \in EnrichRequests, Exhausted(r) PROVE TypeOK'
  <2>1. Missed(field[r], row[r]) \in Rows
    BY RowFailed DEF TypeOK, Missed, Requests
  <2> QED
    BY <1>10, <2>1, LeaveFieldType DEF TypeOK, Exhausted, db, Requests
<1>11. ASSUME NEW r \in ScoreRequests, ComputeScore(r) PROVE TypeOK'
  <2>1. CASE icp = NoIcp
    BY <1>11, <2>1 DEF TypeOK, ComputeScore, Goto, db
  <2>2. CASE icp # NoIcp
    <3>1. ScoreOf[target[r]][icp] \in Scores
      BY <2>2 DEF TypeOK, Requests
    <3>2. [row[r] EXCEPT !.score = ScoreOf[target[r]][icp]] \in Rows
      BY <3>1, RowScored DEF TypeOK, Requests
    <3>3. row' \in [Requests -> Rows]
      BY <1>11, <2>2, <3>2 DEF TypeOK, ComputeScore
    <3> QED
      BY <1>11, <2>2, <3>3 DEF TypeOK, ComputeScore, Goto, db
  <2> QED
    BY <2>1, <2>2
<1>12. ASSUME NEW r \in Requests, Commit(r) PROVE TypeOK'
  <2>1. Patched(r, contacts[target[r]]) \in Rows
    BY PatchedType DEF TypeOK
  <2> QED
    BY <1>12, <2>1 DEF TypeOK, Commit, Published, Released, Goto, session
<1>13. ASSUME NEW r \in Requests, Respond(r) PROVE TypeOK'
  <2>1. contacts[target[r]] \in Rows
    BY DEF TypeOK
  <2>2. row' \in [Requests -> Rows] /\ orig' \in [Requests -> Rows]
    BY <1>13, <2>1 DEF TypeOK, Respond
  <2>3. pc' \in [Requests -> {"idle", "select", "try", "config", "commit", "refresh",
                             "ok", "notfound", "invalid", "error", "crashed"}]
    BY <1>13 DEF TypeOK, Respond, Goto
  <2> QED
    BY <1>13, <2>2, <2>3 DEF TypeOK, Respond, db
<1>14. ASSUME NEW r \in Requests, StatementFails(r) PROVE TypeOK'
  BY <1>14 DEF TypeOK, StatementFails, Abandon, Released, Goto
<1>15. ASSUME NEW r \in Requests, Crash(r) PROVE TypeOK'
  BY <1>15 DEF TypeOK, Crash, Abandon, Released, Goto
<1> QED
  BY <1>1, <1>2, <1>3, <1>4, <1>5, <1>6, <1>7, <1>8, <1>9, <1>10, <1>11, <1>12, <1>13, <1>14, <1>15
  DEF Next, Environment, Step, Progress, EnrichStep, TryProvider

\* Every variable keeps to its type.
THEOREM TypeCorrect == Spec => []TypeOK
<1>1. Init => TypeOK
  BY RequestsAssumption, ProvidersAssumption DEF Init, TypeOK, BlankRow, Rows, MaybeEmail, ConfigTables, Fields, Requests
<1> QED
  BY <1>1, TypesAreKept, PTL DEF Spec

-----------------------------------------------------------------------------
(* The contact and the log.                                                *)

\* A log only gains evidence.
LEMMA FoundGrows ==
  ASSUME NEW J, NEW K, J \subseteq K, NEW c, NEW e, Ledger!Found(J, c, e)
  PROVE  Ledger!Found(K, c, e)
  BY DEF Ledger!Found

\* An open session stays sound when nothing of it changes, and its contact
\* changes only as a sound commit of somebody else may change it.
LEMMA SameSession ==
  ASSUME NEW q \in Requests, OpenSession(q),
         target' = target, imported \subseteq imported', q \notin settled', jobs \subseteq jobs',
         orig'[q] = orig[q], row'[q] = row[q], field'[q] = field[q], pending'[q] = pending[q],
         q \in ScoreRequests => pc'[q] = pc[q],
         contacts'[target[q]].email = contacts[target[q]].email \/ Evidenced(target[q])',
         contacts[target[q]].score \in Scores => contacts'[target[q]].score \in Scores
  PROVE  OpenSession(q)'
<1>1. contacts'[target[q]].email = orig[q].email \/ Evidenced(target[q])'
  <2>1. CASE contacts'[target[q]].email = contacts[target[q]].email
    <3>1. Evidenced(target[q]) => Evidenced(target[q])'
      BY <2>1, FoundGrows DEF Evidenced
    <3> QED
      BY <2>1, <3>1 DEF OpenSession
  <2> QED
    BY <2>1
<1>2. q \in EnrichRequests => EnrichSession(q)'
  BY DEF OpenSession, EnrichSession, EmailOutcome
<1>3. q \in ScoreRequests => ScoreSession(q)'
  BY DEF OpenSession, ScoreSession
<1> QED
  BY <1>1, <1>2, <1>3 DEF OpenSession

\* A step within one session, which changes no table, has only that session
\* to answer for.
LEMMA LocalStep ==
  ASSUME TypeOK, StaleCopiesAreHarmless, NEW r \in Requests,
         UNCHANGED <<imported, contacts, jobs, settled, target>>,
         \A q \in Requests \ {r} : /\ pc'[q] = pc[q]
                                  /\ orig'[q] = orig[q]
                                  /\ row'[q] = row[q]
                                  /\ field'[q] = field[q]
                                  /\ pending'[q] = pending[q],
         pc'[r] # "idle",
         InTransaction(r)' => OpenSession(r)'
  PROVE  StaleCopiesAreHarmless'
<1>1. EnrichedHasEvidence'
  BY DEF StaleCopiesAreHarmless, EnrichedHasEvidence, Evidenced
<1>2. ASSUME NEW q \in Requests, InTransaction(q)' PROVE OpenSession(q)'
  <2>1. CASE q = r
    BY <1>2, <2>1
  <2>2. CASE q # r
    <3>1. OpenSession(q)
      BY <1>2, <2>2 DEF StaleCopiesAreHarmless, InTransaction
    <3> QED
      BY <2>2, <3>1, SameSession DEF OpenSession
  <2> QED
    BY <2>1, <2>2
<1>3. ASSUME NEW q \in Requests, pc'[q] = "idle" PROVE Untouched(q)'
  BY <1>3 DEF StaleCopiesAreHarmless, Untouched
<1> QED
  BY <1>1, <1>2, <1>3 DEF StaleCopiesAreHarmless

\* What an enrichment's commit does to its contact, given what its session
\* knows: the score stays, a new email is one it found, a new status is what
\* its email waterfall came to, and an enriched contact has its evidence.
LEMMA EnrichCommits ==
  ASSUME TypeOK, StaleCopiesAreHarmless, NEW r \in EnrichRequests, Commit(r)
  PROVE  /\ contacts'[target[r]].score = contacts[target[r]].score
         /\ contacts'[target[r]].email # contacts[target[r]].email =>
              Ledger!Found(pending[r], target[r], contacts'[target[r]].email)
         /\ contacts'[target[r]].status # contacts[target[r]].status =>
              contacts'[target[r]].status = IF EmailHits(pending[r]) # {} THEN "enriched" ELSE "failed"
         /\ contacts'[target[r]].status = "enriched" => Evidenced(target[r])'
<1> DEFINE c == target[r]
           now == contacts[c]
           new == contacts'[c]
<1>1. r \in Requests /\ c \in Contacts /\ OpenSession(r) /\ EnrichSession(r)
  BY DEF Requests, TypeOK, StaleCopiesAreHarmless, Commit, InTransaction, OpenSession
<1>2. /\ new.email = Column(orig[r].email, row[r].email, now.email)
      /\ new.status = Column(orig[r].status, row[r].status, now.status)
      /\ new.score = Column(orig[r].score, row[r].score, now.score)
  BY <1>1 DEF Commit, Patched, TypeOK
<1>3. jobs' = jobs \cup pending[r] /\ target' = target
  BY DEF Commit, Published, session
<1>4. now.status = "enriched" => Ledger!Found(jobs', c, now.email)
  BY <1>1, <1>3, FoundGrows DEF StaleCopiesAreHarmless, EnrichedHasEvidence, Evidenced
<1>5. new.score = now.score
  BY <1>1, <1>2 DEF EnrichSession, Column
<1> HIDE DEF c, now, new
<1>6. CASE row[r] = orig[r] /\ EmailHits(pending[r]) = {}
  <2>1. new.email = now.email /\ new.status = now.status
    BY <1>2, <1>6 DEF Column
  <2> QED
    BY <1>3, <1>4, <1>5, <2>1 DEF Evidenced, c, now, new
<1>7. CASE row[r].status = "failed" /\ row[r].email = orig[r].email /\ EmailHits(pending[r]) = {}
  <2>1. new.email = now.email
    BY <1>2, <1>7 DEF Column
  <2>2. new.status # now.status => new.status = "failed"
    BY <1>2, <1>7 DEF Column
  <2> QED
    BY <1>3, <1>4, <1>5, <1>7, <2>1, <2>2 DEF Evidenced, c, now, new
<1>8. CASE row[r].status = "enriched" /\ Ledger!Found(pending[r], c, row[r].email)
  <2>1. EmailHits(pending[r]) # {}
    BY <1>8 DEF EmailHits, Ledger!Found
  <2>2. new.status # now.status => new.status = "enriched"
    BY <1>2, <1>8 DEF Column
  <2>3. new.email # now.email => Ledger!Found(pending[r], c, new.email)
    BY <1>2, <1>8 DEF Column
  <2>4. Ledger!Found(jobs', c, new.email)
    <3>1. CASE new.email = row[r].email
      BY <1>3, <1>8, <3>1, FoundGrows
    <3>2. CASE new.email # row[r].email
      <4>1. new.email = now.email /\ row[r].email = orig[r].email
        BY <1>2, <3>2 DEF Column
      <4>2. now.email # orig[r].email
        BY <3>2, <4>1
      <4>3. Ledger!Found(jobs, c, now.email)
        BY <1>1, <4>2 DEF OpenSession, Evidenced, c, now
      <4> QED
        BY <1>3, <4>1, <4>3, FoundGrows
    <3> QED
      BY <3>1, <3>2
  <2> QED
    BY <1>3, <1>5, <2>1, <2>2, <2>3, <2>4 DEF Evidenced, c, now, new
<1> QED
  BY <1>1, <1>6, <1>7, <1>8 DEF EnrichSession, EmailOutcome, c

\* What a scoring's commit does to its contact.
LEMMA ScoreCommits ==
  ASSUME TypeOK, StaleCopiesAreHarmless, NEW r \in ScoreRequests, Commit(r)
  PROVE  /\ contacts'[target[r]].email = contacts[target[r]].email
         /\ contacts'[target[r]].status = contacts[target[r]].status
         /\ contacts'[target[r]].score \in Scores
         /\ jobs' = jobs
<1>1. r \in Requests /\ target[r] \in Contacts /\ OpenSession(r) /\ ScoreSession(r)
  BY DEF Requests, TypeOK, StaleCopiesAreHarmless, Commit, InTransaction, OpenSession
<1>2. /\ contacts'[target[r]].email = Column(orig[r].email, row[r].email, contacts[target[r]].email)
      /\ contacts'[target[r]].status = Column(orig[r].status, row[r].status, contacts[target[r]].status)
      /\ contacts'[target[r]].score = Column(orig[r].score, row[r].score, contacts[target[r]].score)
  BY <1>1 DEF Commit, Patched, TypeOK
<1>3. row[r].score \in Scores
  BY <1>1 DEF ScoreSession, Commit
<1>4. contacts'[target[r]].score \in Scores
  BY <1>1, <1>2, <1>3 DEF Column, OpenSession
<1> QED
  BY <1>1, <1>2, <1>4 DEF ScoreSession, Column, Commit, Published

\* A commit leaves every other session sound.
LEMMA CommitKeepsSessions ==
  ASSUME TypeOK, StaleCopiesAreHarmless, NEW r \in Requests, Commit(r)
  PROVE  StaleCopiesAreHarmless'
<1>1. target[r] \in Contacts /\ OpenSession(r) /\ target' = target /\ r \in EnrichRequests \cup ScoreRequests
  BY DEF Requests, TypeOK, StaleCopiesAreHarmless, Commit, InTransaction, session
<1>2. /\ jobs' = jobs \cup pending[r]
      /\ settled' = settled \cup {r}
      /\ \A d \in Contacts \ {target[r]} : contacts'[d] = contacts[d]
  BY DEF Commit, Published, TypeOK
<1>3. contacts'[target[r]].email # contacts[target[r]].email => Evidenced(target[r])'
  <2>1. CASE r \in EnrichRequests
    BY <1>1, <1>2, <2>1, EnrichCommits, FoundGrows DEF Evidenced
  <2>2. CASE r \in ScoreRequests
    BY <2>2, ScoreCommits
  <2> QED
    BY <1>1, <2>1, <2>2
<1>4. contacts[target[r]].score \in Scores => contacts'[target[r]].score \in Scores
  BY <1>1, EnrichCommits, ScoreCommits
<1>5. EnrichedHasEvidence'
  <2> SUFFICES ASSUME NEW d \in Contacts, contacts'[d].status = "enriched" PROVE Evidenced(d)'
    BY DEF EnrichedHasEvidence
  <2>1. CASE d # target[r]
    <3>1. Evidenced(d)
      BY <1>2, <2>1 DEF StaleCopiesAreHarmless, EnrichedHasEvidence
    <3> QED
      BY <1>2, <2>1, <3>1, FoundGrows DEF Evidenced
  <2>2. CASE d = target[r] /\ r \in EnrichRequests
    BY <1>1, <2>2, EnrichCommits
  <2>3. CASE d = target[r] /\ r \in ScoreRequests
    <3>1. Evidenced(d)
      BY <2>3, ScoreCommits DEF StaleCopiesAreHarmless, EnrichedHasEvidence
    <3> QED
      BY <2>3, <3>1, ScoreCommits DEF Evidenced
  <2> QED
    BY <1>1, <2>1, <2>2, <2>3
<1>6. \A j \in jobs' : j.req \in settled'
  BY <1>1, <1>2 DEF StaleCopiesAreHarmless, OpenSession
<1>7. pc'[r] \in {"refresh", "error"} /\ \A q \in Requests \ {r} : pc'[q] = pc[q]
  BY DEF Commit, Goto, TypeOK
<1>8. ASSUME NEW q \in Requests, pc'[q] = "idle" PROVE Untouched(q)'
  BY <1>2, <1>7, <1>8 DEF StaleCopiesAreHarmless, Untouched, Commit, session
<1>9. ASSUME NEW q \in Requests, InTransaction(q)' PROVE OpenSession(q)'
  <2>1. q # r /\ pc'[q] = pc[q]
    BY <1>7, <1>9 DEF InTransaction
  <2>2. OpenSession(q) /\ target[q] \in Contacts
    BY <1>9, <2>1 DEF StaleCopiesAreHarmless, InTransaction, TypeOK
  <2>3. q \notin settled' /\ jobs \subseteq jobs'
    BY <1>2, <2>1, <2>2 DEF OpenSession
  <2>4. contacts'[target[q]].email = contacts[target[q]].email \/ Evidenced(target[q])'
    BY <1>1, <1>2, <1>3, <2>2
  <2>5. contacts[target[q]].score \in Scores => contacts'[target[q]].score \in Scores
    BY <1>2, <1>4, <2>2
  <2>6. UNCHANGED <<imported, orig, row, field, pending>>
    BY DEF Commit, session
  <2> QED
    BY <1>1, <2>1, <2>2, <2>3, <2>4, <2>5, <2>6, SameSession
<1> QED
  BY <1>5, <1>6, <1>8, <1>9 DEF StaleCopiesAreHarmless

\* A new contact is nobody's target in an open session, and not enriched.
LEMMA ImportKeepsSessions ==
  ASSUME TypeOK, StaleCopiesAreHarmless, NEW x \in Contacts, NEW e \in CsvEmails, ImportContact(x, e)
  PROVE  StaleCopiesAreHarmless'
<1>1. /\ x \notin imported /\ imported' = imported \cup {x}
      /\ contacts'[x].status = "pending"
      /\ \A d \in Contacts \ {x} : contacts'[d] = contacts[d]
      /\ UNCHANGED <<jobs, settled, pc, target, orig, row, field, pending>>
  BY DEF ImportContact, session, BlankRow, TypeOK
<1>2. EnrichedHasEvidence'
  BY <1>1 DEF StaleCopiesAreHarmless, EnrichedHasEvidence, Evidenced
<1>3. ASSUME NEW q \in Requests, InTransaction(q)' PROVE OpenSession(q)'
  <2>1. OpenSession(q) /\ target[q] \in Contacts
    BY <1>1, <1>3 DEF StaleCopiesAreHarmless, InTransaction, TypeOK
  <2>2. contacts'[target[q]] = contacts[target[q]] /\ q \notin settled'
    BY <1>1, <2>1 DEF OpenSession
  <2> QED
    BY <1>1, <2>1, <2>2, SameSession
<1>4. ASSUME NEW q \in Requests, pc'[q] = "idle" PROVE Untouched(q)'
  BY <1>1, <1>4 DEF StaleCopiesAreHarmless, Untouched
<1> QED
  BY <1>1, <1>2, <1>3, <1>4 DEF StaleCopiesAreHarmless

\* The end of a request that does not commit disturbs nobody.
LEMMA AbandonKeepsSessions ==
  ASSUME TypeOK, StaleCopiesAreHarmless, NEW r \in Requests,
         Abandon(r, "error") \/ Abandon(r, "crashed")
  PROVE  StaleCopiesAreHarmless'
<1>1. pc'[r] \in {"error", "crashed"} /\ \A q \in Requests \ {r} : pc'[q] = pc[q]
  BY DEF Abandon, Goto, TypeOK
<1>2. \A q \in Requests \ {r} : pending'[q] = pending[q]
  BY DEF Abandon, TypeOK
<1>3. ~InTransaction(r)'
  BY <1>1 DEF InTransaction
<1>4. UNCHANGED <<imported, contacts, jobs, settled, target, orig, row, field>>
  BY DEF Abandon
<1> QED
  BY <1>1, <1>2, <1>3, <1>4, LocalStep

\* The steps of a handler on its own session.
LEMMA LoadKeepsSessions ==
  ASSUME TypeOK, StaleCopiesAreHarmless, NEW r \in Requests, LoadContact(r)
  PROVE  StaleCopiesAreHarmless'
<1>1. /\ pc'[r] = IF target[r] \in imported
                   THEN IF r \in EnrichRequests THEN "select" ELSE "config" ELSE "notfound"
      /\ target[r] \in imported => orig'[r] = contacts[target[r]] /\ row'[r] = contacts[target[r]]
      /\ \A q \in Requests \ {r} : pc'[q] = pc[q] /\ orig'[q] = orig[q] /\ row'[q] = row[q]
  BY DEF LoadContact, Goto, TypeOK
<1>2. UNCHANGED <<imported, contacts, jobs, settled, target, field, pending>>
  BY DEF LoadContact, db
<1>3. Untouched(r)
  BY DEF LoadContact, StaleCopiesAreHarmless
<1>4. ASSUME InTransaction(r)' PROVE OpenSession(r)'
  <2>1. target[r] \in imported /\ pc'[r] # "commit"
    BY <1>1, <1>4 DEF InTransaction
  <2>2. EmailHits(pending[r]) = {}
    BY <1>3 DEF Untouched, EmailHits
  <2> QED
    BY <1>1, <1>2, <1>3, <2>1, <2>2
    DEF OpenSession, EnrichSession, ScoreSession, EmailOutcome, Untouched
<1> QED
  BY <1>1, <1>2, <1>4, LocalStep

\* Selecting configurations touches no copy.
LEMMA SelectKeepsSessions ==
  ASSUME TypeOK, StaleCopiesAreHarmless, NEW r \in EnrichRequests, SelectConfigs(r)
  PROVE  StaleCopiesAreHarmless'
<1>1. r \in Requests /\ r \notin ScoreRequests
  BY RequestsAssumption DEF Requests
<1>2. UNCHANGED <<imported, contacts, jobs, settled, target, orig, row, field, pending>>
  BY DEF SelectConfigs
<1>3. pc'[r] = "try" /\ \A q \in Requests \ {r} : pc'[q] = pc[q]
  BY <1>1 DEF SelectConfigs, Goto, TypeOK
<1>4. OpenSession(r)
  BY <1>1 DEF SelectConfigs, StaleCopiesAreHarmless, InTransaction
<1>5. OpenSession(r)'
  BY <1>1, <1>2, <1>4, SameSession DEF OpenSession
<1> QED
  BY <1>1, <1>2, <1>3, <1>5, LocalStep

\* A miss adds a pending job without an address, and changes no copy.
LEMMA MissKeepsSessions ==
  ASSUME TypeOK, StaleCopiesAreHarmless, NEW r \in EnrichRequests, NEW p \in Providers,
         ProviderMiss(r, p)
  PROVE  StaleCopiesAreHarmless'
<1>1. r \in Requests /\ r \notin ScoreRequests
  BY RequestsAssumption DEF Requests
<1>2. UNCHANGED <<imported, contacts, jobs, settled, pc, target, orig, row, field>>
  BY DEF ProviderMiss, db
<1>3. pending'[r] = pending[r] \cup {Attempt(r, p, Miss)}
  BY <1>1 DEF ProviderMiss, TypeOK
<1>4. \A q \in Requests \ {r} : pending'[q] = pending[q]
  BY DEF ProviderMiss, TypeOK
<1>5. /\ Attempt(r, p, Miss).req = r
      /\ Attempt(r, p, Miss).contact = target[r]
      /\ ~Attempt(r, p, Miss).success
  BY DEF Attempt, Miss
<1>6. OpenSession(r) /\ EnrichSession(r)
  BY <1>1 DEF ProviderMiss, StaleCopiesAreHarmless, InTransaction, OpenSession
<1>7. EmailHits(pending'[r]) = EmailHits(pending[r])
  BY <1>3, <1>5 DEF EmailHits
<1>8. EnrichSession(r)'
  BY <1>2, <1>3, <1>6, <1>7, FoundGrows DEF EnrichSession, EmailOutcome
<1>9. OpenSession(r)'
  BY <1>1, <1>2, <1>3, <1>5, <1>6, <1>8 DEF OpenSession, Evidenced
<1>10. pc'[r] # "idle"
  BY <1>2 DEF ProviderMiss
<1> QED
  BY <1>1, <1>2, <1>4, <1>9, <1>10, LocalStep

\* A hit changes the copy and adds the pending job that is its evidence.
LEMMA HitKeepsSessions ==
  ASSUME TypeOK, StaleCopiesAreHarmless, NEW r \in EnrichRequests, NEW p \in Providers,
         NEW out \in Outcomes(p, field[r], target[r]), ProviderHit(r, p, out)
  PROVE  StaleCopiesAreHarmless'
<1> DEFINE a == Attempt(r, p, out)
<1>1. /\ r \in Requests /\ r \notin ScoreRequests
      /\ field[r] \in Fields /\ target[r] \in Contacts /\ row[r] \in Rows
  BY RequestsAssumption DEF Requests, TypeOK
<1>2. UNCHANGED <<imported, contacts, jobs, settled, target, orig>>
  BY DEF ProviderHit, db
<1>3. /\ pending'[r] = pending[r] \cup {a}
      /\ row'[r] = Applied(field[r], row[r], out.email)
      /\ field'[r] = NextField(field[r])
      /\ pc'[r] \in {"commit", "select"}
  BY <1>1 DEF ProviderHit, LeaveField, Goto, TypeOK
<1>4. \A q \in Requests \ {r} :
        pc'[q] = pc[q] /\ row'[q] = row[q] /\ field'[q] = field[q] /\ pending'[q] = pending[q]
  BY DEF ProviderHit, LeaveField, Goto, TypeOK
<1>5. a.req = r /\ a.contact = target[r] /\ a.field = field[r] /\ a.success /\ a.email = out.email
  BY DEF Attempt, ProviderHit
<1>6. OpenSession(r) /\ EnrichSession(r)
  BY <1>1 DEF ProviderHit, StaleCopiesAreHarmless, InTransaction, OpenSession
<1>7. field'[r] # "email"
  BY <1>3 DEF NextField
<1> HIDE DEF a
<1>8. ASSUME field[r] = "email" PROVE EmailOutcome(r)'
  <2>1. out.email \in Emails /\ out.email # NoEmail
    BY <1>1, <1>8, OutcomeKinds, ProvidersAssumption DEF ProviderHit
  <2>2. row'[r] = [email |-> out.email, status |-> "enriched", score |-> row[r].score]
    BY <1>3, <1>8, <2>1 DEF Applied
  <2>3. Ledger!Found(pending'[r], target[r], out.email)
    BY <1>3, <1>5, <1>8 DEF Ledger!Found
  <2> QED
    BY <1>2, <1>7, <2>2, <2>3 DEF EmailOutcome
<1>9. ASSUME field[r] # "email" PROVE EmailOutcome(r)'
  <2>1. row'[r] = row[r]
    BY <1>3, <1>9 DEF Applied
  <2>2. EmailHits(pending'[r]) = EmailHits(pending[r])
    BY <1>3, <1>5, <1>9 DEF EmailHits
  <2> QED
    BY <1>2, <1>3, <1>6, <1>7, <1>9, <2>1, <2>2, FoundGrows DEF EnrichSession, EmailOutcome
<1>10. EnrichSession(r)'
  <2>1. row'[r].score = orig'[r].score
    <3>1. row'[r].score = row[r].score
      BY <1>3 DEF Applied
    <3> QED
      BY <1>2, <1>6, <3>1 DEF EnrichSession
  <2>2. EmailOutcome(r)'
    BY <1>8, <1>9
  <2> QED
    BY <2>1, <2>2 DEF EnrichSession
<1>11. OpenSession(r)'
  BY <1>1, <1>2, <1>3, <1>5, <1>6, <1>10 DEF OpenSession, Evidenced
<1> QED
  BY <1>1, <1>2, <1>3, <1>4, <1>11, LocalStep

\* An exhausted waterfall keeps the email of the copy, which fails if that was the field.
LEMMA ExhaustedKeepsSessions ==
  ASSUME TypeOK, StaleCopiesAreHarmless, NEW r \in EnrichRequests, Exhausted(r)
  PROVE  StaleCopiesAreHarmless'
<1>1. r \in Requests /\ r \notin ScoreRequests /\ row[r] \in Rows
  BY RequestsAssumption DEF Requests, TypeOK
<1>2. UNCHANGED <<imported, contacts, jobs, settled, target, orig, pending>>
  BY DEF Exhausted, db
<1>3. /\ row'[r] = Missed(field[r], row[r])
      /\ field'[r] # "email"
      /\ pc'[r] \in {"commit", "select"}
  BY <1>1 DEF Exhausted, LeaveField, NextField, Goto, TypeOK
<1>4. \A q \in Requests \ {r} : pc'[q] = pc[q] /\ row'[q] = row[q] /\ field'[q] = field[q]
  BY DEF Exhausted, LeaveField, Goto, TypeOK
<1>5. OpenSession(r) /\ EnrichSession(r)
  BY <1>1 DEF Exhausted, StaleCopiesAreHarmless, InTransaction, OpenSession
<1>6. EnrichSession(r)'
  <2>1. CASE field[r] = "email"
    <3>1. row'[r] = [email |-> row[r].email, status |-> "failed", score |-> row[r].score]
      BY <1>1, <1>3, <2>1, RowFailed DEF Missed
    <3> QED
      BY <1>2, <1>3, <1>5, <2>1, <3>1 DEF EnrichSession, EmailOutcome
  <2>2. CASE field[r] # "email"
    <3>1. row'[r] = row[r]
      BY <1>3, <2>2 DEF Missed
    <3> QED
      BY <1>2, <1>3, <1>5, <2>2, <3>1 DEF EnrichSession, EmailOutcome
  <2> QED
    BY <2>1, <2>2
<1>7. OpenSession(r)'
  BY <1>1, <1>2, <1>5, <1>6 DEF OpenSession, Evidenced
<1> QED
  BY <1>1, <1>2, <1>3, <1>4, <1>7, LocalStep

\* A score session changes the score of its copy alone.
LEMMA ScoreKeepsSessions ==
  ASSUME TypeOK, StaleCopiesAreHarmless, NEW r \in ScoreRequests, ComputeScore(r)
  PROVE  StaleCopiesAreHarmless'
<1>1. r \in Requests /\ r \notin EnrichRequests /\ row[r] \in Rows /\ target[r] \in Contacts
  BY RequestsAssumption DEF Requests, TypeOK
<1>2. UNCHANGED <<imported, contacts, jobs, settled, target, orig, field, pending>>
  BY DEF ComputeScore, db
<1>3. /\ pc'[r] \in {"invalid", "commit"}
      /\ pc'[r] = "commit" => icp # NoIcp
  BY <1>1 DEF ComputeScore, Goto, TypeOK
<1>4. \A q \in Requests \ {r} : pc'[q] = pc[q] /\ row'[q] = row[q]
  BY DEF ComputeScore, Goto, TypeOK
<1>5. OpenSession(r) /\ ScoreSession(r)
  BY <1>1 DEF ComputeScore, StaleCopiesAreHarmless, InTransaction, OpenSession
<1>6. ASSUME InTransaction(r)' PROVE OpenSession(r)'
  <2>1. icp # NoIcp
    BY <1>3, <1>6 DEF InTransaction
  <2>2. ScoreOf[target[r]][icp] \in Scores
    BY <1>1, <2>1, RequestsAssumption DEF TypeOK
  <2>3. row'[r] = [email |-> row[r].email, status |-> row[r].status, score |-> ScoreOf[target[r]][icp]]
    BY <1>1, <2>1, <2>2, RowScored DEF ComputeScore, TypeOK
  <2>4. ScoreSession(r)'
    BY <1>2, <1>5, <2>2, <2>3 DEF ScoreSession
  <2> QED
    BY <1>1, <1>2, <1>5, <2>4 DEF OpenSession, Evidenced
<1> QED
  BY <1>1, <1>2, <1>3, <1>4, <1>6, LocalStep

\* An answered request has no open session any more.
LEMMA RespondKeepsSessions ==
  ASSUME TypeOK, StaleCopiesAreHarmless, NEW r \in Requests, Respond(r)
  PROVE  StaleCopiesAreHarmless'
<1>1. UNCHANGED <<imported, contacts, jobs, settled, target, field, pending>>
  BY DEF Respond, db
<1>2. /\ pc'[r] \in {"ok", "error"}
      /\ \A q \in Requests \ {r} : pc'[q] = pc[q] /\ row'[q] = row[q] /\ orig'[q] = orig[q]
  BY DEF Respond, Goto, TypeOK
<1>3. ~InTransaction(r)'
  BY <1>2 DEF InTransaction
<1> QED
  BY <1>1, <1>2, <1>3, LocalStep

-----------------------------------------------------------------------------
(* The theorems.                                                           *)

\* Every step keeps stale copies harmless.
LEMMA SessionsStaySound ==
  ASSUME TypeOK, StaleCopiesAreHarmless, [Next]_vars
  PROVE  StaleCopiesAreHarmless'
<1>1. CASE UNCHANGED vars
  BY <1>1 DEF vars, db, session, StaleCopiesAreHarmless, EnrichedHasEvidence, Evidenced, InTransaction,
    Untouched, OpenSession, EnrichSession, ScoreSession, EmailOutcome
<1>2. CASE Environment
  <2>1. ASSUME NEW x \in Contacts, NEW e \in CsvEmails, ImportContact(x, e)
        PROVE StaleCopiesAreHarmless'
    BY <2>1, ImportKeepsSessions
  <2>2. CASE UNCHANGED <<imported, contacts, jobs, settled, pc, session>>
    BY <2>2 DEF session, StaleCopiesAreHarmless, EnrichedHasEvidence, Evidenced, InTransaction,
      Untouched, OpenSession, EnrichSession, ScoreSession, EmailOutcome
  <2> QED
    BY <1>2, <2>1, <2>2 DEF Environment, EditConfig, EditIcp
<1>3. ASSUME NEW r \in Requests, Step(r) PROVE StaleCopiesAreHarmless'
  <2>1. CASE LoadContact(r)
    BY <2>1, LoadKeepsSessions
  <2>2. CASE r \in EnrichRequests /\ SelectConfigs(r)
    BY <2>2, SelectKeepsSessions
  <2>3. CASE r \in EnrichRequests /\ TryProvider(r)
    BY <2>3, MissKeepsSessions, HitKeepsSessions, AbandonKeepsSessions DEF TryProvider, ProviderRaises
  <2>4. CASE r \in EnrichRequests /\ Exhausted(r)
    BY <2>4, ExhaustedKeepsSessions
  <2>5. CASE r \in ScoreRequests /\ ComputeScore(r)
    BY <2>5, ScoreKeepsSessions
  <2>6. CASE Commit(r)
    BY <2>6, CommitKeepsSessions
  <2>7. CASE Respond(r)
    BY <2>7, RespondKeepsSessions
  <2>8. CASE StatementFails(r) \/ Crash(r)
    BY <2>8, AbandonKeepsSessions DEF StatementFails, Crash
  <2> QED
    BY <1>3, <2>1, <2>2, <2>3, <2>4, <2>5, <2>6, <2>7, <2>8 DEF Step, Progress, EnrichStep
<1> QED
  BY <1>1, <1>2, <1>3 DEF Next

\* Stale copies are harmless in every reachable state.
THEOREM SessionsAreSound == Spec => []StaleCopiesAreHarmless
<1>1. Init => StaleCopiesAreHarmless
  BY DEF Init, StaleCopiesAreHarmless, EnrichedHasEvidence, InTransaction, Untouched, BlankRow
<1> QED
  BY <1>1, SessionsStaySound, TypeCorrect, PTL DEF Spec

\* An enriched contact always carries an email that a committed attempt found
\* for it, however requests overlap, fail or die.
THEOREM EnrichedIsEvidenced == Spec => []EnrichedHasEvidence
<1>1. StaleCopiesAreHarmless => EnrichedHasEvidence
  BY DEF StaleCopiesAreHarmless
<1> QED
  BY <1>1, SessionsAreSound, PTL

-----------------------------------------------------------------------------
(* Refinement of the ledger.                                               *)

\* A commit is one step of the ledger.
LEMMA CommitSettles ==
  ASSUME TypeOK, StaleCopiesAreHarmless, NEW r \in Requests, Commit(r)
  PROVE  Ledger!LNext
<1>1. /\ target[r] \in Contacts /\ OpenSession(r)
      /\ jobs' = jobs \cup pending[r] /\ settled' = settled \cup {r} /\ imported' = imported
      /\ \A d \in Contacts \ {target[r]} : contacts'[d] = contacts[d]
  BY DEF TypeOK, StaleCopiesAreHarmless, Commit, InTransaction, Published
<1>2. Ledger!Settle(r, target[r])
  BY <1>1 DEF Ledger!Settle, OpenSession
<1>3. CASE r \in EnrichRequests
  <2>1. jobs' \ jobs = pending[r]
    BY <1>1 DEF OpenSession, StaleCopiesAreHarmless
  <2>2. (\E j \in pending[r] : j.field = "email" /\ j.success) <=> EmailHits(pending[r]) # {}
    BY DEF EmailHits
  <2>3. \A j \in pending[r] : j.req = r /\ j.contact = target[r]
    BY <1>1 DEF OpenSession
  <2>4. contacts'[target[r]].status = "enriched" =>
          Ledger!Found(jobs', target[r], contacts'[target[r]].email)
    BY <1>3, EnrichCommits DEF Evidenced, Commit, session
  <2>5. Ledger!Enrich(r, target[r])
    BY <1>1, <1>2, <1>3, <2>1, <2>2, <2>3, <2>4, EnrichCommits DEF Ledger!Enrich
  <2> QED
    BY <1>1, <1>3, <2>5 DEF Ledger!LNext
<1>4. CASE r \in ScoreRequests
  <2>1. Ledger!Score(r, target[r])
    BY <1>2, <1>4, ScoreCommits DEF Ledger!Score
  <2> QED
    BY <1>1, <1>4, <2>1 DEF Ledger!LNext
<1> QED
  BY <1>3, <1>4 DEF Requests

\* Every step is a step of the ledger or leaves it alone.
LEMMA StepsAreLedgerSteps ==
  ASSUME TypeOK, StaleCopiesAreHarmless, [Next]_vars
  PROVE  Ledger!LNext \/ UNCHANGED Ledger!ledger
<1>1. ASSUME NEW x \in Contacts, NEW e \in CsvEmails, ImportContact(x, e) PROVE Ledger!LNext
  <2>1. /\ x \in Contacts \ imported /\ imported' = imported \cup {x}
        /\ contacts'[x] = [BlankRow EXCEPT !.email = e]
        /\ \A d \in Contacts \ {x} : contacts'[d] = contacts[d]
        /\ UNCHANGED <<jobs, settled>>
    BY <1>1 DEF ImportContact, TypeOK
  <2>2. /\ contacts'[x].email \in MaybeEmail
        /\ contacts'[x].status = "pending" /\ contacts'[x].score = NoScore
    BY <2>1, RequestsAssumption DEF BlankRow
  <2> QED
    BY <2>1, <2>2 DEF Ledger!LNext, Ledger!Import
<1>2. ASSUME NEW r \in Requests, Commit(r) PROVE Ledger!LNext
  BY <1>2, CommitSettles
<1>3. CASE UNCHANGED <<imported, contacts, jobs, settled>>
  BY <1>3 DEF Ledger!ledger
<1>4. CASE Environment
  BY <1>1, <1>3, <1>4 DEF Environment, EditConfig, EditIcp
<1>5. ASSUME NEW r \in Requests, Step(r) PROVE Ledger!LNext \/ UNCHANGED Ledger!ledger
  <2>1. CASE LoadContact(r) \/ StatementFails(r) \/ Crash(r) \/ Respond(r) \/ ComputeScore(r)
    BY <1>3, <2>1 DEF LoadContact, StatementFails, Crash, Respond, ComputeScore, Abandon, db
  <2>2. CASE EnrichStep(r)
    BY <1>3, <2>2 DEF EnrichStep, SelectConfigs, TryProvider, ProviderMiss, ProviderRaises,
      ProviderHit, Exhausted, Abandon, db
  <2> QED
    BY <1>2, <1>5, <2>1, <2>2 DEF Step, Progress
<1>6. CASE UNCHANGED vars
  BY <1>3, <1>6 DEF vars, db
<1> QED
  BY <1>4, <1>5, <1>6 DEF Next

\* The handlers, with their sessions, locks and failures, do nothing that the
\* ledger does not allow: each run takes effect once, at once, or not at all.
THEOREM LedgerIsImplemented == Spec => ImplementsLedger
<1>1. Init => Ledger!LInit
  BY DEF Init, Ledger!LInit
<1>2. TypeOK /\ StaleCopiesAreHarmless /\ [Next]_vars => [Ledger!LNext]_(Ledger!ledger)
  BY StepsAreLedgerSteps
<1> QED
  BY <1>1, <1>2, TypeCorrect, SessionsAreSound, PTL DEF Spec, ImplementsLedger, Ledger!LSpec
=============================================================================
