------------------------- MODULE WaterfallEnrichment -------------------------
(***************************************************************************)
(* POST /contacts/{id}/enrich and POST /contacts/{id}/score: every request *)
(* runs ContactService.enrich or ContactService.score in a database        *)
(* session of its own, and any number of them run at once, also on the     *)
(* same contact and in several worker processes.                           *)
(*                                                                         *)
(* The session keeps the row it loaded and a changed copy of it; only the  *)
(* columns that differ are written (the ORM's net change).  The first      *)
(* query after a change flushes it, which takes the row lock and keeps it  *)
(* until the transaction ends.  Both are the behaviour of the ORM and of   *)
(* PostgreSQL at READ COMMITTED, which the code relies on.                 *)
(*                                                                         *)
(* A definition whose comment begins with "Altered" is a plausible slip in *)
(* the one that follows it; Next never reaches it.                         *)
(***************************************************************************)
EXTENDS Providers

CONSTANTS
  EnrichRequests,  \* requests to enrich a contact
  ScoreRequests,   \* requests to score a contact
  IcpConfigs,      \* ids of the ICP configurations that may be the active one
  NoIcp,           \* no enabled ICPConfig
  Scores,          \* values of icp_score
  NoScore,         \* the NULL score
  ScoreOf,         \* ScoreOf[c][v] is the score of c under configuration v
  MaxPriority,     \* bound on waterfall_configs.priority_order
  ConfigRows,      \* the <<field, provider>> rows an operator may edit
  InitialConfigs,  \* the seeded waterfall_configs table
  CsvEmails,       \* the emails a CSV import may give a contact
  Failures,        \* infrastructure failures that may happen
  NoRequest,       \* no request holds the row lock
  NoJob            \* Python's None for a job

Requests == EnrichRequests \cup ScoreRequests

\* A WaterfallConfig table gives each field and provider (unique together) the
\* priority of its enabled row, or 0 when the row is absent or disabled.
ConfigTables == [Fields -> [Providers -> 0..MaxPriority]]

ASSUME RequestsAssumption ==
  /\ EnrichRequests \cap ScoreRequests = {}
  /\ NoRequest \notin Requests
  /\ MaxPriority \in Nat \ {0}
  /\ ConfigRows \subseteq Fields \X Providers
  /\ InitialConfigs \in ConfigTables
  /\ CsvEmails \subseteq MaybeEmail
  /\ ScoreOf \in [Contacts -> [IcpConfigs -> Scores]]
  /\ NoScore \notin Scores
  /\ NoIcp \notin IcpConfigs
  /\ Failures \subseteq {"rollback", "crash", "lost_ack", "refresh"}

Rows == [email : MaybeEmail, status : {"pending", "enriched", "failed"},
         score : Scores \cup {NoScore}]

Jobs == [req : EnrichRequests, contact : Contacts, field : Fields,
         provider : Providers, success : BOOLEAN, email : MaybeEmail]

ASSUME NoJobAssumption == NoJob \notin Jobs

VARIABLES
  imported,   \* ids of the rows of the contacts table
  contacts,   \* the committed contact rows
  jobs,       \* the committed enrichment_jobs rows
  configs,    \* the waterfall_configs table
  icp,        \* the id of the first enabled ICPConfig
  rowLock,    \* the request whose transaction has updated a contact row
  pc,         \* where each request is
  target,     \* the contact each request is about
  orig,       \* the row as the session loaded it
  row,        \* the session's copy of it, with the request's changes
  field,      \* the field the waterfall is filling
  plan,       \* the configs each enrich_field call read
  todo,       \* its providers that have not been tried
  pending,    \* jobs added to the session
  lastJob,    \* last_job of enrich_field
  returned,   \* jobs of the ContactEnrichResult
  settled,    \* requests whose transaction committed
  attempted   \* every attempt that hit or missed, whatever became of its request

db      == <<imported, contacts, jobs, configs, icp, rowLock, settled>>
session == <<target, orig, row, field, plan, todo, pending, lastJob, returned>>
vars    == <<db, pc, session, attempted>>

BlankRow == [email |-> NoEmail, status |-> "pending", score |-> NoScore]

Init ==
  /\ imported = {}
  /\ contacts = [c \in Contacts |-> BlankRow]
  /\ jobs = {}
  /\ configs = InitialConfigs
  /\ icp = NoIcp
  /\ rowLock = [c \in Contacts |-> NoRequest]
  /\ settled = {}
  /\ pc = [r \in Requests |-> "idle"]
  /\ target \in [Requests -> Contacts]
  /\ orig = [r \in Requests |-> BlankRow]
  /\ row = [r \in Requests |-> BlankRow]
  /\ field = [r \in Requests |-> "email"]
  /\ plan = [r \in Requests |-> [f \in Fields |-> [p \in Providers |-> 0]]]
  /\ todo = [r \in Requests |-> {}]
  /\ pending = [r \in Requests |-> {}]
  /\ lastJob = [r \in Requests |-> NoJob]
  /\ returned = [r \in Requests |-> {}]
  /\ attempted = {}

-----------------------------------------------------------------------------
(* Flushing and committing a session.                                      *)

Dirty(r) == row[r] # orig[r]

\* A flush that updates the contact row waits for the row's lock.
FlushAllowed(r) == Dirty(r) => rowLock[target[r]] \in {NoRequest, r}

\* Altered: every column is written back, changed or not.
WriteWholeRow(r, now) == row[r]

\* The UPDATE sets the columns whose value is no longer the loaded one and
\* leaves the others as they are now.
Column(loaded, mine, now) == IF mine # loaded THEN mine ELSE now

\* Altered: an email that is already there is never overwritten.
FillIfEmpty(r, now) ==
  [email  |-> IF now.email = NoEmail THEN row[r].email ELSE now.email,
   status |-> Column(orig[r].status, row[r].status, now.status),
   score  |-> Column(orig[r].score, row[r].score, now.score)]

Patched(r, now) ==
  [email  |-> Column(orig[r].email, row[r].email, now.email),
   status |-> Column(orig[r].status, row[r].status, now.status),
   score  |-> Column(orig[r].score, row[r].score, now.score)]

\* Altered: the end of a transaction forgets its locks.
LockKept(r) == rowLock

\* The end of r's transaction releases its locks.
Released(r) == [c \in Contacts |-> IF rowLock[c] = r THEN NoRequest ELSE rowLock[c]]

\* Altered: misses are not worth a row.
OnlyHits(r) == jobs \cup {j \in pending[r] : j.success}

\* The log with the jobs that r's session has added.
Published(r) == jobs \cup pending[r]

Goto(r, l) == pc' = [pc EXCEPT ![r] = l]

-----------------------------------------------------------------------------
(* The world around the requests.                                          *)

\* A bulk import commits a new contact (BulkImport models how).
ImportContact(c, e) ==
  /\ c \notin imported
  /\ imported' = imported \cup {c}
  /\ contacts' = [contacts EXCEPT ![c] = [BlankRow EXCEPT !.email = e]]
  /\ UNCHANGED <<jobs, configs, icp, rowLock, settled, pc, session, attempted>>

\* An operator edits the waterfall: a new priority, or 0 to turn a row off.
EditConfig(f, p, n) ==
  /\ <<f, p>> \in ConfigRows
  /\ configs[f][p] # n
  /\ configs' = [configs EXCEPT ![f][p] = n]
  /\ UNCHANGED <<imported, contacts, jobs, icp, rowLock, settled, pc, session, attempted>>

\* An operator enables another ICP configuration, or none.
EditIcp(v) ==
  /\ icp # v
  /\ icp' = v
  /\ UNCHANGED <<imported, contacts, jobs, configs, rowLock, settled, pc, session, attempted>>

-----------------------------------------------------------------------------
(* The handlers.                                                           *)

\* db.get(Contact, id): the row as it is now, or a 404.
LoadContact(r) ==
  /\ pc[r] = "idle"
  /\ IF target[r] \in imported
       THEN /\ orig' = [orig EXCEPT ![r] = contacts[target[r]]]
            /\ row' = [row EXCEPT ![r] = contacts[target[r]]]
            /\ Goto(r, IF r \in EnrichRequests THEN "select" ELSE "config")
       ELSE /\ Goto(r, "notfound")
            /\ UNCHANGED <<orig, row>>
  /\ UNCHANGED <<db, target, field, plan, todo, pending, lastJob, returned, attempted>>

\* The providers of the enabled rows for field f.
EnabledProviders(f) == {p \in Providers : configs[f][p] > 0}

\* enrich_field's query for the enabled rows of its field.  The session
\* flushes first, so a changed contact is locked from here on.
SelectConfigs(r) ==
  /\ pc[r] = "select"
  /\ FlushAllowed(r)
  /\ rowLock' = IF Dirty(r) THEN [rowLock EXCEPT ![target[r]] = r] ELSE rowLock
  /\ plan' = [plan EXCEPT ![r][field[r]] = configs[field[r]]]
  /\ todo' = [todo EXCEPT ![r] = EnabledProviders(field[r])]
  /\ lastJob' = [lastJob EXCEPT ![r] = NoJob]
  /\ Goto(r, "try")
  /\ UNCHANGED <<imported, contacts, jobs, configs, icp, settled,
                 target, orig, row, field, pending, returned, attempted>>

\* Altered: the priorities are read again at each attempt.
IsNextReread(r, p) ==
  /\ p \in todo[r]
  /\ \A q \in todo[r] : configs[field[r]][p] <= configs[field[r]][q]

\* ORDER BY priority_order: equal priorities come in any order.
IsNext(r, p) ==
  /\ p \in todo[r]
  /\ \A q \in todo[r] : plan[r][field[r]][p] <= plan[r][field[r]][q]

Attempt(r, p, out) ==
  [req |-> r, contact |-> target[r], field |-> field[r], provider |-> p,
   success |-> out.kind = "hit", email |-> out.email]

Call(r, p) == <<r, field[r], p>>

\* Altered: a miss returns where it should continue.
StopAtFirstMiss(r, p) == {}

\* A miss leaves the others to try.
RemainingAfterMiss(r, p) == todo[r] \ {p}

\* Altered: the field after the last one.
PastCompany(f) == CASE f = "email" -> "phone" [] f = "phone" -> "company" [] OTHER -> "done"

\* The loop of ContactService.enrich goes on with the next field, or commits.
NextField(f) == IF f = "email" THEN "phone" ELSE "company"

LeaveField(r) ==
  /\ field' = [field EXCEPT ![r] = NextField(@)]
  /\ Goto(r, IF field[r] = "company" THEN "commit" ELSE "select")

\* _apply_result: only an email hit has columns on Contact.
Applied(f, current, e) ==
  IF f = "email" /\ e # NoEmail
    THEN [email |-> e, status |-> "enriched", score |-> current.score] ELSE current

ProviderHit(r, p, out) ==
  /\ pc[r] = "try"
  /\ IsNext(r, p)
  /\ out \in Outcomes(p, field[r], target[r]) /\ out.kind = "hit"
  /\ pending' = [pending EXCEPT ![r] = @ \cup {Attempt(r, p, out)}]
  /\ lastJob' = [lastJob EXCEPT ![r] = Attempt(r, p, out)]
  /\ returned' = [returned EXCEPT ![r] = @ \cup {Attempt(r, p, out)}]
  /\ row' = [row EXCEPT ![r] = Applied(field[r], @, out.email)]
  /\ todo' = [todo EXCEPT ![r] = {}]
  /\ attempted' = attempted \cup {Call(r, p)}
  /\ LeaveField(r)
  /\ UNCHANGED <<db, target, orig, plan>>

ProviderMiss(r, p) ==
  /\ pc[r] = "try"
  /\ IsNext(r, p)
  /\ Miss \in Outcomes(p, field[r], target[r])
  /\ pending' = [pending EXCEPT ![r] = @ \cup {Attempt(r, p, Miss)}]
  /\ lastJob' = [lastJob EXCEPT ![r] = Attempt(r, p, Miss)]
  /\ todo' = [todo EXCEPT ![r] = RemainingAfterMiss(r, p)]
  /\ attempted' = attempted \cup {Call(r, p)}
  /\ UNCHANGED <<db, pc, target, orig, row, field, plan, returned>>

\* Altered: a phone or company miss marks the contact as failed too.
MissedAnyField(f, current) == [current EXCEPT !.status = "failed"]

\* Only an email miss marks the contact as failed.
Missed(f, current) == IF f = "email" THEN [current EXCEPT !.status = "failed"] ELSE current

\* Nobody is left to ask.  The last attempt, if there was one, is what the
\* field returns.
Exhausted(r) ==
  /\ pc[r] = "try"
  /\ todo[r] = {}
  /\ row' = [row EXCEPT ![r] = Missed(field[r], @)]
  /\ returned' = [returned EXCEPT ![r] = @ \cup ({lastJob[r]} \ {NoJob})]
  /\ LeaveField(r)
  /\ UNCHANGED <<db, target, orig, plan, todo, pending, lastJob, attempted>>

\* An exception or a failed statement ends the request with a 500: closing
\* the session rolls its transaction back, its jobs included.
Abandon(r, l) ==
  /\ rowLock' = Released(r)
  /\ pending' = [pending EXCEPT ![r] = {}]
  /\ Goto(r, l)
  /\ UNCHANGED <<imported, contacts, jobs, configs, icp, settled,
                 target, orig, row, field, plan, todo, lastJob, returned>>

ProviderRaises(r, p) ==
  /\ pc[r] = "try"
  /\ IsNext(r, p)
  /\ Raised \in Outcomes(p, field[r], target[r])
  /\ Abandon(r, "error")
  /\ UNCHANGED attempted

\* get_active_config and score: no configuration is a 422, otherwise the
\* score is set on the loaded contact.
ComputeScore(r) ==
  /\ pc[r] = "config"
  /\ IF icp = NoIcp
       THEN Goto(r, "invalid") /\ UNCHANGED row
       ELSE /\ row' = [row EXCEPT ![r].score = ScoreOf[target[r]][icp]]
            /\ Goto(r, "commit")
  /\ UNCHANGED <<db, target, orig, field, plan, todo, pending, lastJob, returned, attempted>>

\* db.commit(): flush what is left, publish, release.  When the connection
\* breaks after the server has committed, the caller gets a 500 all the same.
Commit(r) ==
  /\ pc[r] = "commit"
  /\ FlushAllowed(r)
  /\ contacts' = [contacts EXCEPT ![target[r]] = Patched(r, @)]
  /\ jobs' = Published(r)
  /\ rowLock' = Released(r)
  /\ settled' = settled \cup {r}
  /\ \/ Goto(r, "refresh")
     \/ "lost_ack" \in Failures /\ Goto(r, "error")
  /\ UNCHANGED <<imported, configs, icp, session, attempted>>

\* db.refresh(contact) reads the row again and the reply is built: a 200.
\* The refresh takes a new connection, which may fail.
Respond(r) ==
  /\ pc[r] = "refresh"
  /\ \/ /\ row' = [row EXCEPT ![r] = contacts[target[r]]]
        /\ orig' = [orig EXCEPT ![r] = contacts[target[r]]]
        /\ Goto(r, "ok")
     \/ /\ "refresh" \in Failures
        /\ Goto(r, "error")
        /\ UNCHANGED <<row, orig>>
  /\ UNCHANGED <<db, target, field, plan, todo, pending, lastJob, returned, attempted>>

\* Past its first statement, db.get, and before the end of its commit.
InTransaction(r) == pc[r] \in {"select", "try", "config", "commit"}

\* Any statement may fail, the first one included.
StatementFails(r) ==
  /\ pc[r] = "idle" \/ InTransaction(r)
  /\ "rollback" \in Failures
  /\ Abandon(r, "error")
  /\ UNCHANGED attempted

\* The worker process dies; the database rolls back what it had not committed.
Crash(r) ==
  /\ InTransaction(r) \/ pc[r] = "refresh"
  /\ "crash" \in Failures
  /\ Abandon(r, "crashed")
  /\ UNCHANGED attempted

-----------------------------------------------------------------------------
TryProvider(r) ==
  \E p \in Providers :
    \/ ProviderMiss(r, p)
    \/ ProviderRaises(r, p)
    \/ \E out \in Outcomes(p, field[r], target[r]) : ProviderHit(r, p, out)

EnrichStep(r) == SelectConfigs(r) \/ TryProvider(r) \/ Exhausted(r)

\* What the server does for a request once it has the contact.
Progress(r) ==
  \/ r \in EnrichRequests /\ EnrichStep(r)
  \/ r \in ScoreRequests /\ ComputeScore(r)
  \/ Commit(r)
  \/ Respond(r)

Environment ==
  \/ \E c \in Contacts, e \in CsvEmails : ImportContact(c, e)
  \/ \E f \in Fields, p \in Providers, n \in 0..MaxPriority : EditConfig(f, p, n)
  \/ \E v \in IcpConfigs \cup {NoIcp} : EditIcp(v)

Step(r) == LoadContact(r) \/ Progress(r) \/ StatementFails(r) \/ Crash(r)

Next == Environment \/ \E r \in Requests : Step(r)

\* Provider calls time out after ten seconds and the database serves lock
\* waiters in turn, so a request that can go on does.
Fairness == \A r \in Requests : WF_vars(Progress(r))

Spec == Init /\ [][Next]_vars /\ Fairness
=============================================================================
