-------------------------- MODULE WaterfallAuditProofs --------------------------
(***************************************************************************)
(* Proofs about what an enrichment leaves behind, for any contacts,        *)
(* providers, requests, configurations and failures: its log is complete   *)
(* and in order, a failed contact has been through all providers, a reply  *)
(* is durable, and nobody writes over what somebody else wrote.            *)
(***************************************************************************)
EXTENDS WaterfallProofs, FiniteSetTheorems

\* J has a miss of provider p for field f.
Misses(J, f, p) == \E j \in J : j.field = f /\ j.provider = p /\ ~j.success

HitsOf(J, f) == {j \in J : j.field = f /\ j.success}

\* By the plan P, J has all that the waterfall of field f must leave in the
\* log: one hit, or a miss of every enabled provider.
Accounted(J, P, f) ==
  \/ HitsOf(J, f) = {} /\ \A p \in Providers : P[f][p] > 0 => Misses(J, f, p)
  \/ \E h \in J : HitsOf(J, f) = {h}

\* By the plan P, every job of J comes after the misses of all cheaper providers.
InOrder(J, P) ==
  \A j \in J : \A p \in Providers :
    0 < P[j.field][p] /\ P[j.field][p] < P[j.field][j.provider] => Misses(J, j.field, p)

\* The fields that the loop of ContactService.enrich takes before f.
Before(f) == IF f = "email" THEN {} ELSE IF f = "phone" THEN {"email"} ELSE {"email", "phone"}

\* The fields whose waterfall is over.
Finished(r) == IF pc[r] = "commit" THEN Fields ELSE Before(field[r])

Asking(r) == pc[r] = "try"

\* What a running enrichment has done so far: the pending jobs account for the
\* finished fields and, for the field under way, for the providers that are
\* no more to be tried; there are no other jobs, and the result names only these.
Working(r) ==
  /\ pc[r] # "config"
  /\ InOrder(pending[r], plan[r])
  /\ returned[r] \subseteq pending[r]
  /\ lastJob[r] \in pending[r] \cup {NoJob}
  /\ \A f \in Finished(r) : Accounted(pending[r], plan[r], f)
  /\ Asking(r) =>
       /\ HitsOf(pending[r], field[r]) = {}
       /\ \A p \in Providers : plan[r][field[r]][p] > 0 =>
            p \in todo[r] \/ Misses(pending[r], field[r], p)
  /\ \A j \in pending[r] : j.field \in Finished(r) \/ (Asking(r) /\ j.field = field[r])

JobsBy(r) == {j \in jobs : j.req = r}

\* What a committed enrichment has left in the log.
Recorded(r) ==
  /\ \A f \in Fields : Accounted(JobsBy(r), plan[r], f)
  /\ InOrder(JobsBy(r), plan[r])

\* The contact has been through a committed run without an email.
FailedBy(c, r) ==
  /\ r \in settled /\ target[r] = c
  /\ HitsOf(JobsBy(r), "email") = {}
  /\ \A p \in Providers : plan[r]["email"][p] > 0 => Misses(JobsBy(r), "email", p)

\* The inductive invariant, together with TypeOK and StaleCopiesAreHarmless.
AuditInv ==
  /\ \A r \in EnrichRequests : pc[r] = "idle" => returned[r] = {} /\ lastJob[r] = NoJob
  /\ \A r \in EnrichRequests : InTransaction(r) => Working(r)
  /\ \A r \in Requests : r \notin settled /\ ~InTransaction(r) => pending[r] = {}
  /\ \A r \in EnrichRequests : r \in settled => Recorded(r)
  /\ \A r \in EnrichRequests : pc[r] \in {"refresh", "ok"} =>
       \A j \in returned[r] : j \in jobs /\ j.req = r /\ j.contact = target[r]
  /\ \A r \in EnrichRequests : pc[r] \in {"refresh", "ok"} => r \in settled
  /\ \A c \in Contacts : contacts[c].status = "failed" => \E r \in EnrichRequests : FailedBy(c, r)

\* The lock of a contact row belongs to an enrichment that has changed its copy
\* and is past the email field; before it asks for another field it has it.
LockInv ==
  /\ \A c \in Contacts : \A r \in Requests : rowLock[c] = r =>
       r \in EnrichRequests /\ InTransaction(r) /\ target[r] = c /\ Dirty(r) /\ field[r] # "email"
  /\ \A r \in EnrichRequests :
       pc[r] = "try" /\ field[r] # "email" /\ Dirty(r) => rowLock[target[r]] = r

-----------------------------------------------------------------------------
(* The operators.                                                          *)

\* A miss stays in a log that grows.
LEMMA MissesGrow ==
  ASSUME NEW J, NEW K, J \subseteq K, NEW f, NEW p, Misses(J, f, p)
  PROVE  Misses(K, f, p)
  BY DEF Misses

\* A job of another field, or another miss, leaves a field accounted for.
LEMMA AccountedStays ==
  ASSUME NEW J, NEW P, NEW f, NEW a, Accounted(J, P, f), a.field # f \/ ~a.success
  PROVE  Accounted(J \cup {a}, P, f)
<1>1. HitsOf(J \cup {a}, f) = HitsOf(J, f)
  BY DEF HitsOf
<1> QED
  BY <1>1, MissesGrow DEF Accounted

\* The first hit of a field accounts for it.
LEMMA FirstHitAccounts ==
  ASSUME NEW J, NEW P, NEW f, NEW a, HitsOf(J, f) = {}, a.field = f, a.success
  PROVE  Accounted(J \cup {a}, P, f)
<1>1. HitsOf(J \cup {a}, f) = {a}
  BY DEF HitsOf
<1> QED
  BY <1>1 DEF Accounted

\* A plan that differs in other fields only is the same plan to J.
LEMMA SamePlan ==
  ASSUME NEW J, NEW P, NEW Q, \A j \in J : P[j.field] = Q[j.field], InOrder(J, P)
  PROVE  InOrder(J, Q)
  BY DEF InOrder

\* An attempt at the next provider is in order: all cheaper ones have missed.
LEMMA NextIsInOrder ==
  ASSUME TypeOK, NEW r \in EnrichRequests, Working(r), Asking(r), NEW p \in Providers, IsNext(r, p),
         NEW a, a.field = field[r], a.provider = p
  PROVE  InOrder(pending[r] \cup {a}, plan[r])
<1> DEFINE J == pending[r]
           P == plan[r]
<1>1. field[r] \in Fields /\ \A q \in Providers : P[field[r]][q] \in Nat
  BY RequestsAssumption DEF TypeOK, Requests, ConfigTables
<1>2. ASSUME NEW q \in Providers, 0 < P[field[r]][q], P[field[r]][q] < P[field[r]][p]
      PROVE  Misses(J, field[r], q)
  <2>1. q \notin todo[r]
    BY <1>1, <1>2 DEF IsNext
  <2> QED
    BY <1>1, <1>2, <2>1 DEF Working
<1>3. InOrder(J, P)
  BY DEF Working
<1> HIDE DEF J, P
<1>4. ASSUME NEW j \in J \cup {a}, NEW q \in Providers,
             0 < P[j.field][q], P[j.field][q] < P[j.field][j.provider]
      PROVE  Misses(J, j.field, q)
  BY <1>2, <1>3, <1>4 DEF InOrder
<1>5. InOrder(J \cup {a}, P)
  BY <1>4, MissesGrow DEF InOrder
<1> QED
  BY <1>5 DEF J, P

\* The fields that are finished once f is left.
LEMMA BeforeNext ==
  ASSUME NEW f \in Fields
  PROVE  /\ f \notin Before(f)
         /\ f # "company" => Before(NextField(f)) = Before(f) \cup {f}
         /\ f = "company" => Fields = Before(f) \cup {f}
  BY DEF Fields, Before, NextField

-----------------------------------------------------------------------------
(* The log: one step of a request.                                         *)

\* A request that stays out of the log disturbs the accounts of nobody else.
LEMMA LocalAudit ==
  ASSUME TypeOK, StaleCopiesAreHarmless, AuditInv, NEW r \in Requests,
         UNCHANGED <<contacts, jobs, settled, target>>,
         \A q \in Requests \ {r} : /\ pc'[q] = pc[q] /\ field'[q] = field[q]
                                  /\ plan'[q] = plan[q] /\ todo'[q] = todo[q]
                                  /\ pending'[q] = pending[q]
                                  /\ lastJob'[q] = lastJob[q] /\ returned'[q] = returned[q],
         pc'[r] # "idle",
         r \in settled => plan'[r] = plan[r],
         InTransaction(r)' /\ r \in EnrichRequests => Working(r)',
         r \notin settled /\ ~InTransaction(r)' => pending'[r] = {},
         pc'[r] \in {"refresh", "ok"} => pc[r] = "refresh" /\ returned'[r] = returned[r]
  PROVE  AuditInv'
<1>1. ASSUME NEW q \in EnrichRequests, InTransaction(q)' PROVE Working(q)'
  <2>1. CASE q = r
    BY <1>1, <2>1
  <2>2. CASE q # r
    <3>1. Working(q)
      BY <1>1, <2>2 DEF AuditInv, InTransaction, Requests
    <3> QED
      BY <2>2, <3>1 DEF Working, Finished, Asking, Requests
  <2> QED
    BY <2>1, <2>2
<1>2. ASSUME NEW q \in EnrichRequests, q \in settled' PROVE Recorded(q)'
  <2>1. plan'[q] = plan[q] /\ Recorded(q)
    BY <1>2 DEF AuditInv, Requests
  <2> QED
    BY <2>1 DEF Recorded, JobsBy
<1>3. ASSUME NEW c \in Contacts, contacts'[c].status = "failed"
      PROVE  \E q \in EnrichRequests : FailedBy(c, q)'
  <2>1. PICK q \in EnrichRequests : FailedBy(c, q)
    BY <1>3 DEF AuditInv
  <2>2. plan'[q] = plan[q]
    BY <2>1 DEF FailedBy, Requests
  <2> QED
    BY <2>1, <2>2 DEF FailedBy, JobsBy
<1>4. ASSUME NEW q \in Requests, q \notin settled', ~InTransaction(q)' PROVE pending'[q] = {}
  BY <1>4 DEF AuditInv, InTransaction
<1>5. ASSUME NEW q \in EnrichRequests, pc'[q] = "idle" PROVE returned'[q] = {} /\ lastJob'[q] = NoJob
  BY <1>5 DEF AuditInv, Requests
<1>6. ASSUME NEW q \in EnrichRequests, pc'[q] \in {"refresh", "ok"}
      PROVE  q \in settled' /\ \A j \in returned'[q] : j \in jobs' /\ j.req = q /\ j.contact = target'[q]
  BY <1>6 DEF AuditInv, Requests
<1> QED
  BY <1>1, <1>2, <1>3, <1>4, <1>5, <1>6 DEF AuditInv

\* Opening a session starts with no audit, and every earlier one stands.
LEMMA LoadKeepsAudit ==
  ASSUME TypeOK, StaleCopiesAreHarmless, AuditInv, NEW r \in Requests, LoadContact(r)
  PROVE  AuditInv'
<1>1. UNCHANGED <<contacts, jobs, settled, target, field, plan, todo, pending, lastJob, returned>>
  BY DEF LoadContact, db
<1>2. /\ pc[r] = "idle" /\ pc'[r] \in {"select", "config", "notfound"}
      /\ r \in EnrichRequests => pc'[r] # "config"
      /\ \A q \in Requests \ {r} : pc'[q] = pc[q]
  BY DEF LoadContact, Goto, TypeOK
<1>3. r \notin settled /\ pending[r] = {} /\ field[r] = "email"
  BY <1>2 DEF StaleCopiesAreHarmless, Untouched
<1>4. ASSUME r \in EnrichRequests, InTransaction(r)' PROVE Working(r)'
  <2>1. returned[r] = {} /\ lastJob[r] = NoJob
    BY <1>2, <1>4 DEF AuditInv
  <2>2. Finished(r)' = {} /\ ~Asking(r)'
    BY <1>1, <1>2, <1>3 DEF Finished, Before, Asking
  <2> QED
    BY <1>1, <1>2, <1>3, <1>4, <2>1, <2>2 DEF Working, InOrder
<1> QED
  BY <1>1, <1>2, <1>3, <1>4, LocalAudit

\* The plan of a field is read when nobody has been asked for it yet.
LEMMA SelectKeepsAudit ==
  ASSUME TypeOK, StaleCopiesAreHarmless, AuditInv, NEW r \in EnrichRequests, SelectConfigs(r)
  PROVE  AuditInv'
<1>1. /\ r \in Requests /\ field[r] \in Fields /\ pc[r] = "select"
      /\ UNCHANGED <<contacts, jobs, settled, target, field, pending, returned>>
  BY DEF SelectConfigs, TypeOK, Requests
<1>2. InTransaction(r) /\ r \notin settled /\ Working(r)
  BY <1>1 DEF InTransaction, StaleCopiesAreHarmless, OpenSession, AuditInv
<1>3. /\ pc'[r] = "try" /\ lastJob'[r] = NoJob
      /\ plan'[r] = [plan[r] EXCEPT ![field[r]] = configs[field[r]]]
      /\ todo'[r] = EnabledProviders(field[r])
      /\ \A q \in Requests \ {r} : /\ pc'[q] = pc[q] /\ plan'[q] = plan[q]
                                   /\ todo'[q] = todo[q] /\ lastJob'[q] = lastJob[q]
  BY <1>1 DEF SelectConfigs, Goto, TypeOK
<1>4. Finished(r)' = Before(field[r]) /\ Finished(r) = Before(field[r])
  BY <1>1, <1>3 DEF Finished
<1>5. \A j \in pending[r] : j.field \in Before(field[r]) /\ j.field # field[r]
  BY <1>1, <1>2, <1>4, BeforeNext DEF Working, Asking
<1>6. /\ plan'[r][field[r]] = configs[field[r]]
      /\ \A f \in Fields \ {field[r]} : plan'[r][f] = plan[r][f]
  BY <1>1, <1>3 DEF TypeOK, ConfigTables
<1>7. InOrder(pending[r], plan'[r])
  <2>1. \A j \in pending[r] : plan[r][j.field] = plan'[r][j.field]
    BY <1>1, <1>5, <1>6 DEF TypeOK, Jobs
  <2> QED
    BY <1>2, <2>1, SamePlan DEF Working
<1>8. ASSUME NEW f \in Before(field[r]) PROVE Accounted(pending[r], plan'[r], f)
  <2>1. f \in Fields \ {field[r]}
    BY <1>1, <1>8, BeforeNext DEF Before, Fields
  <2> QED
    BY <1>2, <1>4, <1>6, <1>8, <2>1 DEF Working, Accounted
<1>9. HitsOf(pending[r], field[r]) = {}
  BY <1>5 DEF HitsOf
<1>10. \A p \in Providers : plan'[r][field[r]][p] > 0 => p \in todo'[r]
  BY <1>3, <1>6 DEF EnabledProviders
<1>11. Working(r)'
  BY <1>1, <1>2, <1>3, <1>4, <1>5, <1>7, <1>8, <1>9, <1>10 DEF Working, Asking
<1> QED
  BY <1>1, <1>2, <1>3, <1>11, LocalAudit DEF InTransaction

\* A miss is entered for the cheapest provider that is left, which is then done.
LEMMA MissKeepsAudit ==
  ASSUME TypeOK, StaleCopiesAreHarmless, AuditInv, NEW r \in EnrichRequests, NEW p \in Providers,
         ProviderMiss(r, p)
  PROVE  AuditInv'
<1> DEFINE a == Attempt(r, p, Miss)
<1>1. /\ r \in Requests /\ field[r] \in Fields /\ pc[r] = "try" /\ IsNext(r, p)
      /\ UNCHANGED <<contacts, jobs, settled, target, pc, field, plan, returned>>
  BY DEF ProviderMiss, TypeOK, Requests, db
<1>2. InTransaction(r) /\ r \notin settled /\ Working(r) /\ Asking(r)
  BY <1>1 DEF InTransaction, StaleCopiesAreHarmless, OpenSession, AuditInv, Asking
<1>3. /\ pending'[r] = pending[r] \cup {a} /\ lastJob'[r] = a /\ todo'[r] = todo[r] \ {p}
      /\ \A q \in Requests \ {r} : pending'[q] = pending[q] /\ todo'[q] = todo[q] /\ lastJob'[q] = lastJob[q]
  BY <1>1 DEF ProviderMiss, RemainingAfterMiss, TypeOK
<1>4. a.field = field[r] /\ a.provider = p /\ ~a.success
  BY DEF Attempt, Miss
<1> HIDE DEF a
<1>5. Finished(r)' = Finished(r) /\ Asking(r)'
  BY <1>1, <1>2 DEF Finished, Asking
<1>6. InOrder(pending'[r], plan[r])
  BY <1>1, <1>2, <1>3, <1>4, NextIsInOrder
<1>7. \A f \in Finished(r) : Accounted(pending'[r], plan[r], f)
  BY <1>2, <1>3, <1>4, AccountedStays DEF Working
<1>8. HitsOf(pending'[r], field[r]) = {}
  BY <1>2, <1>3, <1>4 DEF Working, HitsOf
<1>9. ASSUME NEW q \in Providers, plan[r][field[r]][q] > 0
      PROVE  q \in todo'[r] \/ Misses(pending'[r], field[r], q)
  <2>1. CASE q = p
    BY <1>3, <1>4, <2>1 DEF Misses
  <2>2. CASE q # p
    BY <1>2, <1>3, <1>9, <2>2, MissesGrow DEF Working
  <2> QED
    BY <2>1, <2>2
<1>10. Working(r)'
  BY <1>1, <1>2, <1>3, <1>4, <1>5, <1>6, <1>7, <1>8, <1>9 DEF Working
<1> QED
  BY <1>1, <1>2, <1>3, <1>10, LocalAudit DEF InTransaction

\* Once a field is left it is accounted for, and nothing of the next is there.
LEMMA LeftFieldKeepsAudit ==
  ASSUME TypeOK, StaleCopiesAreHarmless, AuditInv, NEW r \in EnrichRequests,
         pc[r] = "try", LeaveField(r), UNCHANGED <<contacts, jobs, settled, target, plan>>,
         \A q \in Requests \ {r} : /\ todo'[q] = todo[q] /\ pending'[q] = pending[q]
                                  /\ lastJob'[q] = lastJob[q] /\ returned'[q] = returned[q],
         \A f \in Before(field[r]) \cup {field[r]} : Accounted(pending'[r], plan[r], f),
         InOrder(pending'[r], plan[r]),
         \A j \in pending'[r] : j \in pending[r] \/ j.field = field[r],
         returned'[r] \subseteq pending'[r], lastJob'[r] \in pending'[r] \cup {NoJob}
  PROVE  AuditInv'
<1>1. r \in Requests /\ field[r] \in Fields /\ InTransaction(r) /\ r \notin settled /\ Working(r)
  BY DEF TypeOK, Requests, InTransaction, StaleCopiesAreHarmless, OpenSession, AuditInv
<1>2. /\ field'[r] = NextField(field[r])
      /\ pc'[r] = IF field[r] = "company" THEN "commit" ELSE "select"
      /\ \A q \in Requests \ {r} : pc'[q] = pc[q] /\ field'[q] = field[q]
  BY <1>1 DEF LeaveField, Goto, TypeOK
<1>3. Finished(r)' = Before(field[r]) \cup {field[r]} /\ Finished(r) = Before(field[r])
  BY <1>1, <1>2, BeforeNext DEF Finished
<1>4. Working(r)'
  BY <1>1, <1>2, <1>3 DEF Working, Asking
<1> QED
  BY <1>1, <1>2, <1>4, LocalAudit DEF InTransaction

\* A hit is entered after the misses of all cheaper providers and ends the field.
LEMMA HitKeepsAudit ==
  ASSUME TypeOK, StaleCopiesAreHarmless, AuditInv, NEW r \in EnrichRequests, NEW p \in Providers,
         NEW out \in Outcomes(p, field[r], target[r]), ProviderHit(r, p, out)
  PROVE  AuditInv'
<1> DEFINE a == Attempt(r, p, out)
<1>1. /\ r \in Requests /\ field[r] \in Fields /\ pc[r] = "try" /\ IsNext(r, p) /\ LeaveField(r)
      /\ UNCHANGED <<contacts, jobs, settled, target, plan>>
  BY DEF ProviderHit, TypeOK, Requests, db
<1>2. Working(r) /\ Asking(r)
  BY <1>1 DEF InTransaction, AuditInv, Asking
<1>3. /\ pending'[r] = pending[r] \cup {a} /\ lastJob'[r] = a /\ returned'[r] = returned[r] \cup {a}
      /\ \A q \in Requests \ {r} : /\ pending'[q] = pending[q] /\ todo'[q] = todo[q]
                                   /\ lastJob'[q] = lastJob[q] /\ returned'[q] = returned[q]
  BY <1>1 DEF ProviderHit, TypeOK
<1>4. a.field = field[r] /\ a.provider = p /\ a.success
  BY DEF Attempt, ProviderHit
<1> HIDE DEF a
<1>5. InOrder(pending'[r], plan[r])
  BY <1>1, <1>2, <1>3, <1>4, NextIsInOrder
<1>6. ASSUME NEW f \in Before(field[r]) PROVE Accounted(pending'[r], plan[r], f)
  BY <1>1, <1>2, <1>3, <1>4, <1>6, BeforeNext, AccountedStays DEF Working, Finished
<1>7. Accounted(pending'[r], plan[r], field[r])
  <2>1. HitsOf(pending[r], field[r]) = {}
    BY <1>2 DEF Working
  <2> QED
    BY <1>3, <1>4, <2>1, FirstHitAccounts
<1>8. returned'[r] \subseteq pending'[r] /\ lastJob'[r] \in pending'[r] \cup {NoJob}
  BY <1>2, <1>3 DEF Working
<1> QED
  BY <1>1, <1>3, <1>4, <1>5, <1>6, <1>7, <1>8, LeftFieldKeepsAudit

\* When nobody is left the misses entered are those of the whole plan.
LEMMA ExhaustedKeepsAudit ==
  ASSUME TypeOK, StaleCopiesAreHarmless, AuditInv, NEW r \in EnrichRequests, Exhausted(r)
  PROVE  AuditInv'
<1>1. /\ r \in Requests /\ field[r] \in Fields /\ pc[r] = "try" /\ LeaveField(r) /\ todo[r] = {}
      /\ UNCHANGED <<contacts, jobs, settled, target, plan, todo, pending, lastJob>>
  BY DEF Exhausted, TypeOK, Requests, db
<1>2. Working(r) /\ Asking(r)
  BY <1>1 DEF InTransaction, AuditInv, Asking
<1>3. /\ returned'[r] = returned[r] \cup ({lastJob[r]} \ {NoJob})
      /\ \A q \in Requests \ {r} : returned'[q] = returned[q]
  BY <1>1 DEF Exhausted, TypeOK
<1>4. Accounted(pending[r], plan[r], field[r])
  BY <1>1, <1>2 DEF Working, Accounted
<1>5. \A f \in Before(field[r]) : Accounted(pending[r], plan[r], f)
  BY <1>1, <1>2 DEF Working, Finished
<1>6. returned'[r] \subseteq pending[r] /\ lastJob[r] \in pending[r] \cup {NoJob}
  BY <1>2, <1>3 DEF Working
<1>7. InOrder(pending[r], plan[r])
  BY <1>2 DEF Working
<1> QED
  BY <1>1, <1>3, <1>4, <1>5, <1>6, <1>7, LeftFieldKeepsAudit

\* What is given up is forgotten.
LEMMA AbandonKeepsAudit ==
  ASSUME TypeOK, StaleCopiesAreHarmless, AuditInv, NEW r \in Requests,
         Abandon(r, "error") \/ Abandon(r, "crashed")
  PROVE  AuditInv'
<1>1. UNCHANGED <<contacts, jobs, settled, target, field, plan, todo, lastJob, returned>>
  BY DEF Abandon
<1>2. /\ pc'[r] \in {"error", "crashed"} /\ pending'[r] = {}
      /\ \A q \in Requests \ {r} : pc'[q] = pc[q] /\ pending'[q] = pending[q]
  BY DEF Abandon, Goto, TypeOK
<1> QED
  BY <1>1, <1>2, LocalAudit DEF InTransaction

\* A scoring enters nothing.
LEMMA ScoreKeepsAudit ==
  ASSUME TypeOK, StaleCopiesAreHarmless, AuditInv, NEW r \in ScoreRequests, ComputeScore(r)
  PROVE  AuditInv'
<1>1. /\ r \in Requests /\ r \notin EnrichRequests /\ pc[r] = "config"
      /\ UNCHANGED <<contacts, jobs, settled, target, field, plan, todo, pending, lastJob, returned>>
  BY RequestsAssumption DEF ComputeScore, Requests, db
<1>2. /\ pc'[r] \in {"invalid", "commit"}
      /\ \A q \in Requests \ {r} : pc'[q] = pc[q]
  BY <1>1 DEF ComputeScore, Goto, TypeOK
<1>3. pending[r] = {}
  BY <1>1 DEF StaleCopiesAreHarmless, InTransaction, OpenSession, ScoreSession
<1> QED
  BY <1>1, <1>2, <1>3, LocalAudit

\* The reply is made of what has been committed.
LEMMA RespondKeepsAudit ==
  ASSUME TypeOK, StaleCopiesAreHarmless, AuditInv, NEW r \in Requests, Respond(r)
  PROVE  AuditInv'
<1>1. /\ pc[r] = "refresh"
      /\ UNCHANGED <<contacts, jobs, settled, target, field, plan, todo, pending, lastJob, returned>>
  BY DEF Respond, db
<1>2. pc'[r] \in {"ok", "error"} /\ \A q \in Requests \ {r} : pc'[q] = pc[q]
  BY DEF Respond, Goto, TypeOK
<1>3. r \notin settled => pending[r] = {}
  BY <1>1 DEF AuditInv, InTransaction
<1> QED
  BY <1>1, <1>2, <1>3, LocalAudit DEF InTransaction

-----------------------------------------------------------------------------
(* The log: a commit.                                                      *)

\* The jobs that r commits are all its own and all it has.
LEMMA CommittedJobs ==
  ASSUME TypeOK, StaleCopiesAreHarmless, NEW r \in Requests, Commit(r)
  PROVE  /\ JobsBy(r)' = pending[r]
         /\ \A q \in Requests \ {r} : JobsBy(q)' = JobsBy(q)
<1>1. OpenSession(r) /\ jobs' = jobs \cup pending[r]
  BY DEF StaleCopiesAreHarmless, Commit, InTransaction, Published
<1>2. \A j \in pending[r] : j.req = r
  BY <1>1 DEF OpenSession
<1>3. \A j \in jobs : j.req # r
  BY <1>1 DEF OpenSession, StaleCopiesAreHarmless
<1> QED
  BY <1>1, <1>2, <1>3 DEF JobsBy

\* A commit makes the audit of its run part of the log, whole.
LEMMA CommitKeepsAudit ==
  ASSUME TypeOK, StaleCopiesAreHarmless, AuditInv, NEW r \in Requests, Commit(r)
  PROVE  AuditInv'
<1>1. /\ pc[r] = "commit" /\ settled' = settled \cup {r} /\ jobs' = jobs \cup pending[r]
      /\ UNCHANGED <<target, field, plan, todo, pending, lastJob, returned>>
      /\ \A d \in Contacts \ {target[r]} : contacts'[d] = contacts[d]
  BY DEF Commit, Published, session, TypeOK
<1>2. pc'[r] \in {"refresh", "error"} /\ \A q \in Requests \ {r} : pc'[q] = pc[q]
  BY DEF Commit, Goto, TypeOK
<1>3. OpenSession(r) /\ target[r] \in Contacts
  BY <1>1 DEF StaleCopiesAreHarmless, InTransaction, TypeOK
<1>4. r \in EnrichRequests => Working(r) /\ Finished(r) = Fields
  BY <1>1 DEF AuditInv, InTransaction, Finished
<1>5. ASSUME NEW q \in EnrichRequests, q \in settled' PROVE Recorded(q)'
  <2>1. CASE q = r
    BY <1>1, <1>4, <2>1, CommittedJobs DEF Working, Recorded
  <2>2. CASE q # r
    <3>1. Recorded(q) /\ JobsBy(q)' = JobsBy(q)
      BY <1>1, <1>5, <2>2, CommittedJobs DEF AuditInv, Requests
    <3> QED
      BY <1>1, <3>1 DEF Recorded
  <2> QED
    BY <2>1, <2>2
<1>6. ASSUME NEW c \in Contacts, NEW q \in EnrichRequests, FailedBy(c, q) PROVE FailedBy(c, q)'
  <2>1. q # r
    BY <1>3, <1>6 DEF FailedBy, OpenSession
  <2>2. JobsBy(q)' = JobsBy(q)
    BY <2>1, CommittedJobs DEF Requests
  <2> QED
    BY <1>1, <1>6, <2>2 DEF FailedBy
<1>7. ASSUME NEW c \in Contacts, contacts'[c].status = "failed"
      PROVE  \E q \in EnrichRequests : FailedBy(c, q)'
  <2>1. CASE contacts[c].status = "failed"
    BY <1>6, <2>1 DEF AuditInv
  <2>2. CASE contacts[c].status # "failed"
    <3>1. c = target[r] /\ r \in EnrichRequests
      BY <1>1, <1>7, <2>2, ScoreCommits DEF Requests
    <3>2. EmailHits(pending[r]) = {}
      BY <1>7, <2>2, <3>1, EnrichCommits
    <3>3. HitsOf(pending[r], "email") = {}
      BY <3>2 DEF EmailHits, HitsOf
    <3>4. Accounted(pending[r], plan[r], "email")
      BY <1>4, <3>1 DEF Working, Fields
    <3>5. \A p \in Providers : plan[r]["email"][p] > 0 => Misses(pending[r], "email", p)
      BY <3>3, <3>4 DEF Accounted
    <3> QED
      BY <1>1, <3>1, <3>3, <3>5, CommittedJobs DEF FailedBy
  <2> QED
    BY <2>1, <2>2
<1>8. ASSUME NEW q \in EnrichRequests, pc'[q] \in {"refresh", "ok"}
      PROVE  q \in settled' /\ \A j \in returned'[q] : j \in jobs' /\ j.req = q /\ j.contact = target'[q]
  <2>1. CASE q = r
    BY <1>1, <1>3, <1>4, <2>1 DEF Working, OpenSession
  <2>2. CASE q # r
    BY <1>1, <1>2, <1>8, <2>2 DEF AuditInv, Requests
  <2> QED
    BY <2>1, <2>2
<1>9. ASSUME NEW q \in EnrichRequests, InTransaction(q)' PROVE Working(q)'
  <2>1. q # r /\ pc'[q] = pc[q] /\ Working(q)
    BY <1>2, <1>9 DEF InTransaction, AuditInv, Requests
  <2> QED
    BY <1>1, <2>1 DEF Working, Finished, Asking
<1>10. ASSUME NEW q \in Requests, q \notin settled', ~InTransaction(q)' PROVE pending'[q] = {}
  BY <1>1, <1>2, <1>10 DEF AuditInv, InTransaction
<1>11. ASSUME NEW q \in EnrichRequests, pc'[q] = "idle" PROVE returned'[q] = {} /\ lastJob'[q] = NoJob
  BY <1>1, <1>2, <1>11 DEF AuditInv, Requests
<1> QED
  BY <1>5, <1>7, <1>8, <1>9, <1>10, <1>11 DEF AuditInv

\* A new contact is pending, and not in the log.
LEMMA ImportKeepsAudit ==
  ASSUME TypeOK, StaleCopiesAreHarmless, AuditInv,
         NEW x \in Contacts, NEW e \in CsvEmails, ImportContact(x, e)
  PROVE  AuditInv'
<1>1. /\ UNCHANGED <<jobs, settled, pc, session>>
      /\ contacts'[x].status = "pending"
      /\ \A d \in Contacts \ {x} : contacts'[d] = contacts[d]
  BY DEF ImportContact, BlankRow, TypeOK
<1>2. ASSUME NEW c \in Contacts, contacts'[c].status = "failed"
      PROVE  \E q \in EnrichRequests : FailedBy(c, q)'
  <2>1. contacts[c].status = "failed"
    BY <1>1, <1>2
  <2> QED
    BY <1>1, <2>1 DEF AuditInv, FailedBy, JobsBy, session
<1>3. \A r \in EnrichRequests : InTransaction(r)' => Working(r)'
  BY <1>1 DEF AuditInv, InTransaction, Working, Finished, Asking, session
<1>4. \A r \in EnrichRequests : r \in settled' => Recorded(r)'
  BY <1>1 DEF AuditInv, Recorded, JobsBy, session
<1> QED
  BY <1>1, <1>2, <1>3, <1>4 DEF AuditInv, InTransaction, session

\* The accounts stay in order, whatever happens.
LEMMA StepKeepsAudit ==
  ASSUME TypeOK, StaleCopiesAreHarmless, AuditInv, [Next]_vars
  PROVE  AuditInv'
<1>1. CASE UNCHANGED <<contacts, jobs, settled, pc, session>>
  BY <1>1 DEF AuditInv, InTransaction, Working, Finished, Asking, Recorded, FailedBy, JobsBy, session
<1>2. CASE Environment
  <2>1. ASSUME NEW x \in Contacts, NEW e \in CsvEmails, ImportContact(x, e) PROVE AuditInv'
    BY <2>1, ImportKeepsAudit
  <2> QED
    BY <1>1, <1>2, <2>1 DEF Environment, EditConfig, EditIcp
<1>3. ASSUME NEW r \in Requests, Step(r) PROVE AuditInv'
  <2>1. CASE LoadContact(r)
    BY <2>1, LoadKeepsAudit
  <2>2. CASE r \in EnrichRequests /\ SelectConfigs(r)
    BY <2>2, SelectKeepsAudit
  <2>3. CASE r \in EnrichRequests /\ TryProvider(r)
    BY <2>3, MissKeepsAudit, HitKeepsAudit, AbandonKeepsAudit DEF TryProvider, ProviderRaises
  <2>4. CASE r \in EnrichRequests /\ Exhausted(r)
    BY <2>4, ExhaustedKeepsAudit
  <2>5. CASE r \in ScoreRequests /\ ComputeScore(r)
    BY <2>5, ScoreKeepsAudit
  <2>6. CASE Commit(r)
    BY <2>6, CommitKeepsAudit
  <2>7. CASE Respond(r)
    BY <2>7, RespondKeepsAudit
  <2>8. CASE StatementFails(r) \/ Crash(r)
    BY <2>8, AbandonKeepsAudit DEF StatementFails, Crash
  <2> QED
    BY <1>3, <2>1, <2>2, <2>3, <2>4, <2>5, <2>6, <2>7, <2>8 DEF Step, Progress, EnrichStep
<1> QED
  BY <1>1, <1>2, <1>3 DEF Next, vars, db

\* The accounts of all enrichments are in order in every reachable state.
LEMMA AuditIsSound == Spec => []AuditInv
<1>1. Init => AuditInv
  BY RequestsAssumption DEF Init, AuditInv, InTransaction, BlankRow, Requests
<1> QED
  BY <1>1, StepKeepsAudit, TypeCorrect, SessionsAreSound, PTL DEF Spec

\* A committed run accounts for each field by one hit or by a miss of every
\* provider enabled when it looked; any other run has no row in the log.
THEOREM AuditsAreComplete == Spec => []AuditIsComplete
<1>1. StaleCopiesAreHarmless /\ AuditInv => AuditIsComplete
  <2> SUFFICES ASSUME StaleCopiesAreHarmless, AuditInv, NEW r \in EnrichRequests, NEW f \in Fields
               PROVE  IF r \in settled
                        THEN MissedAll(r, f) \/ Cardinality({j \in JobsOf(r, f) : j.success}) = 1
                        ELSE JobsOf(r, f) = {}
    BY DEF AuditIsComplete
  <2>1. {j \in JobsOf(r, f) : j.success} = HitsOf(JobsBy(r), f)
    BY DEF JobsOf, JobsBy, HitsOf
  <2>2. CASE r \in settled
    <3>1. Accounted(JobsBy(r), plan[r], f)
      BY <2>2 DEF AuditInv, Recorded
    <3>2. ASSUME NEW h, HitsOf(JobsBy(r), f) = {h}
          PROVE  Cardinality({j \in JobsOf(r, f) : j.success}) = 1
      BY <2>1, <3>2, FS_Singleton
    <3>3. (\A p \in Providers : plan[r][f][p] > 0 => Misses(JobsBy(r), f, p)) => MissedAll(r, f)
      BY DEF MissedAll, Misses, JobsOf, JobsBy
    <3> QED
      BY <2>2, <3>1, <3>2, <3>3 DEF Accounted
  <2>3. CASE r \notin settled
    BY <2>3 DEF StaleCopiesAreHarmless, JobsOf
  <2> QED
    BY <2>2, <2>3
<1> QED
  BY <1>1, AuditIsSound, SessionsAreSound, PTL

\* A provider is asked only after all cheaper ones have missed.
THEOREM CheapestIsAskedFirst == Spec => []CheapestFirst
<1>1. AuditInv => CheapestFirst
  <2> SUFFICES ASSUME AuditInv, NEW r \in EnrichRequests, NEW j \in Considered(r), NEW p \in Providers,
                      0 < plan[r][j.field][p], plan[r][j.field][p] < plan[r][j.field][j.provider]
               PROVE  \E k \in Considered(r) : k.field = j.field /\ k.provider = p /\ ~k.success
    BY DEF CheapestFirst
  <2>1. InOrder(Considered(r), plan[r])
    <3>1. CASE r \in settled
      BY <3>1 DEF AuditInv, Recorded, Considered, JobsBy
    <3>2. CASE r \notin settled /\ InTransaction(r)
      BY <3>2 DEF AuditInv, Working, Considered
    <3>3. CASE r \notin settled /\ ~InTransaction(r)
      BY <3>3 DEF AuditInv, InOrder, Considered, Requests
    <3> QED
      BY <3>1, <3>2, <3>3
  <2> QED
    BY <2>1 DEF InOrder, Misses
<1> QED
  BY <1>1, AuditIsSound, PTL

\* A contact that says "failed" has been through a committed run in which
\* every enabled email provider missed.
THEOREM FailedHasBeenTried == Spec => []FailedIsExhausted
<1>1. AuditInv => FailedIsExhausted
  <2> SUFFICES ASSUME AuditInv, NEW c \in Contacts, contacts[c].status = "failed"
               PROVE  \E r \in settled \cap EnrichRequests :
                        target[r] = c /\ MissedAll(r, "email") /\ \A j \in JobsOf(r, "email") : ~j.success
    BY DEF FailedIsExhausted
  <2>1. PICK r \in EnrichRequests : FailedBy(c, r)
    BY DEF AuditInv
  <2>2. MissedAll(r, "email")
    BY <2>1 DEF FailedBy, MissedAll, Misses, JobsOf, JobsBy
  <2>3. \A j \in JobsOf(r, "email") : ~j.success
    BY <2>1 DEF FailedBy, HitsOf, JobsOf, JobsBy
  <2> QED
    BY <2>1, <2>2, <2>3 DEF FailedBy
<1> QED
  BY <1>1, AuditIsSound, PTL

\* A 200 reports only jobs that are committed, under its own contact.
THEOREM RepliesAreDurable == Spec => []ReplyIsDurable
<1>1. AuditInv => ReplyIsDurable
  BY DEF AuditInv, ReplyIsDurable
<1> QED
  BY <1>1, AuditIsSound, PTL

-----------------------------------------------------------------------------
(* Row locks.                                                              *)

\* A step of r that ends no transaction and takes no lock, and changes its copy
\* only while it holds none.
LEMMA UnlockedStep ==
  ASSUME TypeOK, LockInv, NEW r \in Requests, UNCHANGED <<rowLock, target>>,
         \A q \in Requests \ {r} : /\ pc'[q] = pc[q] /\ row'[q] = row[q]
                                  /\ orig'[q] = orig[q] /\ field'[q] = field[q],
         field[r] # "email" /\ InTransaction(r) =>
           InTransaction(r)' /\ row'[r] = row[r] /\ orig'[r] = orig[r] /\ field'[r] # "email",
         pc'[r] = "try" => pc[r] = "try" /\ UNCHANGED <<row, orig, field>>
  PROVE  LockInv'
<1>1. ASSUME NEW c \in Contacts, NEW q \in Requests, rowLock'[c] = q
      PROVE  q \in EnrichRequests /\ InTransaction(q)' /\ target'[q] = c /\ Dirty(q)' /\ field'[q] # "email"
  BY <1>1 DEF LockInv, InTransaction, Dirty
<1>2. ASSUME NEW q \in EnrichRequests, pc'[q] = "try", field'[q] # "email", Dirty(q)'
      PROVE  rowLock'[target'[q]] = q
  BY <1>2 DEF LockInv, Dirty, Requests
<1> QED
  BY <1>1, <1>2 DEF LockInv

\* The end of a transaction releases its locks and nobody else's.
LEMMA ReleasingStep ==
  ASSUME TypeOK, LockInv, NEW r \in Requests, rowLock' = Released(r),
         UNCHANGED <<target, row, orig, field>>,
         \A q \in Requests \ {r} : pc'[q] = pc[q], pc'[r] # "try"
  PROVE  LockInv'
<1>1. NoRequest \notin Requests /\ EnrichRequests \subseteq Requests /\ target \in [Requests -> Contacts]
  BY RequestsAssumption DEF Requests, TypeOK
<1>2. ASSUME NEW c \in Contacts, NEW q \in Requests, rowLock'[c] = q
      PROVE  q # r /\ rowLock[c] = q
  BY <1>1, <1>2 DEF Released
<1>3. ASSUME NEW c \in Contacts, NEW q \in Requests \ {r}, rowLock[c] = q
      PROVE  rowLock'[c] = q
  BY <1>3 DEF Released
<1> QED
  BY <1>1, <1>2, <1>3 DEF LockInv, InTransaction, Dirty

\* Who asks the email providers has not changed its copy yet.
LEMMA CleanUntilTheEmail ==
  ASSUME StaleCopiesAreHarmless, NEW r \in EnrichRequests, InTransaction(r), field[r] = "email"
  PROVE  ~Dirty(r)
  BY DEF StaleCopiesAreHarmless, OpenSession, EnrichSession, EmailOutcome, Dirty, Requests

\* A changed contact is locked when the next configuration is read.
LEMMA SelectKeepsLocks ==
  ASSUME TypeOK, StaleCopiesAreHarmless, LockInv, NEW r \in EnrichRequests, SelectConfigs(r)
  PROVE  LockInv'
<1>1. /\ r \in Requests /\ target[r] \in Contacts /\ pc[r] = "select" /\ InTransaction(r)
      /\ FlushAllowed(r) /\ UNCHANGED <<target, row, orig, field>>
  BY DEF SelectConfigs, TypeOK, Requests, InTransaction
<1>2. pc'[r] = "try" /\ \A q \in Requests \ {r} : pc'[q] = pc[q]
  BY <1>1 DEF SelectConfigs, Goto, TypeOK
<1>3. ASSUME NEW c \in Contacts, NEW q \in Requests, rowLock'[c] = q, rowLock[c] # q
      PROVE  q = r /\ c = target[r] /\ Dirty(r)
  BY <1>1, <1>3 DEF SelectConfigs, TypeOK
<1>4. Dirty(r) => field[r] # "email"
  BY <1>1, CleanUntilTheEmail
<1>5. ASSUME NEW c \in Contacts, NEW q \in Requests, rowLock'[c] = q
      PROVE  q \in EnrichRequests /\ InTransaction(q)' /\ target'[q] = c /\ Dirty(q)' /\ field'[q] # "email"
  <2>1. CASE rowLock[c] = q
    BY <1>1, <1>2, <2>1 DEF LockInv, InTransaction, Dirty
  <2>2. CASE rowLock[c] # q
    BY <1>1, <1>2, <1>3, <1>4, <1>5, <2>2 DEF InTransaction, Dirty
  <2> QED
    BY <2>1, <2>2
<1>6. ASSUME NEW q \in EnrichRequests, pc'[q] = "try", field'[q] # "email", Dirty(q)'
      PROVE  rowLock'[target'[q]] = q
  <2>1. CASE q = r
    BY <1>1, <1>6, <2>1 DEF SelectConfigs, Dirty, TypeOK
  <2>2. CASE q # r
    <3>1. rowLock[target[q]] = q /\ q \in Requests /\ target[q] \in Contacts
      BY <1>1, <1>2, <1>6, <2>2 DEF LockInv, Dirty, Requests, TypeOK
    <3>2. Dirty(r) => target[q] # target[r]
      BY <1>1, <2>2, <3>1, RequestsAssumption DEF FlushAllowed
    <3>3. rowLock'[target[q]] = rowLock[target[q]]
      BY <1>1, <3>1, <3>2 DEF SelectConfigs, TypeOK
    <3> QED
      BY <1>1, <3>1, <3>3
  <2> QED
    BY <2>1, <2>2
<1> QED
  BY <1>5, <1>6 DEF LockInv

\* A hit changes the session's copy, before the lock at the earliest.
LEMMA HitKeepsLocks ==
  ASSUME TypeOK, LockInv, NEW r \in EnrichRequests, NEW p \in Providers,
         NEW out \in Outcomes(p, field[r], target[r]), ProviderHit(r, p, out)
  PROVE  LockInv'
<1>1. r \in Requests /\ pc[r] = "try" /\ UNCHANGED <<rowLock, target, orig>>
  BY DEF ProviderHit, db, Requests
<1>2. /\ row'[r] = Applied(field[r], row[r], out.email)
      /\ field'[r] = NextField(field[r]) /\ pc'[r] \in {"commit", "select"}
      /\ \A q \in Requests \ {r} : pc'[q] = pc[q] /\ row'[q] = row[q] /\ field'[q] = field[q]
  BY <1>1 DEF ProviderHit, LeaveField, Goto, TypeOK
<1>3. field'[r] # "email" /\ (field[r] # "email" => row'[r] = row[r])
  BY <1>2 DEF NextField, Applied
<1> QED
  BY <1>1, <1>2, <1>3, UnlockedStep DEF InTransaction

\* So does the end of a field that nobody knows.
LEMMA ExhaustedKeepsLocks ==
  ASSUME TypeOK, LockInv, NEW r \in EnrichRequests, Exhausted(r)
  PROVE  LockInv'
<1>1. r \in Requests /\ pc[r] = "try" /\ UNCHANGED <<rowLock, target, orig>>
  BY DEF Exhausted, db, Requests
<1>2. /\ row'[r] = Missed(field[r], row[r])
      /\ field'[r] = NextField(field[r]) /\ pc'[r] \in {"commit", "select"}
      /\ \A q \in Requests \ {r} : pc'[q] = pc[q] /\ row'[q] = row[q] /\ field'[q] = field[q]
  BY <1>1 DEF Exhausted, LeaveField, Goto, TypeOK
<1>3. field'[r] # "email" /\ (field[r] # "email" => row'[r] = row[r])
  BY <1>2 DEF NextField, Missed
<1> QED
  BY <1>1, <1>2, <1>3, UnlockedStep DEF InTransaction

\* A scoring takes no lock before its commit: its field stays the first one.
LEMMA ScoreKeepsLocks ==
  ASSUME TypeOK, LockInv, NEW r \in ScoreRequests, ComputeScore(r)
  PROVE  LockInv'
<1>1. r \in Requests /\ r \notin EnrichRequests /\ UNCHANGED <<rowLock, target, orig, field>>
  BY RequestsAssumption DEF ComputeScore, db, Requests
<1>2. /\ pc'[r] \in {"invalid", "commit"}
      /\ \A q \in Requests \ {r} : pc'[q] = pc[q] /\ row'[q] = row[q]
  BY <1>1 DEF ComputeScore, Goto, TypeOK
<1>3. \A c \in Contacts : rowLock[c] # r
  BY <1>1 DEF LockInv
<1> QED
  BY <1>1, <1>2, <1>3 DEF LockInv, InTransaction, Dirty, Requests

\* Loading and refreshing a contact happen outside any flushed transaction.
LEMMA LoadAndRespondKeepLocks ==
  ASSUME TypeOK, LockInv, NEW r \in Requests, LoadContact(r) \/ Respond(r)
  PROVE  LockInv'
<1>1. UNCHANGED <<rowLock, target, field>> /\ ~InTransaction(r)
  BY DEF LoadContact, Respond, db, InTransaction
<1>2. /\ pc'[r] # "try"
      /\ \A q \in Requests \ {r} : pc'[q] = pc[q] /\ row'[q] = row[q] /\ orig'[q] = orig[q]
  BY DEF LoadContact, Respond, Goto, TypeOK
<1> QED
  BY <1>1, <1>2, UnlockedStep

\* Every step keeps the locks with who has changed the contact.
LEMMA StepKeepsLocks ==
  ASSUME TypeOK, StaleCopiesAreHarmless, LockInv, [Next]_vars
  PROVE  LockInv'
<1>1. CASE UNCHANGED <<rowLock, pc, target, row, orig, field>>
  BY <1>1 DEF LockInv, InTransaction, Dirty
<1>2. CASE Environment
  BY <1>1, <1>2 DEF Environment, ImportContact, EditConfig, EditIcp, session
<1>3. ASSUME NEW r \in Requests, Step(r) PROVE LockInv'
  <2>1. CASE LoadContact(r) \/ Respond(r)
    BY <2>1, LoadAndRespondKeepLocks
  <2>2. CASE r \in EnrichRequests /\ SelectConfigs(r)
    BY <2>2, SelectKeepsLocks
  <2>3. ASSUME NEW l \in {"error", "crashed"}, Abandon(r, l) PROVE LockInv'
    <3>1. rowLock' = Released(r) /\ UNCHANGED <<target, row, orig, field>>
      BY <2>3 DEF Abandon
    <3>2. pc'[r] # "try" /\ \A q \in Requests \ {r} : pc'[q] = pc[q]
      BY <2>3 DEF Abandon, Goto, TypeOK
    <3> QED
      BY <3>1, <3>2, ReleasingStep
  <2>4. CASE r \in EnrichRequests /\ TryProvider(r)
    <3>1. ASSUME NEW p \in Providers, ProviderMiss(r, p) PROVE LockInv'
      BY <1>1, <3>1 DEF ProviderMiss, db
    <3> QED
      BY <2>3, <2>4, <3>1, HitKeepsLocks DEF TryProvider, ProviderRaises
  <2>5. CASE r \in EnrichRequests /\ Exhausted(r)
    BY <2>5, ExhaustedKeepsLocks
  <2>6. CASE r \in ScoreRequests /\ ComputeScore(r)
    BY <2>6, ScoreKeepsLocks
  <2>7. CASE Commit(r)
    <3>1. rowLock' = Released(r) /\ UNCHANGED <<target, row, orig, field>>
      BY <2>7 DEF Commit, session
    <3>2. pc'[r] # "try" /\ \A q \in Requests \ {r} : pc'[q] = pc[q]
      BY <2>7 DEF Commit, Goto, TypeOK
    <3> QED
      BY <3>1, <3>2, ReleasingStep
  <2>8. CASE StatementFails(r) \/ Crash(r)
    BY <2>3, <2>8 DEF StatementFails, Crash
  <2> QED
    BY <1>3, <2>1, <2>2, <2>4, <2>5, <2>6, <2>7, <2>8 DEF Step, Progress, EnrichStep
<1> QED
  BY <1>1, <1>2, <1>3 DEF Next, vars, db, session

\* The lock invariant holds in every behaviour.
LEMMA LocksAreSound == Spec => []LockInv
<1>1. Init => LockInv
  BY RequestsAssumption DEF Init, LockInv, Dirty
<1> QED
  BY <1>1, StepKeepsLocks, TypeCorrect, SessionsAreSound, PTL DEF Spec

\* A row lock belongs to an open transaction that has changed this contact, and
\* an enrichment that has changed its contact holds it while it calls the
\* providers of the other fields.
THEOREM LocksAreDisciplined == Spec => []LockDiscipline
<1>1. LockInv => LockDiscipline
  BY DEF LockInv, LockDiscipline
<1> QED
  BY <1>1, LocksAreSound, PTL

\* The only steps that change a contact.
LEMMA ContactChanges ==
  ASSUME [Next]_vars, contacts' # contacts
  PROVE  \/ \E x \in Contacts, e \in CsvEmails : ImportContact(x, e)
         \/ \E r \in Requests : Commit(r)
<1>1. CASE UNCHANGED vars
  BY <1>1 DEF vars, db
<1>2. CASE Environment
  BY <1>2 DEF Environment, EditConfig, EditIcp
<1>3. ASSUME NEW r \in Requests, Step(r), ~Commit(r) PROVE FALSE
  <2>1. CASE LoadContact(r) \/ StatementFails(r) \/ Crash(r) \/ Respond(r) \/ ComputeScore(r)
    BY <2>1 DEF LoadContact, StatementFails, Crash, Respond, ComputeScore, Abandon, db
  <2>2. CASE EnrichStep(r)
    BY <2>2 DEF EnrichStep, SelectConfigs, TryProvider, ProviderMiss, ProviderRaises,
      ProviderHit, Exhausted, Abandon, db
  <2> QED
    BY <1>3, <2>1, <2>2 DEF Step, Progress
<1> QED
  BY <1>1, <1>2, <1>3 DEF Next

\* A scoring and an enrichment that overlap keep each other's columns.
THEOREM ColumnsStayIndependent == Spec => ColumnsAreIndependent
<1>1. ASSUME TypeOK, StaleCopiesAreHarmless, [Next]_vars, NEW c \in imported
      PROVE  /\ contacts'[c].score # contacts[c].score =>
                  /\ \E r \in ScoreRequests : settled' = settled \cup {r} /\ target[r] = c
                  /\ contacts'[c].email = contacts[c].email
                  /\ contacts'[c].status = contacts[c].status
             /\ contacts'[c].email # contacts[c].email \/ contacts'[c].status # contacts[c].status =>
                  \E r \in EnrichRequests : settled' = settled \cup {r} /\ target[r] = c
  <2>1. c \in Contacts
    BY <1>1 DEF TypeOK
  <2>2. ASSUME NEW x \in Contacts, NEW e \in CsvEmails, ImportContact(x, e)
        PROVE  contacts'[c] = contacts[c]
    BY <1>1, <2>1, <2>2 DEF ImportContact, TypeOK
  <2>3. ASSUME NEW r \in Requests, Commit(r), contacts'[c] # contacts[c]
        PROVE  target[r] = c /\ settled' = settled \cup {r}
    BY <1>1, <2>1, <2>3 DEF Commit, TypeOK
  <2>4. CASE contacts'[c] = contacts[c]
    BY <2>4
  <2>5. ASSUME NEW r \in Requests, Commit(r), contacts'[c] # contacts[c]
        PROVE  \/ r \in EnrichRequests /\ contacts'[c].score = contacts[c].score
               \/ /\ r \in ScoreRequests
                  /\ contacts'[c].email = contacts[c].email /\ contacts'[c].status = contacts[c].status
    BY <1>1, <2>3, <2>5, EnrichCommits, ScoreCommits DEF Requests
  <2>6. CASE contacts'[c] # contacts[c]
    <3>1. PICK r \in Requests : Commit(r)
      BY <1>1, <2>2, <2>6, ContactChanges
    <3> QED
      BY <2>3, <2>5, <2>6, <3>1
  <2> QED
    BY <2>4, <2>6
<1>2. TypeOK /\ StaleCopiesAreHarmless /\ [Next]_vars =>
        [\A c \in imported :
           /\ contacts'[c].score # contacts[c].score =>
                /\ \E r \in ScoreRequests : settled' = settled \cup {r} /\ target[r] = c
                /\ contacts'[c].email = contacts[c].email
                /\ contacts'[c].status = contacts[c].status
           /\ contacts'[c].email # contacts[c].email \/ contacts'[c].status # contacts[c].status =>
                \E r \in EnrichRequests : settled' = settled \cup {r} /\ target[r] = c]_vars
  BY <1>1
<1> QED
  BY <1>2, TypeCorrect, SessionsAreSound, PTL DEF Spec, ColumnsAreIndependent
=============================================================================
