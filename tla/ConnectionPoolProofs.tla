------------------------- MODULE ConnectionPoolProofs -------------------------
(***************************************************************************)
(* Proofs about the connection pool, for any number of workers, requests   *)
(* and connections.                                                        *)
(***************************************************************************)
EXTENDS ConnectionPool, WaterfallProofs, FiniteSetTheorems

Labels == {"idle", "select", "try", "config", "commit", "refresh",
           "ok", "notfound", "invalid", "error", "crashed"}

\* What the proofs need of the types.
Typed ==
  /\ pc \in [Requests -> Labels]
  /\ target \in [Requests -> Contacts]
  /\ rowLock \in [Contacts -> Requests \cup {NoRequest}]
  /\ waiting \subseteq Requests
  /\ held \subseteq Requests

\* The owner of a row lock is between the flush that took it and the end of its
\* transaction; a scoring has nothing to flush before its commit.
LocksOwned ==
  \A c \in Contacts : \A r \in Requests :
    rowLock[c] = r => pc[r] \in {"select", "try", "commit"} /\ target[r] = c

PoolInv == Typed /\ waiting \cap held = {} /\ NothingLeaks /\ LocksOwned

\* A statement moves its own request on: never back to "idle", and to
\* "refresh" only from "commit".  (ContactService.enrich and .score.)
Moves(r) ==
  /\ pc[r] \in {"idle", "select", "try", "config", "commit", "refresh"}
  /\ pc' = [pc EXCEPT ![r] = pc'[r]]
  /\ pc'[r] \in Labels \ {"idle"}
  /\ pc'[r] = "refresh" => pc[r] = "commit"
  /\ target' = target

\* Every statement of a request is such a move.
LEMMA StatementMoves ==
  ASSUME NEW r \in Requests, Typed, Statement(r)
  PROVE  Moves(r)
<1> USE DEF Labels, Goto, Typed, Moves
<1>1. CASE LoadContact(r)
  BY <1>1 DEF LoadContact
<1>2. CASE SelectConfigs(r)
  BY <1>2 DEF SelectConfigs
<1>3. ASSUME NEW p \in Providers, ProviderMiss(r, p) PROVE Moves(r)
  BY <1>3 DEF ProviderMiss
<1>4. ASSUME NEW p \in Providers, ProviderRaises(r, p) PROVE Moves(r)
  BY <1>4 DEF ProviderRaises, Abandon
<1>5. ASSUME NEW p \in Providers, NEW out, ProviderHit(r, p, out) PROVE Moves(r)
  BY <1>5 DEF ProviderHit, LeaveField
<1>6. CASE Exhausted(r)
  BY <1>6 DEF Exhausted, LeaveField
<1>7. CASE ComputeScore(r)
  BY <1>7 DEF ComputeScore
<1>8. CASE Commit(r)
  BY <1>8 DEF Commit, session
<1>9. CASE Respond(r)
  BY <1>9 DEF Respond
<1>10. CASE StatementFails(r)
  BY <1>10 DEF StatementFails, InTransaction, Abandon
<1> QED
  BY <1>1, <1>2, <1>3, <1>4, <1>5, <1>6, <1>7, <1>8, <1>9, <1>10
  DEF Statement, Progress, EnrichStep, TryProvider

\* A statement leaves row locks only with transactions that may own one.
LEMMA StatementLocks ==
  ASSUME NEW r \in Requests, Typed, LocksOwned, Statement(r)
  PROVE  rowLock' \in [Contacts -> Requests \cup {NoRequest}] /\ LocksOwned'
<1>1. Moves(r)
  BY StatementMoves
<1>2. CASE UNCHANGED rowLock /\ pc[r] # "commit"
           /\ (pc[r] \in {"select", "try"} => pc'[r] \in {"select", "try", "commit"})
  BY <1>1, <1>2 DEF Typed, LocksOwned, Moves
<1>3. CASE rowLock' = Released(r)
  BY <1>1, <1>3, RequestsAssumption DEF Typed, LocksOwned, Moves, Released
<1>4. CASE LoadContact(r)
  BY <1>2, <1>4 DEF LoadContact, db
<1>5. CASE SelectConfigs(r)
  <2>1. pc[r] = "select" /\ pc'[r] = "try"
    BY <1>5 DEF SelectConfigs, Goto, Typed
  <2>2. CASE rowLock' = rowLock
    BY <1>2, <2>1, <2>2
  <2>3. CASE rowLock' = [rowLock EXCEPT ![target[r]] = r]
    <3>1. rowLock' \in [Contacts -> Requests \cup {NoRequest}]
      BY <2>3 DEF Typed
    <3>2. ASSUME NEW c \in Contacts, NEW q \in Requests, rowLock'[c] = q
          PROVE  pc'[q] \in {"select", "try", "commit"} /\ target'[q] = c
      <4>1. CASE c = target[r]
        BY <1>1, <2>1, <2>3, <3>2, <4>1 DEF Typed, Moves
      <4>2. CASE c # target[r]
        BY <1>1, <2>1, <2>3, <3>2, <4>2 DEF Typed, LocksOwned, Moves
      <4> QED
        BY <4>1, <4>2
    <3> QED
      BY <3>1, <3>2 DEF LocksOwned
  <2> QED
    BY <1>5, <2>2, <2>3 DEF SelectConfigs
<1>6. ASSUME NEW p \in Providers, ProviderMiss(r, p) PROVE UNCHANGED rowLock /\ pc[r] = "try" /\ pc'[r] = "try"
  BY <1>6 DEF ProviderMiss, db
<1>7. ASSUME NEW p \in Providers, ProviderRaises(r, p) PROVE rowLock' = Released(r)
  BY <1>7 DEF ProviderRaises, Abandon
<1>8. ASSUME NEW p \in Providers, NEW out, ProviderHit(r, p, out)
      PROVE  UNCHANGED rowLock /\ pc[r] = "try" /\ pc'[r] \in {"select", "commit"}
  BY <1>8 DEF ProviderHit, LeaveField, Goto, Typed, db
<1>9. CASE Exhausted(r)
  <2>1. UNCHANGED rowLock /\ pc[r] = "try" /\ pc'[r] \in {"select", "commit"}
    BY <1>9 DEF Exhausted, LeaveField, Goto, Typed, db
  <2> QED
    BY <1>2, <2>1
<1>10. CASE ComputeScore(r)
  BY <1>2, <1>10 DEF ComputeScore, db
<1>11. CASE Commit(r)
  BY <1>3, <1>11 DEF Commit
<1>12. CASE Respond(r)
  BY <1>2, <1>12 DEF Respond, db
<1>13. CASE StatementFails(r)
  BY <1>3, <1>13 DEF StatementFails, Abandon
<1> QED
  BY <1>2, <1>3, <1>4, <1>5, <1>6, <1>7, <1>8, <1>9, <1>10, <1>11, <1>12, <1>13
  DEF Statement, Progress, EnrichStep, TryProvider

\* What the proofs need of the types, that no request both waits for a
\* connection and has one, that none is leaked, and who owns the row locks:
\* together inductive.
THEOREM PoolIsSound == PSpec => []PoolInv
<1>1. PInit => PoolInv
  BY RequestsAssumption DEF PInit, Init, PoolInv, Typed, Labels, NothingLeaks, LocksOwned, Done, InTransaction
<1>2. PoolInv /\ [PNext]_pvars => PoolInv'
  <2> SUFFICES ASSUME PoolInv, [PNext]_pvars PROVE PoolInv'
    OBVIOUS
  <2> USE DEF PoolInv, Typed, NothingLeaks, LocksOwned
  <2>1. CASE UNCHANGED <<pc, target, rowLock, waiting, held>>
    BY <2>1 DEF Done, InTransaction
  <2>2. CASE Environment /\ UNCHANGED <<waiting, held>>
    <3>1. UNCHANGED <<pc, target, rowLock>>
      BY <2>2 DEF Environment, ImportContact, EditConfig, EditIcp, session
    <3> QED
      BY <2>1, <2>2, <3>1
  <2>3. ASSUME NEW r \in Requests, Arrive(r) PROVE PoolInv'
    <3>1. UNCHANGED <<pc, target, rowLock, held>> /\ waiting' = waiting \cup {r} /\ pc[r] = "idle" /\ r \notin held
      BY <2>3 DEF Arrive, vars, db, session
    <3> QED
      BY <3>1 DEF Done, InTransaction
  <2>4. ASSUME NEW r \in Requests, Checkout(r) PROVE PoolInv'
    <3>1. UNCHANGED <<pc, target, rowLock>> /\ r \in waiting /\ waiting' = waiting \ {r} /\ held' = held \cup {r}
      BY <2>4 DEF Checkout, vars, db, session
    <3> QED
      BY <3>1 DEF Done, InTransaction
  <2>5. ASSUME NEW r \in Requests, PoolTimeout(r) PROVE PoolInv'
    <3>1. UNCHANGED <<target, rowLock, held>> /\ r \in waiting /\ waiting' = waiting \ {r}
          /\ pc' = [pc EXCEPT ![r] = "error"]
      BY <2>5 DEF PoolTimeout, Goto, db, session
    <3> QED
      BY <3>1 DEF Done, InTransaction, Labels
  <2>6. ASSUME NEW r \in Requests, Serve(r) PROVE PoolInv'
    <3>1. r \in held /\ Statement(r) /\ r \notin waiting
      BY <2>6 DEF Serve
    <3>2. Moves(r) /\ rowLock' \in [Contacts -> Requests \cup {NoRequest}] /\ LocksOwned'
      BY <3>1, StatementMoves, StatementLocks
    <3>3. held' = IF InTransaction(r)' THEN held ELSE held \ {r}
      BY <2>6 DEF Serve, Returned
    <3>4. waiting' = IF pc[r] = "commit" /\ pc'[r] = "refresh" THEN waiting \cup {r} ELSE waiting
      BY <2>6 DEF Serve
    <3>5. Typed' /\ waiting' \cap held' = {}
      BY <3>1, <3>2, <3>3, <3>4 DEF Moves, InTransaction
    <3>6. NothingLeaks'
      BY <3>1, <3>2, <3>3, <3>4 DEF Moves, Labels, InTransaction, Done
    <3> QED
      BY <3>2, <3>5, <3>6
  <2>7. ASSUME NEW w \in Workers, WorkerDies(w) PROVE PoolInv'
    <3>1. Typed' /\ waiting' \cap held' = {}
      BY <2>7 DEF WorkerDies, Labels
    <3>2. LocksOwned'
      BY <2>7, RequestsAssumption DEF WorkerDies
    <3>3. NothingLeaks'
      BY <2>7 DEF WorkerDies, Done, InTransaction
    <3> QED
      BY <3>1, <3>2, <3>3
  <2>8. CASE UNCHANGED pvars
    BY <2>1, <2>8 DEF pvars, vars, db, session
  <2> QED
    BY <2>2, <2>3, <2>4, <2>5, <2>6, <2>7, <2>8 DEF PNext
<1> QED
  BY <1>1, <1>2, PTL DEF PSpec

\* Whatever becomes of a request, its connection goes back to the pool, once.
\* (The session is closed by async_session.)
THEOREM NoConnectionLeaks == PSpec => []NothingLeaks
<1>1. PoolInv => NothingLeaks
  BY DEF PoolInv
<1> QED
  BY <1>1, PoolIsSound, PTL

\* Who is waited for does not wait: a pool of any size cannot deadlock over the
\* row locks that autoflush takes.
THEOREM NoCircularWait == PSpec => []LockOwnersNeverWait
<1>1. PoolInv => LockOwnersNeverWait
  BY DEF PoolInv, LocksOwned, NothingLeaks, LockOwnersNeverWait, FlushAllowed, InTransaction
<1> QED
  BY <1>1, PoolIsSound, PTL

-----------------------------------------------------------------------------
(* The steps of the waterfall, seen with the pool around them.             *)

\* A request that the pool or its worker ends is ended as by a crash: it is no
\* longer at work and nothing that is stored changes.
Ends(R) ==
  /\ UNCHANGED <<imported, contacts, jobs, configs, icp, settled, attempted,
                 target, orig, row, field, plan, todo, lastJob, returned>>
  /\ rowLock' \in [Contacts -> Requests \cup {NoRequest}]
  /\ \E l \in {"error", "crashed"} : pc' = [r \in Requests |-> IF r \in R THEN l ELSE pc[r]]
  /\ pending' \in [Requests -> SUBSET Jobs]
  /\ \A r \in Requests \ R : pending'[r] = pending[r]

\* Each step of the pool is a step of the waterfall or ends some requests.
LEMMA PoolSteps ==
  ASSUME TypeOK, [PNext]_pvars
  PROVE  [Next]_vars \/ \E R \in SUBSET Requests : Ends(R)
<1>1. CASE UNCHANGED pvars
  BY <1>1 DEF pvars
<1>2. CASE Environment
  BY <1>2 DEF Next
<1>3. ASSUME NEW r \in Requests, Arrive(r) \/ Checkout(r) PROVE UNCHANGED vars
  BY <1>3 DEF Arrive, Checkout
<1>4. ASSUME NEW r \in Requests, Serve(r) PROVE Next
  BY <1>4 DEF Serve, Statement, Next, Step
<1>5. ASSUME NEW r \in Requests, PoolTimeout(r) PROVE Ends({r})
  <2>1. pc' = [q \in Requests |-> IF q \in {r} THEN "error" ELSE pc[q]]
    BY <1>5 DEF PoolTimeout, Goto, TypeOK
  <2> QED
    BY <1>5, <2>1 DEF PoolTimeout, Ends, TypeOK, db, session
<1>6. ASSUME NEW w \in Workers, WorkerDies(w) PROVE Ends(Served(w) \cap Requests)
  BY <1>6, RequestsAssumption DEF WorkerDies, Ends, TypeOK
<1> QED
  BY <1>1, <1>2, <1>3, <1>4, <1>5, <1>6 DEF PNext

\* Types survive the end of requests.
LEMMA EndsTyped == ASSUME TypeOK, NEW R, Ends(R) PROVE TypeOK'
<1>1. pc' \in [Requests -> {"idle", "select", "try", "config", "commit", "refresh",
                           "ok", "notfound", "invalid", "error", "crashed"}]
  BY DEF Ends, TypeOK
<1> QED
  BY <1>1 DEF Ends, TypeOK, ConfigTables, Rows, Jobs

\* The connections of one worker.
Held(w) == {r \in held : WorkerOf[r] = w}

PoolBound ==
  /\ waiting \subseteq Requests
  /\ held \subseteq Requests
  /\ \A w \in Workers : IsFiniteSet(Held(w)) /\ Cardinality(Held(w)) <= Capacity

\* A connection is taken only where one is free, so no pool is overdrawn.
LEMMA BoundIsKept == ASSUME PoolBound, [PNext]_pvars PROVE PoolBound'
<1>1. CASE waiting' \subseteq Requests /\ held' \subseteq held
  <2>1. ASSUME NEW w \in Workers PROVE IsFiniteSet(Held(w))' /\ (Cardinality(Held(w)) <= Capacity)'
    <3>1. Held(w)' \subseteq Held(w) /\ IsFiniteSet(Held(w)) /\ Cardinality(Held(w)) <= Capacity
      BY <1>1 DEF Held, PoolBound
    <3>2. IsFiniteSet(Held(w)') /\ Cardinality(Held(w)') <= Cardinality(Held(w))
      BY <3>1, FS_Subset
    <3>3. Cardinality(Held(w)') \in Nat /\ Cardinality(Held(w)) \in Nat /\ Capacity \in Nat
      BY <3>1, <3>2, FS_CardinalityType, PoolAssumption
    <3> QED
      BY <3>1, <3>2, <3>3
  <2> QED
    BY <1>1, <2>1 DEF PoolBound
<1>2. ASSUME NEW r \in Requests, Checkout(r) PROVE PoolBound'
  <2>1. waiting' \subseteq Requests /\ held' = held \cup {r} /\ Free(WorkerOf[r])
    BY <1>2 DEF Checkout, PoolBound
  <2>2. ASSUME NEW w \in Workers PROVE IsFiniteSet(Held(w))' /\ (Cardinality(Held(w)) <= Capacity)'
    <3>1. IsFiniteSet(Held(w)) /\ Cardinality(Held(w)) <= Capacity
      BY DEF PoolBound
    <3>2. CASE WorkerOf[r] # w \/ r \in held
      <4>1. Held(w)' = Held(w)
        BY <2>1, <3>2 DEF Held
      <4> QED
        BY <3>1, <4>1
    <3>3. CASE WorkerOf[r] = w /\ r \notin held
      <4>1. Held(w)' = Held(w) \cup {r} /\ r \notin Held(w) /\ Cardinality(Held(w)) < Capacity
        BY <2>1, <3>3 DEF Held, Free
      <4>2. IsFiniteSet(Held(w)') /\ Cardinality(Held(w)') = Cardinality(Held(w)) + 1
        BY <3>1, <4>1, FS_AddElement
      <4>3. Cardinality(Held(w)) \in Nat /\ Capacity \in Nat
        BY <3>1, FS_CardinalityType, PoolAssumption
      <4> QED
        BY <4>1, <4>2, <4>3
    <3> QED
      BY <3>2, <3>3
  <2> QED
    BY <2>1, <2>2 DEF PoolBound
<1>3. ASSUME NEW r \in Requests, Arrive(r) \/ PoolTimeout(r) \/ Serve(r)
      PROVE  waiting' \subseteq Requests /\ held' \subseteq held
  BY <1>3 DEF Arrive, PoolTimeout, Serve, Returned, PoolBound
<1>4. ASSUME NEW w \in Workers, WorkerDies(w) PROVE waiting' \subseteq Requests /\ held' \subseteq held
  BY <1>4 DEF WorkerDies, PoolBound
<1>5. UNCHANGED <<waiting, held>> => waiting' \subseteq Requests /\ held' \subseteq held
  BY DEF PoolBound
<1> QED
  BY <1>1, <1>2, <1>3, <1>4, <1>5 DEF PNext, pvars

\* Initially.
LEMMA PoolStarts == ASSUME PInit PROVE TypeOK /\ PoolBound
<1>1. TypeOK
  BY RequestsAssumption, ProvidersAssumption
  DEF PInit, Init, TypeOK, BlankRow, Rows, MaybeEmail, ConfigTables, Fields, Requests
<1>2. ASSUME NEW w \in Workers PROVE IsFiniteSet(Held(w)) /\ Cardinality(Held(w)) <= Capacity
  <2>1. Held(w) = {}
    BY DEF PInit, Held
  <2> QED
    BY <2>1, FS_EmptySet, PoolAssumption
<1> QED
  BY <1>1, <1>2 DEF PInit, PoolBound

\* Every variable keeps to its type, and no worker has more connections than
\* its engine allows, whatever times out and whichever worker dies.
THEOREM PoolIsNeverOverdrawn == PSpec => []PoolTypeOK
<1>1. TypeOK /\ [PNext]_pvars => TypeOK'
  BY PoolSteps, TypesAreKept, EndsTyped
<1>2. TypeOK /\ PoolBound => PoolTypeOK
  BY DEF PoolBound, PoolTypeOK, Held
<1> QED
  BY <1>1, <1>2, PoolStarts, BoundIsKept, PTL DEF PSpec

-----------------------------------------------------------------------------
(* What the waterfall promises still holds with the pool around it.        *)

\* Requests that are ended disturb nobody's open session.
LEMMA EndsKeepSessions ==
  ASSUME TypeOK, StaleCopiesAreHarmless, NEW R \in SUBSET Requests, Ends(R)
  PROVE  StaleCopiesAreHarmless'
<1>1. UNCHANGED <<imported, contacts, jobs, settled, target, orig, row, field>>
  BY DEF Ends
<1>2. \A q \in Requests : q \in R => pc'[q] \in {"error", "crashed"}
  BY DEF Ends
<1>3. \A q \in Requests : q \notin R => pc'[q] = pc[q] /\ pending'[q] = pending[q]
  BY DEF Ends
<1>4. EnrichedHasEvidence'
  BY <1>1 DEF StaleCopiesAreHarmless, EnrichedHasEvidence, Evidenced
<1>5. ASSUME NEW q \in Requests, InTransaction(q)' PROVE OpenSession(q)'
  <2>1. q \notin R
    BY <1>2, <1>5 DEF InTransaction
  <2>2. OpenSession(q)
    BY <1>3, <1>5, <2>1 DEF StaleCopiesAreHarmless, InTransaction
  <2> QED
    BY <1>1, <1>3, <2>1, <2>2, SameSession DEF OpenSession
<1>6. ASSUME NEW q \in Requests, pc'[q] = "idle" PROVE Untouched(q)'
  BY <1>1, <1>2, <1>3, <1>6 DEF StaleCopiesAreHarmless, Untouched
<1> QED
  BY <1>1, <1>4, <1>5, <1>6 DEF StaleCopiesAreHarmless

\* Stale copies are harmless also with the pool.
LEMMA PooledSessionsAreSound == PSpec => [](TypeOK /\ StaleCopiesAreHarmless)
<1>1. PInit => TypeOK /\ StaleCopiesAreHarmless
  BY PoolStarts DEF PInit, Init, StaleCopiesAreHarmless, EnrichedHasEvidence, InTransaction,
                    Untouched, BlankRow
<1>2. TypeOK /\ StaleCopiesAreHarmless /\ [PNext]_pvars => (TypeOK /\ StaleCopiesAreHarmless)'
  BY PoolSteps, TypesAreKept, EndsTyped, SessionsStaySound, EndsKeepSessions
<1> QED
  BY <1>1, <1>2, PTL DEF PSpec

\* An enriched contact has its evidence also when requests run out of
\* connections or a worker dies with everything it serves.
THEOREM PooledEvidence == PSpec => []EnrichedHasEvidence
<1>1. StaleCopiesAreHarmless => EnrichedHasEvidence
  BY DEF StaleCopiesAreHarmless
<1> QED
  BY <1>1, PooledSessionsAreSound, PTL

\* The waterfall with its pool still implements the ledger: a request takes
\* effect once and as a whole or leaves no trace, a timeout of the pool and the
\* death of a worker included.
THEOREM PooledLedger == PSpec => ImplementsLedger
<1>1. PInit => Ledger!LInit
  BY DEF PInit, Init, Ledger!LInit
<1>2. TypeOK /\ StaleCopiesAreHarmless /\ [PNext]_pvars => [Ledger!LNext]_(Ledger!ledger)
  <2> SUFFICES ASSUME TypeOK, StaleCopiesAreHarmless, [PNext]_pvars
               PROVE  Ledger!LNext \/ UNCHANGED Ledger!ledger
    OBVIOUS
  <2>1. ASSUME NEW R, Ends(R) PROVE UNCHANGED Ledger!ledger
    BY <2>1 DEF Ends, Ledger!ledger
  <2> QED
    BY <2>1, PoolSteps, StepsAreLedgerSteps
<1> QED
  BY <1>1, <1>2, PooledSessionsAreSound, PTL DEF PSpec, ImplementsLedger, Ledger!LSpec
=============================================================================
