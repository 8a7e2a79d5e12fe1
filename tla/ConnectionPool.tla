---------------------------- MODULE ConnectionPool ----------------------------
(***************************************************************************)
(* The waterfall requests with the connections they need: each worker      *)
(* process has one SQLAlchemy engine with pool_size + max_overflow         *)
(* connections.  A session takes a connection at its first statement and   *)
(* keeps it until its transaction ends, across the provider calls and      *)
(* while it waits for a row lock; db.refresh after the commit takes        *)
(* another one.  A request that finds none waits for pool_timeout.         *)
(*                                                                         *)
(* The pool hands a connection to any waiter: a newcomer may overtake.     *)
(*                                                                         *)
(* A definition whose comment begins with "Altered" is a plausible slip in *)
(* the one that follows it; Next never reaches it.                         *)
(***************************************************************************)
EXTENDS WaterfallProperties

CONSTANTS
  Workers,      \* the worker processes
  WorkerOf,     \* WorkerOf[r] serves request r
  Capacity,     \* POSTGRES_POOL_SIZE + POSTGRES_MAX_OVERFLOW
  PoolFailures  \* failures that may happen

ASSUME PoolAssumption ==
  /\ WorkerOf \in [Requests -> Workers]
  /\ Capacity \in Nat \ {0}
  /\ PoolFailures \subseteq {"timeout", "worker"}

VARIABLES
  waiting,  \* requests that wait for a connection
  held      \* requests whose session has one

pvars == <<vars, waiting, held>>

PInit == Init /\ waiting = {} /\ held = {}

Served(w) == {r \in waiting \cup held : WorkerOf[r] = w}

\* Altered: the bound is compared one off.
OneTooMany(w) == Cardinality({r \in held : WorkerOf[r] = w}) <= Capacity

Free(w) == Cardinality({r \in held : WorkerOf[r] = w}) < Capacity

\* A request arrives; its first statement is db.get(Contact, id).
Arrive(r) ==
  /\ pc[r] = "idle"
  /\ r \notin waiting \cup held
  /\ waiting' = waiting \cup {r}
  /\ UNCHANGED <<vars, held>>

Checkout(r) ==
  /\ r \in waiting
  /\ Free(WorkerOf[r])
  /\ waiting' = waiting \ {r}
  /\ held' = held \cup {r}
  /\ UNCHANGED vars

\* QueuePool gives up: the TimeoutError ends the request with a 500.
PoolTimeout(r) ==
  /\ "timeout" \in PoolFailures
  /\ r \in waiting
  /\ ~Free(WorkerOf[r])
  /\ waiting' = waiting \ {r}
  /\ Goto(r, "error")
  /\ UNCHANGED <<db, session, attempted, held>>

\* Altered: a request that ends without a commit keeps its connection.
KeptWithoutCommit(r) == IF r \in settled' THEN held \ {r} ELSE held

\* The connection goes back when the transaction ends, by a commit or because
\* async_session closes the session.
Returned(r) == IF InTransaction(r)' THEN held ELSE held \ {r}

Statement(r) == LoadContact(r) \/ Progress(r) \/ StatementFails(r)

\* One step of a handler.  After an acknowledged commit the refresh asks for a
\* connection again.
Serve(r) ==
  /\ r \in held
  /\ Statement(r)
  /\ held' = Returned(r)
  /\ waiting' = IF pc[r] = "commit" /\ pc'[r] = "refresh" THEN waiting \cup {r} ELSE waiting

\* A worker process dies with every request it has and its whole pool; the
\* database ends their transactions.
WorkerDies(w) ==
  /\ "worker" \in PoolFailures
  /\ Served(w) # {}
  /\ pc' = [r \in Requests |-> IF r \in Served(w) THEN "crashed" ELSE pc[r]]
  /\ rowLock' = [c \in Contacts |-> IF rowLock[c] \in Served(w) THEN NoRequest ELSE rowLock[c]]
  /\ pending' = [r \in Requests |-> IF r \in Served(w) THEN {} ELSE pending[r]]
  /\ waiting' = waiting \ Served(w)
  /\ held' = held \ Served(w)
  /\ UNCHANGED <<imported, contacts, jobs, configs, icp, settled, attempted,
                 target, orig, row, field, plan, todo, lastJob, returned>>

PNext ==
  \/ Environment /\ UNCHANGED <<waiting, held>>
  \/ \E r \in Requests : Arrive(r) \/ Checkout(r) \/ PoolTimeout(r) \/ Serve(r)
  \/ \E w \in Workers : WorkerDies(w)

\* A connection that comes back is handed out while anybody waits, and a
\* handler that can go on does.  Timeouts are not relied on.
PSpec ==
  /\ PInit /\ [][PNext]_pvars
  /\ \A w \in Workers : WF_pvars(\E r \in Requests : WorkerOf[r] = w /\ Checkout(r))
  /\ \A r \in Requests : WF_pvars(r \in held /\ (LoadContact(r) \/ Progress(r)) /\ Serve(r))

-----------------------------------------------------------------------------
\* Every variable holds a value of its kind, and no pool is overdrawn.
PoolTypeOK ==
  /\ TypeOK
  /\ waiting \subseteq Requests
  /\ held \subseteq Requests
  /\ \A w \in Workers : Cardinality({r \in held : WorkerOf[r] = w}) <= Capacity

\* No connection is leaked and none is used after it went back: a request is at
\* the database exactly while it has one connection, and one that is over, in
\* whichever way, has none and waits for none.
NothingLeaks ==
  /\ \A r \in Requests : Done(r) => r \notin waiting \cup held
  /\ \A r \in Requests : InTransaction(r) => r \in held \ waiting
  /\ \A r \in Requests : pc[r] = "refresh" => (r \in held <=> r \notin waiting)

\* Nobody who is waited for waits: the owner of a row lock has its connection
\* and is not itself held up by a lock.  So requests that wait for the pool
\* wait for holders, holders for lock owners, lock owners for nobody, and a
\* pool of any size runs without a deadlock, its timeouts apart.
LockOwnersNeverWait ==
  \A c \in Contacts : \A r \in Requests :
    rowLock[c] = r => r \in held \ waiting /\ FlushAllowed(r)

\* Every request that has arrived ends, also when it finds the pool exhausted
\* by requests that wait for row locks, and without the pool's timeout.
EveryArrivalEnds == \A r \in Requests : (r \in waiting) ~> Done(r)
=============================================================================
