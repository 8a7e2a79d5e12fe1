----------------------------- MODULE BackendProofs -----------------------------
(***************************************************************************)
(* Proofs about the worker processes of a deployment and the cache server  *)
(* they share, for any number of workers, any tables, deployments, keys,   *)
(* values and mishaps.                                                     *)
(***************************************************************************)
EXTENDS Backend, TLAPS

LifecycleTypes ==
  /\ settings \in Deployments
  /\ catalog \subseteq Tables
  /\ phase \in [Workers -> Phases]
  /\ looked \in [Workers -> 0..Len(TableOrder)]
  /\ missing \in [Workers -> Seq(Tables)]
  /\ made \in [Workers -> SUBSET Tables]
  /\ backends \in [Workers -> SUBSET Servers]
  /\ default \in [Workers -> Servers \cup {NoBackend}]
  /\ client \in [Workers -> {"none", "open", "closed"}]
  /\ mishaps \in 0..MaxMishaps

ServerTypes ==
  /\ entries \in [Keys -> [data : Characters, expires : BOOLEAN] \cup {NoEntry}]
  /\ up \in BOOLEAN
  /\ reply \in [call : CacheCalls, key : Keys \cup {NoEntry},
                value : [type : Types, chars : Characters] \cup {NoEntry}, outcome : CacheOutcomes]

\* The tables that w is still to create.
Waits(w) == {missing[w][n] : n \in 1..Len(missing[w])}

\* A table that w has looked up is committed, or w has made it, or w is to.
\* A worker that is past the creation found or left all of them committed.
SchemaKnown(w) ==
  /\ phase[w] \notin {"checking", "creating"} => looked[w] = 0
  /\ \A n \in 1..looked[w] : TableOrder[n] \in catalog \cup made[w] \cup Waits(w)
  /\ phase[w] = "creating" => looked[w] = Len(TableOrder)
  /\ CreatesTables(settings) /\ phase[w] \in {"starting", "serving", "stopping"} => catalog = Tables

\* A worker has a client and a registered backend from the end of its start to
\* the end of its stop, if the deployment names a known one.
ClientKnown(w) ==
  /\ phase[w] \in {"checking", "creating", "starting"} => client[w] = "none" /\ backends[w] = {}
  /\ phase[w] \in {"serving", "stopping"} =>
       IF Known(settings)
         THEN default[w] = settings.cache /\ default[w] \in backends[w] /\ client[w] = "open"
         ELSE client[w] = "none"
  /\ phase[w] = "down" => client[w] # "open" /\ backends[w] = {}

LifecycleInv == LifecycleTypes /\ \A w \in Workers : SchemaKnown(w) /\ ClientKnown(w)

-----------------------------------------------------------------------------
(* The processes.                                                          *)

\* Calls and the server leave the processes alone.
LEMMA LifecycleApart ==
  ASSUME [Next]_vars
  PROVE  LifecycleNext \/ UNCHANGED lifecycle
<1>1. ASSUME NEW w \in Workers, Calls(w) PROVE UNCHANGED lifecycle
  BY <1>1 DEF Calls, Get, Set, Delete, DeletePattern, ExistsKey, Clear, PingAll, Through
<1> QED
  BY <1>1 DEF Next, vars

\* At first all processes are down and nothing is looked up or registered.
LEMMA LifecycleInitHolds == ASSUME LifecycleInit PROVE LifecycleInv
<1>1. catalog \subseteq Tables
  BY LifecycleAssumption DEF LifecycleInit, LifecycleAssumption, Tables
<1>2. LifecycleTypes
  BY <1>1, LifecycleAssumption DEF LifecycleInit, LifecycleAssumption, LifecycleTypes, Phases
<1>3. \A w \in Workers : SchemaKnown(w) /\ ClientKnown(w)
  BY DEF LifecycleInit, SchemaKnown, ClientKnown
<1> QED
  BY <1>2, <1>3 DEF LifecycleInv

\* Every step of a process keeps the types.
LEMMA LifecycleTypesKept == ASSUME LifecycleTypes, LifecycleNext PROVE LifecycleTypes'
<1> USE DEF Enter, schema, provider, EndTransaction, Forgets
<1>0. Len(TableOrder) \in Nat /\ TableOrder \in Seq(Tables) /\ MaxMishaps \in Nat
      /\ \A d \in Deployments : CreatesTables(d) \in BOOLEAN
  BY LifecycleAssumption DEF LifecycleAssumption
<1>1. PICK w \in Workers : Runs(w) \/ DatabaseFails(w) \/ Stop(w) \/ Die(w)
  BY DEF LifecycleNext
<1>2. CASE Boot(w)
  BY <1>0, <1>2 DEF LifecycleTypes, Boot, Phases
<1>3. CASE CheckTable(w)
  <2> DEFINE n == looked[w] + 1
  <2>1. n \in 1..Len(TableOrder) /\ missing[w] \in Seq(Tables) /\ n \in 0..Len(TableOrder)
    BY <1>0, <1>3 DEF LifecycleTypes, CheckTable
  <2>a. TableOrder[n] \in Tables
    BY <2>1 DEF Tables
  <2>2. Append(missing[w], TableOrder[looked[w] + 1]) \in Seq(Tables)
    BY <2>1, <2>a
  <2>3. missing' \in [Workers -> Seq(Tables)]
    BY <1>3, <2>1, <2>2 DEF LifecycleTypes, CheckTable
  <2> QED
    BY <1>3, <2>1, <2>3 DEF LifecycleTypes, CheckTable
<1>4. CASE StartCreating(w)
  BY <1>4 DEF LifecycleTypes, StartCreating, Phases
<1>5. CASE CreateTable(w)
  <2>1. missing[w] \in Seq(Tables) /\ missing[w] # <<>>
    BY <1>5 DEF LifecycleTypes, CreateTable
  <2>2. Head(missing[w]) \in Tables /\ Tail(missing[w]) \in Seq(Tables)
    BY <2>1
  <2> QED
    BY <1>5, <2>2 DEF LifecycleTypes, CreateTable, Created
<1>6. CASE CommitTables(w)
  BY <1>0, <1>6 DEF LifecycleTypes, CommitTables, Phases
<1>7. CASE TableExists(w) \/ DatabaseFails(w)
  <2>1. mishaps' \in 0..MaxMishaps
    BY <1>0, <1>7 DEF LifecycleTypes, TableExists, DatabaseFails
  <2>2. phase' = [phase EXCEPT ![w] = "down"] /\ EndTransaction(w) /\ UNCHANGED <<settings, provider>>
    BY <1>7 DEF TableExists, DatabaseFails, StartFails
  <2>3. catalog' \subseteq Tables
    BY <1>7 DEF LifecycleTypes, TableExists, DatabaseFails
  <2> QED
    BY <1>0, <2>1, <2>2, <2>3 DEF LifecycleTypes, Phases
<1>8. CASE InitializeCache(w)
  <2>1. /\ backends' \in [Workers -> SUBSET Servers]
        /\ default' \in [Workers -> Servers \cup {NoBackend}]
        /\ client' \in [Workers -> {"none", "open", "closed"}]
    <3>1. CASE Known(settings)
      <4>1. settings.cache \in Servers
        BY <3>1 DEF Known
      <4>2. Register(w, settings.cache) /\ client' = [client EXCEPT ![w] = "open"]
        BY <1>8, <3>1 DEF InitializeCache
      <4> QED
        BY <4>1, <4>2 DEF LifecycleTypes, Register
    <3>2. CASE ~Known(settings)
      BY <1>8, <3>2 DEF LifecycleTypes, InitializeCache
    <3> QED
      BY <3>1, <3>2
  <2> QED
    BY <1>8, <2>1 DEF LifecycleTypes, InitializeCache, Phases
<1>9. CASE Stop(w)
  BY <1>0, <1>9 DEF LifecycleTypes, Stop, Phases
<1>10. CASE CloseCache(w)
  BY <1>10 DEF LifecycleTypes, CloseCache, Phases
<1>11. CASE Die(w)
  BY <1>0, <1>11 DEF LifecycleTypes, Die, Phases
<1> QED
  BY <1>1, <1>2, <1>3, <1>4, <1>5, <1>6, <1>7, <1>8, <1>9, <1>10, <1>11 DEF Runs

\* Nothing but the commit of the missing tables changes the catalog, which then
\* is complete.
LEMMA CatalogGrowsWhole ==
  ASSUME LifecycleInv, LifecycleNext
  PROVE  catalog' = catalog \/ catalog' = Tables
<1> USE DEF schema, StartFails, EndTransaction
<1>1. PICK w \in Workers : Runs(w) \/ DatabaseFails(w) \/ Stop(w) \/ Die(w)
  BY DEF LifecycleNext
<1>2. CASE phase[w] = "creating" /\ missing[w] = <<>> /\ catalog' = catalog \cup made[w]
  <2>1. /\ phase[w] = "creating" /\ missing[w] = <<>> /\ catalog' = catalog \cup made[w]
        /\ catalog \subseteq Tables /\ made[w] \subseteq Tables /\ Waits(w) = {}
    BY <1>2 DEF LifecycleInv, LifecycleTypes, Waits
  <2>2. \A n \in 1..Len(TableOrder) : TableOrder[n] \in catalog \cup made[w]
    BY <2>1 DEF LifecycleInv, SchemaKnown
  <2> QED
    BY <2>1, <2>2 DEF Tables
<1> QED
  BY <1>1, <1>2 DEF Runs, Boot, CheckTable, StartCreating, CreateTable, Created, CommitTables,
     TableExists, DatabaseFails, InitializeCache, Stop, CloseCache, Die

\* What another worker does leaves the account of the tables and of the client
\* of w as it is.
LEMMA OthersKeepLifecycle ==
  ASSUME LifecycleInv, NEW w \in Workers, settings' = settings, catalog' \in {catalog, Tables},
         phase'[w] = phase[w], looked'[w] = looked[w], missing'[w] = missing[w], made'[w] = made[w],
         backends'[w] = backends[w], default'[w] = default[w], client'[w] = client[w]
  PROVE  SchemaKnown(w)' /\ ClientKnown(w)'
<1>1. SchemaKnown(w) /\ ClientKnown(w) /\ catalog \subseteq catalog'
  BY DEF LifecycleInv, LifecycleTypes
<1>2. SchemaKnown(w)'
  <2>1. Waits(w)' = Waits(w)
    BY DEF Waits
  <2>2. CreatesTables(settings)' = CreatesTables(settings)
    BY DEF CreatesTables
  <2> QED
    BY <1>1, <2>1, <2>2 DEF SchemaKnown
<1>3. ClientKnown(w)'
  BY <1>1 DEF ClientKnown, Known
<1> QED
  BY <1>2, <1>3

\* A worker keeps the account of the tables: it looks them up one after the
\* other, and what it found missing it makes before it commits.
LEMMA OwnSchemaKnown ==
  ASSUME LifecycleInv, LifecycleTypes', NEW w \in Workers,
         Runs(w) \/ DatabaseFails(w) \/ Stop(w) \/ Die(w)
  PROVE  SchemaKnown(w)'
<1> USE DEF Enter, schema, provider, EndTransaction, Forgets
<1>0. LifecycleTypes /\ SchemaKnown(w) /\ Len(TableOrder) \in Nat /\ TableOrder \in Seq(Tables)
  BY LifecycleAssumption DEF LifecycleInv, LifecycleAssumption
<1>s. settings' = settings /\ CreatesTables(settings)' = CreatesTables(settings)
  BY DEF CreatesTables, Runs, Boot, CheckTable, StartCreating, CreateTable, CommitTables, TableExists,
     DatabaseFails, StartFails, InitializeCache, Stop, CloseCache, Die
<1>1. CASE UNCHANGED <<catalog, missing, made>> /\ looked'[w] = looked[w]
            /\ <<phase[w], phase'[w]>> \in
                 {<<"starting", "serving">>, <<"serving", "stopping">>, <<"stopping", "down">>}
  <2>1. Waits(w)' = Waits(w)
    BY <1>1 DEF Waits
  <2> QED
    BY <1>0, <1>s, <1>1, <2>1 DEF SchemaKnown
<1>2. CASE phase'[w] = "down" /\ looked'[w] = 0
  BY <1>2 DEF SchemaKnown
<1>3. CASE Boot(w)
  <2>1. looked'[w] = 0 /\ phase[w] = "down" /\ phase'[w] = IF CreatesTables(settings) THEN "checking" ELSE "starting"
    BY <1>0, <1>3 DEF Boot, LifecycleTypes, SchemaKnown
  <2> QED
    BY <1>s, <2>1 DEF SchemaKnown
<1>4. CASE CheckTable(w)
  <2> DEFINE n == looked[w] + 1
             t == TableOrder[n]
  <2>1. /\ looked[w] \in Nat /\ looked'[w] = n /\ phase'[w] = "checking"
        /\ UNCHANGED <<catalog, made>> /\ missing[w] \in Seq(Tables) /\ n \in 1..Len(TableOrder)
        /\ missing'[w] = IF SeesTable(w, t) THEN missing[w] ELSE Append(missing[w], t)
    BY <1>0, <1>4 DEF CheckTable, LifecycleTypes
  <2>2. t \in Tables
    BY <2>1 DEF Tables
  <2>3. Waits(w) \subseteq Waits(w)' /\ (SeesTable(w, t) \/ t \in Waits(w)')
    <3>1. CASE SeesTable(w, t)
      BY <2>1, <3>1 DEF Waits
    <3>2. CASE ~SeesTable(w, t)
      <4>1. missing'[w] = Append(missing[w], t)
        BY <2>1, <3>2
      <4>2. Len(missing'[w]) = Len(missing[w]) + 1 /\ missing'[w][Len(missing[w]) + 1] = t
            /\ Len(missing[w]) \in Nat
            /\ \A m \in 1..Len(missing[w]) : missing'[w][m] = missing[w][m]
        BY <2>1, <2>2, <4>1
      <4> QED
        BY <4>2 DEF Waits
    <3> QED
      BY <3>1, <3>2
  <2>4. \A m \in 1..n : TableOrder[m] \in catalog \cup made[w] \cup Waits(w)'
    <3>1. \A m \in 1..looked[w] : TableOrder[m] \in catalog \cup made[w] \cup Waits(w)'
      BY <1>0, <2>3 DEF SchemaKnown
    <3>2. t \in catalog \cup made[w] \cup Waits(w)'
      BY <2>3 DEF SeesTable
    <3>3. \A m \in 1..n : m = n \/ m \in 1..looked[w]
      BY <2>1
    <3> QED
      BY <3>1, <3>2, <3>3
  <2> QED
    BY <2>1, <2>4 DEF SchemaKnown
<1>5. CASE StartCreating(w)
  <2>1. Waits(w)' = Waits(w)
    BY <1>5 DEF StartCreating, Waits
  <2> QED
    BY <1>0, <1>5, <1>s, <2>1 DEF StartCreating, LifecycleTypes, SchemaKnown
<1>6. CASE CreateTable(w)
  <2>1. /\ missing[w] \in Seq(Tables) /\ missing[w] # <<>> /\ made'[w] = made[w] \cup {Head(missing[w])}
        /\ missing'[w] = Tail(missing[w]) /\ UNCHANGED <<catalog, looked, phase>> /\ phase[w] = "creating"
    BY <1>0, <1>6 DEF CreateTable, Created, LifecycleTypes
  <2>2. \A n \in 1..Len(missing[w]) :
          missing[w][n] = Head(missing[w])
            \/ (n - 1 \in 1..Len(missing'[w]) /\ missing'[w][n - 1] = missing[w][n])
    BY <2>1
  <2>3. Waits(w) \subseteq Waits(w)' \cup made'[w]
    BY <2>1, <2>2 DEF Waits
  <2> QED
    BY <1>0, <2>1, <2>3 DEF SchemaKnown
<1>7. CASE CommitTables(w)
  <2>1. looked'[w] = 0 /\ phase'[w] = "starting" /\ catalog' = catalog \cup made[w]
        /\ phase[w] = "creating" /\ missing[w] = <<>> /\ catalog' \subseteq Tables
    BY <1>0, <1>7 DEF CommitTables, LifecycleTypes
  <2>2. Waits(w) = {} /\ looked[w] = Len(TableOrder)
    BY <1>0, <2>1 DEF Waits, SchemaKnown
  <2>3. \A n \in 1..Len(TableOrder) : TableOrder[n] \in catalog'
    BY <1>0, <2>1, <2>2 DEF SchemaKnown
  <2> QED
    BY <2>1, <2>3 DEF SchemaKnown, Tables
<1>8. CASE TableExists(w) \/ DatabaseFails(w) \/ Die(w)
  BY <1>0, <1>2, <1>8 DEF TableExists, DatabaseFails, StartFails, Die, LifecycleTypes
<1>9. CASE InitializeCache(w) \/ Stop(w) \/ CloseCache(w)
  BY <1>0, <1>1, <1>9 DEF InitializeCache, Stop, CloseCache, LifecycleTypes
<1> QED
  BY <1>3, <1>4, <1>5, <1>6, <1>7, <1>8, <1>9 DEF Runs

\* A worker opens its client once, at the end of its start, and closes it when
\* it stops in good order.
LEMMA OwnClientKnown ==
  ASSUME LifecycleInv, NEW w \in Workers, Runs(w) \/ DatabaseFails(w) \/ Stop(w) \/ Die(w)
  PROVE  ClientKnown(w)'
<1> USE DEF Enter, schema, provider, EndTransaction, Forgets, Known
<1>0. LifecycleTypes /\ ClientKnown(w)
  BY DEF LifecycleInv
<1>1. settings' = settings
  BY DEF Runs, Boot, CheckTable, StartCreating, CreateTable, CommitTables, TableExists,
     DatabaseFails, StartFails, InitializeCache, Stop, CloseCache, Die
<1>2. CASE Boot(w)
  BY <1>0, <1>1, <1>2 DEF LifecycleTypes, ClientKnown, Boot
<1>3. CASE CheckTable(w) \/ StartCreating(w) \/ CreateTable(w) \/ CommitTables(w)
  <2>1. phase'[w] \in {"checking", "creating", "starting"} /\ phase[w] \in {"checking", "creating", "starting"}
        /\ UNCHANGED provider
    BY <1>0, <1>3 DEF LifecycleTypes, CheckTable, StartCreating, CreateTable, CommitTables
  <2> QED
    BY <1>0, <2>1 DEF ClientKnown
<1>4. CASE TableExists(w) \/ DatabaseFails(w)
  <2>1. phase'[w] = "down" /\ phase[w] \in {"checking", "creating"} /\ UNCHANGED provider
    BY <1>0, <1>4 DEF LifecycleTypes, TableExists, DatabaseFails, StartFails
  <2> QED
    BY <1>0, <2>1 DEF ClientKnown
<1>5. CASE InitializeCache(w)
  <2>1. phase'[w] = "serving" /\ phase[w] = "starting"
    BY <1>0, <1>5 DEF LifecycleTypes, InitializeCache
  <2>2. CASE settings.cache \in Servers
    <3>1. /\ default'[w] = settings.cache /\ client'[w] = "open"
          /\ backends'[w] = backends[w] \cup {settings.cache}
      BY <1>0, <1>5, <2>2 DEF LifecycleTypes, InitializeCache, Register
    <3> QED
      BY <1>1, <2>1, <2>2, <3>1 DEF ClientKnown
  <2>3. CASE settings.cache \notin Servers
    BY <1>0, <1>1, <1>5, <2>1, <2>3 DEF InitializeCache, ClientKnown
  <2> QED
    BY <2>2, <2>3
<1>6. CASE Stop(w)
  BY <1>0, <1>1, <1>6 DEF LifecycleTypes, ClientKnown, Stop
<1>7. CASE CloseCache(w)
  BY <1>0, <1>7 DEF LifecycleTypes, ClientKnown, CloseCache, Closes
<1>8. CASE Die(w)
  BY <1>0, <1>8 DEF LifecycleTypes, ClientKnown, Die
<1> QED
  BY <1>2, <1>3, <1>4, <1>5, <1>6, <1>7, <1>8 DEF Runs

\* Every step keeps the invariant of the processes.
LEMMA LifecycleKept == ASSUME LifecycleInv, [Next]_vars PROVE LifecycleInv'
<1>1. CASE UNCHANGED lifecycle
  <2>1. LifecycleTypes'
    BY <1>1 DEF lifecycle, LifecycleInv, LifecycleTypes
  <2>2. ASSUME NEW w \in Workers PROVE SchemaKnown(w)' /\ ClientKnown(w)'
    BY <1>1, OthersKeepLifecycle DEF lifecycle
  <2> QED
    BY <2>1, <2>2 DEF LifecycleInv
<1>2. CASE LifecycleNext
  <2>1. LifecycleTypes' /\ catalog' \in {catalog, Tables}
    BY <1>2, LifecycleTypesKept, CatalogGrowsWhole DEF LifecycleInv
  <2>2. PICK v \in Workers : Runs(v) \/ DatabaseFails(v) \/ Stop(v) \/ Die(v)
    BY <1>2 DEF LifecycleNext
  <2>3. ASSUME NEW w \in Workers PROVE SchemaKnown(w)' /\ ClientKnown(w)'
    <3>1. CASE w = v
      BY <2>1, <2>2, <3>1, OwnSchemaKnown, OwnClientKnown
    <3>2. CASE w # v
      <4>1. /\ settings' = settings /\ phase'[w] = phase[w] /\ looked'[w] = looked[w]
            /\ missing'[w] = missing[w] /\ made'[w] = made[w] /\ backends'[w] = backends[w]
            /\ default'[w] = default[w] /\ client'[w] = client[w]
        BY <2>2, <3>2
           DEF LifecycleInv, LifecycleTypes, Enter, schema, provider, EndTransaction, Forgets, Runs, Boot,
               CheckTable, StartCreating, CreateTable, Created, CommitTables, TableExists, DatabaseFails,
               StartFails, InitializeCache, Register, Stop, CloseCache, Die
      <4> QED
        BY <2>1, <4>1, OthersKeepLifecycle
    <3> QED
      BY <3>1, <3>2
  <2> QED
    BY <2>1, <2>3 DEF LifecycleInv
<1> QED
  BY <1>1, <1>2, LifecycleApart

\* The invariant of every behaviour.
LEMMA LifecycleInvariant == Spec => []LifecycleInv
  BY LifecycleInitHolds, LifecycleKept, PTL DEF Spec, Init

\* A worker that is to create the tables answers requests only when all of
\* them are committed, however many have started at once or failed.
THEOREM ServedSchemaIsComplete == Spec => []ServingHasSchema
<1>1. LifecycleInv => ServingHasSchema
  BY DEF LifecycleInv, SchemaKnown, ServingHasSchema
<1> QED
  BY <1>1, LifecycleInvariant, PTL

\* A serving worker has an open client of its configured backend, and one that
\* is down holds none open.
THEOREM ClientsAreManaged == Spec => []ClientsFollowTheWorker
<1>1. LifecycleInv => ClientsFollowTheWorker
  BY DEF LifecycleInv, ClientKnown, ClientsFollowTheWorker
<1> QED
  BY <1>1, LifecycleInvariant, PTL

\* The missing tables are committed all together or not at all.
THEOREM SchemaAppearsWhole == Spec => SchemaIsWhole
<1>1. LifecycleInv /\ [Next]_vars => [catalog' # catalog => catalog' = Tables]_vars
  BY LifecycleApart, CatalogGrowsWhole DEF lifecycle
<1> QED
  BY <1>1, LifecycleInvariant, PTL DEF Spec, SchemaIsWhole

-----------------------------------------------------------------------------
(* The server, and what callers see of it.                                 *)

\* What the codec makes of a value and back: characters of a known type, the
\* same value again for one that is kept, and never "no entry".
LEMMA CodecTypes ==
  /\ \A c \in Characters : Decode(c) \in [type : Types, chars : Characters] /\ Decode(c) # NoEntry
  /\ \A v \in Values : Encode(v) \in Characters /\ v # NoEntry
  /\ \A v \in Faithful : Decode(Encode(v)) = v
  /\ Nil \in [type : Types, chars : Characters] /\ Nil # NoEntry
<1> USE CacheServerAssumption DEF CacheServerAssumption
<1>1. ASSUME NEW c \in Characters
      PROVE  Decode(c) \in [type : Types, chars : Characters]
  BY DEF Decode, Characters, Types, JsonType
<1>2. \A v \in Values : Encode(v) \in Characters
  BY DEF Encode
<1>3. ASSUME NEW v \in Faithful PROVE Decode(Encode(v)) = v
  <2>1. v \in [type : Types, chars : Characters]
    BY DEF Faithful
  <2>2. v = [type |-> v.type, chars |-> v.chars]
    BY <2>1
  <2>3. Decode(v.chars).type = v.type
    BY DEF Faithful, Decode
  <2> QED
    BY <2>2, <2>3 DEF Decode, Encode
<1>4. Nil \in [type : Types, chars : Characters]
  BY DEF Nil, Types, Characters, JsonType
<1> QED
  BY <1>1, <1>2, <1>3, <1>4

KeyedCalls == {"set", "get", "exists", "delete", "delete_pattern", "clear"}

\* A call that gets no further than the provider or the connection.
Refused(call, k) ==
  \/ Refuses(call, k, "unregistered")
  \/ ~up /\ Refuses(call, k, "raised")

\* A call of a worker is one operation of a backend, or it is refused.
LEMMA CallIsOperation ==
  ASSUME NEW w \in Workers, Calls(w)
  PROVE  \/ \E k \in Keys, v \in Values, seconds \in Expirations : \E name : SetEntry(name, k, v, seconds)
         \/ \E k \in Keys : GetEntry(k) \/ DeleteEntry(k) \/ \E name : Exists(name, k)
         \/ \E K \in SUBSET Keys : \E name : DeleteMatching(name, K)
         \/ ClearAll \/ Ping
         \/ \E call \in KeyedCalls, k \in Keys \cup {NoEntry} : Refused(call, k)
<1> USE DEF Through, NotFound, Unreachable, Refused, KeyedCalls
<1>1. ASSUME NEW k \in Keys, NEW v \in Values, NEW seconds \in Expirations, Set(w, k, v, seconds)
      PROVE  (\E name : SetEntry(name, k, v, seconds)) \/ Refused("set", k)
  BY <1>1 DEF Set
<1>2. ASSUME NEW k \in Keys, Get(w, k)
      PROVE  GetEntry(k) \/ Refused("get", k)
  BY <1>2 DEF Get
<1>3. ASSUME NEW k \in Keys, Delete(w, k)
      PROVE  DeleteEntry(k) \/ Refused("delete", k)
  BY <1>3 DEF Delete
<1>4. ASSUME NEW k \in Keys, ExistsKey(w, k)
      PROVE  (\E name : Exists(name, k)) \/ Refused("exists", k)
  BY <1>4 DEF ExistsKey
<1>5. ASSUME NEW K \in SUBSET Keys, DeletePattern(w, K)
      PROVE  (\E name : DeleteMatching(name, K)) \/ Refused("delete_pattern", NoEntry)
  BY <1>5 DEF DeletePattern
<1>6. ASSUME Clear(w)
      PROVE  ClearAll \/ Refused("clear", NoEntry)
  BY <1>6 DEF Clear
<1>7. ASSUME PingAll(w) PROVE Ping
  BY <1>7 DEF PingAll
<1> QED
  BY <1>1, <1>2, <1>3, <1>4, <1>5, <1>6, <1>7 DEF Calls

\* Every step keeps the types of the server.
LEMMA ServerTypesKept == ASSUME ServerTypes, [Next]_vars PROVE ServerTypes'
<1> DEFINE EntryType == [data : Characters, expires : BOOLEAN] \cup {NoEntry}
           ReplyType == [call : CacheCalls, key : Keys \cup {NoEntry},
                         value : [type : Types, chars : Characters] \cup {NoEntry}, outcome : CacheOutcomes]
<1>1. \A K : Left(K) \in [Keys -> EntryType]
  BY DEF ServerTypes, Left
<1>2. \A call \in CacheCalls, k \in Keys \cup {NoEntry}, o \in CacheOutcomes :
        \A v \in [type : Types, chars : Characters] \cup {NoEntry} : Says(call, k, v, o) => reply' \in ReplyType
  BY DEF Says
<1>3. \A call \in CacheCalls, k \in Keys \cup {NoEntry}, o \in CacheOutcomes :
        Refuses(call, k, o) => reply' \in ReplyType /\ entries' = entries
  BY <1>2 DEF Refuses
<1> USE DEF CacheCalls, CacheOutcomes
<1>4. ASSUME NEW w \in Workers, Calls(w) PROVE ServerTypes'
  <2>1. up' = up /\ up \in BOOLEAN /\ entries \in [Keys -> EntryType]
    BY <1>4 DEF ServerTypes, Calls, Get, Set, Delete, DeletePattern, ExistsKey, Clear, PingAll, Through
  <2>2. ASSUME NEW k \in Keys, NEW v \in Values, NEW seconds, NEW name, SetEntry(name, k, v, seconds)
        PROVE  entries' \in [Keys -> EntryType] /\ reply' \in ReplyType
    <3> DEFINE entry == [data |-> Encode(v), expires |-> Fate(name, seconds) = "expires"]
    <3>1. entry \in EntryType
      BY CodecTypes
    <3>2. [entries EXCEPT ![k] = entry] \in [Keys -> EntryType]
      BY <2>1, <3>1
    <3>3. Says("set", k, v, "done") \/ Says("set", k, NoEntry, "raised")
      BY <2>2 DEF SetEntry, Effect, Refuses
    <3>4. reply' \in ReplyType
      <4>1. v \in [type : Types, chars : Characters] \cup {NoEntry} /\ k \in Keys \cup {NoEntry}
        BY CacheServerAssumption DEF CacheServerAssumption
      <4>2. \A u \in {v, NoEntry}, o \in {"done", "raised"} : Says("set", k, u, o) => reply' \in ReplyType
        BY <1>2, <4>1
      <4> QED
        BY <3>3, <4>2
    <3>5. entries' = entries \/ entries' = Left({k}) \/ entries' = [entries EXCEPT ![k] = entry]
      <4>1. CASE Fate(name, seconds) = "refused"
        BY <2>2, <4>1 DEF SetEntry, Refuses
      <4>2. CASE Fate(name, seconds) # "refused"
        BY <2>2, <4>2 DEF SetEntry, Effect
      <4> QED
        BY <4>1, <4>2
    <3> HIDE DEF entry, EntryType, ReplyType
    <3> QED
      BY <1>1, <2>1, <3>2, <3>4, <3>5
  <2>3. ASSUME NEW k \in Keys, GetEntry(k)
        PROVE  entries' \in [Keys -> EntryType] /\ reply' \in ReplyType
    <3>1. (IF entries[k] = NoEntry THEN Nil ELSE Decode(entries[k].data)) \in [type : Types, chars : Characters]
      BY <2>1, CodecTypes
    <3> QED
      BY <1>2, <2>1, <2>3, <3>1 DEF GetEntry
  <2>4. ASSUME NEW k \in Keys, NEW name, DeleteEntry(k) \/ Exists(name, k)
        PROVE  entries' \in [Keys -> EntryType] /\ reply' \in ReplyType
    BY <1>1, <1>2, <1>3, <2>1, <2>4 DEF DeleteEntry, Exists, Effect
  <2>5. ASSUME NEW name, NEW K \in SUBSET Keys, DeleteMatching(name, K) \/ ClearAll \/ Ping
        PROVE  entries' \in [Keys -> EntryType] /\ reply' \in ReplyType
    BY <1>1, <1>2, <1>3, <2>1, <2>5 DEF DeleteMatching, ClearAll, Ping, Effect
  <2>6. entries' \in [Keys -> EntryType] /\ reply' \in ReplyType
    <3>1. ASSUME NEW call \in KeyedCalls, NEW k \in Keys \cup {NoEntry}, Refused(call, k)
          PROVE  entries' \in [Keys -> EntryType] /\ reply' \in ReplyType
      BY <1>3, <2>1, <3>1 DEF Refused, KeyedCalls
    <3> HIDE DEF EntryType, ReplyType
    <3> QED
      BY <1>4, <2>2, <2>3, <2>4, <2>5, <3>1, CallIsOperation
  <2> QED
    BY <2>1, <2>6 DEF ServerTypes
<1>5. CASE ServerNext
  <2>1. up' \in BOOLEAN /\ reply' = reply
    BY <1>5 DEF ServerNext, GoDown, ComeUp, Expire, ServerTypes
  <2>2. entries' = entries \/ \E K : entries' = Left(K)
    <3> HIDE DEF EntryType, ReplyType
    <3> QED
      BY <1>5 DEF ServerNext, GoDown, ComeUp, Expire
  <2>3. entries \in [Keys -> EntryType] /\ reply \in ReplyType
    BY DEF ServerTypes
  <2>4. entries' \in [Keys -> EntryType]
    <3> HIDE DEF EntryType, ReplyType
    <3> QED
      BY <1>1, <2>2, <2>3
  <2> QED
    BY <2>1, <2>3, <2>4 DEF ServerTypes
<1>6. CASE UNCHANGED server
  BY <1>6 DEF server, ServerTypes
<1> QED
  BY <1>4, <1>5, <1>6 DEF Next, vars

\* Every variable holds a value of its kind at all times.
THEOREM BackendIsTyped == Spec => []TypeOK
<1>1. Init => ServerTypes
  BY CodecTypes DEF Init, ServerInit, ServerTypes, CacheCalls, CacheOutcomes
<1>2. LifecycleInv /\ ServerTypes => TypeOK
  BY DEF LifecycleInv, LifecycleTypes, ServerTypes, TypeOK
<1> QED
  BY <1>1, <1>2, ServerTypesKept, LifecycleInvariant, PTL DEF Spec

-----------------------------------------------------------------------------
(* The refinement of SharedCache.                                          *)

\* An entry of its kind is none of the absent ones, and to readers neither.
LEMMA ReadableTypes ==
  ASSUME ServerTypes
  PROVE  /\ \A k \in Keys : Readable[k] = IF entries[k] = NoEntry THEN NoEntry ELSE Decode(entries[k].data)
         /\ \A k \in Keys : Readable[k] = NoEntry <=> entries[k] = NoEntry
<1>1. \A k \in Keys : entries[k] # NoEntry => Decode(entries[k].data) # NoEntry
  BY CodecTypes DEF ServerTypes
<1> QED
  BY <1>1 DEF Readable

\* What is emptied on the server is lacking to readers.
LEMMA LeftIsLacking ==
  ASSUME NEW K, entries' = Left(K)
  PROVE  Readable' = Contract!Lacking(K)
<1> QED
  BY DEF Readable, Left, Contract!Lacking

\* A server that is up stays up while connections do not break.
LEMMA ReliableStaysUp == ASSUME Reliable PROVE Spec => []up
<1>1. Init => up
  BY DEF Init, ServerInit
<1>2. ASSUME up, [Next]_vars PROVE up'
  <2>1. ASSUME NEW w \in Workers, Calls(w) PROVE up' = up
    BY <2>1 DEF Calls, Get, Set, Delete, DeletePattern, ExistsKey, Clear, PingAll, Through
  <2> QED
    BY <1>2, <2>1 DEF Next, vars, server, ServerNext, GoDown, ComeUp, Expire
<1> QED
  BY <1>1, <1>2, PTL DEF Spec

\* What readers see of the entries is a value that was set, never None.
ReadableIsSet == \A k \in Keys : entries[k] # NoEntry => Decode(entries[k].data) \in Values

\* A value that the codec keeps is what readers see of its entry.
LEMMA SetIsReadable ==
  ASSUME WellUsed, ServerTypes, NEW k \in Keys, NEW v \in Values, NEW b \in BOOLEAN,
         entries' = [entries EXCEPT ![k] = [data |-> Encode(v), expires |-> b]]
  PROVE  Readable' = [Readable EXCEPT ![k] = v] /\ Decode(entries'[k].data) = v
<1> DEFINE entry == [data |-> Encode(v), expires |-> b]
<1>1. entry \in [data : Characters, expires : BOOLEAN]
  BY CodecTypes
<1>2. entry # NoEntry /\ entry.data = Encode(v)
  BY <1>1, CacheServerAssumption DEF CacheServerAssumption
<1> HIDE DEF entry
<1>3. Decode(entry.data) = v
  BY <1>2, CodecTypes DEF WellUsed
<1>4. entries' = [entries EXCEPT ![k] = entry]
  BY DEF entry
<1> QED
  BY <1>2, <1>3, <1>4 DEF Readable, ServerTypes

\* To both servers an expiration of a minute to thirty days is one.
LEMMA UsualFate ==
  ASSUME WellUsed, NEW seconds \in Expirations, NEW name
  PROVE  Fate(name, seconds) = "expires"
<1>1. seconds \in 1..MonthSeconds
  BY DEF WellUsed
<1>2. MonthSeconds \in Nat
  BY SMT DEF MonthSeconds
<1>3. seconds # 0 /\ ~(seconds > MonthSeconds)
  BY <1>1, <1>2
<1> QED
  BY <1>3 DEF Fate

\* Every call of a worker is a call of the one cache that is documented.
LEMMA CallsAreShared ==
  ASSUME Reliable, WellUsed, up, ServerTypes, ReadableIsSet, NEW w \in Workers, Calls(w)
  PROVE  Contract!SNext /\ ReadableIsSet'
<1> USE DEF Contract!Reply, Says
<1>0. UNCHANGED entries => UNCHANGED Readable /\ ReadableIsSet'
  BY DEF Readable, ReadableIsSet
<1>a. \A K : entries' = Left(K) => Readable' = Contract!Lacking(K) /\ ReadableIsSet'
  BY LeftIsLacking DEF ReadableIsSet, Left
<1>1. ASSUME NEW call \in KeyedCalls, NEW k \in Keys \cup {NoEntry}, Refused(call, k)
      PROVE  Contract!SNext /\ ReadableIsSet'
  BY <1>0, <1>1 DEF Refused, Refuses, KeyedCalls, Contract!SNext, Contract!Unregistered
<1>2. ASSUME NEW k \in Keys, NEW v \in Values, NEW seconds \in Expirations, NEW name, SetEntry(name, k, v, seconds)
      PROVE  Contract!Put(k, v) /\ ReadableIsSet'
  <2>1. entries' = [entries EXCEPT ![k] = [data |-> Encode(v), expires |-> TRUE]] /\ Says("set", k, v, "done")
    BY <1>2, UsualFate DEF SetEntry, Effect
  <2>2. Readable' = [Readable EXCEPT ![k] = v] /\ Decode(entries'[k].data) = v
    BY <2>1, SetIsReadable
  <2>3. ReadableIsSet'
    BY <2>1, <2>2 DEF ReadableIsSet, ServerTypes
  <2> QED
    BY <2>1, <2>2, <2>3 DEF Contract!Put
<1>3. ASSUME NEW k \in Keys, GetEntry(k) PROVE Contract!Look(k) /\ ReadableIsSet'
  BY <1>0, <1>3, ReadableTypes DEF GetEntry, Contract!Look
<1>4. ASSUME NEW k \in Keys, DeleteEntry(k) PROVE Contract!Drop("delete", k, {k}) /\ ReadableIsSet'
  BY <1>a, <1>4 DEF DeleteEntry, Effect, Contract!Drop
<1>5. ASSUME NEW k \in Keys, NEW name, Exists(name, k) PROVE Contract!Has(k) /\ ReadableIsSet'
  <2>1. entries[k] # NoEntry => Decode(entries[k].data) # Nil
    BY DEF ReadableIsSet, WellUsed
  <2> QED
    BY <1>0, <1>5, <2>1, ReadableTypes DEF Exists, Contract!Has
<1>6. ASSUME NEW K \in SUBSET Keys, NEW name, DeleteMatching(name, K)
      PROVE  (Contract!Drop("delete_pattern", NoEntry, K) \/ Contract!Unsupported) /\ ReadableIsSet'
  BY <1>0, <1>a, <1>6 DEF DeleteMatching, Effect, Refuses, Contract!Drop, Contract!Unsupported
<1>7. ClearAll => Contract!Drop("clear", NoEntry, Keys) /\ ReadableIsSet'
  BY <1>a DEF ClearAll, Effect, Contract!Drop
<1>8. Ping => Contract!Ping /\ ReadableIsSet'
  BY <1>0 DEF Ping, Contract!Ping
<1> QED
  BY <1>1, <1>2, <1>3, <1>4, <1>5, <1>6, <1>7, <1>8, CallIsOperation DEF Contract!SNext

\* What the server does by itself makes the shared cache forget, or nothing.
LEMMA StepsAreShared ==
  ASSUME Reliable, WellUsed, up, ServerTypes, ReadableIsSet, [Next]_vars
  PROVE  [Contract!SNext]_(Contract!shared) /\ ReadableIsSet'
<1>1. UNCHANGED <<entries, reply>> => UNCHANGED Contract!shared /\ ReadableIsSet'
  BY DEF Readable, Contract!shared, ReadableIsSet
<1>2. \A K \in SUBSET Keys : entries' = Left(K) /\ reply' = reply => Contract!SNext /\ ReadableIsSet'
  BY LeftIsLacking DEF Contract!SNext, Contract!Forget, ReadableIsSet, Left
<1>3. CASE ServerNext
  BY <1>1, <1>2, <1>3 DEF ServerNext, GoDown, ComeUp, Expire
<1>4. CASE UNCHANGED server
  BY <1>1, <1>4 DEF server
<1> QED
  BY <1>3, <1>4, CallsAreShared DEF Next, vars

\* While the server can be reached, and if callers set values that the codec
\* keeps for a time that both servers understand: workers that come and go and
\* two backends with different ideas of patterns are, to callers, the cache that
\* the documents describe.
THEOREM OneSharedCache == ASSUME Reliable, WellUsed PROVE Spec => ImplementsSharedCache
<1>1. Init => Contract!SInit /\ ServerTypes /\ ReadableIsSet
  BY CodecTypes DEF Init, ServerInit, ServerTypes, CacheCalls, CacheOutcomes, Readable, ReadableIsSet, Contract!SInit
<1>2. up /\ ServerTypes /\ ReadableIsSet /\ [Next]_vars => [Contract!SNext]_(Contract!shared) /\ ReadableIsSet'
  BY StepsAreShared
<1> QED
  BY <1>1, <1>2, ServerTypesKept, ReliableStaysUp, PTL DEF Spec, ImplementsSharedCache, Contract!SSpec

-----------------------------------------------------------------------------
(* The answers.                                                            *)

Statuses == {200, 403, 404, 422, 500}
OuterLayers == {"client_cache", "cors", "gzip", "security"}

\* An answer on its way out: the layers of L that are enabled, and no others,
\* have seen it, and below /api/ it is for nobody else to keep.
WellDressed(d, path, a, L) ==
  /\ a \in [status : Statuses, support : BOOLEAN, cache : {"default", "no_store", "public"},
            passed : SUBSET (OuterLayers \cup {"hsts"})]
  /\ \A layer \in L : Enabled(d, layer) => layer \in a.passed
  /\ \A layer \in OuterLayers : layer \in a.passed => layer \in L /\ Enabled(d, layer)
  /\ path = "api" => a.cache # "public"

\* What a route or a registered handler answers has a status of the list; only
\* what fails while the response is made is still an exception.
LEMMA RoutedIsAnswered ==
  ASSUME NEW o \in Outcomes
  PROVE  \/ o = <<"response", "unexpected">> /\ Routed(o) = Raised
         \/ /\ o # <<"response", "unexpected">>
            /\ \E s \in Statuses, b \in BOOLEAN : Routed(o) = Answer(s, b)
<1>1. \A error \in DomainErrors : MappedStatus(error) \in Statuses
  BY DEF DomainErrors, MappedStatus, Statuses
<1>2. \A error \in {"none", "http", "unexpected"} \cup DomainErrors : HandlerStatus(error) \in Statuses
  <2>1. HandlerStatus("none") = 200 /\ HandlerStatus("http") = 404 /\ HandlerStatus("unexpected") = 500
    BY DEF HandlerStatus, DomainErrors
  <2>2. \A error \in DomainErrors : HandlerStatus(error) = MappedStatus(error)
    BY DEF HandlerStatus, DomainErrors
  <2> QED
    BY <1>1, <2>1, <2>2 DEF Statuses
<1>3. CASE o = <<"body", "invalid">>
  <2>1. o[1] = "body" /\ o # <<"response", "unexpected">>
    BY <1>3
  <2>2. Routed(o) = Answer(422, TRUE)
    BY <2>1 DEF Routed
  <2> QED
    BY <2>1, <2>2 DEF Statuses
<1>4. CASE o = <<"response", "unexpected">>
  <2>1. o[1] = "response"
    BY <1>4
  <2>2. Routed(o) = Raised
    BY <2>1 DEF Routed
  <2> QED
    BY <1>4, <2>2
<1>5. CASE o \in {"dependency"} \X DomainErrors
  <2>1. o[1] = "dependency" /\ o[2] \in DomainErrors /\ o # <<"response", "unexpected">>
    BY <1>5
  <2>2. Routed(o) = Answer(MappedStatus(o[2]), TRUE)
    BY <2>1 DEF Routed
  <2> QED
    BY <1>1, <2>1, <2>2
<1>6. CASE o \in {"handler"} \X ({"none", "http", "unexpected"} \cup DomainErrors)
  <2>1. /\ o[1] = "handler" /\ o[2] \in {"none", "http", "unexpected"} \cup DomainErrors
        /\ o # <<"response", "unexpected">>
    BY <1>6
  <2>2. Routed(o) = Answer(HandlerStatus(o[2]), FALSE)
    BY <2>1 DEF Routed
  <2> QED
    BY <1>2, <2>1, <2>2
<1> QED
  BY <1>3, <1>4, <1>5, <1>6 DEF Outcomes

\* The innermost layer catches everything.
LEMMA ErrorsAreCaught ==
  ASSUME NEW d, NEW path, NEW o \in Outcomes
  PROVE  /\ WellDressed(d, path, Wrapped(d, path, Routed(o), 1), {})
         /\ o = <<"response", "unexpected">> => Wrapped(d, path, Routed(o), 1).support
<1>1. AddOrder[1] = "errors" /\ Enabled(d, "errors")
  BY DEF AddOrder, Enabled
<1>2. Wrapped(d, path, Routed(o), 1) = IF Routed(o) = Raised THEN Answer(500, TRUE) ELSE Routed(o)
  BY <1>1 DEF Wrapped, Dressed
<1>3. ASSUME NEW s \in Statuses, NEW b \in BOOLEAN
      PROVE  WellDressed(d, path, Answer(s, b), {}) /\ Answer(s, b) # Raised /\ Answer(s, b).support = b
  BY <1>3 DEF WellDressed, Answer, Raised, Statuses
<1>4. CASE o = <<"response", "unexpected">>
  <2>1. Wrapped(d, path, Routed(o), 1) = Answer(500, TRUE) /\ 500 \in Statuses
    BY <1>2, <1>4, RoutedIsAnswered DEF Statuses
  <2>2. Answer(500, TRUE).support
    BY DEF Answer
  <2> QED
    BY <1>3, <2>1, <2>2
<1>5. CASE o # <<"response", "unexpected">>
  <2>1. PICK s \in Statuses, b \in BOOLEAN : Routed(o) = Answer(s, b)
    BY <1>5, RoutedIsAnswered
  <2>2. Wrapped(d, path, Routed(o), 1) = Answer(s, b)
    BY <1>2, <1>3, <2>1
  <2> QED
    BY <1>3, <1>5, <2>2
<1> QED
  BY <1>4, <1>5

\* Every further layer adds its mark if it is enabled, and nothing else.
LEMMA LayerDresses ==
  ASSUME NEW d, NEW path, NEW a, NEW L, NEW M, NEW n \in 2..5,
         WellDressed(d, path, a, L), M = L \cup {AddOrder[n]}
  PROVE  /\ WellDressed(d, path, Wrapped(d, path, a, n), M)
         /\ Wrapped(d, path, a, n).support = a.support
<1> DEFINE layer == AddOrder[n]
           b == Wrapped(d, path, a, n)
           more == IF layer = "security" /\ d.environment \in {"production", "staging"}
                     THEN {"hsts"} ELSE {}
           cached == IF layer # "client_cache" THEN a.cache
                     ELSE IF path = "api" THEN "no_store" ELSE "public"
<1>1. layer \in OuterLayers /\ layer # "errors"
  BY DEF AddOrder, OuterLayers
<1>2. CASE ~Enabled(d, layer)
  <2>1. b = a
    BY <1>2 DEF Wrapped
  <2> HIDE DEF b, layer
  <2> QED
    BY <1>2, <2>1 DEF WellDressed, b, layer
<1>3. CASE Enabled(d, layer)
  <2>1. a # Raised
    BY DEF WellDressed, Raised, Answer, Statuses
  <2>2. b = [a EXCEPT !.passed = @ \cup {layer} \cup more, !.cache = cached]
    BY <1>1, <1>3, <2>1 DEF Wrapped, Dressed
  <2>3. a \in [status : Statuses, support : BOOLEAN, cache : {"default", "no_store", "public"},
              passed : SUBSET (OuterLayers \cup {"hsts"})]
    BY DEF WellDressed
  <2>4. more \subseteq {"hsts"} /\ cached \in {"default", "no_store", "public"}
        /\ (path = "api" => cached # "public")
    BY <2>3 DEF WellDressed
  <2> HIDE DEF b, layer, more, cached
  <2>5. b.passed = a.passed \cup {layer} \cup more /\ b.cache = cached /\ b.support = a.support
        /\ b \in [status : Statuses, support : BOOLEAN, cache : {"default", "no_store", "public"},
                  passed : SUBSET (OuterLayers \cup {"hsts"})]
    BY <1>1, <2>2, <2>3, <2>4
  <2>6. "hsts" \notin OuterLayers
    BY DEF OuterLayers
  <2>7. WellDressed(d, path, b, L \cup {layer})
    BY <1>1, <1>3, <2>4, <2>5, <2>6 DEF WellDressed
  <2> QED
    BY <2>5, <2>7 DEF b, layer
<1> QED
  BY <1>2, <1>3

\* Whatever the outcome, the answer has been through all layers.
LEMMA AnswerIsDressed ==
  ASSUME NEW d, NEW path, NEW o \in Outcomes
  PROVE  /\ WellDressed(d, path, AnswerTo(d, path, o), OuterLayers)
         /\ o = <<"response", "unexpected">> => AnswerTo(d, path, o).support
<1> DEFINE a1 == Wrapped(d, path, Routed(o), 1)
           a2 == Wrapped(d, path, a1, 2)
           a3 == Wrapped(d, path, a2, 3)
           a4 == Wrapped(d, path, a3, 4)
           a5 == Wrapped(d, path, a4, 5)
           L2 == {"client_cache"}
           L3 == {"client_cache", "cors"}
           L4 == {"client_cache", "cors", "gzip"}
<1>1. /\ L2 = {} \cup {AddOrder[2]} /\ L3 = L2 \cup {AddOrder[3]} /\ L4 = L3 \cup {AddOrder[4]}
      /\ OuterLayers = L4 \cup {AddOrder[5]}
  BY DEF AddOrder, OuterLayers
<1>2. WellDressed(d, path, a1, {})
      /\ (o = <<"response", "unexpected">> => a1.support)
  BY ErrorsAreCaught
<1> HIDE DEF a1, a2, a3, a4, a5, L2, L3, L4
<1>3. WellDressed(d, path, a2, L2) /\ a2.support = a1.support
  <2>1. 2 \in 2..5 /\ WellDressed(d, path, a1, {}) /\ L2 = {} \cup {AddOrder[2]}
    BY <1>1, <1>2
  <2>2. /\ WellDressed(d, path, Wrapped(d, path, a1, 2), L2)
        /\ Wrapped(d, path, a1, 2).support = a1.support
    BY ONLY <2>1, LayerDresses
  <2> QED
    BY <2>2 DEF a2
<1>4. WellDressed(d, path, a3, L3) /\ a3.support = a2.support
  <2>1. 3 \in 2..5 /\ WellDressed(d, path, a2, L2) /\ L3 = L2 \cup {AddOrder[3]}
    BY <1>1, <1>3
  <2>2. /\ WellDressed(d, path, Wrapped(d, path, a2, 3), L3)
        /\ Wrapped(d, path, a2, 3).support = a2.support
    BY ONLY <2>1, LayerDresses
  <2> QED
    BY <2>2 DEF a3
<1>5. WellDressed(d, path, a4, L4) /\ a4.support = a3.support
  <2>1. 4 \in 2..5 /\ WellDressed(d, path, a3, L3) /\ L4 = L3 \cup {AddOrder[4]}
    BY <1>1, <1>4
  <2>2. /\ WellDressed(d, path, Wrapped(d, path, a3, 4), L4)
        /\ Wrapped(d, path, a3, 4).support = a3.support
    BY ONLY <2>1, LayerDresses
  <2> QED
    BY <2>2 DEF a4
<1>6. WellDressed(d, path, a5, OuterLayers) /\ a5.support = a4.support
  <2>1. 5 \in 2..5 /\ WellDressed(d, path, a4, L4) /\ OuterLayers = L4 \cup {AddOrder[5]}
    BY <1>1, <1>5
  <2>2. /\ WellDressed(d, path, Wrapped(d, path, a4, 5), OuterLayers)
        /\ Wrapped(d, path, a4, 5).support = a4.support
    BY ONLY <2>1, LayerDresses
  <2> QED
    BY <2>2 DEF a5
<1>7. a5 # Raised
  BY <1>6 DEF WellDressed, Raised, Answer, Statuses
<1>8. AnswerTo(d, path, o) = a5
  BY <1>7 DEF AnswerTo, a1, a2, a3, a4, a5
<1> QED
  BY <1>2, <1>3, <1>4, <1>5, <1>6, <1>8

\* Whatever a route does, in whatever deployment: the client gets a status, the
\* answer has passed exactly the layers that are enabled, nothing below /api/
\* is cached publicly, and production documents itself only when told to.
THEOREM AnswersAreDressed == Spec => []AnswersFollowTheDeployment
<1>1. ASSUME NEW p \in Paths, NEW o \in Outcomes
      PROVE  LET a == AnswerTo(settings, p, o)
             IN  /\ a.status \in {200, 403, 404, 422, 500}
                 /\ \A layer \in {"client_cache", "cors", "gzip", "security"} :
                      layer \in a.passed <=> Enabled(settings, layer)
                 /\ p = "api" => a.cache # "public"
                 /\ o = <<"response", "unexpected">> => a.support
  BY AnswerIsDressed DEF WellDressed, OuterLayers, Statuses
<1>2. settings.environment = "production" /\ ~DocsOptIn(settings) => DocsPaths(settings) = {}
  BY DEF DocsPaths, HidesDocs, ShowsDocs
<1>3. AnswersFollowTheDeployment
  BY <1>1, <1>2 DEF AnswersFollowTheDeployment
<1> QED
  BY <1>3, PTL
=============================================================================
