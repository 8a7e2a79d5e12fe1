------------------------------- MODULE Lifecycle -------------------------------
(***************************************************************************)
(* Start and stop of the worker processes of one deployment: the lifespan  *)
(* of infrastructure/app_factory.py with create_tables on a database that  *)
(* all workers share (infrastructure/database/session.py), initialize_cache*)
(* and close_cache (infrastructure/cache/initialize.py), and the backends  *)
(* registered with the cache provider of each process (provider.py).       *)
(*                                                                         *)
(* create_all looks every table up first, then creates the missing ones,   *)
(* in one transaction.  A CREATE TABLE waits while another transaction has *)
(* created the same table and is still open, and fails once that one has   *)
(* committed.                                                              *)
(*                                                                         *)
(* A definition whose comment begins with "Altered" is a plausible slip in *)
(* the one that follows it; Next never reaches it.                         *)
(***************************************************************************)
EXTENDS Application, FiniteSets

CONSTANTS
  Workers,      \* worker processes, kept alive by a supervisor
  TableOrder,   \* the tables of Base.metadata, referenced ones first
  Deployments,  \* settings that the workers may share
  NoBackend,    \* nothing registered
  MaxMishaps    \* bound: stops, deaths and database failures in a behaviour

Tables == {TableOrder[n] : n \in 1..Len(TableOrder)}
Servers == {"redis", "memcached"}

ASSUME LifecycleAssumption ==
  /\ TableOrder \in Seq(Tables)
  /\ MaxMishaps \in Nat
  /\ NoBackend \notin Servers
  /\ \A d \in Deployments :
       d.cache \in Servers \cup {"none", "memory"} /\ CreatesTables(d) \in BOOLEAN

VARIABLES
  settings,  \* the deployment, the same for all and for good
  catalog,   \* the tables that are committed
  phase,     \* where each worker is
  looked,    \* how many tables create_all has looked up
  missing,   \* the tables it has found missing and not created yet
  made,      \* the tables it has created and not committed
  backends,  \* the names registered with each worker's cache provider
  default,   \* the provider's default backend
  client,    \* "none", "open" or "closed": the client of the cache server
  mishaps    \* how many mishaps there have been

lifecycle == <<settings, catalog, phase, looked, missing, made, backends, default, client, mishaps>>
schema == <<catalog, looked, missing, made>>
provider == <<backends, default, client>>

\* A prefix of the tables is there already: none, those of an earlier release,
\* or all of them after a migration.
LifecycleInit ==
  /\ settings \in Deployments
  /\ \E n \in 0..Len(TableOrder) : catalog = {TableOrder[k] : k \in 1..n}
  /\ phase = [w \in Workers |-> "down"]
  /\ looked = [w \in Workers |-> 0]
  /\ missing = [w \in Workers |-> <<>>]
  /\ made = [w \in Workers |-> {}]
  /\ backends = [w \in Workers |-> {}]
  /\ default = [w \in Workers |-> NoBackend]
  /\ client = [w \in Workers |-> "none"]
  /\ mishaps = 0

Enter(w, p) == phase' = [phase EXCEPT ![w] = p]

\* The transaction of create_tables is over, committed or not.
EndTransaction(w) ==
  /\ looked' = [looked EXCEPT ![w] = 0]
  /\ missing' = [missing EXCEPT ![w] = <<>>]
  /\ made' = [made EXCEPT ![w] = {}]

\* The memory of the process: the provider with its backends and clients.
Forgets(w) ==
  /\ backends' = [backends EXCEPT ![w] = {}]
  /\ default' = [default EXCEPT ![w] = NoBackend]

-----------------------------------------------------------------------------
(* The start of a worker.                                                  *)

\* The process starts: set_threadpool_tokens, then the tables if it is to
\* create them.
Boot(w) ==
  /\ phase[w] = "down"
  /\ Enter(w, IF CreatesTables(settings) THEN "checking" ELSE "starting")
  /\ client' = [client EXCEPT ![w] = "none"]
  /\ UNCHANGED <<settings, schema, backends, default, mishaps>>

\* Altered: what another worker has created and not committed counts.
SeesUncommitted(w, t) == t \in catalog \cup UNION {made[v] : v \in Workers}

\* Altered: every table is created, whether it is there or not.
SeesNothing(w, t) == FALSE

\* has_table: a query of the catalog, which shows what is committed.
SeesTable(w, t) == t \in catalog

CheckTable(w) ==
  /\ phase[w] = "checking" /\ looked[w] < Len(TableOrder)
  /\ LET t == TableOrder[looked[w] + 1]
     IN  missing' = [missing EXCEPT ![w] = IF SeesTable(w, t) THEN @ ELSE Append(@, t)]
  /\ looked' = [looked EXCEPT ![w] = @ + 1]
  /\ UNCHANGED <<settings, catalog, phase, made, provider, mishaps>>

\* All tables have been looked up: the missing ones are created.
StartCreating(w) ==
  /\ phase[w] = "checking" /\ looked[w] = Len(TableOrder)
  /\ Enter(w, "creating")
  /\ UNCHANGED <<settings, schema, provider, mishaps>>

BeingCreated(t) == \E v \in Workers : t \in made[v]

\* Altered: no transaction holds the statements together.
Autocommitted(w, t) == catalog' = catalog \cup {t} /\ UNCHANGED made

\* The transaction of engine.begin() shows nothing to others before it ends.
Created(w, t) == made' = [made EXCEPT ![w] = @ \cup {t}] /\ UNCHANGED catalog

CreateTable(w) ==
  /\ phase[w] = "creating" /\ missing[w] # <<>>
  /\ ~BeingCreated(Head(missing[w]))
  /\ Head(missing[w]) \notin catalog
  /\ Created(w, Head(missing[w]))
  /\ missing' = [missing EXCEPT ![w] = Tail(@)]
  /\ UNCHANGED <<settings, phase, looked, provider, mishaps>>

CommitTables(w) ==
  /\ phase[w] = "creating" /\ missing[w] = <<>>
  /\ catalog' = catalog \cup made[w]
  /\ EndTransaction(w)
  /\ Enter(w, "starting")
  /\ UNCHANGED <<settings, provider, mishaps>>

\* create_tables raises.  The finally branch of the lifespan calls close_cache,
\* which finds no backend registered and raises in turn; the worker exits.
StartFails(w) ==
  /\ Enter(w, "down")
  /\ EndTransaction(w)
  /\ UNCHANGED <<settings, provider>>

\* Somebody has committed a table that this worker had found missing.
TableExists(w) ==
  /\ phase[w] = "creating" /\ missing[w] # <<>>
  /\ Head(missing[w]) \in catalog
  /\ StartFails(w)
  /\ UNCHANGED <<catalog, mishaps>>

\* A statement fails, or the COMMIT: that may have taken effect, and only its
\* acknowledgement is lost.
DatabaseFails(w) ==
  /\ phase[w] \in {"checking", "creating"}
  /\ mishaps < MaxMishaps /\ mishaps' = mishaps + 1
  /\ StartFails(w)
  /\ \/ UNCHANGED catalog
     \/ /\ phase[w] = "creating" /\ missing[w] = <<>>
        /\ catalog' = catalog \cup made[w]

\* register_backend(name, backend, default=True)
Register(w, name) ==
  /\ backends' = [backends EXCEPT ![w] = @ \cup {name}]
  /\ default' = [default EXCEPT ![w] = name]

\* Altered: any name is taken for the name of a server.
AnyName(d) == d.cache # "none"

\* initialize_cache has a backend for two names, and nothing for "memory".
Known(d) == d.cache \in Servers

\* initialize_cache registers the backend; its client does not connect yet.
\* The worker then serves.
InitializeCache(w) ==
  /\ phase[w] = "starting"
  /\ Enter(w, "serving")
  /\ IF Known(settings)
       THEN Register(w, settings.cache) /\ client' = [client EXCEPT ![w] = "open"]
       ELSE UNCHANGED provider
  /\ UNCHANGED <<settings, schema, mishaps>>

-----------------------------------------------------------------------------
(* The end of a worker.                                                    *)

\* The supervisor or an operator stops the worker.
Stop(w) ==
  /\ phase[w] = "serving"
  /\ mishaps < MaxMishaps /\ mishaps' = mishaps + 1
  /\ Enter(w, "stopping")
  /\ UNCHANGED <<settings, schema, provider>>

\* Altered: only the client of Redis is closed.
ClosesRedis(w) == "redis" \in backends[w]

\* get_backend of the configured name.
Closes(w) == Known(settings) /\ settings.cache \in backends[w]

\* close_cache in the finally branch of the lifespan, then the process exits.
CloseCache(w) ==
  /\ phase[w] = "stopping"
  /\ Enter(w, "down")
  /\ client' = [client EXCEPT ![w] = IF Closes(w) THEN "closed" ELSE @]
  /\ Forgets(w)
  /\ UNCHANGED <<settings, schema, mishaps>>

\* The process dies: its connections break, its transaction is rolled back.
Die(w) ==
  /\ phase[w] # "down"
  /\ mishaps < MaxMishaps /\ mishaps' = mishaps + 1
  /\ Enter(w, "down")
  /\ EndTransaction(w)
  /\ client' = [client EXCEPT ![w] = "none"]
  /\ Forgets(w)
  /\ UNCHANGED <<settings, catalog>>

\* What the process and its supervisor do by themselves.
Runs(w) ==
  \/ Boot(w) \/ CheckTable(w) \/ StartCreating(w) \/ CreateTable(w) \/ CommitTables(w)
  \/ TableExists(w) \/ InitializeCache(w) \/ CloseCache(w)

LifecycleNext == \E w \in Workers : Runs(w) \/ DatabaseFails(w) \/ Stop(w) \/ Die(w)

\* The supervisor starts what is down, and a process that can go on does.
LifecycleFairness == \A w \in Workers : WF_lifecycle(Runs(w))
=============================================================================
