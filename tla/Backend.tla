-------------------------------- MODULE Backend --------------------------------
(***************************************************************************)
(* The processes of a deployment (Lifecycle) and the cache server they     *)
(* share (CacheServer): a worker that serves calls the functions of        *)
(* infrastructure/cache/provider.py, which look the backend up in the      *)
(* provider of the process, and answers requests as Application says.      *)
(*                                                                         *)
(* A definition whose comment begins with "Altered" is a plausible slip in *)
(* the one that follows it; Next never reaches it.                         *)
(***************************************************************************)
EXTENDS Lifecycle, CacheServer

CONSTANT Paths  \* "api" stands for what begins with /api/, others for the rest

ASSUME BackendAssumption == NoBackend \notin Keys

vars == <<lifecycle, server>>

Init == LifecycleInit /\ ServerInit

\* get_backend: the backend asked for, or the default one.
Asked(w, name) == IF name = NoBackend THEN default[w] ELSE name

\* BackendNotFoundError
NotFound(call, k) == Refuses(call, k, "unregistered")

\* One call of a provider function by worker w, about the backend of that name
\* or the default one: Call is what the backend does.
Through(w, name, call, k, Call(_)) ==
  /\ phase[w] = "serving"
  /\ IF Asked(w, name) \in backends[w]
       THEN Unreachable(call, k) \/ Call(Asked(w, name))
       ELSE NotFound(call, k)
  /\ UNCHANGED <<lifecycle, up>>

Names == Servers \cup {NoBackend}

Set(w, k, v, seconds) ==
  \E name \in Names : Through(w, name, "set", k, LAMBDA b : SetEntry(b, k, v, seconds))

Get(w, k) == \E name \in Names : Through(w, name, "get", k, LAMBDA b : GetEntry(k))

Delete(w, k) == \E name \in Names : Through(w, name, "delete", k, LAMBDA b : DeleteEntry(k))

DeletePattern(w, K) ==
  \E name \in Names : Through(w, name, "delete_pattern", NoEntry, LAMBDA b : DeleteMatching(b, K))

ExistsKey(w, k) == \E name \in Names : Through(w, name, "exists", k, LAMBDA b : Exists(b, k))

Clear(w) == \E name \in Names : Through(w, name, "clear", NoEntry, LAMBDA b : ClearAll)

\* ping_all asks every registered backend.
PingAll(w) ==
  /\ phase[w] = "serving" /\ backends[w] # {}
  /\ Ping
  /\ UNCHANGED <<lifecycle, up>>

Calls(w) ==
  \/ \E k \in Keys : Get(w, k) \/ Delete(w, k) \/ ExistsKey(w, k)
  \/ \E k \in Keys, v \in Values, seconds \in Expirations : Set(w, k, v, seconds)
  \/ \E K \in SUBSET Keys : DeletePattern(w, K)
  \/ Clear(w) \/ PingAll(w)

Next ==
  \/ LifecycleNext /\ UNCHANGED server
  \/ ServerNext /\ UNCHANGED lifecycle
  \/ \E w \in Workers : Calls(w)

Spec == Init /\ [][Next]_vars /\ LifecycleFairness

-----------------------------------------------------------------------------
Phases == {"down", "checking", "creating", "starting", "serving", "stopping"}
CacheCalls == {"none", "set", "get", "exists", "delete", "delete_pattern", "clear", "ping"}
CacheOutcomes == {"done", "yes", "no", "raised", "unsupported", "unregistered"}

\* Every variable holds a value of its kind.
TypeOK ==
  /\ settings \in Deployments
  /\ catalog \subseteq Tables
  /\ phase \in [Workers -> Phases]
  /\ looked \in [Workers -> 0..Len(TableOrder)]
  /\ missing \in [Workers -> Seq(Tables)]
  /\ made \in [Workers -> SUBSET Tables]
  /\ backends \in [Workers -> SUBSET Servers]
  /\ default \in [Workers -> Servers \cup {NoBackend}]
  /\ client \in [Workers -> {"none", "open", "closed"}]
  /\ mishaps \in 0..MaxMishaps
  /\ entries \in [Keys -> [data : Characters, expires : BOOLEAN] \cup {NoEntry}]
  /\ up \in BOOLEAN
  /\ reply \in [call : CacheCalls, key : Keys \cup {NoEntry},
                value : [type : Types, chars : Characters] \cup {NoEntry}, outcome : CacheOutcomes]

\* The schema appears whole: whatever workers start at once, fail or die in the
\* middle, the missing tables are committed all together or not at all.
SchemaIsWhole == [][catalog' # catalog => catalog' = Tables]_vars

\* A worker that is to create the tables answers requests only when all of
\* them are committed, also when another worker was the one to create them.
ServingHasSchema ==
  \A w \in Workers : CreatesTables(settings) /\ phase[w] = "serving" => catalog = Tables

\* A serving worker has the configured backend registered as its default, with
\* an open client; a process that ended in good order, or whose start failed,
\* has left no client open.
ClientsFollowTheWorker ==
  \A w \in Workers :
    /\ phase[w] = "serving" /\ Known(settings) =>
         default[w] = settings.cache /\ default[w] \in backends[w] /\ client[w] = "open"
    /\ phase[w] = "down" => client[w] # "open" /\ backends[w] = {}

\* Whatever tables workers have raced for, however often the database failed
\* or a process died: a worker serves in the end, and again after every stop.
EveryWorkerServes == \A w \in Workers : []<>(phase[w] = "serving")

\* Whatever a route does, also if it fails in a way nobody foresaw, the client
\* gets a status and the answer has passed every layer that the deployment
\* enables; nothing below /api/ may be cached by others; and production shows no
\* documentation unless told to.
AnswersFollowTheDeployment ==
  \A w \in Workers : phase[w] = "serving" =>
    /\ \A p \in Paths, o \in Outcomes :
         LET a == AnswerTo(settings, p, o)
         IN  /\ a.status \in {200, 403, 404, 422, 500}
             /\ \A layer \in {"client_cache", "cors", "gzip", "security"} :
                  layer \in a.passed <=> Enabled(settings, layer)
             /\ p = "api" => a.cache # "public"
             /\ o = <<"response", "unexpected">> => a.support
    /\ settings.environment = "production" /\ ~DocsOptIn(settings) => DocsPaths(settings) = {}

-----------------------------------------------------------------------------
\* What get would answer for each key.
Readable == [k \in Keys |-> IF entries[k] = NoEntry THEN NoEntry ELSE Decode(entries[k].data)]

Contract == INSTANCE SharedCache WITH
  Missing <- Nil,
  Nothing <- NoEntry,
  store <- Readable,
  answer <- reply

\* What the contract asks of callers: values of which the codec keeps the type,
\* none of them None, and expirations that mean the same to both servers.
WellUsed == Faithful = Values /\ Nil \notin Values /\ Expirations \subseteq 1..MonthSeconds

\* Workers that come and go and two backends with different ideas of patterns
\* are to callers the one cache that the documents describe.  It takes
\* connections that do not break and values and expirations that are WellUsed.
ImplementsSharedCache == Contract!SSpec

\* "Returns None if the key doesn't exist, has expired, or if there's a
\* connection error", get's docstring says, and that of exists: "Connection
\* errors gracefully (return False)".
ConnectionErrorsAreHidden == reply.call \in {"get", "exists"} => reply.outcome # "raised"

\* The guide: "Store a value (any JSON-serializable type)", "Retrieve it".  What
\* get finds after a set that returned is the value that was set, not another.
SetValueComesBack ==
  [][\A k \in Keys :
       /\ reply.call = "set" /\ reply.key = k /\ reply.outcome = "done"
       /\ reply'.call = "get" /\ reply'.key = k /\ reply'.outcome = "done"
       => reply'.value \in {reply.value, Nil}]_vars

\* The expiration is the "time in seconds before the key expires", validated and
\* limited: a set that returned has stored its entry.
SetValueIsStored ==
  [][reply' # reply /\ reply'.call = "set" /\ reply'.outcome = "done"
       => entries'[reply'.key] # NoEntry]_vars
=============================================================================
