----------------------------- MODULE ResponseCache -----------------------------
(***************************************************************************)
(* The @cache decorator of infrastructure/cache around the GET and the     *)
(* mutating routes of some resources, with one Redis or Memcached server   *)
(* shared by all worker processes.                                         *)
(*                                                                         *)
(* What a GET computes for a key is abstracted to the versions of the      *)
(* resources it depends on; a mutation makes the next version of one       *)
(* resource.  Version 0 is a resource that does not exist.                 *)
(*                                                                         *)
(* A definition whose comment begins with "Altered" is a plausible slip in *)
(* the one that follows it; Next never reaches it.                         *)
(***************************************************************************)
EXTENDS Naturals, FiniteSets

CONSTANTS
  Readers,      \* GET requests
  Writers,      \* POST, PUT, PATCH and DELETE requests
  Resources,    \* what the routes read and write
  Keys,         \* the cache keys of the GET routes
  OwnKey,       \* OwnKey[x]: "key_prefix:resource_id" of x
  ArgExtras,    \* ArgExtras[x]: keys of to_invalidate_extra that name an argument
  LiteralExtras,\* LiteralExtras[x]: keys of to_invalidate_extra with a literal id
  PatternKeys,  \* PatternKeys[x]: keys that pattern_to_invalidate_extra matches
  Backend,      \* "redis" or "memcached"
  Failures,     \* failures that may happen
  Nothing       \* no entry under a key

Requests == Readers \cup Writers

ASSUME CacheAssumption ==
  /\ Readers \cap Writers = {}
  /\ OwnKey \in [Resources -> Keys]
  /\ ArgExtras \in [Resources -> SUBSET Keys]
  /\ LiteralExtras \in [Resources -> SUBSET Keys]
  /\ PatternKeys \in [Resources -> SUBSET Keys]
  /\ Backend \in {"redis", "memcached"}
  /\ Failures \subseteq {"backend", "handler", "route", "crash"}

VARIABLES
  version,   \* the resources in the database
  cache,     \* the entry under each key
  wants,     \* the key each GET is about
  edits,     \* the resource each mutation is about
  pc,        \* where each request is
  value,     \* what each GET has read from the database
  wrote,     \* the version each mutation has made, or 0
  doomed,    \* the keys each mutation has still to delete
  overtaken  \* <<w, g>>: w deleted the key of g while g was about to store it

vars == <<version, cache, wants, edits, pc, value, wrote, doomed, overtaken>>
fixed == <<wants, edits>>

\* The resources that the value of a key is made of.
Covers(k) ==
  {x \in Resources : k \in {OwnKey[x]} \cup ArgExtras[x] \cup LiteralExtras[x] \cup PatternKeys[x]}

Fresh(k) == [x \in Covers(k) |-> version[x]]

\* Altered: the value is stored without an expiration.
Immortal(v) == [value |-> v, expires |-> FALSE]

\* backend.set(cache_key, data, expiration)
Entry(v) == [value |-> v, expires |-> TRUE]

\* "if cached_data:" takes an empty result for a miss.
Hit(k) == cache[k] # Nothing /\ \E x \in Covers(k) : cache[k].value[x] > 0

Init ==
  /\ version \in [Resources -> {0, 1}]
  /\ cache = [k \in Keys |-> Nothing]
  /\ wants \in [Readers -> Keys]
  /\ edits \in [Writers -> Resources]
  /\ pc = [q \in Requests |-> "begin"]
  /\ value = [g \in Readers |-> [x \in Covers(wants[g]) |-> 0]]
  /\ wrote = [w \in Writers |-> 0]
  /\ doomed = [w \in Writers |-> {}]
  /\ overtaken = {}

Goto(q, l) == pc' = [pc EXCEPT ![q] = l]

-----------------------------------------------------------------------------
(* GET.                                                                    *)

\* A failure of get_backend or infer_resource_id runs the handler uncached.
BeginGet(g) ==
  /\ pc[g] = "begin"
  /\ Goto(g, "get") \/ Goto(g, "uncached")
  /\ UNCHANGED <<version, cache, fixed, value, wrote, doomed, overtaken>>

\* backend.get: a hit is the answer, anything else runs the handler.
GetCached(g) ==
  /\ pc[g] = "get"
  /\ Goto(g, IF Hit(wants[g]) THEN "ok" ELSE "handler")
  /\ UNCHANGED <<version, cache, fixed, value, wrote, doomed, overtaken>>

\* The handler of the GET route reads the database.
RunGet(g) ==
  /\ pc[g] \in {"handler", "uncached"}
  /\ value' = [value EXCEPT ![g] = Fresh(wants[g])]
  /\ Goto(g, IF pc[g] = "handler" THEN "store" ELSE "bypassed")
  /\ UNCHANGED <<version, cache, fixed, wrote, doomed, overtaken>>

\* Altered: the resource id is left out of the key.
PrefixOnly(g) == CHOOSE k \in Keys : TRUE

\* f"{formatted_key_prefix}:{resource_id}"
CacheKey(g) == wants[g]

\* backend.set, whatever has happened since the handler read.
StoreResult(g) ==
  /\ pc[g] = "store"
  /\ cache' = [cache EXCEPT ![CacheKey(g)] = Entry(value[g])]
  /\ Goto(g, "ok")
  /\ UNCHANGED <<version, fixed, value, wrote, doomed, overtaken>>

-----------------------------------------------------------------------------
(* Mutations.                                                              *)

\* format_extra_data: an id that names an argument of the route is resolved,
\* any other text without a placeholder is dropped.
FormattedExtra(x) == ArgExtras[x]

\* The deletes that follow the handler, the key of the resource first.
DeletedOneByOne(x) == {OwnKey[x]} \cup FormattedExtra(x)

Commits(w) ==
  /\ version' = [version EXCEPT ![edits[w]] = @ + 1]
  /\ wrote' = [wrote EXCEPT ![w] = version[edits[w]] + 1]

\* The handler of the mutating route commits; then the deletes begin, unless
\* there is no backend or no resource id.
RunMutation(w) ==
  /\ pc[w] = "begin"
  /\ Commits(w)
  /\ \/ Goto(w, "bypassed") /\ UNCHANGED doomed
     \/ Goto(w, "delete") /\ doomed' = [doomed EXCEPT ![w] = DeletedOneByOne(edits[w])]
  /\ UNCHANGED <<cache, fixed, value, overtaken>>

\* The GETs that hold a value for a key of K which they have yet to store.
AboutToStore(K) == {g \in Readers : pc[g] = "store" /\ wants[g] \in K}

Without(K) == [k \in Keys |-> IF k \in K THEN Nothing ELSE cache[k]]

\* backend.delete(key)
Deleted(k) == Without({k})

NextToDelete(w) == IF OwnKey[edits[w]] \in doomed[w] THEN {OwnKey[edits[w]]} ELSE doomed[w]

DeleteKey(w, k) ==
  /\ pc[w] = "delete"
  /\ k \in NextToDelete(w)
  /\ cache' = Deleted(k)
  /\ doomed' = [doomed EXCEPT ![w] = @ \ {k}]
  /\ overtaken' = overtaken \cup ({w} \X AboutToStore({k}))
  /\ UNCHANGED <<version, fixed, pc, value, wrote>>

\* Altered: the first page of SCAN is taken for the whole answer.
FirstPage(w, S) == {}

\* SCAN is paged until the cursor is 0, which returns every key that was there
\* from the beginning to the end of the scan.
LeftToScan(w, S) == doomed[w] \ S

\* The patterns come last.  Memcached refuses them, which is only logged.
StartPattern(w) ==
  /\ pc[w] = "delete"
  /\ doomed[w] = {}
  /\ IF Backend = "redis" /\ PatternKeys[edits[w]] # {}
       THEN /\ doomed' = [doomed EXCEPT ![w] = {k \in PatternKeys[edits[w]] : cache[k] # Nothing}]
            /\ overtaken' = overtaken \cup ({w} \X AboutToStore(PatternKeys[edits[w]]))
            /\ Goto(w, "scan")
       ELSE Goto(w, "ok") /\ UNCHANGED <<doomed, overtaken>>
  /\ UNCHANGED <<version, cache, fixed, value, wrote>>

\* One page: some of the matching keys, deleted at once.
DeletePage(w, S) ==
  /\ pc[w] = "scan"
  /\ S \subseteq PatternKeys[edits[w]]
  /\ S # {} \/ doomed[w] = {}
  /\ cache' = Without(S)
  /\ doomed' = [doomed EXCEPT ![w] = LeftToScan(w, S)]
  /\ Goto(w, IF LeftToScan(w, S) = {} THEN "ok" ELSE "scan")
  /\ UNCHANGED <<version, fixed, value, wrote, overtaken>>

-----------------------------------------------------------------------------
(* The cache server, and what may go wrong.                                *)

\* An entry reaches its expiration time, or is evicted.
Expire(k) ==
  /\ cache[k] # Nothing
  /\ cache[k].expires
  /\ cache' = Without({k})
  /\ UNCHANGED <<version, fixed, pc, value, wrote, doomed, overtaken>>

\* The handler raises and the cache is not touched, even if the handler of a
\* mutation had committed before it failed.
HandlerFails(q) ==
  /\ "handler" \in Failures
  /\ \/ q \in Readers /\ pc[q] \in {"handler", "uncached"} /\ UNCHANGED <<version, wrote>>
     \/ q \in Writers /\ pc[q] = "begin" /\ (Commits(q) \/ UNCHANGED <<version, wrote>>)
  /\ Goto(q, "refused")
  /\ UNCHANGED <<cache, fixed, value, doomed, overtaken>>

\* A route that is declared wrongly raises: the id or a placeholder of the prefix
\* names no argument (KeyError), or a GET lists invalidations
\* (InvalidRequestError), before the handler; a placeholder of a pattern names no
\* argument, after the deletes.
Misdeclared(q) ==
  /\ "route" \in Failures
  /\ \/ pc[q] = "begin" /\ Goto(q, "refused")
     \/ pc[q] = "delete" /\ doomed[q] = {} /\ Goto(q, "error")
  /\ UNCHANGED <<version, cache, fixed, value, wrote, doomed, overtaken>>

\* A call of the backend raises, after it has taken effect or before.  Only
\* get_backend is inside a try: the exception ends the request with a 500.
BackendFails(q) ==
  /\ "backend" \in Failures
  /\ pc[q] \in {"get", "store", "scan"} \/ (pc[q] = "delete" /\ doomed[q] # {})
  /\ \/ UNCHANGED cache
     \/ pc[q] = "store" /\ cache' = [cache EXCEPT ![CacheKey(q)] = Entry(value[q])]
     \/ pc[q] = "delete" /\ \E k \in NextToDelete(q) : cache' = Deleted(k)
     \/ pc[q] = "scan" /\ \E S \in SUBSET PatternKeys[edits[q]] : cache' = Without(S)
  /\ Goto(q, "error")
  /\ UNCHANGED <<version, fixed, value, wrote, doomed, overtaken>>

\* The worker process dies between two calls.
Crash(q) ==
  /\ "crash" \in Failures
  /\ pc[q] \in {"get", "handler", "store", "delete", "scan"}
  /\ Goto(q, "crashed")
  /\ UNCHANGED <<version, cache, fixed, value, wrote, doomed, overtaken>>

Get(g) == BeginGet(g) \/ GetCached(g) \/ RunGet(g) \/ StoreResult(g)

Mutate(w) ==
  \/ RunMutation(w)
  \/ StartPattern(w)
  \/ \E k \in Keys : DeleteKey(w, k)
  \/ \E S \in SUBSET Keys : DeletePage(w, S)

Next ==
  \/ \E g \in Readers : Get(g)
  \/ \E w \in Writers : Mutate(w)
  \/ \E q \in Requests : HandlerFails(q) \/ Misdeclared(q) \/ BackendFails(q) \/ Crash(q)
  \/ \E k \in Keys : Expire(k)

\* The server keeps its clock, the expiration of every entry comes; nothing is
\* assumed of the requests.
Spec == Init /\ [][Next]_vars /\ \A k \in Keys : WF_vars(Expire(k))

-----------------------------------------------------------------------------
\* Every variable holds a value of its kind, and a value is one of its key.
TypeOK ==
  /\ version \in [Resources -> Nat]
  /\ DOMAIN cache = Keys
  /\ \A k \in Keys : cache[k] # Nothing =>
       cache[k].value \in [Covers(k) -> Nat] /\ cache[k].expires \in BOOLEAN
  /\ wants \in [Readers -> Keys]
  /\ edits \in [Writers -> Resources]
  /\ pc \in [Requests -> {"begin", "get", "uncached", "handler", "store", "delete", "scan",
                          "ok", "bypassed", "refused", "error", "crashed"}]
  /\ DOMAIN value = Readers /\ \A g \in Readers : value[g] \in [Covers(wants[g]) -> Nat]
  /\ wrote \in [Writers -> Nat]
  /\ doomed \in [Writers -> SUBSET Keys]
  /\ overtaken \subseteq Writers \X Readers

\* The keys that a mutation of x without a mishap clears.
Cleared(x) == {OwnKey[x]} \cup ArgExtras[x] \cup (IF Backend = "redis" THEN PatternKeys[x] ELSE {})

\* w cannot be blamed for leaving k alone: it has finished, with the cache,
\* and k is one of the keys it was to clear.
HasCleared(w, k) == pc[w] = "ok" /\ k \in Cleared(edits[w])

\* The entry of k is as new as the mutation w, or it was stored by a GET that
\* had read the database before and was overtaken by w's delete of k.
AsNewAs(w, k) ==
  cache[k] # Nothing /\ cache[k].value[edits[w]] < wrote[w] =>
    \E g \in Readers : wants[g] = k /\ value[g] = cache[k].value /\ <<w, g>> \in overtaken

\* A mutation that has finished leaves no entry behind that is older than
\* itself, except one that a GET stored which had read the database before the
\* mutation and was overtaken by its delete.  So an entry is out of date only
\* while a mutation is at its deletes, after one that was cut short, went
\* without a cache or does not reach the key, or after that one race; no other
\* interleaving of reads, stores, pages and deletes does it.
NothingOlderIsLeft ==
  \A w \in Writers : \A k \in Keys : HasCleared(w, k) => AsNewAs(w, k)

\* "The TTL is your safety net": whatever was forgotten, raced or cut short,
\* once the mutations are over the cache tells the truth again and for good.
CacheSelfHeals ==
  <>[](\A k \in Keys : cache[k] # Nothing => cache[k].value = Fresh(k))

\* The guide calls the deletes of a mutation "strict consistency": one that has
\* finished leaves no older entry under its own key.
WriteThroughIsStrict ==
  \A w \in Writers :
    LET k == OwnKey[edits[w]]
    IN  pc[w] = "ok" /\ cache[k] # Nothing => cache[k].value[edits[w]] >= wrote[w]

\* "widget_count": "global" stands in the guide for 'invalidate "widget_count:global"':
\* an entry that a literal id names does not outlive a finished mutation either,
\* the race that NothingOlderIsLeft tells of aside.
LiteralIdsAreInvalidated ==
  \A w \in Writers : \A k \in LiteralExtras[edits[w]] : pc[w] = "ok" => AsNewAs(w, k)

\* "If the cache backend becomes unavailable, the decorator catches the error
\* and falls through to the underlying handler."
CacheFailureIsHidden == \A q \in Requests : pc[q] # "error"
=============================================================================
