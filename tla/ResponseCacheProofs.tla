-------------------------- MODULE ResponseCacheProofs --------------------------
(***************************************************************************)
(* Proofs about the response cache, for any requests, resources, keys and  *)
(* failures and for both servers.                                          *)
(***************************************************************************)
EXTENDS ResponseCache, TLAPS

Labels == {"begin", "get", "uncached", "handler", "store", "delete", "scan",
           "ok", "bypassed", "refused", "error", "crashed"}

\* The keys that w has deleted one by one already.
Dropped(w) ==
  IF pc[w] \in {"delete", "scan", "ok"} THEN DeletedOneByOne(edits[w]) ELSE {}

\* The keys that w deletes or has deleted by a pattern.
Swept(w) ==
  IF pc[w] \in {"scan", "ok"} /\ Backend = "redis" THEN PatternKeys[edits[w]] ELSE {}

\* The keys whose deletion by w has begun, and those where it is over.
Begun(w) == (IF pc[w] = "delete" THEN Dropped(w) \ doomed[w] ELSE Dropped(w)) \cup Swept(w)

Cleaned(w) ==
  (IF pc[w] = "delete" THEN Dropped(w) \ doomed[w] ELSE Dropped(w))
    \cup (IF pc[w] = "scan" THEN Swept(w) \ doomed[w] ELSE Swept(w))

\* A GET that has read the database before w and is yet to store its value
\* under a key whose deletion by w has begun was overtaken by it.
StoresKnown(w) ==
  \A g \in Readers :
    pc[g] = "store" /\ wants[g] \in Begun(w) /\ value[g][edits[w]] < wrote[w] => <<w, g>> \in overtaken

\* What w knows of the keys it has cleaned.
Accounted(w) == StoresKnown(w) /\ \A k \in Cleaned(w) : AsNewAs(w, k)

\* A mutation neither reads the cache nor stores into it.
Apart == \A w \in Writers : pc[w] \notin {"get", "handler", "uncached", "store"}

\* Versions only grow, from the one that a mutation has made; and a GET that
\* was overtaken has read for the last time.
CacheInv ==
  /\ TypeOK
  /\ Apart
  /\ \A w \in Writers : wrote[w] <= version[edits[w]]
  /\ \A w \in Writers : pc[w] = "scan" => Backend = "redis"
  /\ \A w \in Writers : \A g \in Readers :
       <<w, g>> \in overtaken => pc[g] \in {"store", "ok", "error", "crashed"}
  /\ \A w \in Writers : Accounted(w)

-----------------------------------------------------------------------------
(* Types.                                                                  *)

\* What a handler reads for a key is a value of that key.
LEMMA FreshType ==
  ASSUME TypeOK, NEW k \in Keys
  PROVE  Fresh(k) \in [Covers(k) -> Nat]
  BY DEF TypeOK, Fresh, Covers

\* A key that a mutation of x deletes depends on x.
LEMMA DeletedIsCovered ==
  ASSUME NEW x \in Resources, NEW k \in DeletedOneByOne(x) \cup PatternKeys[x]
  PROVE  x \in Covers(k) /\ k \in Keys
  BY CacheAssumption DEF CacheAssumption, DeletedOneByOne, FormattedExtra, Covers

\* Emptying entries and storing a value of a key keep the type of the cache.
LEMMA CacheTypes ==
  ASSUME TypeOK, NEW K, NEW g \in Readers
  PROVE  /\ DOMAIN Without(K) = Keys
         /\ \A k \in Keys : Without(K)[k] # Nothing =>
              Without(K)[k].value \in [Covers(k) -> Nat] /\ Without(K)[k].expires \in BOOLEAN
         /\ DOMAIN [cache EXCEPT ![CacheKey(g)] = Entry(value[g])] = Keys
         /\ \A k \in Keys :
              LET e == [cache EXCEPT ![CacheKey(g)] = Entry(value[g])][k]
              IN  e # Nothing => e.value \in [Covers(k) -> Nat] /\ e.expires \in BOOLEAN
<1>1. Entry(value[g]).value = value[g] /\ Entry(value[g]).expires \in BOOLEAN
  BY DEF Entry
<1>2. wants[g] \in Keys /\ value[g] \in [Covers(wants[g]) -> Nat]
  BY DEF TypeOK
<1>3. \A k \in Keys : [cache EXCEPT ![CacheKey(g)] = Entry(value[g])][k] =
        IF k = wants[g] THEN Entry(value[g]) ELSE cache[k]
  BY DEF TypeOK, CacheKey
<1>4. \A k \in Keys : Without(K)[k] = IF k \in K THEN Nothing ELSE cache[k]
  BY DEF Without
<1> QED
  BY <1>1, <1>2, <1>3, <1>4 DEF TypeOK, Without

\* Every step of a request or of the server keeps the types; that no mutation
\* is about to store is what makes the type of the cache inductive.
LEMMA TypeKept ==
  ASSUME TypeOK, Apart, [Next]_vars
  PROVE  TypeOK' /\ Apart'
<1> USE DEF Requests, Goto
<1>1. ASSUME UNCHANGED vars PROVE TypeOK'
  BY <1>1 DEF TypeOK, vars, fixed
<1>2. ASSUME NEW g \in Readers, Get(g) PROVE TypeOK'
  <2>1. CASE BeginGet(g)
    BY <2>1 DEF TypeOK, BeginGet, fixed
  <2>2. CASE GetCached(g)
    BY <2>2 DEF TypeOK, GetCached, fixed
  <2>3. CASE RunGet(g)
    <3>1. Fresh(wants[g]) \in [Covers(wants[g]) -> Nat]
      BY FreshType DEF TypeOK
    <3>2. DOMAIN value' = Readers /\ \A h \in Readers : value'[h] \in [Covers(wants[h]) -> Nat]
      BY <2>3, <3>1 DEF TypeOK, RunGet
    <3> QED
      BY <2>3, <3>2 DEF TypeOK, RunGet, fixed
  <2>4. CASE StoreResult(g)
    BY <2>4, CacheTypes DEF TypeOK, StoreResult, fixed
  <2> QED
    BY <1>2, <2>1, <2>2, <2>3, <2>4 DEF Get
<1>3. ASSUME NEW w \in Writers, Commits(w)
      PROVE  version' \in [Resources -> Nat] /\ wrote' \in [Writers -> Nat]
  BY <1>3 DEF TypeOK, Commits
<1>4. ASSUME NEW w \in Writers, Mutate(w) PROVE TypeOK'
  <2>1. CASE RunMutation(w)
    <3>1. doomed' \in [Writers -> SUBSET Keys]
      BY <2>1, DeletedIsCovered DEF TypeOK, RunMutation
    <3>2. pc' \in [Requests -> {"begin", "get", "uncached", "handler", "store", "delete", "scan",
                          "ok", "bypassed", "refused", "error", "crashed"}]
      BY <2>1 DEF TypeOK, RunMutation
    <3> QED
      BY <1>3, <2>1, <3>1, <3>2 DEF TypeOK, RunMutation, fixed
  <2>2. CASE StartPattern(w)
    <3>1. {k \in PatternKeys[edits[w]] : cache[k] # Nothing} \subseteq Keys
      BY CacheAssumption DEF TypeOK, CacheAssumption
    <3>2. doomed' \in [Writers -> SUBSET Keys]
      BY <2>2, <3>1 DEF TypeOK, StartPattern
    <3>3. overtaken' \subseteq Writers \X Readers
      BY <2>2 DEF TypeOK, StartPattern, AboutToStore
    <3> QED
      BY <2>2, <3>2, <3>3 DEF TypeOK, StartPattern, fixed
  <2>3. ASSUME NEW k \in Keys, DeleteKey(w, k) PROVE TypeOK'
    <3>1. overtaken' \subseteq Writers \X Readers /\ doomed' \in [Writers -> SUBSET Keys]
      BY <2>3 DEF TypeOK, DeleteKey, AboutToStore
    <3>2. DOMAIN cache' = Keys /\ \A l \in Keys : cache'[l] # Nothing =>
              cache'[l].value \in [Covers(l) -> Nat] /\ cache'[l].expires \in BOOLEAN
      <4>1. cache' = Without({k})
        BY <2>3 DEF DeleteKey, Deleted
      <4> QED
        BY <4>1 DEF TypeOK, Without
    <3> QED
      BY <2>3, <3>1, <3>2 DEF TypeOK, DeleteKey, fixed
  <2>4. ASSUME NEW S \in SUBSET Keys, DeletePage(w, S) PROVE TypeOK'
    <3>1. DOMAIN cache' = Keys /\ \A l \in Keys : cache'[l] # Nothing =>
              cache'[l].value \in [Covers(l) -> Nat] /\ cache'[l].expires \in BOOLEAN
      BY <2>4 DEF TypeOK, DeletePage, Without
    <3> QED
      BY <2>4, <3>1 DEF TypeOK, DeletePage, LeftToScan, fixed
  <2> QED
    BY <1>4, <2>1, <2>2, <2>3, <2>4 DEF Mutate
<1>5. ASSUME NEW q \in Requests, HandlerFails(q) PROVE TypeOK'
  BY <1>3, <1>5 DEF TypeOK, HandlerFails, fixed
<1>6. ASSUME NEW q \in Requests, BackendFails(q) PROVE TypeOK'
  <2>2. DOMAIN cache' = Keys /\ \A l \in Keys : cache'[l] # Nothing =>
              cache'[l].value \in [Covers(l) -> Nat] /\ cache'[l].expires \in BOOLEAN
    <3>1. CASE UNCHANGED cache
      BY <3>1 DEF TypeOK
    <3>2. CASE q \in Readers /\ cache' = [cache EXCEPT ![CacheKey(q)] = Entry(value[q])]
      BY <3>2, CacheTypes
    <3>3. ASSUME NEW K, cache' = Without(K)
          PROVE  DOMAIN cache' = Keys /\ \A l \in Keys : cache'[l] # Nothing =>
              cache'[l].value \in [Covers(l) -> Nat] /\ cache'[l].expires \in BOOLEAN
      BY <3>3 DEF TypeOK, Without
    <3> QED
      BY <1>6, <3>1, <3>2, <3>3 DEF BackendFails, Deleted, Apart
  <2> QED
    BY <1>6, <2>2 DEF TypeOK, BackendFails, fixed
<1>7. ASSUME NEW q \in Requests, Misdeclared(q) \/ Crash(q) PROVE TypeOK'
  BY <1>7 DEF TypeOK, Misdeclared, Crash, fixed
<1>8. ASSUME NEW k \in Keys, Expire(k) PROVE TypeOK'
  BY <1>8 DEF TypeOK, Expire, Without, fixed
<1>9. Apart'
  <2>1. \A w \in Writers : pc'[w] = pc[w] \/ pc'[w] \notin {"get", "handler", "uncached", "store"}
    <3>1. ASSUME NEW g \in Readers, Get(g)
          PROVE  \A w \in Writers : pc'[w] = pc[w]
      BY <3>1, CacheAssumption
         DEF CacheAssumption, TypeOK, Get, BeginGet, GetCached, RunGet, StoreResult
    <3>2. ASSUME NEW v \in Writers, Mutate(v)
          PROVE  \A w \in Writers : pc'[w] = pc[w] \/ pc'[w] \notin {"get", "handler", "uncached", "store"}
      BY <3>2 DEF TypeOK, Mutate, RunMutation, StartPattern, DeleteKey, DeletePage
    <3>3. ASSUME NEW q \in Requests, HandlerFails(q) \/ BackendFails(q) \/ Misdeclared(q) \/ Crash(q)
          PROVE  \A w \in Writers : pc'[w] = pc[w] \/ pc'[w] \notin {"get", "handler", "uncached", "store"}
      BY <3>3 DEF TypeOK, HandlerFails, BackendFails, Misdeclared, Crash
    <3>4. ASSUME NEW k \in Keys, Expire(k) PROVE pc' = pc
      BY <3>4 DEF Expire
    <3> QED
      BY <1>1, <3>1, <3>2, <3>3, <3>4 DEF Next, vars
  <2> QED
    BY <2>1 DEF Apart
<1> QED
  BY <1>1, <1>2, <1>4, <1>5, <1>6, <1>7, <1>8, <1>9 DEF Next
-----------------------------------------------------------------------------
(* The accounts of the mutations.                                          *)

\* What every step respects: a GET at its store holds what it held or what is
\* fresh, one that was overtaken keeps its value, and a new entry is the value
\* of a GET that was at its store.
Calm ==
  /\ UNCHANGED fixed
  /\ overtaken \subseteq overtaken'
  /\ \A g \in Readers :
       pc'[g] = "store" => (pc[g] = "store" /\ value'[g] = value[g]) \/ value'[g] = Fresh(wants[g])
  /\ \A w \in Writers : \A g \in Readers : <<w, g>> \in overtaken => value'[g] = value[g]
  /\ \A k \in Keys :
       \/ cache'[k] \in {cache[k], Nothing}
       \/ \E g \in Readers : /\ pc[g] = "store" /\ wants[g] = k
                             /\ value'[g] = value[g] /\ cache'[k] = Entry(value[g])

\* The keys in the accounts of a mutation depend on what it edits, and none is
\* clean before its deletion has begun.
LEMMA AccountedKeys ==
  ASSUME TypeOK, NEW w \in Writers
  PROVE  /\ Cleaned(w) \subseteq Begun(w)
         /\ \A k \in Begun(w) : k \in Keys /\ edits[w] \in Covers(k)
<1>1. edits[w] \in Resources
  BY DEF TypeOK
<1>2. Begun(w) \subseteq DeletedOneByOne(edits[w]) \cup PatternKeys[edits[w]]
  BY DEF Begun, Dropped, Swept
<1>3. Cleaned(w) \subseteq Begun(w)
  BY DEF Begun, Cleaned
<1> QED
  BY <1>1, <1>2, <1>3, DeletedIsCovered

\* A calm step keeps the accounts of a mutation, when the keys it begins to
\* delete are marked for the GETs at their store and those it cleans are empty.
LEMMA AccountsKept ==
  ASSUME CacheInv, TypeOK', Calm, NEW w \in Writers,
         wrote'[w] = wrote[w],
         \A k \in Begun(w)' \ Begun(w) : \A g \in Readers :
           pc'[g] = "store" /\ wants[g] = k => <<w, g>> \in overtaken',
         \A k \in Cleaned(w)' \ Cleaned(w) : cache'[k] = Nothing
  PROVE  Accounted(w)'
<1> DEFINE x == edits[w]
<1>1. x \in Resources /\ x = edits'[w] /\ wants' = wants
  BY DEF Calm, fixed, CacheInv, TypeOK
<1>2. wrote[w] \in Nat /\ version[x] \in Nat /\ wrote[w] <= version[x]
  BY <1>1 DEF CacheInv, TypeOK
<1>3. StoresKnown(w) /\ \A k \in Cleaned(w) : AsNewAs(w, k)
  BY DEF CacheInv, Accounted
<1>4. StoresKnown(w)'
  <2> SUFFICES ASSUME NEW g \in Readers, pc'[g] = "store", wants[g] \in Begun(w)',
                      value'[g][x] < wrote[w]
               PROVE  <<w, g>> \in overtaken'
    BY <1>1 DEF StoresKnown
  <2>1. CASE wants[g] \notin Begun(w)
    BY <2>1
  <2>2. CASE wants[g] \in Begun(w) /\ pc[g] = "store" /\ value'[g] = value[g]
    BY <2>2, <1>3 DEF StoresKnown, Calm
  <2>3. CASE wants[g] \in Begun(w) /\ value'[g] = Fresh(wants[g])
    <3>1. x \in Covers(wants[g])
      BY <2>3, AccountedKeys DEF CacheInv
    <3>2. value'[g][x] = version[x]
      BY <2>3, <3>1 DEF Fresh
    <3> QED
      BY <3>2, <1>2
  <2> QED
    BY <2>1, <2>2, <2>3 DEF Calm
<1>5. ASSUME NEW k \in Cleaned(w)' PROVE AsNewAs(w, k)'
  <2>1. k \in Keys
    <3>1. Cleaned(w)' \subseteq DeletedOneByOne(edits'[w]) \cup PatternKeys[edits'[w]]
      BY DEF Cleaned, Dropped, Swept
    <3> QED
      BY <1>1, <3>1, DeletedIsCovered
  <2>2. CASE k \notin Cleaned(w)
    BY <2>2 DEF AsNewAs
  <2> SUFFICES ASSUME k \in Cleaned(w), cache'[k] # Nothing, cache'[k].value[x] < wrote[w]
               PROVE  \E g \in Readers : wants[g] = k /\ value'[g] = cache'[k].value /\ <<w, g>> \in overtaken'
    BY <2>2, <1>1 DEF AsNewAs
  <2>3. CASE cache'[k] = cache[k]
    <3>1. PICK g \in Readers : wants[g] = k /\ value[g] = cache[k].value /\ <<w, g>> \in overtaken
      BY <2>3, <1>3 DEF AsNewAs
    <3> QED
      BY <2>3, <3>1 DEF Calm
  <2>4. CASE \E g \in Readers : /\ pc[g] = "store" /\ wants[g] = k
                                /\ value'[g] = value[g] /\ cache'[k] = Entry(value[g])
    <3>1. PICK g \in Readers : /\ pc[g] = "store" /\ wants[g] = k
                              /\ value'[g] = value[g] /\ cache'[k] = Entry(value[g])
      BY <2>4
    <3>2. cache'[k].value = value[g] /\ k \in Begun(w)
      BY <3>1, AccountedKeys DEF Entry, CacheInv
    <3>3. <<w, g>> \in overtaken
      BY <1>3, <3>1, <3>2 DEF StoresKnown
    <3> QED
      BY <3>1, <3>2, <3>3 DEF Calm
  <2> QED
    BY <2>1, <2>3, <2>4 DEF Calm
<1> QED
  BY <1>4, <1>5 DEF Accounted

\* A mutation that has yet to delete, or that never will, has no accounts.
LEMMA NothingToAccount ==
  ASSUME NEW w \in Writers,
         pc'[w] \in {"begin", "bypassed", "refused", "error", "crashed"}
           \/ (pc'[w] = "delete" /\ doomed'[w] = DeletedOneByOne(edits'[w]))
  PROVE  Accounted(w)'
<1>1. Begun(w)' = {} /\ Cleaned(w)' = {}
  BY DEF Begun, Cleaned, Dropped, Swept
<1> QED
  BY <1>1 DEF Accounted, StoresKnown

\* Every step is calm, and no GET reads again once it was overtaken.
LEMMA StepsAreCalm ==
  ASSUME CacheInv, TypeOK', [Next]_vars
  PROVE  /\ Calm
         /\ \A w \in Writers : \A g \in Readers :
              <<w, g>> \in overtaken' => pc'[g] \in {"store", "ok", "error", "crashed"}
<1> DEFINE Later == \A w \in Writers : \A g \in Readers :
              <<w, g>> \in overtaken' => pc'[g] \in {"store", "ok", "error", "crashed"}
<1> USE DEF Requests, Goto, fixed
<1>0. TypeOK /\ Apart /\ CacheAssumption
      /\ \A w \in Writers : \A g \in Readers :
           <<w, g>> \in overtaken => pc[g] \in {"store", "ok", "error", "crashed"}
  BY CacheAssumption DEF CacheInv
<1>a. \A K : \A k \in Keys : Without(K)[k] \in {cache[k], Nothing}
  BY DEF Without
<1>b. \A g \in Readers : \A k \in Keys :
        [cache EXCEPT ![CacheKey(g)] = Entry(value[g])][k] = IF k = wants[g] THEN Entry(value[g]) ELSE cache[k]
  BY <1>0 DEF TypeOK, CacheKey
<1>1. CASE UNCHANGED vars
  BY <1>0, <1>1 DEF vars, Calm
<1>2. ASSUME NEW g \in Readers, Get(g) PROVE Calm /\ Later
  <2>1. CASE BeginGet(g) \/ GetCached(g)
    BY <1>0, <2>1 DEF TypeOK, BeginGet, GetCached, Calm
  <2>2. CASE RunGet(g)
    BY <1>0, <2>2 DEF TypeOK, RunGet, Calm
  <2>3. CASE StoreResult(g)
    BY <1>0, <1>b, <2>3 DEF TypeOK, StoreResult, Calm
  <2> QED
    BY <1>2, <2>1, <2>2, <2>3 DEF Get
<1>3. ASSUME NEW w \in Writers, Mutate(w) PROVE Calm /\ Later
  <2>1. \A g \in Readers : pc'[g] = pc[g]
    <3>1. pc' = pc \/ \E l : pc' = [pc EXCEPT ![w] = l]
      BY <1>3 DEF Mutate, RunMutation, StartPattern, DeleteKey, DeletePage
    <3>2. \A g \in Readers : g # w
      BY <1>0 DEF CacheAssumption
    <3> QED
      BY <1>0, <3>1, <3>2 DEF TypeOK
  <2>2. overtaken' = overtaken \/ \E K \in SUBSET Keys : overtaken' = overtaken \cup ({w} \X AboutToStore(K))
    <3>1. \A k \in Keys : DeleteKey(w, k) => overtaken' = overtaken \cup ({w} \X AboutToStore({k}))
      BY DEF DeleteKey
    <3>2. StartPattern(w) => overtaken' \in {overtaken, overtaken \cup ({w} \X AboutToStore(PatternKeys[edits[w]]))}
      BY DEF StartPattern
    <3>3. PatternKeys[edits[w]] \in SUBSET Keys
      BY <1>0 DEF TypeOK, CacheAssumption
    <3> QED
      BY <1>3, <3>1, <3>2, <3>3 DEF Mutate, RunMutation, DeletePage
  <2>3. cache' = cache \/ \E K \in SUBSET Keys : cache' = Without(K)
    BY <1>3 DEF Mutate, RunMutation, StartPattern, DeleteKey, DeletePage, Deleted
  <2>4. UNCHANGED <<value, fixed>>
    BY <1>3 DEF Mutate, RunMutation, StartPattern, DeleteKey, DeletePage
  <2>5. Later
    BY <1>0, <2>1, <2>2 DEF AboutToStore
  <2> QED
    BY <1>a, <2>1, <2>2, <2>3, <2>4, <2>5 DEF Calm
<1>4. ASSUME NEW q \in Requests, HandlerFails(q) \/ Misdeclared(q) \/ Crash(q) PROVE Calm /\ Later
  <2>1. UNCHANGED <<cache, value, overtaken, fixed>>
    BY <1>4 DEF HandlerFails, Misdeclared, Crash
  <2>2. \A g \in Readers : pc'[g] # "store" \/ pc'[g] = pc[g]
    BY <1>0, <1>4 DEF TypeOK, HandlerFails, Misdeclared, Crash
  <2>3. \A g \in Readers : pc'[g] = pc[g] \/ pc'[g] = "crashed" \/ pc[g] \notin {"store", "ok", "error", "crashed"}
    BY <1>0, <1>4 DEF CacheAssumption, TypeOK, HandlerFails, Misdeclared, Crash
  <2> QED
    BY <1>0, <2>1, <2>2, <2>3 DEF Calm
<1>5. ASSUME NEW q \in Requests, BackendFails(q) PROVE Calm /\ Later
  <2>1. UNCHANGED <<value, overtaken, fixed>> /\ \A g \in Readers : pc'[g] \in {pc[g], "error"}
    BY <1>0, <1>5 DEF TypeOK, BackendFails
  <2>2. \/ cache' = cache
        \/ \E K : cache' = Without(K)
        \/ q \in Readers /\ pc[q] = "store" /\ cache' = [cache EXCEPT ![CacheKey(q)] = Entry(value[q])]
    BY <1>0, <1>5 DEF BackendFails, Deleted, Apart
  <2>3. \A k \in Keys :
       \/ cache'[k] \in {cache[k], Nothing}
       \/ \E g \in Readers : /\ pc[g] = "store" /\ wants[g] = k
                             /\ value'[g] = value[g] /\ cache'[k] = Entry(value[g])
    <3>1. CASE cache' = cache
      BY <3>1
    <3>2. CASE \E K : cache' = Without(K)
      BY <1>a, <3>2
    <3>3. CASE q \in Readers /\ pc[q] = "store" /\ cache' = [cache EXCEPT ![CacheKey(q)] = Entry(value[q])]
      BY <1>b, <2>1, <3>3
    <3> QED
      BY <2>2, <3>1, <3>2, <3>3
  <2> QED
    BY <1>0, <2>1, <2>3 DEF Calm
<1>6. ASSUME NEW k \in Keys, Expire(k) PROVE Calm /\ Later
  BY <1>0, <1>a, <1>6 DEF Expire, Calm
<1> QED
  BY <1>1, <1>2, <1>3, <1>4, <1>5, <1>6 DEF Next

\* A step that leaves w where it is keeps its accounts.
LEMMA OthersKeepAccounts ==
  ASSUME CacheInv, TypeOK', Calm, NEW w \in Writers,
         pc'[w] = pc[w], doomed'[w] = doomed[w], wrote'[w] = wrote[w]
  PROVE  Accounted(w)'
<1>1. edits' = edits
  BY DEF Calm, fixed
<1>2. Begun(w)' = Begun(w) /\ Cleaned(w)' = Cleaned(w)
  BY <1>1 DEF Begun, Cleaned, Dropped, Swept
<1> QED
  BY <1>2, AccountsKept

\* So does each step of the mutation itself.
LEMMA MutationKeepsAccounts ==
  ASSUME CacheInv, TypeOK', Calm, NEW w \in Writers, Mutate(w)
  PROVE  Accounted(w)'
<1> USE DEF Requests, Goto, fixed
<1>1. edits' = edits /\ wants' = wants /\ TypeOK /\ (pc[w] = "scan" => Backend = "redis")
  BY DEF Calm, CacheInv
<1>2. CASE RunMutation(w)
  <2>1. pc'[w] = "bypassed" \/ (pc'[w] = "delete" /\ doomed'[w] = DeletedOneByOne(edits'[w]))
    BY <1>1, <1>2 DEF RunMutation, TypeOK
  <2> QED
    BY <2>1, NothingToAccount
<1>3. ASSUME NEW k \in Keys, DeleteKey(w, k) PROVE Accounted(w)'
  <2>1. pc' = pc /\ wrote' = wrote /\ pc[w] = "delete" /\ doomed'[w] = doomed[w] \ {k}
        /\ cache' = Without({k}) /\ overtaken' = overtaken \cup ({w} \X AboutToStore({k}))
    BY <1>1, <1>3 DEF DeleteKey, Deleted, TypeOK
  <2>2. Begun(w)' \ Begun(w) \subseteq {k} /\ Cleaned(w)' \ Cleaned(w) \subseteq {k}
    BY <1>1, <2>1 DEF Begun, Cleaned, Dropped, Swept
  <2>3. cache'[k] = Nothing
    BY <2>1 DEF Without
  <2>4. \A g \in Readers : pc'[g] = "store" /\ wants[g] = k => <<w, g>> \in overtaken'
    BY <2>1 DEF AboutToStore
  <2> QED
    BY <2>1, <2>2, <2>3, <2>4, AccountsKept
<1>4. CASE StartPattern(w)
  <2>1. wrote' = wrote /\ cache' = cache /\ pc[w] = "delete" /\ doomed[w] = {}
    BY <1>4 DEF StartPattern
  <2>2. CASE Backend = "redis" /\ PatternKeys[edits[w]] # {}
    <3>1. /\ pc'[w] = "scan" /\ doomed'[w] = {k \in PatternKeys[edits[w]] : cache[k] # Nothing}
          /\ overtaken' = overtaken \cup ({w} \X AboutToStore(PatternKeys[edits[w]]))
          /\ \A g \in Readers : pc'[g] = "store" => pc[g] = "store"
      BY <1>1, <1>4, <2>2 DEF StartPattern, TypeOK
    <3>2. Begun(w)' \ Begun(w) \subseteq PatternKeys[edits[w]]
      BY <1>1, <2>1, <3>1 DEF Begun, Dropped, Swept
    <3>3. \A k \in Cleaned(w)' \ Cleaned(w) : cache'[k] = Nothing
      BY <1>1, <2>1, <3>1 DEF Cleaned, Dropped, Swept
    <3>4. \A k \in PatternKeys[edits[w]] : \A g \in Readers :
            pc'[g] = "store" /\ wants[g] = k => <<w, g>> \in overtaken'
      BY <3>1 DEF AboutToStore
    <3> QED
      BY <2>1, <3>2, <3>3, <3>4, AccountsKept
  <2>3. CASE ~(Backend = "redis" /\ PatternKeys[edits[w]] # {})
    <3>1. pc'[w] = "ok"
      BY <1>1, <1>4, <2>3 DEF StartPattern, TypeOK
    <3>2. Begun(w)' = Begun(w) /\ Cleaned(w)' = Cleaned(w)
      BY <1>1, <2>1, <2>3, <3>1 DEF Begun, Cleaned, Dropped, Swept
    <3> QED
      BY <2>1, <3>2, AccountsKept
  <2> QED
    BY <2>2, <2>3
<1>5. ASSUME NEW S \in SUBSET Keys, DeletePage(w, S) PROVE Accounted(w)'
  <2>1. /\ wrote' = wrote /\ pc[w] = "scan" /\ cache' = Without(S) /\ Backend = "redis"
        /\ doomed'[w] = doomed[w] \ S
        /\ \/ pc'[w] = "scan"
           \/ pc'[w] = "ok" /\ doomed[w] \ S = {}
    BY <1>1, <1>5 DEF DeletePage, LeftToScan, TypeOK
  <2>2. Begun(w)' = Begun(w)
    BY <1>1, <2>1 DEF Begun, Dropped, Swept
  <2>3. Cleaned(w)' \ Cleaned(w) \subseteq S
    BY <1>1, <2>1 DEF Cleaned, Dropped, Swept
  <2>4. \A k \in S : cache'[k] = Nothing
    BY <2>1 DEF Without
  <2> QED
    BY <2>1, <2>2, <2>3, <2>4, AccountsKept
<1> QED
  BY <1>2, <1>3, <1>4, <1>5 DEF Mutate

-----------------------------------------------------------------------------
(* The invariant and what it says of a finished mutation.                  *)

\* No step makes a version smaller, and a mutation records the one it makes.
LEMMA VersionsGrow ==
  ASSUME CacheInv, [Next]_vars
  PROVE  /\ \A w \in Writers : wrote'[w] <= version'[edits'[w]]
         /\ \A w \in Writers : pc'[w] = "scan" => Backend = "redis"
<1> USE DEF Requests, Goto, fixed
<1>1. TypeOK /\ \A w \in Writers : wrote[w] <= version[edits[w]] /\ (pc[w] = "scan" => Backend = "redis")
  BY DEF CacheInv
<1>2. edits' = edits
  BY DEF Next, vars, Get, Mutate, BeginGet, GetCached, RunGet, StoreResult, RunMutation, DeleteKey,
         StartPattern, DeletePage, HandlerFails, BackendFails, Misdeclared, Crash, Expire
<1>3. UNCHANGED <<version, wrote>> \/ \E w \in Writers : Commits(w)
  BY DEF Next, vars, Get, Mutate, BeginGet, GetCached, RunGet, StoreResult, RunMutation, DeleteKey,
         StartPattern, DeletePage, HandlerFails, BackendFails, Misdeclared, Crash, Expire
<1>4. \A w \in Writers : wrote'[w] <= version'[edits'[w]]
  <2>1. CASE UNCHANGED <<version, wrote>>
    BY <1>1, <1>2, <2>1
  <2>2. ASSUME NEW v \in Writers, Commits(v), NEW w \in Writers
        PROVE  wrote'[w] <= version'[edits'[w]]
    BY <1>1, <1>2, <2>2 DEF TypeOK, Commits
  <2> QED
    BY <1>3, <2>1, <2>2
<1>5. ASSUME NEW w \in Writers, pc'[w] = "scan" PROVE pc[w] = "scan" \/ Backend = "redis"
  <2>1. CASE UNCHANGED vars
    BY <1>5, <2>1 DEF vars
  <2>2. ASSUME NEW g \in Readers, Get(g) PROVE pc[w] = "scan"
    BY <1>1, <1>5, <2>2 DEF TypeOK, Get, BeginGet, GetCached, RunGet, StoreResult
  <2>3. ASSUME NEW v \in Writers, Mutate(v) PROVE pc[w] = "scan" \/ Backend = "redis"
    BY <1>1, <1>5, <2>3 DEF TypeOK, Mutate, RunMutation, StartPattern, DeleteKey, DeletePage
  <2>4. ASSUME NEW q \in Requests, HandlerFails(q) \/ BackendFails(q) \/ Misdeclared(q) \/ Crash(q) PROVE pc[w] = "scan"
    BY <1>1, <1>5, <2>4 DEF TypeOK, HandlerFails, BackendFails, Misdeclared, Crash
  <2>5. ASSUME NEW k \in Keys, Expire(k) PROVE pc[w] = "scan"
    BY <1>5, <2>5 DEF Expire
  <2> QED
    BY <2>1, <2>2, <2>3, <2>4, <2>5 DEF Next
<1> QED
  BY <1>1, <1>4, <1>5

\* At first no entry exists and no mutation has an account.
LEMMA InitHolds == ASSUME Init PROVE CacheInv
<1>1. TypeOK
  BY CacheAssumption DEF CacheAssumption, Init, TypeOK, Requests
<1>2. \A w \in Writers : pc[w] = "begin" /\ wrote[w] = 0
  BY DEF Init, Requests
<1>3. \A w \in Writers : Accounted(w)
  BY <1>2 DEF Accounted, StoresKnown, Begun, Cleaned, Dropped, Swept
<1>4. \A w \in Writers : version[edits[w]] \in Nat
  BY <1>1 DEF TypeOK
<1> QED
  BY <1>1, <1>2, <1>3, <1>4 DEF Init, CacheInv, Apart

\* Every step keeps the invariant.
LEMMA StepKeeps == ASSUME CacheInv, [Next]_vars PROVE CacheInv'
<1>1. TypeOK' /\ Apart'
  BY TypeKept DEF CacheInv
<1>2. Calm
  BY <1>1, StepsAreCalm
<1>3. TypeOK
  BY DEF CacheInv
<1>4. ASSUME NEW w \in Writers PROVE Accounted(w)'
  <2> USE DEF Requests, Goto
  <2>1. CASE pc'[w] = pc[w] /\ doomed'[w] = doomed[w] /\ wrote'[w] = wrote[w]
    BY <1>1, <1>2, <2>1, OthersKeepAccounts
  <2>2. CASE UNCHANGED vars
    BY <2>1, <2>2 DEF vars
  <2>3. ASSUME NEW g \in Readers, Get(g) PROVE Accounted(w)'
    <3>1. g # w
      BY CacheAssumption DEF CacheAssumption
    <3> QED
      BY <1>3, <2>1, <2>3, <3>1 DEF TypeOK, Get, BeginGet, GetCached, RunGet, StoreResult
  <2>4. ASSUME NEW v \in Writers, Mutate(v) PROVE Accounted(w)'
    <3>1. CASE v = w
      BY <1>1, <1>2, <2>4, <3>1, MutationKeepsAccounts
    <3>2. CASE v # w
      <4>1. pc'[w] = pc[w] /\ doomed'[w] = doomed[w] /\ wrote'[w] = wrote[w]
        BY <1>3, <2>4, <3>2
           DEF TypeOK, Mutate, RunMutation, Commits, StartPattern, DeleteKey, DeletePage
      <4> QED
        BY <2>1, <4>1
    <3> QED
      BY <3>1, <3>2
  <2>5. ASSUME NEW q \in Requests, HandlerFails(q) \/ BackendFails(q) \/ Misdeclared(q) \/ Crash(q) PROVE Accounted(w)'
    <3>1. CASE q = w
      <4>1. pc'[w] \in {"refused", "error", "crashed"}
        BY <1>3, <2>5, <3>1 DEF TypeOK, HandlerFails, BackendFails, Misdeclared, Crash
      <4> QED
        BY <4>1, NothingToAccount
    <3>2. CASE q # w
      <4>1. pc'[w] = pc[w] /\ doomed'[w] = doomed[w] /\ wrote'[w] = wrote[w]
        BY <1>3, <2>5, <3>2 DEF TypeOK, HandlerFails, Commits, BackendFails, Misdeclared, Crash
      <4> QED
        BY <2>1, <4>1
    <3> QED
      BY <3>1, <3>2
  <2>6. ASSUME NEW k \in Keys, Expire(k) PROVE Accounted(w)'
    BY <2>1, <2>6 DEF Expire
  <2> QED
    BY <2>2, <2>3, <2>4, <2>5, <2>6 DEF Next
<1> QED
  BY <1>1, <1>4, StepsAreCalm, VersionsGrow DEF CacheInv

\* The invariant of every behaviour.
LEMMA CacheInvariant == Spec => []CacheInv
  BY InitHolds, StepKeeps, PTL DEF Spec

\* Every variable holds a value of its kind at all times: a value that is
\* stored is one of its key, whoever stored it and whatever failed.
THEOREM EntriesAreTyped == Spec => []TypeOK
<1>1. CacheInv => TypeOK
  BY DEF CacheInv
<1> QED
  BY <1>1, CacheInvariant, PTL

\* A mutation that has finished with the cache leaves no older entry under the
\* keys it was to clear, save one whose GET it overtook between read and store.
THEOREM FinishedMutationsAreClean == Spec => []NothingOlderIsLeft
<1>1. CacheInv => NothingOlderIsLeft
  <2> SUFFICES ASSUME CacheInv, NEW w \in Writers, NEW k \in Keys, HasCleared(w, k)
               PROVE  AsNewAs(w, k)
    BY DEF NothingOlderIsLeft
  <2>1. k \in Cleaned(w)
    BY DEF HasCleared, Cleared, Cleaned, Dropped, Swept, DeletedOneByOne, FormattedExtra
  <2> QED
    BY <2>1 DEF CacheInv, Accounted
<1> QED
  BY <1>1, CacheInvariant, PTL
=============================================================================
