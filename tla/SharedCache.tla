------------------------------ MODULE SharedCache ------------------------------
(***************************************************************************)
(* What the documents promise of a cache, whichever server is behind it:   *)
(* the docstrings of CacheBackend (infrastructure/cache/base.py) and the   *)
(* guide to direct access (docs/user-guide/caching/redis-cache.md).  What  *)
(* was set comes back as it was until it is dropped, replaced or           *)
(* forgotten.  A connection error is never raised: get answers None, exists*)
(* answers False, the rest return.  Two refusals are documented: a pattern *)
(* where the backend cannot match any, and a backend nobody registered.    *)
(***************************************************************************)
CONSTANTS
  Keys,
  Values,    \* what callers set: JSON values
  Missing,   \* get's answer when there is no entry: None
  Nothing,   \* no entry
  Reliable   \* FALSE if connections may break

VARIABLES
  store,     \* the value under each key, or Nothing
  answer     \* the last call: its key, the value set or found, its outcome

shared == <<store, answer>>

SInit ==
  /\ store = [k \in Keys |-> Nothing]
  /\ answer = [call |-> "none", key |-> Nothing, value |-> Nothing, outcome |-> "done"]

Reply(call, k, v, o) == answer' = [call |-> call, key |-> k, value |-> v, outcome |-> o]

Lacking(K) == [k \in Keys |-> IF k \in K THEN Nothing ELSE store[k]]

Put(k, v) == store' = [store EXCEPT ![k] = v] /\ Reply("set", k, v, "done")

Look(k) ==
  /\ Reply("get", k, IF store[k] = Nothing THEN Missing ELSE store[k], "done")
  /\ UNCHANGED store

Has(k) ==
  /\ Reply("exists", k, Nothing, IF store[k] = Nothing THEN "no" ELSE "yes")
  /\ UNCHANGED store

Drop(call, k, K) == store' = Lacking(K) /\ Reply(call, k, Nothing, "done")

\* A judgement of the moment, which says nothing of the entries.
Ping == \E o \in {"yes", "no"} : Reply("ping", Nothing, Nothing, o) /\ UNCHANGED store

\* A connection error: what changes entries has taken effect (and is one of the
\* actions above) or has not.
Disturbed(k) ==
  /\ ~Reliable /\ UNCHANGED store
  /\ \/ Reply("get", k, Missing, "done")
     \/ Reply("exists", k, Nothing, "no")
     \/ \E v \in Values : Reply("set", k, v, "done")
     \/ \E call \in {"delete", "delete_pattern", "clear"} : Reply(call, k, Nothing, "done")

\* The documented refusals.
Unsupported == Reply("delete_pattern", Nothing, Nothing, "unsupported") /\ UNCHANGED store

Unregistered ==
  /\ \E call \in {"set", "get", "exists", "delete", "delete_pattern", "clear"}, k \in Keys \cup {Nothing} :
       Reply(call, k, Nothing, "unregistered")
  /\ UNCHANGED store

\* Entries expire, are evicted, or are lost with the server.
Forget(K) == store' = Lacking(K) /\ UNCHANGED answer

SNext ==
  \/ \E k \in Keys : Look(k) \/ Has(k) \/ Drop("delete", k, {k}) \/ \E v \in Values : Put(k, v)
  \/ \E K \in SUBSET Keys : Drop("delete_pattern", Nothing, K) \/ Forget(K)
  \/ Drop("clear", Nothing, Keys)
  \/ \E k \in Keys \cup {Nothing} : Disturbed(k)
  \/ Ping \/ Unsupported \/ Unregistered

SSpec == SInit /\ [][SNext]_shared
=============================================================================
