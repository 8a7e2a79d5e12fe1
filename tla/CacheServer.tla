------------------------------ MODULE CacheServer ------------------------------
(***************************************************************************)
(* The Redis or Memcached server that the workers share, as the two        *)
(* backends use it (infrastructure/cache/backends): what they write for a  *)
(* value, what they make of it when they read it, and what the server does *)
(* with an expiration time.                                                *)
(*                                                                         *)
(* A value is its type and its characters; the server keeps characters.    *)
(* Each operation takes the name of the backend that is called.  Pages of  *)
(* SCAN, and other calls between them, are the matter of ResponseCache.    *)
(*                                                                         *)
(* A definition whose comment begins with "Altered" is a plausible slip in *)
(* the one that follows it; Next never reaches it.                         *)
(***************************************************************************)
EXTENDS Naturals

CONSTANTS
  Keys,
  Values,       \* the values that callers set
  Expirations,  \* the expirations they give, in seconds
  Reliable,     \* FALSE if the server may stop and connections may break
  NoEntry       \* no entry under a key

\* Characters that are JSON, with the type json.loads gives them: two objects,
\* a number, null, a Boolean as JSON writes it (Python writes True).
JsonType == [c \in {"{}", "[]", "1", "null", "true"} |->
               CASE c \in {"{}", "[]"} -> "object"
                 [] c = "1"            -> "number"
                 [] c = "null"         -> "none"
                 [] c = "true"         -> "bool"]

Characters == DOMAIN JsonType \cup {"True", "word"}
Types == {"object", "number", "none", "bool", "text", "bytes"}

ASSUME CacheServerAssumption ==
  /\ Values \subseteq [type : Types, chars : Characters]
  /\ \A v \in Values : v.type \in {"object", "number", "none"} =>
       v.chars \in DOMAIN JsonType /\ JsonType[v.chars] = v.type
  /\ Expirations \subseteq Nat
  /\ Reliable \in BOOLEAN
  /\ NoEntry \notin Keys \cup [type : Types, chars : Characters] \cup [data : Characters, expires : BOOLEAN]

VARIABLES
  entries,  \* the entry under each key
  up,       \* whether the server can be reached
  reply     \* the last call: its key, the value set or got, its outcome

server == <<entries, up, reply>>

Nil == [type |-> "none", chars |-> "null"]

\* json.dumps for what is no scalar, text and bytes as they are, str(value)
\* for numbers and Booleans: the type is gone.
Encode(v) == v.chars

\* Altered: what is not JSON is taken for a miss.
DecodeOrNone(c) == IF c \in DOMAIN JsonType THEN [type |-> JsonType[c], chars |-> c] ELSE Nil

\* json.loads, or the bytes themselves.
Decode(c) ==
  [type |-> IF c \in DOMAIN JsonType THEN JsonType[c] ELSE "bytes", chars |-> c]

\* The values that survive: objects, numbers, None and bytes that are no JSON.
Faithful == {v \in Values : v.type \in {"object", "number", "none"}
                              \/ (v.type = "bytes" /\ v.chars \notin DOMAIN JsonType)}

\* Thirty days: to Memcached a longer expiration is a date, here one long past.
MonthSeconds == 2592000

\* What an expiration does to a new entry.  Redis refuses EX 0; 0 is for ever to
\* Memcached.
Fate(name, seconds) ==
  CASE seconds = 0 /\ name = "redis"                      -> "refused"
    [] seconds = 0 /\ name = "memcached"                  -> "forever"
    [] seconds > MonthSeconds /\ name = "memcached"       -> "gone"
    [] OTHER                                              -> "expires"

ServerInit ==
  /\ entries = [k \in Keys |-> NoEntry]
  /\ up = TRUE
  /\ reply = [call |-> "none", key |-> NoEntry, value |-> NoEntry, outcome |-> "done"]

Says(call, k, v, o) == reply' = [call |-> call, key |-> k, value |-> v, outcome |-> o]

\* The call raises and has had no effect.
Refuses(call, k, o) == Says(call, k, NoEntry, o) /\ UNCHANGED entries

Left(K) == [k \in Keys |-> IF k \in K THEN NoEntry ELSE entries[k]]

\* The connection may break while the worker waits for the reply: the operation
\* has taken effect and raises nevertheless.
Effect(call, k, v, e) ==
  /\ up /\ entries' = e
  /\ Says(call, k, v, "done") \/ (~Reliable /\ Says(call, k, NoEntry, "raised"))

-----------------------------------------------------------------------------
(* The operations of a backend.                                            *)

SetEntry(name, k, v, seconds) ==
  LET entry == [data |-> Encode(v), expires |-> Fate(name, seconds) = "expires"]
  IN  CASE Fate(name, seconds) = "refused" -> up /\ Refuses("set", k, "raised")
        [] Fate(name, seconds) = "gone"    -> Effect("set", k, v, Left({k}))
        [] OTHER -> Effect("set", k, v, [entries EXCEPT ![k] = entry])

GetEntry(k) ==
  /\ up
  /\ Says("get", k, IF entries[k] = NoEntry THEN Nil ELSE Decode(entries[k].data), "done")
  /\ UNCHANGED entries

DeleteEntry(k) == Effect("delete", k, NoEntry, Left({k}))

\* Memcached cannot match patterns and raises without asking the server.
DeleteMatching(name, K) ==
  IF name = "redis"
    THEN Effect("delete_pattern", NoEntry, NoEntry, Left(K))
    ELSE Refuses("delete_pattern", NoEntry, "unsupported")

\* Redis is asked, Memcached is read: there a None counts as absent.
Exists(name, k) ==
  LET present == entries[k] # NoEntry
                   /\ (name = "memcached" => Decode(entries[k].data) # Nil)
  IN  /\ up
      /\ Says("exists", k, NoEntry, IF present THEN "yes" ELSE "no")
      /\ UNCHANGED entries

ClearAll == Effect("clear", NoEntry, NoEntry, Left(Keys))

\* ping hides every exception.  Memcached's reads back an entry of its own, which
\* lives for a second and may be gone.
Ping ==
  /\ \E o \in {"yes", "no"} : (o = "yes" => up) /\ Says("ping", NoEntry, NoEntry, o)
  /\ UNCHANGED entries

\* An operation on a server that cannot be reached raises.
Unreachable(call, k) == ~up /\ Refuses(call, k, "raised")

-----------------------------------------------------------------------------
(* The server by itself.                                                   *)

\* An entry expires, or is evicted whether it has an expiration or not.
Expire(k) ==
  /\ entries[k] # NoEntry
  /\ entries' = Left({k})
  /\ UNCHANGED <<up, reply>>

\* The network breaks or the server stops; a stopped server has lost its
\* entries when it is back, unless it keeps them on disk.
GoDown == ~Reliable /\ up /\ up' = FALSE /\ UNCHANGED <<entries, reply>>

ComeUp ==
  /\ ~up /\ up' = TRUE
  /\ entries' = entries \/ entries' = Left(Keys)
  /\ UNCHANGED reply

ServerNext == GoDown \/ ComeUp \/ \E k \in Keys : Expire(k)
=============================================================================
