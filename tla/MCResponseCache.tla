---------------------------- MODULE MCResponseCache ----------------------------
(* A small instance of the response cache for TLC: resources with a key of    *)
(* their own, a list that a mutation of x names by an argument, two pages     *)
(* that the pattern of every mutation matches; a mutation of y names the list *)
(* too, but by a literal id.                                                  *)
EXTENDS ResponseCache

CONSTANTS x, y, kx, ky, list, page1, page2

MCOwnKey == [r \in Resources |-> IF r = x THEN kx ELSE ky]
MCArgExtras == [r \in Resources |-> IF r = x THEN {list} ELSE {}]
MCLiteralExtras == [r \in Resources |-> IF r = x THEN {} ELSE {list}]
MCPatternKeys == [r \in Resources |-> {page1, page2}]
=============================================================================
