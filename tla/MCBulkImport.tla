----------------------------- MODULE MCBulkImport -----------------------------
(* Small instances of the bulk import for TLC. *)
EXTENDS BulkImport

CONSTANTS d1, d2

GoodRow(d) == [kind |-> "good", domain |-> d]
Nameless   == [kind |-> "nameless", domain |-> d1]
LongRow(d) == [kind |-> "overlong", domain |-> d]
Empty      == [kind |-> "empty", domain |-> NoDomain]
Broken     == [kind |-> "broken", domain |-> NoDomain]

MixedRows == {GoodRow(d1), GoodRow(d2), GoodRow(NoDomain), Nameless, LongRow(NoDomain), LongRow(d1)}

\* Each kind of row before a row without a domain, and files of three rows that
\* end in a good row, which shows what the rows before it did: the first row
\* creates a company, fails to, or is nameless; the second has no domain, is
\* nameless, or fails after its company has been looked up.
MixedFiles ==
  {<<>>} \cup {<<a, GoodRow(NoDomain)>> : a \in MixedRows}
    \cup {<<a, b, GoodRow(d1)>> : a \in {GoodRow(d1), GoodRow(d2), Nameless},
                                  b \in {GoodRow(NoDomain), Nameless, LongRow(d1)}}

\* Empty lines before, between and behind rows that fail or not.
GappedFiles ==
  {<<Empty>>, <<Empty, Nameless>>, <<GoodRow(d1), Empty, Nameless, Empty, GoodRow(NoDomain)>>,
   <<LongRow(d1), Empty, GoodRow(d1)>>}

\* Files that the reader gives up in the middle.
BrokenFiles == {<<Broken>>, <<GoodRow(d1), Empty, Broken>>, <<Nameless, LongRow(NoDomain), Broken>>}

AllFiles == MixedFiles \cup GappedFiles \cup BrokenFiles
=============================================================================
