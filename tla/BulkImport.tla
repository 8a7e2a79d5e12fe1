------------------------------ MODULE BulkImport ------------------------------
(***************************************************************************)
(* POST /contacts/bulk: ContactService.bulk_create_from_csv reads one CSV  *)
(* file row by row, in one database session per request, and commits each  *)
(* contact on its own.  Companies are looked up by domain, or created, by  *)
(* CompanyService.get_or_create_by_domain, which commits too.  Several     *)
(* imports run at once.                                                    *)
(*                                                                         *)
(* What the ORM does when a statement fails is part of the behaviour: until*)
(* somebody calls rollback(), which nobody does, the session refuses every *)
(* further statement.  A failed flush moreover expires every object of the *)
(* session; a failed query or refresh, and a failed COMMIT, do not.  From  *)
(* its first failed statement on an import is spoilt.                      *)
(*                                                                         *)
(* A definition whose comment begins with "Altered" is a plausible slip in *)
(* the one that follows it; Next never reaches it.                         *)
(***************************************************************************)
EXTENDS Naturals, Sequences, FiniteSets

CONSTANTS
  Imports,      \* upload requests
  Domains,      \* company domains in the files
  NoDomain,     \* an empty company_domain cell
  LongDomains,  \* domains longer than companies.domain can store
  Files,        \* the files that may be uploaded: sequences of RowKinds
  Unreadable,   \* a file that is not UTF-8 or lacks a required column
  Garbled,      \* a file on whose header the csv reader raises
  NoCompany,    \* the NULL company_id
  Failures      \* infrastructure failures that may happen

\* One line after the header.  "nameless" lacks a first or last name, "overlong"
\* has a value that a column of contacts cannot store, "good" has neither fault.
\* The csv reader passes over an "empty" line and raises on a "broken" one.
RowKinds == [kind : {"good", "nameless", "overlong", "empty", "broken"},
             domain : Domains \cup {NoDomain}]

ASSUME ImportAssumption ==
  /\ LongDomains \subseteq Domains
  /\ NoDomain \notin Domains
  /\ Files \subseteq Seq(RowKinds)
  /\ Unreadable \notin Files /\ Garbled \notin Files /\ Unreadable # Garbled
  /\ NoCompany \notin Nat
  /\ Failures \subseteq {"crash", "connection"}

VARIABLES
  companies,  \* companies rows: id and domain
  contacts,   \* contacts rows: which file and row they come from, company_id
  pc,         \* where each import is
  file,       \* the uploaded file
  at,         \* the line being imported, or to be read next
  number,     \* the number that enumerate gives it
  companyId,  \* company_id of that row
  created,    \* rows whose contact is in the list of created contacts
  errors,     \* row numbers in the list of errors
  session,    \* "usable", or what has failed: "flush", "query" or "commit"
  spoilt      \* the row whose statement failed first, or 0

db   == <<companies, contacts>>
vars == <<companies, contacts, pc, file, at, number, companyId, created, errors, session, spoilt>>
status == <<session, spoilt>>

\* Altered: rows are counted without the header.
FirstDataNumber == 1

\* enumerate(reader, start=2): the header is row 1.
FirstNumber == 2

Init ==
  /\ companies = {}
  /\ contacts = {}
  /\ pc = [i \in Imports |-> "received"]
  /\ file \in [Imports -> Files \cup {Unreadable, Garbled}]
  /\ at = [i \in Imports |-> 1]
  /\ number = [i \in Imports |-> FirstNumber]
  /\ companyId = [i \in Imports |-> NoCompany]
  /\ created = [i \in Imports |-> {}]
  /\ errors = [i \in Imports |-> {}]
  /\ session = [i \in Imports |-> "usable"]
  /\ spoilt = [i \in Imports |-> 0]

Row(i) == file[i][at[i]]

Goto(i, l) == pc' = [pc EXCEPT ![i] = l]

\* Altered: the failed row is tried again, for ever.
RetryRow(i) ==
  /\ errors' = [errors EXCEPT ![i] = @ \cup {number[i]}]
  /\ Goto(i, "row")
  /\ UNCHANGED <<at, number, created>>

\* Altered: the row after a failed one is passed over.
SkipNextRow(i) ==
  /\ errors' = [errors EXCEPT ![i] = @ \cup {number[i]}]
  /\ at' = [at EXCEPT ![i] = @ + 2]
  /\ number' = [number EXCEPT ![i] = @ + 1]
  /\ Goto(i, "row")
  /\ UNCHANGED created

\* On to the next turn of the loop.
NextRow(i) ==
  /\ at' = [at EXCEPT ![i] = @ + 1]
  /\ number' = [number EXCEPT ![i] = @ + 1]
  /\ Goto(i, "row")

\* The except branch of the loop: record the row, go on with the next one.
RowFails(i) ==
  /\ errors' = [errors EXCEPT ![i] = @ \cup {number[i]}]
  /\ NextRow(i)
  /\ UNCHANGED created

Usable(i) == session[i] = "usable"

\* The row has failed in the database, in the way that s says.
Spoil(i, s) ==
  /\ RowFails(i)
  /\ session' = [session EXCEPT ![i] = s]
  /\ spoilt' = [spoilt EXCEPT ![i] = IF @ = 0 THEN at[i] ELSE @]

\* Decoding and the header check come first: a 422, or a 500 when the csv reader
\* itself raises, which nobody catches.
ReadHeader(i) ==
  /\ pc[i] = "received"
  /\ Goto(i, CASE file[i] = Unreadable -> "rejected"
               [] file[i] = Garbled    -> "error"
               [] OTHER                -> "row")
  /\ UNCHANGED <<db, file, at, number, companyId, created, errors, status>>

AtLine(i) == pc[i] = "row" /\ at[i] <= Len(file[i])

\* DictReader passes over empty lines and enumerate does not see them.
SkipEmptyLine(i) ==
  /\ AtLine(i) /\ Row(i).kind = "empty"
  /\ at' = [at EXCEPT ![i] = @ + 1]
  /\ UNCHANGED <<db, pc, file, number, companyId, created, errors, status>>

\* csv.Error is raised by the loop and not within its try: a 500, although the
\* rows before are stored.
ReadFails(i) ==
  /\ AtLine(i) /\ Row(i).kind = "broken"
  /\ Goto(i, "error")
  /\ UNCHANGED <<db, file, at, number, companyId, created, errors, status>>

\* Altered: the cell stands in for the key of the company.
DomainAsId(i) == Row(i).domain

\* company_id = None at the top of _create_one.
NewCompanyId(i) == NoCompany

\* _create_one, up to its first statement.
StartRow(i) ==
  /\ AtLine(i) /\ Row(i).kind \notin {"empty", "broken"}
  /\ companyId' = [companyId EXCEPT ![i] = NewCompanyId(i)]
  /\ IF Row(i).kind = "nameless"
       THEN RowFails(i)
       ELSE /\ Goto(i, IF Row(i).domain = NoDomain THEN "insert" ELSE "lookup")
            /\ UNCHANGED <<at, number, created, errors>>
  /\ UNCHANGED <<db, file, status>>

\* crud_companies.get: somebody's committed company with this domain.
LookUpCompany(i) ==
  /\ pc[i] = "lookup"
  /\ IF Usable(i)
       THEN /\ \/ \E c \in companies :
                    /\ c.domain = Row(i).domain
                    /\ companyId' = [companyId EXCEPT ![i] = c.id]
                    /\ Goto(i, "insert")
               \/ /\ \A c \in companies : c.domain # Row(i).domain
                  /\ Goto(i, "create")
                  /\ UNCHANGED companyId
            /\ UNCHANGED <<at, number, created, errors>>
       ELSE RowFails(i) /\ UNCHANGED companyId
  /\ UNCHANGED <<db, file, status>>

\* Altered: companies.domain is not unique.
AnyStorable(d) == d \notin LongDomains

\* The INSERT passes: the value fits and companies.domain stays unique.
Storable(d) == d \notin LongDomains /\ \A c \in companies : c.domain # d

NewCompany(i) == companies \cup {[id |-> Cardinality(companies) + 1, domain |-> Row(i).domain]}

\* crud_companies.create commits the company, unless another import committed
\* one for the same domain since the lookup.
CreateCompany(i) ==
  /\ pc[i] = "create"
  /\ IF Storable(Row(i).domain)
       THEN /\ companies' = NewCompany(i)
            /\ companyId' = [companyId EXCEPT ![i] = Cardinality(companies) + 1]
            /\ Goto(i, "insert")
            /\ UNCHANGED <<at, number, created, errors, status>>
       ELSE Spoil(i, "flush") /\ UNCHANGED <<companies, companyId>>
  /\ UNCHANGED <<contacts, file>>

Contact(i) == [file |-> i, row |-> at[i], company |-> companyId[i]]

\* db.add and db.commit of the contact, then db.refresh.
InsertContact(i) ==
  /\ pc[i] = "insert" /\ Usable(i)
  /\ IF Row(i).kind = "overlong"
       THEN Spoil(i, "flush") /\ UNCHANGED contacts
       ELSE /\ contacts' = contacts \cup {Contact(i)}
            /\ created' = [created EXCEPT ![i] = @ \cup {at[i]}]
            /\ NextRow(i)
            /\ UNCHANGED <<errors, status>>
  /\ UNCHANGED <<companies, file, companyId>>

\* The session refuses; what was a failed query becomes a failed flush.
InsertRefused(i) ==
  /\ pc[i] = "insert" /\ ~Usable(i)
  /\ RowFails(i)
  /\ session' = [session EXCEPT ![i] = IF @ = "query" THEN "flush" ELSE @]
  /\ UNCHANGED <<db, file, companyId, spoilt>>

\* The connection breaks: in the lookup, in a flush, in a COMMIT that may have
\* taken effect, or in the refresh of a contact that is committed.
ConnectionBreaks(i) ==
  /\ "connection" \in Failures
  /\ Usable(i)
  /\ \/ pc[i] = "lookup" /\ Spoil(i, "query") /\ UNCHANGED db
     \/ pc[i] \in {"create", "insert"} /\ Spoil(i, "flush") /\ UNCHANGED db
     \/ /\ pc[i] = "create" /\ Storable(Row(i).domain)
        /\ Spoil(i, "commit")
        /\ companies' = NewCompany(i) \/ UNCHANGED companies
        /\ UNCHANGED contacts
     \/ /\ pc[i] = "insert" /\ Row(i).kind # "overlong"
        /\ \/ Spoil(i, "commit") /\ (contacts' = contacts \cup {Contact(i)} \/ UNCHANGED contacts)
           \/ Spoil(i, "query") /\ contacts' = contacts \cup {Contact(i)}
        /\ UNCHANGED companies
  /\ UNCHANGED <<file, companyId>>

\* Building the reply reads every created contact; after a failed flush they
\* have expired and cannot be loaded again, which ends in a 500.
Reply(i) ==
  /\ pc[i] = "row" /\ at[i] > Len(file[i])
  /\ Goto(i, IF session[i] = "flush" /\ created[i] # {} THEN "error" ELSE "ok")
  /\ UNCHANGED <<db, file, at, number, companyId, created, errors, status>>

\* The worker dies between two statements.
Crash(i) ==
  /\ "crash" \in Failures
  /\ pc[i] \in {"row", "lookup", "create", "insert"}
  /\ Goto(i, "crashed")
  /\ UNCHANGED <<db, file, at, number, companyId, created, errors, status>>

Progress(i) ==
  \/ ReadHeader(i) \/ SkipEmptyLine(i) \/ ReadFails(i) \/ StartRow(i)
  \/ LookUpCompany(i) \/ CreateCompany(i) \/ InsertContact(i) \/ InsertRefused(i)
  \/ Reply(i)

Next == \E i \in Imports : Progress(i) \/ ConnectionBreaks(i) \/ Crash(i)

\* A handler that can go on does.
Spec == Init /\ [][Next]_vars /\ \A i \in Imports : WF_vars(Progress(i))

-----------------------------------------------------------------------------
Companies == [id : Nat \ {0}, domain : Domains]
ContactRows == [file : Imports, row : Nat \ {0}, company : Nat \cup {NoCompany}]

\* Every variable holds a value of its kind.
TypeOK ==
  /\ companies \subseteq Companies
  /\ contacts \subseteq ContactRows
  /\ pc \in [Imports -> {"received", "row", "lookup", "create", "insert",
                         "ok", "rejected", "error", "crashed"}]
  /\ file \in [Imports -> Files \cup {Unreadable, Garbled}]
  /\ at \in [Imports -> Nat \ {0}]
  /\ number \in [Imports -> Nat]
  /\ companyId \in [Imports -> Nat \cup {NoCompany}]
  /\ created \in [Imports -> SUBSET (Nat \ {0})]
  /\ errors \in [Imports -> SUBSET Nat]
  /\ session \in [Imports -> {"usable", "flush", "query", "commit"}]
  /\ spoilt \in [Imports -> Nat]

\* Rows sharing a company_domain resolve to one Company, also across imports
\* that all looked it up before any of them had created it; and a row without
\* a domain gets none, whatever the row before it had.
RowsResolveToTheirCompany ==
  \A x, y \in contacts :
    LET dx == file[x.file][x.row].domain
        dy == file[y.file][y.row].domain
    IN  /\ dx = NoDomain <=> x.company = NoCompany
        /\ dx # NoDomain => (dx = dy <=> x.company = y.company)

\* The lines before the nth that are not empty.
RowsBefore(i, n) == {k \in 1..(n - 1) : file[i][k].kind # "empty"}
Rows(i) == RowsBefore(i, Len(file[i]) + 1)
Stored(i) == {x.row : x \in {c \in contacts : c.file = i}}

\* The number of line k when the header is 1 and empty lines do not count.
RowNumber(i, k) == Cardinality(RowsBefore(i, k)) + 2

\* A 200 tells what happened: the created contacts are stored, every other row
\* of the file is reported under its number among the rows, and at most one
\* row that is reported is stored nevertheless: the one where the connection
\* broke after its COMMIT had taken effect.
ReportIsTrue ==
  \A i \in Imports : pc[i] = "ok" =>
    /\ created[i] \subseteq Stored(i)
    /\ Stored(i) \ created[i] \subseteq {spoilt[i]}
    /\ errors[i] = {RowNumber(i, k) : k \in Rows(i) \ created[i]}
    /\ Cardinality({x \in contacts : x.file = i}) = Cardinality(Stored(i))

\* What a row of a file must be to become a contact.
Good(i, k) == file[i][k].kind = "good" /\ file[i][k].domain \notin LongDomains

\* As long as no statement has failed in the database, rows do not harm each
\* other: every good row that has been processed is stored, whatever nameless
\* rows and empty lines stand between, and also when a line that the reader
\* cannot read ends the import; after the first failed statement nothing is.
TolerantUntilSpoilt ==
  \A i \in Imports : \A k \in 1..(at[i] - 1) :
    /\ k \in Stored(i) => Good(i, k)
    /\ k # spoilt[i] => (k \in Stored(i) <=> Good(i, k) /\ (spoilt[i] = 0 \/ k < spoilt[i]))

\* Every import is answered, or its worker dies.
EveryImportEnds ==
  \A i \in Imports : <>(pc[i] \in {"ok", "rejected", "error", "crashed"})

\* The csv reader gets through the whole file.
Parseable(i) == file[i] \in Files /\ \A k \in Rows(i) : file[i][k].kind # "broken"

\* "Bulk import is row-tolerant: a bad row is reported here, not a reason to
\* reject the whole file."
BadRowIsNoReasonToReject ==
  \A i \in Imports : Parseable(i) => pc[i] # "error"

\* "Row 1 is the header, so the first data row is row 2 - matches what a caller
\* sees if they open the file in a spreadsheet", where line k after the header
\* is row k + 1.
ReportedRowsAreInTheSheet ==
  \A i \in Imports : pc[i] = "ok" =>
    errors[i] = {k + 1 : k \in Rows(i) \ created[i]}
=============================================================================
