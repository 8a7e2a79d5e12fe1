--------------------------- MODULE BulkImportProofs ---------------------------
(***************************************************************************)
(* Proofs about the bulk import, for any number of imports, any files and  *)
(* any domains.                                                            *)
(***************************************************************************)
EXTENDS BulkImport, FiniteSetTheorems, TLAPS

\* A company is found by its id and by its domain, and ids are given out in order.
CompaniesSound ==
  /\ IsFiniteSet(companies)
  /\ \A c \in companies : c.id <= Cardinality(companies)
  /\ \A c, e \in companies : c.id = e.id \/ c.domain = e.domain => c = e

\* The key k belongs to the domain d.
BelongsTo(k, d) ==
  IF d = NoDomain THEN k = NoCompany ELSE [id |-> k, domain |-> d] \in companies

\* An import between two statements is at a row of its file, and about to
\* insert a contact it has the company of the row.
Placed(i) ==
  /\ pc[i] \in {"row", "lookup", "create", "insert"} => file[i] \in Files
  /\ pc[i] \in {"lookup", "create", "insert"} => at[i] \in 1..Len(file[i])
  /\ pc[i] \in {"lookup", "create"} => Row(i).domain # NoDomain
  /\ pc[i] = "insert" => BelongsTo(companyId[i], Row(i).domain)

\* A stored contact comes from a row of a file and has the company of that row.
FiledRight(x) ==
  /\ x.file \in Imports
  /\ file[x.file] \in Files
  /\ x.row \in 1..Len(file[x.file])
  /\ BelongsTo(x.company, file[x.file][x.row].domain)

ImportInv ==
  /\ TypeOK
  /\ CompaniesSound
  /\ \A i \in Imports : Placed(i)
  /\ \A x \in contacts : FiledRight(x)

\* A row of a file that may be uploaded is one of RowKinds.
LEMMA RowIsARow ==
  ASSUME NEW f \in Files, NEW k \in 1..Len(f)
  PROVE  f[k] \in RowKinds /\ f[k].kind \in {"good", "nameless", "overlong", "empty", "broken"}
           /\ f[k].domain \in Domains \cup {NoDomain}
<1>1. f \in Seq(RowKinds)
  BY ImportAssumption DEF ImportAssumption
<1>2. f[k] \in RowKinds
  BY <1>1
<1> QED
  BY <1>2 DEF RowKinds

\* Initially.
LEMMA ImportStarts == ASSUME Init PROVE ImportInv
<1>1. TypeOK
  BY DEF Init, FirstNumber, TypeOK
<1>2. CompaniesSound
  BY FS_EmptySet DEF Init, CompaniesSound
<1>3. (\A i \in Imports : Placed(i)) /\ (\A x \in contacts : FiledRight(x))
  BY DEF Init, Placed
<1> QED
  BY <1>1, <1>2, <1>3 DEF ImportInv

\* The company of the present row is added: its id is new and its domain too.
LEMMA CompanyIsNew ==
  ASSUME NEW i \in Imports, ImportInv, pc[i] = "create", Storable(Row(i).domain),
         companies' = NewCompany(i)
  PROVE  /\ companies' \subseteq Companies
         /\ CompaniesSound'
         /\ [id |-> Cardinality(companies) + 1, domain |-> Row(i).domain] \in companies'
         /\ Cardinality(companies) + 1 \in Nat \ {0}
<1> DEFINE new == [id |-> Cardinality(companies) + 1, domain |-> Row(i).domain]
<1>1. Row(i).domain \in Domains
  BY RowIsARow DEF ImportInv, Placed, Row
<1>2. Cardinality(companies) \in Nat
  BY FS_CardinalityType DEF ImportInv, CompaniesSound
<1>3. new \in Companies /\ companies' = companies \cup {new}
  BY <1>1, <1>2 DEF Companies, NewCompany
<1>4. new \notin companies
  BY DEF Storable
<1>5. IsFiniteSet(companies') /\ Cardinality(companies') = Cardinality(companies) + 1
  BY <1>3, <1>4, FS_AddElement DEF ImportInv, CompaniesSound
<1>6. \A c \in companies : c \in Companies /\ c.id \in Nat /\ c.id <= Cardinality(companies)
  BY DEF ImportInv, TypeOK, CompaniesSound, Companies
<1>7. ASSUME NEW c \in companies' PROVE c.id <= Cardinality(companies')
  BY <1>2, <1>3, <1>5, <1>6
<1>8. ASSUME NEW c \in companies', NEW e \in companies', c.id = e.id \/ c.domain = e.domain
      PROVE  c = e
  <2>1. CASE c \in companies /\ e \in companies
    BY <1>8, <2>1 DEF ImportInv, CompaniesSound
  <2>2. ASSUME NEW o \in companies PROVE o.id # new.id /\ o.domain # new.domain
    BY <1>2, <1>6, <2>2 DEF Storable
  <2> QED
    BY <1>3, <1>8, <2>1, <2>2
<1>9. CompaniesSound'
  BY <1>5, <1>7, <1>8 DEF CompaniesSound
<1>10. companies \subseteq Companies
  BY DEF ImportInv, TypeOK
<1> QED
  BY <1>2, <1>3, <1>9, <1>10

\* A step of the import i leaves the others where they are.
StepOf(i) ==
  /\ file' = file
  /\ at' = [at EXCEPT ![i] = at'[i]]
  /\ number' = [number EXCEPT ![i] = number'[i]]
  /\ pc' = [pc EXCEPT ![i] = pc'[i]]
  /\ companyId' = [companyId EXCEPT ![i] = companyId'[i]]

\* Such a step keeps the invariant if it does so for i and for the contacts it adds.
LEMMA OthersStay ==
  ASSUME NEW i \in Imports, ImportInv, StepOf(i), TypeOK', CompaniesSound',
         companies \subseteq companies', Placed(i)',
         \A x \in contacts' \ contacts : FiledRight(x)'
  PROVE  ImportInv'
<1>1. ASSUME NEW k, NEW d, BelongsTo(k, d) PROVE BelongsTo(k, d)'
  BY <1>1 DEF BelongsTo
<1>2. ASSUME NEW j \in Imports, j # i PROVE Placed(j)'
  <2>1. pc'[j] = pc[j] /\ at'[j] = at[j] /\ companyId'[j] = companyId[j] /\ file'[j] = file[j]
    BY <1>2 DEF StepOf, ImportInv, TypeOK
  <2>2. Row(j)' = Row(j)
    BY <2>1 DEF Row
  <2> QED
    BY <1>1, <2>1, <2>2 DEF ImportInv, Placed
<1>3. ASSUME NEW x \in contacts PROVE FiledRight(x)'
  BY <1>1 DEF ImportInv, FiledRight, StepOf
<1> QED
  BY <1>2, <1>3 DEF ImportInv

\* The end of a row leads back to the top of the loop.  It keeps the invariant
\* if the companies stay sound and the new contacts are filed right.
LEMMA EndOfRowIsSafe ==
  ASSUME NEW i \in Imports, ImportInv, file' = file, NextRow(i),
         NEW k \in Nat \cup {NoCompany}, companyId' = [companyId EXCEPT ![i] = k],
         created' \in [Imports -> SUBSET (Nat \ {0})],
         errors' \in [Imports -> SUBSET Nat],
         session' \in [Imports -> {"usable", "flush", "query", "commit"}],
         spoilt' \in [Imports -> Nat],
         companies' \subseteq Companies, CompaniesSound', companies \subseteq companies',
         contacts' \subseteq ContactRows, \A x \in contacts' \ contacts : FiledRight(x)',
         file[i] \in Files
  PROVE  ImportInv'
<1> USE DEF Goto, NextRow
<1>1. StepOf(i)
  BY DEF StepOf, ImportInv, TypeOK
<1>2. TypeOK'
  <2>1. at[i] + 1 \in Nat \ {0} /\ number[i] + 1 \in Nat
    BY DEF ImportInv, TypeOK
  <2>2. at' \in [Imports -> Nat \ {0}] /\ number' \in [Imports -> Nat]
    BY <2>1 DEF ImportInv, TypeOK
  <2>3. pc' \in [Imports -> {"received", "row", "lookup", "create", "insert",
                             "ok", "rejected", "error", "crashed"}]
    BY DEF ImportInv, TypeOK
  <2>4. companyId' \in [Imports -> Nat \cup {NoCompany}]
    BY DEF ImportInv, TypeOK
  <2> QED
    BY <2>2, <2>3, <2>4 DEF ImportInv, TypeOK
<1>3. Placed(i)'
  BY DEF ImportInv, TypeOK, Placed
<1> QED
  BY <1>1, <1>2, <1>3, OthersStay

\* The except branch records the number of the row.
LEMMA RowFailsTypes ==
  ASSUME NEW i \in Imports, ImportInv, RowFails(i)
  PROVE  /\ errors' \in [Imports -> SUBSET Nat]
         /\ created' \in [Imports -> SUBSET (Nat \ {0})]
<1>1. number[i] \in Nat
  BY DEF ImportInv, TypeOK
<1> QED
  BY <1>1 DEF RowFails, ImportInv, TypeOK

\* It keeps the invariant when nothing has been stored.
LEMMA RowFailsIsSafe ==
  ASSUME NEW i \in Imports, ImportInv, RowFails(i), UNCHANGED <<db, file>>,
         NEW k \in Nat \cup {NoCompany}, companyId' = [companyId EXCEPT ![i] = k],
         file[i] \in Files,
         session' \in [Imports -> {"usable", "flush", "query", "commit"}],
         spoilt' \in [Imports -> Nat]
  PROVE  ImportInv'
<1>1. companies' = companies /\ contacts' = contacts /\ CompaniesSound'
  BY DEF db, ImportInv, CompaniesSound
<1>2. companies' \subseteq Companies /\ contacts' \subseteq ContactRows
  BY <1>1 DEF ImportInv, TypeOK
<1>3. NextRow(i)
  BY DEF RowFails
<1> QED
  BY <1>1, <1>2, <1>3, RowFailsTypes, EndOfRowIsSafe

\* What has not stored anything and ends no row keeps the invariant when the
\* import is well placed afterwards.
LEMMA MoveIsSafe ==
  ASSUME NEW i \in Imports, ImportInv, NEW l,
         l \in {"received", "row", "lookup", "create", "insert",
               "ok", "rejected", "error", "crashed"},
         Goto(i, l), UNCHANGED <<db, file, at, number, created, errors, status>>,
         NEW k \in Nat \cup {NoCompany}, companyId' = [companyId EXCEPT ![i] = k],
         Placed(i)'
  PROVE  ImportInv'
<1> USE DEF Goto, db, status
<1>1. StepOf(i)
  BY DEF StepOf, ImportInv, TypeOK
<1>2. TypeOK'
  <2>1. pc' \in [Imports -> {"received", "row", "lookup", "create", "insert",
                             "ok", "rejected", "error", "crashed"}]
    BY DEF ImportInv, TypeOK
  <2>2. companyId' \in [Imports -> Nat \cup {NoCompany}]
    BY DEF ImportInv, TypeOK
  <2> QED
    BY <2>1, <2>2 DEF ImportInv, TypeOK
<1>3. CompaniesSound'
  BY DEF ImportInv, CompaniesSound
<1> QED
  BY <1>1, <1>2, <1>3, OthersStay

\* A file that is accepted is one of Files.
LEMMA ReadHeaderIsSafe == ASSUME NEW i \in Imports, ImportInv, ReadHeader(i) PROVE ImportInv'
<1> DEFINE l == CASE file[i] = Unreadable -> "rejected"
                  [] file[i] = Garbled    -> "error"
                  [] OTHER                -> "row"
<1>1. Goto(i, l) /\ UNCHANGED <<db, file, at, number, created, errors, status, companyId>>
  BY DEF ReadHeader
<1>2. companyId' = [companyId EXCEPT ![i] = companyId[i]] /\ companyId[i] \in Nat \cup {NoCompany}
  BY <1>1 DEF ImportInv, TypeOK
<1>3. pc'[i] = l /\ file'[i] = file[i] /\ file[i] \in Files \cup {Unreadable, Garbled}
  BY <1>1 DEF Goto, ImportInv, TypeOK
<1>4. Placed(i)'
  BY <1>3 DEF Placed
<1> QED
  BY <1>1, <1>2, <1>4, MoveIsSafe

\* A new row begins without a company, as one with an empty cell is to be inserted.
LEMMA StartRowIsSafe == ASSUME NEW i \in Imports, ImportInv, StartRow(i) PROVE ImportInv'
<1> DEFINE l == IF Row(i).domain = NoDomain THEN "insert" ELSE "lookup"
<1>1. /\ companyId' = [companyId EXCEPT ![i] = NoCompany]
      /\ UNCHANGED <<db, file, status>>
      /\ pc[i] = "row" /\ at[i] <= Len(file[i])
  BY DEF StartRow, AtLine, NewCompanyId
<1>2. CASE RowFails(i)
  <2>1. session' \in [Imports -> {"usable", "flush", "query", "commit"}]
        /\ spoilt' \in [Imports -> Nat]
    BY <1>1 DEF status, ImportInv, TypeOK
  <2> QED
    BY <1>1, <1>2, <2>1, RowFailsIsSafe DEF ImportInv, Placed
<1>3. CASE Goto(i, l) /\ UNCHANGED <<at, number, created, errors>>
  <2>1. pc'[i] = l /\ file' = file /\ at' = at /\ companyId'[i] = NoCompany
    BY <1>1, <1>3 DEF Goto, ImportInv, TypeOK
  <2>2. file[i] \in Files /\ at[i] \in 1..Len(file[i])
    BY <1>1, ImportAssumption DEF ImportInv, Placed, TypeOK, ImportAssumption
  <2>3. Placed(i)'
    BY <2>1, <2>2 DEF Placed, Row, BelongsTo
  <2> QED
    BY <1>1, <1>3, <2>3, MoveIsSafe
<1> QED
  BY <1>2, <1>3 DEF StartRow

\* What a failed statement leaves in the session is one of its states.
LEMMA SpoilTypes ==
  ASSUME NEW i \in Imports, ImportInv, NEW s \in {"flush", "query", "commit"}, Spoil(i, s)
  PROVE  /\ session' \in [Imports -> {"usable", "flush", "query", "commit"}]
         /\ spoilt' \in [Imports -> Nat]
<1>1. at[i] \in Nat
  BY DEF ImportInv, TypeOK
<1> QED
  BY <1>1 DEF Spoil, ImportInv, TypeOK

\* The company_id that is kept is what it was.
LEMMA CompanyIdKept ==
  ASSUME NEW i \in Imports, ImportInv
  PROVE  /\ companyId[i] \in Nat \cup {NoCompany}
         /\ companyId = [companyId EXCEPT ![i] = companyId[i]]
BY DEF ImportInv, TypeOK

\* A company that is found has the domain of the row.
LEMMA LookUpCompanyIsSafe == ASSUME NEW i \in Imports, ImportInv, LookUpCompany(i) PROVE ImportInv'
<1>1. /\ UNCHANGED <<db, file, status>>
      /\ pc[i] = "lookup"
      /\ file[i] \in Files /\ at[i] \in 1..Len(file[i]) /\ Row(i).domain # NoDomain
  BY DEF LookUpCompany, ImportInv, Placed
<1>2. ASSUME NEW c \in companies, c.domain = Row(i).domain,
             companyId' = [companyId EXCEPT ![i] = c.id], Goto(i, "insert"),
             UNCHANGED <<at, number, created, errors>>
      PROVE  ImportInv'
  <2>1. c \in Companies /\ c.id \in Nat /\ c = [id |-> c.id, domain |-> Row(i).domain]
    BY <1>2 DEF ImportInv, TypeOK, Companies
  <2>2. pc'[i] = "insert" /\ companyId'[i] = c.id /\ at' = at /\ file' = file
        /\ companies' = companies
    BY <1>1, <1>2 DEF Goto, db, ImportInv, TypeOK
  <2>3. Placed(i)'
    BY <1>1, <2>1, <2>2 DEF Placed, Row, BelongsTo
  <2> QED
    BY <1>1, <1>2, <2>1, <2>3, MoveIsSafe
<1>3. ASSUME Goto(i, "create"), UNCHANGED <<companyId, at, number, created, errors>>
      PROVE  ImportInv'
  <2>1. pc'[i] = "create" /\ at' = at /\ file' = file
    BY <1>1, <1>3 DEF Goto, ImportInv, TypeOK
  <2>2. Placed(i)'
    BY <1>1, <2>1 DEF Placed, Row
  <2> QED
    BY <1>1, <1>3, <2>2, CompanyIdKept, MoveIsSafe
<1>4. ASSUME RowFails(i), UNCHANGED companyId PROVE ImportInv'
  BY <1>1, <1>4, CompanyIdKept, RowFailsIsSafe DEF status, ImportInv, TypeOK
<1> QED
  BY <1>2, <1>3, <1>4 DEF LookUpCompany

\* The id of the company that was created is that of the row's domain.
LEMMA CreateCompanyIsSafe == ASSUME NEW i \in Imports, ImportInv, CreateCompany(i) PROVE ImportInv'
<1>1. /\ pc[i] = "create" /\ file' = file /\ contacts' = contacts
      /\ file[i] \in Files /\ at[i] \in 1..Len(file[i]) /\ Row(i).domain # NoDomain
  BY DEF CreateCompany, ImportInv, Placed
<1>2. CASE Storable(Row(i).domain)
  <2>1. /\ companies' = NewCompany(i)
        /\ companyId' = [companyId EXCEPT ![i] = Cardinality(companies) + 1]
        /\ Goto(i, "insert") /\ UNCHANGED <<at, number, created, errors, status>>
    BY <1>2 DEF CreateCompany
  <2>2. /\ companies' \subseteq Companies /\ CompaniesSound'
        /\ [id |-> Cardinality(companies) + 1, domain |-> Row(i).domain] \in companies'
        /\ Cardinality(companies) + 1 \in Nat \ {0}
    BY <1>1, <1>2, <2>1, CompanyIsNew
  <2>3. pc' = [pc EXCEPT ![i] = "insert"] /\ pc'[i] = "insert"
        /\ companyId'[i] = Cardinality(companies) + 1
    BY <2>1 DEF Goto, ImportInv, TypeOK
  <2>4. StepOf(i)
    BY <1>1, <2>1, <2>3 DEF StepOf, ImportInv, TypeOK
  <2>5. TypeOK'
    <3>1. companyId' \in [Imports -> Nat \cup {NoCompany}]
      BY <2>1, <2>2 DEF ImportInv, TypeOK
    <3>2. pc' \in [Imports -> {"received", "row", "lookup", "create", "insert",
                               "ok", "rejected", "error", "crashed"}]
      BY <2>3 DEF ImportInv, TypeOK
    <3> QED
      BY <1>1, <2>1, <2>2, <3>1, <3>2 DEF status, ImportInv, TypeOK
  <2>6. Placed(i)'
    BY <1>1, <2>1, <2>2, <2>3 DEF Placed, Row, BelongsTo
  <2> QED
    BY <1>1, <2>1, <2>2, <2>4, <2>5, <2>6, OthersStay DEF NewCompany
<1>3. CASE Spoil(i, "flush") /\ UNCHANGED <<companies, companyId>>
  BY <1>1, <1>3, SpoilTypes, CompanyIdKept, RowFailsIsSafe DEF db, Spoil
<1> QED
  BY <1>2, <1>3 DEF CreateCompany

\* The contact of the present row is filed right.
LEMMA ContactIsFiledRight ==
  ASSUME NEW i \in Imports, ImportInv, pc[i] = "insert", UNCHANGED <<file, companies>>,
         NEW x, x = Contact(i)
  PROVE  /\ FiledRight(x)'
         /\ contacts \cup {Contact(i)} \subseteq ContactRows
         /\ companies' \subseteq Companies /\ CompaniesSound'
         /\ file[i] \in Files
<1>1. file[i] \in Files /\ at[i] \in 1..Len(file[i]) /\ BelongsTo(companyId[i], Row(i).domain)
  BY DEF ImportInv, Placed
<1>2. Contact(i) \in ContactRows
  BY <1>1 DEF Contact, ContactRows, ImportInv, TypeOK
<1>3. x.file = i /\ x.row = at[i] /\ x.company = companyId[i]
  BY DEF Contact
<1>4. FiledRight(x)'
  BY <1>1, <1>3 DEF FiledRight, Row, BelongsTo
<1> QED
  BY <1>1, <1>2, <1>4 DEF ImportInv, TypeOK, CompaniesSound

\* A row that ends with its contact stored keeps the invariant, whatever list
\* it is entered in.
LEMMA StoredRowIsSafe ==
  ASSUME NEW i \in Imports, ImportInv, pc[i] = "insert",
         contacts' = contacts \cup {Contact(i)}, UNCHANGED <<companies, file, companyId>>,
         NextRow(i), created' \in [Imports -> SUBSET (Nat \ {0})],
         errors' \in [Imports -> SUBSET Nat],
         session' \in [Imports -> {"usable", "flush", "query", "commit"}],
         spoilt' \in [Imports -> Nat]
  PROVE  ImportInv'
<1>1. PICK x : x = Contact(i)
  OBVIOUS
<1>2. FiledRight(x)' /\ contacts' \subseteq ContactRows
      /\ companies' \subseteq Companies /\ CompaniesSound' /\ file[i] \in Files
  BY <1>1, ContactIsFiledRight
<1>3. \A y \in contacts' \ contacts : FiledRight(y)'
  BY <1>1, <1>2
<1> QED
  BY <1>2, <1>3, CompanyIdKept, EndOfRowIsSafe

\* The contact takes the company that the row has been given.
LEMMA InsertContactIsSafe == ASSUME NEW i \in Imports, ImportInv, InsertContact(i) PROVE ImportInv'
<1>1. pc[i] = "insert" /\ UNCHANGED <<companies, file, companyId>> /\ file[i] \in Files
  BY DEF InsertContact, ImportInv, Placed
<1>2. CASE Spoil(i, "flush") /\ UNCHANGED contacts
  BY <1>1, <1>2, SpoilTypes, CompanyIdKept, RowFailsIsSafe DEF db, Spoil
<1>3. CASE /\ contacts' = contacts \cup {Contact(i)}
           /\ created' = [created EXCEPT ![i] = @ \cup {at[i]}]
           /\ NextRow(i) /\ UNCHANGED <<errors, status>>
  <2>1. created' \in [Imports -> SUBSET (Nat \ {0})]
    BY <1>3 DEF ImportInv, TypeOK
  <2>2. /\ errors' \in [Imports -> SUBSET Nat]
        /\ session' \in [Imports -> {"usable", "flush", "query", "commit"}]
        /\ spoilt' \in [Imports -> Nat]
    BY <1>3 DEF status, ImportInv, TypeOK
  <2> QED
    BY <1>1, <1>3, <2>1, <2>2, StoredRowIsSafe
<1> QED
  BY <1>2, <1>3 DEF InsertContact

\* A session that refuses stores nothing.
LEMMA InsertRefusedIsSafe == ASSUME NEW i \in Imports, ImportInv, InsertRefused(i) PROVE ImportInv'
<1>1. /\ RowFails(i) /\ UNCHANGED <<db, file, companyId, spoilt>> /\ file[i] \in Files
      /\ session' = [session EXCEPT ![i] = IF @ = "query" THEN "flush" ELSE @]
  BY DEF InsertRefused, ImportInv, Placed
<1>2. /\ session' \in [Imports -> {"usable", "flush", "query", "commit"}]
      /\ spoilt' \in [Imports -> Nat]
  BY <1>1 DEF ImportInv, TypeOK
<1> QED
  BY <1>1, <1>2, CompanyIdKept, RowFailsIsSafe

\* A COMMIT whose answer is lost has stored the row soundly or not at all.
LEMMA ConnectionBreaksIsSafe ==
  ASSUME NEW i \in Imports, ImportInv, ConnectionBreaks(i) PROVE ImportInv'
<1>1. UNCHANGED <<file, companyId>>
  BY DEF ConnectionBreaks
<1>2. ASSUME NEW s \in {"flush", "query", "commit"}, Spoil(i, s), UNCHANGED db,
             pc[i] \in {"lookup", "create", "insert"}
      PROVE  ImportInv'
  BY <1>1, <1>2, SpoilTypes, CompanyIdKept, RowFailsIsSafe DEF Spoil, ImportInv, Placed
<1>3. ASSUME pc[i] = "create", Storable(Row(i).domain), Spoil(i, "commit"),
             companies' = NewCompany(i), UNCHANGED contacts
      PROVE  ImportInv'
  <2>1. companies' \subseteq Companies /\ CompaniesSound' /\ companies \subseteq companies'
    BY <1>3, CompanyIsNew DEF NewCompany
  <2>2. NextRow(i) /\ RowFails(i)
    BY <1>3 DEF Spoil, RowFails
  <2>3. contacts' \subseteq ContactRows /\ file[i] \in Files
        /\ \A x \in contacts' \ contacts : FiledRight(x)'
    BY <1>3 DEF ImportInv, TypeOK, Placed
  <2> QED
    BY <1>1, <1>3, <2>1, <2>2, <2>3, RowFailsTypes, SpoilTypes, CompanyIdKept, EndOfRowIsSafe
<1>4. ASSUME pc[i] = "insert", NEW s \in {"query", "commit"}, Spoil(i, s),
             contacts' = contacts \cup {Contact(i)}, UNCHANGED companies
      PROVE  ImportInv'
  <2>1. NextRow(i) /\ RowFails(i)
    BY <1>4 DEF Spoil, RowFails
  <2> QED
    BY <1>1, <1>4, <2>1, RowFailsTypes, SpoilTypes, StoredRowIsSafe
<1> QED
  BY <1>2, <1>3, <1>4 DEF ConnectionBreaks, db

\* Steps that only move the import to where it is at no row.
LEMMA LeavesTheLoop ==
  ASSUME NEW i \in Imports, ImportInv, NEW l \in {"ok", "error", "crashed"}, Goto(i, l),
         UNCHANGED <<db, file, at, number, companyId, created, errors, status>>
  PROVE  ImportInv'
<1>1. pc'[i] = l
  BY DEF Goto, ImportInv, TypeOK
<1>2. Placed(i)'
  BY <1>1 DEF Placed
<1> QED
  BY <1>2, CompanyIdKept, MoveIsSafe

\* An empty line only moves the import on.
LEMMA SkipEmptyLineIsSafe == ASSUME NEW i \in Imports, ImportInv, SkipEmptyLine(i) PROVE ImportInv'
<1>1. /\ UNCHANGED <<db, pc, file, number, companyId, created, errors, status>>
      /\ pc[i] = "row" /\ at' = [at EXCEPT ![i] = @ + 1]
  BY DEF SkipEmptyLine, AtLine
<1>2. at[i] + 1 \in Nat \ {0}
  BY DEF ImportInv, TypeOK
<1>3. TypeOK' /\ StepOf(i)
  BY <1>1, <1>2 DEF db, status, StepOf, ImportInv, TypeOK
<1>4. CompaniesSound' /\ Placed(i)'
  BY <1>1 DEF db, ImportInv, CompaniesSound, Placed
<1> QED
  BY <1>1, <1>3, <1>4, OthersStay DEF db

\* Every step keeps the invariant.
LEMMA StepKeepsImportInv == ASSUME ImportInv, [Next]_vars PROVE ImportInv'
<1>1. CASE UNCHANGED vars
  <2>1. TypeOK'
    BY <1>1 DEF vars, ImportInv, TypeOK
  <2>2. CompaniesSound'
    BY <1>1 DEF vars, ImportInv, CompaniesSound
  <2>3. \A i \in Imports : Placed(i)'
    BY <1>1 DEF vars, ImportInv, Placed, Row, BelongsTo
  <2>4. \A x \in contacts' : FiledRight(x)'
    BY <1>1 DEF vars, ImportInv, FiledRight, BelongsTo
  <2> QED
    BY <2>1, <2>2, <2>3, <2>4 DEF ImportInv
<1>2. ASSUME NEW i \in Imports, Progress(i) PROVE ImportInv'
  <2>1. CASE ReadHeader(i)    BY <2>1, ReadHeaderIsSafe
  <2>2. CASE StartRow(i)      BY <2>2, StartRowIsSafe
  <2>3. CASE LookUpCompany(i) BY <2>3, LookUpCompanyIsSafe
  <2>4. CASE CreateCompany(i) BY <2>4, CreateCompanyIsSafe
  <2>5. CASE InsertContact(i) BY <2>5, InsertContactIsSafe
  <2>6. CASE InsertRefused(i) BY <2>6, InsertRefusedIsSafe
  <2>7. CASE Reply(i)         BY <2>7, LeavesTheLoop DEF Reply
  <2>8. CASE ReadFails(i)     BY <2>8, LeavesTheLoop DEF ReadFails
  <2>9. CASE SkipEmptyLine(i) BY <2>9, SkipEmptyLineIsSafe
  <2> QED
    BY <1>2, <2>1, <2>2, <2>3, <2>4, <2>5, <2>6, <2>7, <2>8, <2>9 DEF Progress
<1>3. ASSUME NEW i \in Imports, Crash(i) PROVE ImportInv'
  BY <1>3, LeavesTheLoop DEF Crash
<1> QED
  BY <1>1, <1>2, <1>3, ConnectionBreaksIsSafe DEF Next

\* Companies are one to one with domains, so contacts that are filed right and
\* share a domain share their company.
LEMMA FiledRightResolves == ASSUME ImportInv PROVE RowsResolveToTheirCompany
<1> SUFFICES ASSUME NEW x \in contacts, NEW y \in contacts
             PROVE  LET dx == file[x.file][x.row].domain
                        dy == file[y.file][y.row].domain
                    IN  /\ dx = NoDomain <=> x.company = NoCompany
                        /\ dx # NoDomain => (dx = dy <=> x.company = y.company)
  BY DEF RowsResolveToTheirCompany
<1> DEFINE Of(z) == file[z.file][z.row].domain
<1>1. ASSUME NEW z \in contacts
      PROVE  IF Of(z) = NoDomain THEN z.company = NoCompany
             ELSE [id |-> z.company, domain |-> Of(z)] \in companies /\ z.company # NoCompany
  <2>1. BelongsTo(z.company, Of(z))
    BY DEF ImportInv, FiledRight
  <2>2. \A c \in companies : c.id \in Nat
    BY DEF ImportInv, TypeOK, Companies
  <2> QED
    BY <2>1, <2>2, ImportAssumption DEF BelongsTo, ImportAssumption
<1>2. ASSUME NEW k, NEW d, NEW l, NEW e,
             [id |-> k, domain |-> d] \in companies, [id |-> l, domain |-> e] \in companies
      PROVE  k = l <=> d = e
  BY <1>2 DEF ImportInv, CompaniesSound
<1>3. (Of(x) = NoDomain <=> x.company = NoCompany) /\ (Of(y) = NoDomain <=> y.company = NoCompany)
  BY <1>1
<1>4. ASSUME Of(x) # NoDomain PROVE Of(x) = Of(y) <=> x.company = y.company
  <2>1. CASE Of(y) = NoDomain
    BY <1>3, <1>4, <2>1
  <2>2. CASE Of(y) # NoDomain
    <3>1. [id |-> x.company, domain |-> Of(x)] \in companies
      BY <1>1, <1>4
    <3>2. [id |-> y.company, domain |-> Of(y)] \in companies
      BY <1>1, <2>2
    <3> HIDE DEF Of
    <3> QED
      BY <1>2, <3>1, <3>2
  <2> QED
    BY <2>1, <2>2
<1> QED
  BY <1>3, <1>4

\* Every variable of the import holds a value of its kind, however many files
\* are imported at once and wherever connections break and workers die.
THEOREM ImportTypeCorrect == Spec => []TypeOK
<1>1. ImportInv => TypeOK
  BY DEF ImportInv
<1> QED
  BY <1>1, ImportStarts, StepKeepsImportInv, PTL DEF Spec

\* Rows that share a company_domain share their company, and rows without one
\* have none: across any number of imports that race to create the company.
THEOREM ImportResolvesCompanies == Spec => []RowsResolveToTheirCompany
BY ImportStarts, StepKeepsImportInv, FiledRightResolves, PTL DEF Spec

-----------------------------------------------------------------------------
(* What becomes of the rows.                                               *)

\* The accounts of an import about the rows it is through with: what is stored,
\* what is listed as created and as an error, and where the session broke.
RowAccount(i) ==
  /\ session[i] = "usable" <=> spoilt[i] = 0
  /\ spoilt[i] < at[i]
  /\ Stored(i) \subseteq 1..(at[i] - 1)
  /\ created[i] \subseteq Stored(i)
  /\ Stored(i) \ created[i] \subseteq {spoilt[i]}
  /\ number[i] = RowNumber(i, at[i])
  /\ errors[i] = {RowNumber(i, k) : k \in RowsBefore(i, at[i]) \ created[i]}
  /\ \A k \in 1..(at[i] - 1) :
       /\ k \in Stored(i) => Good(i, k)
       /\ k # spoilt[i] => (k \in Stored(i) <=> Good(i, k) /\ (spoilt[i] = 0 \/ k < spoilt[i]))

\* What a row past its first check may be.
Complete(x) == x.kind \in {"good", "overlong"}

\* A row that is past its first check has both names, a company is created in a
\* session that works, and the loop ends behind the last row.
RowState(i) ==
  /\ pc[i] \in {"lookup", "create", "insert"} => Complete(Row(i))
  /\ pc[i] = "create" => Usable(i)
  /\ pc[i] = "received" => at[i] = 1
  /\ pc[i] \in {"row", "lookup", "create", "insert"} => at[i] <= Len(file[i]) + 1
  /\ pc[i] = "ok" => file[i] \in Files /\ at[i] = Len(file[i]) + 1

ReportInv ==
  /\ ImportInv
  /\ IsFiniteSet(contacts)
  /\ \A x, y \in contacts : x.file = y.file /\ x.row = y.row => x = y
  /\ \A c \in companies : c.domain \notin LongDomains
  /\ \A i \in Imports : RowAccount(i) /\ RowState(i)

\* A new contact is a stored row of its own import.
LEMMA StoredGrows ==
  ASSUME NEW i \in Imports
  PROVE  /\ contacts' = contacts => \A j \in Imports : Stored(j)' = Stored(j)
         /\ contacts' = contacts \cup {Contact(i)} =>
              /\ Stored(i)' = Stored(i) \cup {at[i]}
              /\ \A j \in Imports : j # i => Stored(j)' = Stored(j)
<1>1. Contact(i).file = i /\ Contact(i).row = at[i]
  BY DEF Contact
<1> QED
  BY <1>1 DEF Stored

\* Contacts stay finite in number, and one to a row.
LEMMA ContactsStayDistinct ==
  ASSUME ReportInv, NEW i \in Imports, contacts' \in {contacts, contacts \cup {Contact(i)}}
  PROVE  /\ IsFiniteSet(contacts')
         /\ \A x, y \in contacts' : x.file = y.file /\ x.row = y.row => x = y
<1>1. Contact(i).file = i /\ Contact(i).row = at[i]
  BY DEF Contact
<1>2. at[i] \in Nat /\ Stored(i) \subseteq 1..(at[i] - 1)
  BY DEF ReportInv, ImportInv, TypeOK, RowAccount
<1>3. at[i] \notin Stored(i)
  BY <1>2
<1>4. \A x \in contacts : ~(x.file = i /\ x.row = at[i])
  BY <1>3 DEF Stored
<1>5. IsFiniteSet(contacts')
  BY FS_AddElement DEF ReportInv
<1> QED
  BY <1>1, <1>4, <1>5 DEF ReportInv

\* The line k is passed over.
Gap(i, k) == file[i][k].kind = "empty"

\* The number of the next line, and the rows before it.
LEMMA NumbersAdvance ==
  ASSUME NEW i, NEW n \in Nat \ {0}
  PROVE  /\ RowsBefore(i, n + 1) = RowsBefore(i, n) \cup (IF Gap(i, n) THEN {} ELSE {n})
         /\ RowNumber(i, n + 1) = IF Gap(i, n) THEN RowNumber(i, n) ELSE RowNumber(i, n) + 1
         /\ RowNumber(i, n) \in Nat
<1> DEFINE B == RowsBefore(i, n)
<1>1. (n + 1) - 1 = n /\ \A k : k \in 1..n <=> k = n \/ k \in 1..(n - 1)
  OBVIOUS
<1>2. RowsBefore(i, n + 1) = B \cup (IF Gap(i, n) THEN {} ELSE {n})
  BY <1>1 DEF RowsBefore, Gap
<1>3. B \subseteq 1..(n - 1) /\ n \notin B
  BY DEF RowsBefore
<1>4. IsFiniteSet(B)
  BY <1>3, FS_Interval, FS_Subset
<1>5. Cardinality(B) \in Nat /\ Cardinality(B \cup {n}) = Cardinality(B) + 1
  BY <1>3, <1>4, FS_CardinalityType, FS_AddElement
<1>6. B \cup {} = B
  OBVIOUS
<1>7. RowNumber(i, n) = Cardinality(B) + 2
  BY DEF RowNumber
<1>8. RowNumber(i, n + 1) = Cardinality(RowsBefore(i, n + 1)) + 2
  BY DEF RowNumber
<1>9. CASE Gap(i, n)
  BY <1>2, <1>5, <1>6, <1>7, <1>8, <1>9
<1>10. CASE ~Gap(i, n)
  BY <1>2, <1>5, <1>7, <1>8, <1>10
<1> QED
  BY <1>9, <1>10

\* The line that ends is entered in the accounts as what became of it.
LEMMA EndedRowIsAccounted ==
  ASSUME ReportInv, NEW i \in Imports, file' = file, at'[i] = at[i] + 1,
         number'[i] = IF Gap(i, at[i]) THEN number[i] ELSE number[i] + 1,
         Stored(i)' \in {Stored(i), Stored(i) \cup {at[i]}},
         created'[i] \in {created[i], created[i] \cup {at[i]}},
         errors'[i] = IF at[i] \in created'[i] \/ Gap(i, at[i])
                        THEN errors[i] ELSE errors[i] \cup {number[i]},
         spoilt'[i] = spoilt[i] \/ (spoilt[i] = 0 /\ spoilt'[i] = at[i]),
         session'[i] = "usable" <=> spoilt'[i] = 0,
         at[i] \in created'[i] => at[i] \in Stored(i)',
         at[i] \in Stored(i)' => Good(i, at[i]) /\ spoilt[i] = 0,
         at[i] \in Stored(i)' \ created'[i] => spoilt'[i] = at[i],
         spoilt'[i] # at[i] => (at[i] \in Stored(i)' <=> Good(i, at[i]) /\ spoilt[i] = 0)
  PROVE  RowAccount(i)'
<1> DEFINE n == at[i]
<1>1. n \in Nat \ {0} /\ at'[i] - 1 = n /\ spoilt[i] \in Nat /\ RowAccount(i)
  BY DEF ReportInv, ImportInv, TypeOK
<1>2. \A k : Good(i, k)' <=> Good(i, k)
  BY DEF Good
<1>3. \A k : k \in 1..n <=> k = n \/ k \in 1..(n - 1)
  BY <1>1
<1>4. n \notin 1..(n - 1) /\ n \notin Stored(i) /\ n \notin created[i]
  BY <1>1 DEF RowAccount
<1>5. Stored(i)' \subseteq 1..n /\ created'[i] \subseteq Stored(i)'
  BY <1>1, <1>3, <1>4 DEF RowAccount
<1>6. Stored(i)' \ created'[i] \subseteq {spoilt'[i]}
  <2> SUFFICES ASSUME NEW k \in Stored(i)' \ created'[i] PROVE k = spoilt'[i]
    OBVIOUS
  <2>1. CASE k = n
    BY <2>1
  <2>2. CASE k # n
    <3>1. k \in Stored(i) \ created[i]
      BY <2>2
    <3>2. k = spoilt[i] /\ k \in 1..(n - 1)
      BY <1>1, <3>1 DEF RowAccount
    <3> QED
      BY <1>1, <3>2
  <2> QED
    BY <2>1, <2>2
<1>7. /\ number'[i] = RowNumber(i, n + 1)
      /\ errors'[i] = {RowNumber(i, k) : k \in RowsBefore(i, n + 1) \ created'[i]}
  <2>1. /\ errors[i] = {RowNumber(i, k) : k \in RowsBefore(i, n) \ created[i]}
        /\ number[i] = RowNumber(i, n)
    BY <1>1 DEF RowAccount
  <2>2. /\ RowsBefore(i, n + 1) = RowsBefore(i, n) \cup (IF Gap(i, n) THEN {} ELSE {n})
        /\ RowNumber(i, n + 1) = IF Gap(i, n) THEN RowNumber(i, n) ELSE RowNumber(i, n) + 1
    BY <1>1, NumbersAdvance
  <2>3. n \notin RowsBefore(i, n)
    BY <1>4 DEF RowsBefore
  <2>4. RowsBefore(i, n + 1) \ created'[i] =
          IF n \in created'[i] \/ Gap(i, n) THEN RowsBefore(i, n) \ created[i]
          ELSE (RowsBefore(i, n) \ created[i]) \cup {n}
    BY <1>4, <2>2, <2>3
  <2> HIDE DEF n
  <2> QED
    BY <2>1, <2>2, <2>4 DEF n
<1>8. ASSUME NEW k \in 1..n
      PROVE  /\ k \in Stored(i)' => Good(i, k)
             /\ k # spoilt'[i] =>
                  (k \in Stored(i)' <=> Good(i, k) /\ (spoilt'[i] = 0 \/ k < spoilt'[i]))
  <2>1. CASE k = n
    <3>1. k # spoilt'[i] => spoilt'[i] = spoilt[i] /\ ~(k < spoilt'[i])
      BY <1>1, <2>1 DEF RowAccount
    <3> QED
      BY <2>1, <3>1
  <2>2. CASE k # n
    <3>1. k \in 1..(n - 1) /\ (k \in Stored(i)' <=> k \in Stored(i)) /\ k < n /\ k # 0
      BY <1>1, <1>3, <2>2
    <3>2. k # spoilt[i] => (k \in Stored(i) <=> Good(i, k) /\ (spoilt[i] = 0 \/ k < spoilt[i]))
      BY <1>1, <3>1 DEF RowAccount
    <3>3. k \in Stored(i) => Good(i, k)
      BY <1>1, <3>1 DEF RowAccount
    <3> QED
      BY <3>1, <3>2, <3>3
  <2> QED
    BY <2>1, <2>2
<1>9. spoilt'[i] < n + 1
  BY <1>1 DEF RowAccount
<1>10. /\ number'[i] = RowNumber(i, at[i])'
       /\ errors'[i] = {RowNumber(i, k)' : k \in RowsBefore(i, at[i])' \ created'[i]}
  <2>1. at'[i] = n + 1 /\ \A k : RowNumber(i, k)' = RowNumber(i, k) /\ RowsBefore(i, k)' = RowsBefore(i, k)
    BY DEF RowNumber, RowsBefore
  <2>2. RowNumber(i, at[i])' = RowNumber(i, n + 1) /\ RowsBefore(i, at[i])' = RowsBefore(i, n + 1)
    BY <2>1 DEF RowNumber, RowsBefore
  <2> HIDE DEF n
  <2> QED
    BY <1>7, <2>1, <2>2
<1> HIDE DEF n
<1> QED
  BY <1>1, <1>2, <1>5, <1>6, <1>8, <1>9, <1>10 DEF RowAccount, n

\* A step of the import i touches no other import's place or accounts.
OnlyOf(i) ==
  /\ StepOf(i)
  /\ created' = [created EXCEPT ![i] = created'[i]]
  /\ errors' = [errors EXCEPT ![i] = errors'[i]]
  /\ session' = [session EXCEPT ![i] = session'[i]]
  /\ spoilt' = [spoilt EXCEPT ![i] = spoilt'[i]]

\* Each action is a step of one import.
LEMMA ActionsAreOwn ==
  ASSUME ImportInv, NEW i \in Imports, Progress(i) \/ ConnectionBreaks(i) \/ Crash(i)
  PROVE  OnlyOf(i)
<1> USE DEF OnlyOf, StepOf, Goto, NextRow, RowFails, Spoil, status, ImportInv, TypeOK
<1>1. CASE ReadHeader(i)    BY <1>1 DEF ReadHeader
<1>2. CASE StartRow(i)      BY <1>2 DEF StartRow
<1>3. CASE LookUpCompany(i) BY <1>3 DEF LookUpCompany
<1>4. CASE CreateCompany(i) BY <1>4 DEF CreateCompany
<1>5. CASE InsertContact(i) BY <1>5 DEF InsertContact
<1>6. CASE InsertRefused(i) BY <1>6 DEF InsertRefused
<1>7. CASE Reply(i)         BY <1>7 DEF Reply
<1>8. CASE Crash(i)         BY <1>8 DEF Crash
<1>9. CASE ConnectionBreaks(i) BY <1>9 DEF ConnectionBreaks
<1>10. CASE SkipEmptyLine(i) BY <1>10 DEF SkipEmptyLine
<1>11. CASE ReadFails(i)    BY <1>11 DEF ReadFails
<1> QED
  BY <1>1, <1>2, <1>3, <1>4, <1>5, <1>6, <1>7, <1>8, <1>9, <1>10, <1>11 DEF Progress

\* The accounts of the other imports stay as they are.
LEMMA OthersKeepAccount ==
  ASSUME ReportInv, NEW i \in Imports, OnlyOf(i),
         contacts' \in {contacts, contacts \cup {Contact(i)}},
         NEW j \in Imports, j # i
  PROVE  RowAccount(j)' /\ RowState(j)'
<1>1. /\ file' = file /\ at'[j] = at[j] /\ pc'[j] = pc[j] /\ created'[j] = created[j]
      /\ number'[j] = number[j]
      /\ errors'[j] = errors[j] /\ session'[j] = session[j] /\ spoilt'[j] = spoilt[j]
  BY DEF OnlyOf, StepOf, ReportInv, ImportInv, TypeOK
<1>2. Stored(j)' = Stored(j)
  BY StoredGrows
<1>3. /\ \A k : Good(j, k)' <=> Good(j, k)
      /\ \A k : RowNumber(j, k)' = RowNumber(j, k) /\ RowsBefore(j, k)' = RowsBefore(j, k)
      /\ Row(j)' = Row(j) /\ (Usable(j)' <=> Usable(j))
  BY <1>1 DEF Good, RowNumber, RowsBefore, Row, Usable
<1>4. RowAccount(j) /\ RowState(j)
  BY DEF ReportInv
<1>5. RowAccount(j)'
  BY <1>1, <1>2, <1>3, <1>4 DEF RowAccount
<1>6. RowState(j)'
  BY <1>1, <1>3, <1>4 DEF RowState
<1> QED
  BY <1>5, <1>6

\* A step keeps the invariant if it accounts for its own import, adds at most
\* its own contact, and a company only with a domain that fits.
LEMMA OwnAccountSuffices ==
  ASSUME ReportInv, ImportInv', NEW i \in Imports, OnlyOf(i),
         contacts' \in {contacts, contacts \cup {Contact(i)}},
         companies' = companies \/ (companies' = NewCompany(i) /\ Storable(Row(i).domain)),
         RowAccount(i)', RowState(i)'
  PROVE  ReportInv'
<1>1. \A c \in companies' : c.domain \notin LongDomains
  BY DEF ReportInv, NewCompany, Storable
<1>2. \A j \in Imports : RowAccount(j)' /\ RowState(j)'
  BY OthersKeepAccount
<1> QED
  BY <1>1, <1>2, ContactsStayDistinct DEF ReportInv

\* A step that ends no row keeps the accounts.
LEMMA MoveKeepsAccount ==
  ASSUME ReportInv, NEW i \in Imports, UNCHANGED <<contacts, file, at, number, created, errors, status>>
  PROVE  RowAccount(i)'
<1>1. Stored(i)' = Stored(i) /\ RowAccount(i) /\ (\A k : Good(i, k)' <=> Good(i, k))
  BY StoredGrows DEF ReportInv, Good
<1>2. \A k : RowNumber(i, k)' = RowNumber(i, k) /\ RowsBefore(i, k)' = RowsBefore(i, k)
  BY DEF RowNumber, RowsBefore
<1> QED
  BY <1>1, <1>2 DEF status, RowAccount

\* A row that fails before it has a fault of its own to show is one that could
\* not be stored: it is bad, or the session was spoilt before.
LEMMA FailedRowIsAccounted ==
  ASSUME ReportInv, NEW i \in Imports, RowFails(i), UNCHANGED <<contacts, file, spoilt>>,
         session'[i] = "usable" <=> session[i] = "usable", ~Gap(i, at[i]),
         ~(Good(i, at[i]) /\ spoilt[i] = 0)
  PROVE  RowAccount(i)'
<1>1. /\ at'[i] = at[i] + 1 /\ created'[i] = created[i] /\ number'[i] = number[i] + 1
      /\ errors'[i] = errors[i] \cup {number[i]}
  BY DEF RowFails, NextRow, ReportInv, ImportInv, TypeOK
<1>2. Stored(i)' = Stored(i)
  BY StoredGrows
<1>3. at[i] \in Nat \ {0} /\ RowAccount(i)
  BY DEF ReportInv, ImportInv, TypeOK
<1>4. at[i] \notin Stored(i) /\ at[i] \notin created[i]
  BY <1>3 DEF RowAccount
<1>5. session'[i] = "usable" <=> spoilt'[i] = 0
  BY <1>3 DEF RowAccount
<1> QED
  BY <1>1, <1>2, <1>4, <1>5, EndedRowIsAccounted

\* The row that spoils the session is the one that may be stored unreported.
LEMMA SpoilingRowIsAccounted ==
  ASSUME ReportInv, NEW i \in Imports, NEW s \in {"flush", "query", "commit"}, Spoil(i, s),
         file' = file, Usable(i), ~Gap(i, at[i]),
         contacts' = contacts \/ (contacts' = contacts \cup {Contact(i)} /\ Good(i, at[i]))
  PROVE  RowAccount(i)'
<1>1. at[i] \in Nat \ {0} /\ RowAccount(i)
  BY DEF ReportInv, ImportInv, TypeOK
<1>2. spoilt[i] = 0
  BY <1>1 DEF RowAccount, Usable
<1>3. /\ at'[i] = at[i] + 1 /\ created'[i] = created[i] /\ number'[i] = number[i] + 1
      /\ errors'[i] = errors[i] \cup {number[i]}
      /\ spoilt'[i] = at[i] /\ session'[i] = s
  BY <1>2 DEF Spoil, RowFails, NextRow, ReportInv, ImportInv, TypeOK
<1>4. at[i] \notin Stored(i) /\ at[i] \notin created[i]
  BY <1>1 DEF RowAccount
<1>5. Stored(i)' = Stored(i) \/ (Stored(i)' = Stored(i) \cup {at[i]} /\ Good(i, at[i]))
  BY StoredGrows
<1>6. session'[i] = "usable" <=> spoilt'[i] = 0
  BY <1>1, <1>3
<1> QED
  BY <1>2, <1>3, <1>4, <1>5, <1>6, EndedRowIsAccounted

\* After a row the import is at the next one, or behind the last.
LEMMA NextRowState ==
  ASSUME ReportInv, NEW i \in Imports, pc'[i] = "row", at'[i] = at[i] + 1, file' = file,
         at[i] \in 1..Len(file[i])
  PROVE  RowState(i)'
<1>1. at[i] \in Nat /\ at'[i] <= Len(file[i]) + 1
  BY DEF ReportInv, ImportInv, TypeOK
<1> QED
  BY <1>1 DEF RowState

\* What a failing or a spoilt row has in common.
LEMMA FailingMoves ==
  ASSUME ReportInv, NEW i \in Imports, RowFails(i)
  PROVE  pc'[i] = "row" /\ at'[i] = at[i] + 1
BY DEF RowFails, NextRow, Goto, ReportInv, ImportInv, TypeOK

\* A row whose contact can be inserted is good.
LEMMA InsertableIsGood ==
  ASSUME ReportInv, NEW i \in Imports, pc[i] = "insert", Row(i).kind # "overlong"
  PROVE  Good(i, at[i])
<1>1. file[i] \in Files /\ at[i] \in 1..Len(file[i]) /\ BelongsTo(companyId[i], Row(i).domain)
  BY DEF ReportInv, ImportInv, Placed
<1>2. Complete(Row(i))
  BY DEF ReportInv, RowState
<1>3. Row(i).kind = "good"
  BY <1>2 DEF Complete
<1>4. Row(i).domain \notin LongDomains
  <2>1. CASE Row(i).domain = NoDomain
    BY <2>1, ImportAssumption DEF ImportAssumption
  <2>2. CASE Row(i).domain # NoDomain
    BY <1>1, <2>2 DEF BelongsTo, ReportInv
  <2> QED
    BY <2>1, <2>2
<1> QED
  BY <1>3, <1>4 DEF Good, Row

\* The steps that end no row keep the accounts and leave the import in place.
LEMMA MovesAreAccounted ==
  ASSUME ReportInv, NEW i \in Imports, ReadHeader(i) \/ ReadFails(i) \/ Reply(i) \/ Crash(i)
  PROVE  RowAccount(i)' /\ RowState(i)'
<1>1. UNCHANGED <<contacts, file, at, number, created, errors, status>>
  BY DEF ReadHeader, ReadFails, Reply, Crash, db
<1>2. RowState(i) /\ at[i] \in Nat /\ file[i] \in Files \cup {Unreadable, Garbled}
  BY DEF ReportInv, ImportInv, TypeOK
<1>3. at'[i] = at[i] /\ file'[i] = file[i] /\ RowAccount(i)'
  BY <1>1, MoveKeepsAccount
<1>4. CASE ReadHeader(i)
  <2>1. at[i] = 1 /\ pc'[i] \in {"rejected", "error", "row"} /\ (pc'[i] = "row" => file[i] \in Files)
    BY <1>2, <1>4 DEF ReadHeader, Goto, RowState, ReportInv, ImportInv, TypeOK
  <2>2. file[i] \in Files => Len(file[i]) \in Nat
    BY <1>2, ImportAssumption DEF ImportAssumption
  <2> QED
    BY <1>3, <2>1, <2>2 DEF RowState
<1>5. CASE Reply(i)
  <2>1. pc'[i] \in {"ok", "error"} /\ at[i] > Len(file[i]) /\ at[i] <= Len(file[i]) + 1
    BY <1>2, <1>5 DEF Reply, Goto, RowState, ReportInv, ImportInv, TypeOK
  <2>2. file[i] \in Files
    BY <1>5 DEF Reply, ReportInv, ImportInv, Placed
  <2>3. Len(file[i]) \in Nat
    BY <2>2, ImportAssumption DEF ImportAssumption
  <2> QED
    BY <1>2, <1>3, <2>1, <2>2, <2>3 DEF RowState
<1>6. CASE ReadFails(i) \/ Crash(i)
  <2>1. pc'[i] \in {"error", "crashed"}
    BY <1>6 DEF ReadFails, Crash, Goto, ReportInv, ImportInv, TypeOK
  <2> QED
    BY <1>3, <2>1 DEF RowState
<1> QED
  BY <1>4, <1>5, <1>6

\* An import that is at a row of its file.
LEMMA AtARow ==
  ASSUME ReportInv, NEW i \in Imports, pc[i] \in {"lookup", "create", "insert"}
  PROVE  /\ at[i] \in 1..Len(file[i]) /\ file[i] \in Files
         /\ at[i] <= Len(file[i]) + 1
         /\ Complete(Row(i)) /\ ~Gap(i, at[i]) /\ RowAccount(i)
BY DEF ReportInv, ImportInv, Placed, RowState, Complete, Gap, Row

\* A step from a row to a later statement of the same row.
LEMMA SameRowState ==
  ASSUME ReportInv, NEW i \in Imports, UNCHANGED <<file, at, session>>,
         NEW l \in {"lookup", "create", "insert"}, Goto(i, l),
         at[i] <= Len(file[i]) + 1, Complete(Row(i)), l = "create" => Usable(i)
  PROVE  RowState(i)'
<1>1. pc'[i] = l
  BY DEF Goto, ReportInv, ImportInv, TypeOK
<1> QED
  BY <1>1 DEF RowState, Row, Usable

\* A row without names fails the first check, any other goes on.
LEMMA StartRowIsAccounted ==
  ASSUME ReportInv, NEW i \in Imports, StartRow(i)
  PROVE  RowAccount(i)' /\ RowState(i)'
<1>1. /\ UNCHANGED <<contacts, file, status>>
      /\ pc[i] = "row" /\ at[i] <= Len(file[i]) /\ at[i] \in Nat \ {0}
      /\ Row(i).kind \notin {"empty", "broken"}
  BY DEF StartRow, AtLine, db, ReportInv, ImportInv, TypeOK
<1>2. at[i] \in 1..Len(file[i]) /\ at[i] <= Len(file[i]) + 1 /\ ~Gap(i, at[i]) /\ file[i] \in Files
  BY <1>1, ImportAssumption DEF ReportInv, ImportInv, Placed, ImportAssumption, Gap, Row
<1>3. CASE Row(i).kind = "nameless" /\ RowFails(i)
  <2>1. ~Good(i, at[i])
    BY <1>3 DEF Good, Row
  <2>2. RowAccount(i)'
    BY <1>1, <1>2, <1>3, <2>1, FailedRowIsAccounted DEF status
  <2> QED
    BY <1>1, <1>2, <1>3, <2>2, FailingMoves, NextRowState
<1>4. CASE /\ Row(i).kind # "nameless"
           /\ Goto(i, IF Row(i).domain = NoDomain THEN "insert" ELSE "lookup")
           /\ UNCHANGED <<at, number, created, errors>>
  <2>1. Complete(Row(i))
    BY <1>1, <1>2, <1>4, RowIsARow DEF Complete, Row
  <2> QED
    BY <1>1, <1>2, <1>4, <2>1, MoveKeepsAccount, SameRowState DEF status
<1> QED
  BY <1>3, <1>4 DEF StartRow

\* An empty line has no number and no account.
LEMMA SkipIsAccounted ==
  ASSUME ReportInv, NEW i \in Imports, SkipEmptyLine(i)
  PROVE  RowAccount(i)' /\ RowState(i)'
<1>1. /\ UNCHANGED <<contacts, file, pc, number, created, errors, status>>
      /\ pc[i] = "row" /\ at[i] <= Len(file[i]) /\ at[i] \in Nat \ {0}
      /\ at'[i] = at[i] + 1
  BY DEF SkipEmptyLine, AtLine, db, ReportInv, ImportInv, TypeOK
<1>2. at[i] \in 1..Len(file[i])
  BY <1>1, ImportAssumption DEF ReportInv, ImportInv, Placed, ImportAssumption
<1>3. Gap(i, at[i]) /\ ~Good(i, at[i])
  BY DEF SkipEmptyLine, Gap, Good, Row
<1>4. Stored(i)' = Stored(i) /\ RowAccount(i)
  BY <1>1, StoredGrows DEF ReportInv
<1>5. at[i] \notin Stored(i) /\ at[i] \notin created[i] /\ (session[i] = "usable" <=> spoilt[i] = 0)
  BY <1>1, <1>4 DEF RowAccount
<1>6. RowAccount(i)'
  BY <1>1, <1>3, <1>4, <1>5, EndedRowIsAccounted DEF status
<1> QED
  BY <1>1, <1>2, <1>6, NextRowState

\* A lookup fails only in a session that is spoilt.
LEMMA LookUpIsAccounted ==
  ASSUME ReportInv, NEW i \in Imports, LookUpCompany(i)
  PROVE  RowAccount(i)' /\ RowState(i)'
<1>1. UNCHANGED <<contacts, file, status>> /\ pc[i] = "lookup"
  BY DEF LookUpCompany, db
<1>2. at[i] \in 1..Len(file[i]) /\ at[i] <= Len(file[i]) + 1 /\ Complete(Row(i)) /\ ~Gap(i, at[i])
      /\ RowAccount(i)
  BY <1>1, AtARow
<1>3. CASE Usable(i) /\ UNCHANGED <<at, number, created, errors>>
           /\ (Goto(i, "insert") \/ Goto(i, "create"))
  BY <1>1, <1>2, <1>3, MoveKeepsAccount, SameRowState DEF status
<1>4. CASE ~Usable(i) /\ RowFails(i)
  <2>1. spoilt[i] # 0
    BY <1>2, <1>4 DEF RowAccount, Usable
  <2>2. RowAccount(i)'
    BY <1>1, <1>2, <1>4, <2>1, FailedRowIsAccounted DEF status
  <2> QED
    BY <1>1, <1>2, <1>4, <2>2, FailingMoves, NextRowState
<1> QED
  BY <1>3, <1>4 DEF LookUpCompany

\* A company that cannot be created spoils the session, at a row that is not stored.
LEMMA CreateIsAccounted ==
  ASSUME ReportInv, NEW i \in Imports, CreateCompany(i)
  PROVE  RowAccount(i)' /\ RowState(i)'
<1>1. UNCHANGED <<contacts, file>> /\ pc[i] = "create" /\ Usable(i)
  BY DEF CreateCompany, ReportInv, RowState
<1>2. at[i] \in 1..Len(file[i]) /\ at[i] <= Len(file[i]) + 1 /\ Complete(Row(i)) /\ ~Gap(i, at[i])
  BY <1>1, AtARow
<1>3. CASE Goto(i, "insert") /\ UNCHANGED <<at, number, created, errors, status>>
  BY <1>1, <1>2, <1>3, MoveKeepsAccount, SameRowState DEF status
<1>4. CASE Spoil(i, "flush")
  <2>1. RowFails(i)
    BY <1>4 DEF Spoil
  <2>2. RowAccount(i)'
    BY <1>1, <1>2, <1>4, SpoilingRowIsAccounted
  <2> QED
    BY <1>1, <1>2, <2>1, <2>2, FailingMoves, NextRowState
<1> QED
  BY <1>3, <1>4 DEF CreateCompany

\* The contact that is committed is that of a good row; an overlong one spoils.
LEMMA InsertIsAccounted ==
  ASSUME ReportInv, NEW i \in Imports, InsertContact(i)
  PROVE  RowAccount(i)' /\ RowState(i)'
<1>1. pc[i] = "insert" /\ Usable(i) /\ file' = file
  BY DEF InsertContact
<1>2. at[i] \in 1..Len(file[i]) /\ RowAccount(i) /\ at[i] \in Nat \ {0} /\ ~Gap(i, at[i])
  BY <1>1, AtARow
<1>3. CASE Spoil(i, "flush") /\ UNCHANGED contacts
  <2>1. RowFails(i)
    BY <1>3 DEF Spoil
  <2>2. RowAccount(i)'
    BY <1>1, <1>2, <1>3, SpoilingRowIsAccounted
  <2> QED
    BY <1>1, <1>2, <2>1, <2>2, FailingMoves, NextRowState
<1>4. CASE /\ Row(i).kind # "overlong"
           /\ contacts' = contacts \cup {Contact(i)}
           /\ created' = [created EXCEPT ![i] = @ \cup {at[i]}]
           /\ NextRow(i) /\ UNCHANGED <<errors, status>>
  <2>1. /\ created'[i] = created[i] \cup {at[i]} /\ at'[i] = at[i] + 1
        /\ number'[i] = number[i] + 1 /\ pc'[i] = "row"
        /\ errors'[i] = errors[i] /\ spoilt' = spoilt /\ session' = session
    BY <1>4 DEF NextRow, Goto, status, ReportInv, ImportInv, TypeOK
  <2>2. Stored(i)' = Stored(i) \cup {at[i]}
    BY <1>4, StoredGrows
  <2>3. Good(i, at[i])
    BY <1>1, <1>4, InsertableIsGood
  <2>4. spoilt[i] = 0
    BY <1>1, <1>2 DEF RowAccount, Usable
  <2>5. RowAccount(i)'
    BY <1>1, <1>2, <2>1, <2>2, <2>3, <2>4, EndedRowIsAccounted DEF Usable
  <2> QED
    BY <1>1, <1>2, <1>4, <2>1, <2>5, NextRowState
<1> QED
  BY <1>3, <1>4 DEF InsertContact

\* A session that refuses was spoilt before, and stays so.
LEMMA RefusedIsAccounted ==
  ASSUME ReportInv, NEW i \in Imports, InsertRefused(i)
  PROVE  RowAccount(i)' /\ RowState(i)'
<1>1. /\ pc[i] = "insert" /\ ~Usable(i) /\ RowFails(i) /\ UNCHANGED <<contacts, file, spoilt>>
      /\ session' = [session EXCEPT ![i] = IF @ = "query" THEN "flush" ELSE @]
  BY DEF InsertRefused, db
<1>2. at[i] \in 1..Len(file[i]) /\ RowAccount(i) /\ ~Gap(i, at[i])
  BY <1>1, AtARow
<1>3. spoilt[i] # 0
  BY <1>1, <1>2 DEF RowAccount, Usable
<1>4. session'[i] = "usable" <=> session[i] = "usable"
  BY <1>1 DEF ReportInv, ImportInv, TypeOK
<1>5. RowAccount(i)'
  BY <1>1, <1>2, <1>3, <1>4, FailedRowIsAccounted
<1> QED
  BY <1>1, <1>2, <1>5, FailingMoves, NextRowState

\* A connection breaks at a row, which may be stored if its COMMIT was under way.
LEMMA BreakIsAccounted ==
  ASSUME ReportInv, NEW i \in Imports, ConnectionBreaks(i)
  PROVE  RowAccount(i)' /\ RowState(i)'
<1>1. file' = file /\ Usable(i) /\ pc[i] \in {"lookup", "create", "insert"}
  BY DEF ConnectionBreaks
<1>2. PICK s \in {"flush", "query", "commit"} : Spoil(i, s)
  BY DEF ConnectionBreaks
<1>3. contacts' = contacts \/ (contacts' = contacts \cup {Contact(i)} /\ Good(i, at[i]))
  BY InsertableIsGood DEF ConnectionBreaks, db
<1>4. at[i] \in 1..Len(file[i]) /\ ~Gap(i, at[i])
  BY <1>1, AtARow
<1>5. RowFails(i)
  BY <1>2 DEF Spoil
<1>6. RowAccount(i)'
  BY <1>1, <1>2, <1>3, <1>4, SpoilingRowIsAccounted
<1> QED
  BY <1>1, <1>4, <1>5, <1>6, FailingMoves, NextRowState

\* What a step may add to the tables.
LEMMA TablesGrow ==
  ASSUME NEW i \in Imports, Progress(i) \/ ConnectionBreaks(i) \/ Crash(i)
  PROVE  /\ contacts' \in {contacts, contacts \cup {Contact(i)}}
         /\ companies' = companies \/ (companies' = NewCompany(i) /\ Storable(Row(i).domain))
BY DEF Progress, ReadHeader, StartRow, LookUpCompany, CreateCompany, InsertContact,
       InsertRefused, SkipEmptyLine, ReadFails, Reply, ConnectionBreaks, Crash, db

\* Every step keeps the invariant.
LEMMA StepKeepsReportInv == ASSUME ReportInv, [Next]_vars PROVE ReportInv'
<1>1. ImportInv'
  BY StepKeepsImportInv DEF ReportInv
<1>2. CASE UNCHANGED vars
  <2>1. \A i \in Imports : RowAccount(i)'
    BY <1>2, MoveKeepsAccount DEF vars, status
  <2>2. \A i \in Imports : RowState(i)'
    BY <1>2 DEF vars, ReportInv, RowState, Row, Usable
  <2> QED
    BY <1>1, <1>2, <2>1, <2>2 DEF vars, ReportInv
<1>3. ASSUME NEW i \in Imports, Progress(i) \/ ConnectionBreaks(i) \/ Crash(i)
      PROVE  ReportInv'
  <2>1. OnlyOf(i)
    BY <1>3, ActionsAreOwn DEF ReportInv
  <2>2. RowAccount(i)' /\ RowState(i)'
    BY <1>3, MovesAreAccounted, SkipIsAccounted, StartRowIsAccounted, LookUpIsAccounted, CreateIsAccounted,
       InsertIsAccounted, RefusedIsAccounted, BreakIsAccounted DEF Progress
  <2> QED
    BY <1>1, <1>3, <2>1, <2>2, TablesGrow, OwnAccountSuffices
<1> QED
  BY <1>2, <1>3 DEF Next

\* Initially nothing has been read.
LEMMA ReportStarts == ASSUME Init PROVE ReportInv
<1>1. ImportInv
  BY ImportStarts
<1>2. contacts = {} /\ companies = {} /\ IsFiniteSet(contacts)
  BY FS_EmptySet DEF Init
<1>3. ASSUME NEW i \in Imports PROVE RowAccount(i) /\ RowState(i)
  <2>1. /\ at[i] = 1 /\ created[i] = {} /\ errors[i] = {} /\ session[i] = "usable"
        /\ spoilt[i] = 0 /\ pc[i] = "received" /\ Stored(i) = {} /\ number[i] = 2
    BY DEF Init, FirstNumber, Stored
  <2>2. 1..(at[i] - 1) = {} /\ RowsBefore(i, at[i]) = {}
    BY <2>1 DEF RowsBefore
  <2>3. RowNumber(i, at[i]) = 2
    BY <2>2, FS_EmptySet DEF RowNumber
  <2>5. RowAccount(i)
    BY <2>1, <2>2, <2>3 DEF RowAccount
  <2>4. RowState(i)
    BY <2>1 DEF RowState
  <2> QED
    BY <2>4, <2>5
<1> QED
  BY <1>1, <1>2, <1>3 DEF ReportInv

\* One contact to a row: as many contacts of a file as rows that are stored.
LEMMA OneContactToARow ==
  ASSUME ReportInv, NEW i \in Imports
  PROVE  Cardinality({x \in contacts : x.file = i}) = Cardinality(Stored(i))
<1> DEFINE own == {x \in contacts : x.file = i}
           row == [x \in own |-> x.row]
<1>1. IsFiniteSet(own)
  BY FS_Subset DEF ReportInv
<1>2. row \in Bijection(own, Stored(i))
  <2>1. row \in [own -> Stored(i)] /\ \A k \in Stored(i) : \E x \in own : row[x] = k
    BY DEF Stored
  <2>2. \A x, y \in own : row[x] = row[y] => x = y
    BY DEF ReportInv
  <2> HIDE DEF row, own
  <2> QED
    BY <2>1, <2>2 DEF Bijection, Injection, Surjection, IsInjective
<1>3. ExistsBijection(own, Stored(i))
  BY <1>2 DEF ExistsBijection
<1> HIDE DEF own
<1> QED
  BY <1>1, <1>3, FS_Bijection DEF own

\* What the accounts say when the last row has been read is what a 200 tells.
LEMMA AccountsMakeTheReport == ASSUME ReportInv PROVE ReportIsTrue
<1> SUFFICES ASSUME NEW i \in Imports, pc[i] = "ok"
             PROVE  /\ created[i] \subseteq Stored(i)
                    /\ Stored(i) \ created[i] \subseteq {spoilt[i]}
                    /\ errors[i] = {RowNumber(i, k) : k \in Rows(i) \ created[i]}
                    /\ Cardinality({x \in contacts : x.file = i}) = Cardinality(Stored(i))
  BY DEF ReportIsTrue
<1>1. RowAccount(i) /\ file[i] \in Files /\ at[i] = Len(file[i]) + 1
  BY DEF ReportInv, RowState
<1>2. Len(file[i]) \in Nat /\ file[i] # Unreadable
  BY <1>1, ImportAssumption DEF ImportAssumption
<1>3. Rows(i) = RowsBefore(i, at[i])
  BY <1>1, <1>2 DEF Rows
<1> QED
  BY <1>1, <1>3, OneContactToARow DEF RowAccount

\* A 200 for an upload tells what happened: what it lists as created is stored,
\* every other row of the file is listed under its number among the rows that are
\* not empty (not the number in the sheet), and at most the row whose connection broke is stored unlisted; for any files, any number of
\* imports, and wherever connections break and workers die.
THEOREM ReportsAreTrue == Spec => []ReportIsTrue
BY ReportStarts, StepKeepsReportInv, AccountsMakeTheReport, PTL DEF Spec

\* Until its first failed statement an import stores exactly the good rows it
\* has read, and afterwards none.
THEOREM RowsAreTolerated == Spec => []TolerantUntilSpoilt
<1>1. ReportInv => TolerantUntilSpoilt
  BY DEF ReportInv, RowAccount, TolerantUntilSpoilt
<1> QED
  BY <1>1, ReportStarts, StepKeepsReportInv, PTL DEF Spec
=============================================================================
