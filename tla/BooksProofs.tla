---------------------------- MODULE BooksProofs ----------------------------
(***************************************************************************)
(* Proofs about Books, for any calls, books, ISBNs and tasks.              *)
(***************************************************************************)
EXTENDS Books, TLAPS

-----------------------------------------------------------------------------
(* The inductive invariant.                                                *)

TablesOK ==
    /\ DOMAIN books \subseteq BookId
    /\ \A b \in DOMAIN books : books[b] \in Row
    /\ isbns \in [DOMAIN books -> Isbn]

CallsOK ==
    /\ task \in [Admin -> Tasks]
    /\ DOMAIN copy = Admin
    /\ \A a \in Admin : DOMAIN copy[a] = Column
    /\ changed \in [Admin -> SUBSET Column]
    /\ step \in [Admin -> {"idle", "insert", "isbn", "save", "write", "done"}]
    /\ result \in [Admin -> Code]

\* An entity that may be written to the table.
IsEntity(e) ==
    /\ DOMAIN e = Column
    /\ e["isbn"] \in Isbn
    /\ e["available"] \in Nat /\ e["sold"] \in Nat
    /\ e["price"] \in Nat \ {0}
    /\ e["active"] \in BOOLEAN

\* What a call carries from step to step: an entity of a book that exists, and
\* past its check the ISBN that it was asked to set.
Carries(a) ==
    /\ step[a] = "insert" => task[a].kind = "create"
    /\ step[a] = "isbn" => "isbn" \in DOMAIN task[a].set
    /\ step[a] \in {"isbn", "save", "write"} =>
          BookOf(a) \in DOMAIN books /\ IsEntity(copy[a])
    /\ step[a] \in {"save", "write"} /\ "isbn" \in DOMAIN task[a].set =>
          copy[a]["isbn"] = task[a].set.isbn

Carried == \A a \in Admin : Carries(a)

BInv == TablesOK /\ CallsOK /\ Carried /\ IsbnUnique

-----------------------------------------------------------------------------
(* Entities.                                                               *)

\* A row of the table, with its ISBN, is an entity.
LEMMA RowIsEntity ==
    ASSUME TablesOK, NEW b \in DOMAIN books
    PROVE  IsEntity(Columns(b))
<1>1. books[b] \in Row /\ isbns[b] \in Isbn
  BY DEF TablesOK
<1>2. /\ books[b].available \in Nat /\ books[b].sold \in Nat
      /\ books[b].price \in Nat \ {0}
  BY <1>1 DEF Row
<1>3. books[b].active \in BOOLEAN
  BY <1>1, Zenon DEF Row
<1> QED
  BY <1>1, <1>2, <1>3 DEF IsEntity, Columns, Column

\* What a task sets is of the type of its column.
LEMMA TaskSets ==
    ASSUME NEW t \in Tasks
    PROVE  /\ DOMAIN t.set \subseteq Editable
           /\ t.kind = "create" => DOMAIN t.set = Editable
           /\ t.kind = "deactivate" => DOMAIN t.set = {}
           /\ "isbn" \in DOMAIN t.set => t.set.isbn \in Isbn
           /\ "price" \in DOMAIN t.set => t.set.price \in Nat \ {0}
           /\ "available" \in DOMAIN t.set => t.set.available \in Nat
BY BooksAssumption DEF BooksAssumption, IsTask

\* Editing an entity makes an entity, with the same ISBN.
LEMMA EditIsEntity ==
    ASSUME NEW a \in Admin, task[a] \in Tasks, NEW row, IsEntity(row)
    PROVE  IsEntity(Edited(a, row))
<1>1. DOMAIN Edited(a, row) = Column
  BY DEF Edited
<1>2. Edited(a, row)["isbn"] = row["isbn"]
  BY DEF Edited, Column
<1>3. Edited(a, row)["sold"] = row["sold"]
  BY TaskSets DEF Edited, Column, Editable
<1>4. \/ Edited(a, row)["price"] = row["price"]
      \/ "price" \in DOMAIN task[a].set /\ Edited(a, row)["price"] = task[a].set["price"]
  BY DEF Edited, Column
<1>5. \/ Edited(a, row)["available"] = row["available"]
      \/ "available" \in DOMAIN task[a].set
         /\ Edited(a, row)["available"] = task[a].set["available"]
  BY DEF Edited, Column
<1>6. Edited(a, row)["active"] \in {row["active"], FALSE}
  BY TaskSets DEF Edited, Column, Editable
<1>7. Edited(a, row)["active"] \in BOOLEAN
  BY <1>6, Zenon DEF IsEntity
<1> QED
  BY <1>1, <1>2, <1>3, <1>4, <1>5, <1>7, TaskSets DEF IsEntity

\* The row an UPDATE leaves is an entity, and its ISBN the row's or the copy's.
LEMMA WrittenIsEntity ==
    ASSUME TablesOK, NEW a \in Admin, BookOf(a) \in DOMAIN books, IsEntity(copy[a])
    PROVE  /\ IsEntity(Written(a))
           /\ Written(a)["isbn"] \in {isbns[BookOf(a)], copy[a]["isbn"]}
<1>1. IsEntity(Columns(BookOf(a)))
  BY RowIsEntity
<1>2. DOMAIN Written(a) = Column
  BY DEF Written
<1>3. \A c \in Column : Written(a)[c] \in {copy[a][c], Columns(BookOf(a))[c]}
  BY DEF Written
<1>4. Written(a)["active"] \in BOOLEAN
  <2>1. Written(a)["active"] \in {copy[a]["active"], Columns(BookOf(a))["active"]}
    BY <1>3 DEF Column
  <2> QED
    BY <1>1, <2>1, Zenon DEF IsEntity
<1>5. Columns(BookOf(a))["isbn"] = isbns[BookOf(a)]
  BY DEF Columns
<1> QED
  BY <1>1, <1>2, <1>3, <1>4, <1>5 DEF IsEntity, Column

-----------------------------------------------------------------------------
(* The kinds of steps.                                                     *)

\* A call is answered, and the tables stay as they should be.
LEMMA AnswerStep ==
    ASSUME BInv, NEW a \in Admin, NEW code \in Code, Finish(a, code),
           UNCHANGED <<task, copy>>, changed' \in [Admin -> SUBSET Column],
           TablesOK', IsbnUnique', DOMAIN books \subseteq DOMAIN books'
    PROVE  BInv'
<1>1. CallsOK'
  BY DEF BInv, CallsOK, Finish
<1>2. ASSUME NEW d \in Admin PROVE Carries(d)'
  <2>1. CASE d = a
    BY <2>1 DEF BInv, CallsOK, Finish, Carries
  <2>2. CASE d # a
    BY <2>2 DEF BInv, CallsOK, Carried, Finish, Carries, BookOf
  <2> QED
    BY <2>1, <2>2
<1> QED
  BY <1>1, <1>2 DEF BInv, Carried

\* A call goes on to another step, with what it has to carry there.
LEMMA ProceedStep ==
    ASSUME BInv, NEW a \in Admin, NEW label \in {"insert", "isbn", "save", "write"},
           Proceed(a, label), UNCHANGED <<books, isbns, task>>,
           changed' \in [Admin -> SUBSET Column],
           DOMAIN copy' = Admin, DOMAIN copy'[a] = Column,
           \A d \in Admin \ {a} : copy'[d] = copy[d],
           Carries(a)'
    PROVE  BInv'
<1>1. CallsOK'
  BY DEF BInv, CallsOK, Proceed
<1>2. ASSUME NEW d \in Admin \ {a} PROVE Carries(d)'
  BY DEF BInv, CallsOK, Carried, Proceed, Carries, BookOf
<1>3. TablesOK' /\ IsbnUnique'
  BY DEF BInv, TablesOK, IsbnUnique
<1> QED
  BY <1>1, <1>2, <1>3 DEF BInv, Carried

\* A step that answers and leaves the tables alone.
LEMMA QuietAnswer ==
    ASSUME BInv, NEW a \in Admin, NEW code \in Code, Finish(a, code),
           UNCHANGED <<books, isbns, task, copy>>, changed' \in [Admin -> SUBSET Column]
    PROVE  BInv'
<1>1. TablesOK' /\ IsbnUnique' /\ DOMAIN books \subseteq DOMAIN books'
  BY DEF BInv, TablesOK, IsbnUnique
<1> QED
  BY <1>1, AnswerStep

-----------------------------------------------------------------------------
(* createBook.                                                             *)

\* The ISBN is looked up.
LEMMA LookUpStep == ASSUME BInv, NEW a \in Admin, LookUpIsbn(a) PROVE BInv'
<1>1. changed' \in [Admin -> SUBSET Column]
  BY DEF LookUpIsbn, BInv, CallsOK
<1>2. CASE Finish(a, "DUPLICATE_BOOK_ISBN")
  BY <1>1, <1>2, QuietAnswer DEF LookUpIsbn, Code
<1>3. CASE Proceed(a, "insert")
  <2>1. Carries(a)'
    BY <1>3 DEF LookUpIsbn, Proceed, Carries, BInv, CallsOK
  <2> QED
    BY <1>1, <1>3, <2>1, ProceedStep DEF LookUpIsbn, BInv, CallsOK
<1> QED
  BY <1>2, <1>3 DEF LookUpIsbn

\* The new row has its type and an ISBN that no other row has.
LEMMA InsertTables ==
    ASSUME BInv, NEW a \in Admin, InsertBook(a)
    PROVE  TablesOK' /\ IsbnUnique' /\ DOMAIN books \subseteq DOMAIN books'
<1> DEFINE t == task[a]
           row == [available |-> t.set.available, sold |-> 0,
                   price |-> t.set.price, active |-> TRUE]
<1>1. PICK id \in BookId \ DOMAIN books :
         /\ books' = [b \in DOMAIN books \cup {id} |->
                         IF b \in DOMAIN books THEN books[b] ELSE row]
         /\ isbns' = [b \in DOMAIN isbns \cup {id} |->
                         IF b \in DOMAIN isbns THEN isbns[b] ELSE t.set.isbn]
  BY DEF InsertBook
<1>2. t \in Tasks /\ t.kind = "create" /\ DOMAIN isbns = DOMAIN books
  BY DEF BInv, CallsOK, TablesOK, Carried, Carries, InsertBook
<1>3. t.set.isbn \in Isbn /\ t.set.price \in Nat \ {0} /\ t.set.available \in Nat
  BY <1>2, TaskSets DEF Editable
<1>4. row \in Row
  BY <1>3 DEF Row
<1>5. TablesOK'
  BY <1>1, <1>2, <1>3, <1>4 DEF BInv, TablesOK
<1>6. \A b \in DOMAIN isbns : isbns[b] # t.set.isbn
  <2>1. BookOf(a) \notin BookId
    BY <1>2, BooksAssumption DEF BooksAssumption, IsTask, BookOf
  <2> QED
    BY <1>2, <2>1 DEF InsertBook, IsbnTaken, BInv, TablesOK
<1>7. IsbnUnique'
  BY <1>1, <1>6 DEF BInv, IsbnUnique
<1> QED
  BY <1>1, <1>5, <1>7

\* The row is inserted.
LEMMA InsertStep == ASSUME BInv, NEW a \in Admin, InsertBook(a) PROVE BInv'
BY InsertTables, AnswerStep DEF InsertBook, Code, BInv, CallsOK

-----------------------------------------------------------------------------
(* updateBook and deactivateBook.                                          *)

\* The entity is loaded and edited.
LEMMA LoadStep == ASSUME BInv, NEW a \in Admin, LoadBook(a) PROVE BInv'
<1> DEFINE e == Edited(a, Columns(BookOf(a)))
<1>1. /\ copy' = [copy EXCEPT ![a] = e]
      /\ UNCHANGED <<books, isbns, task, changed>>
      /\ BookOf(a) \in DOMAIN books
  BY DEF LoadBook
<1>2. IsEntity(e)
  BY <1>1, RowIsEntity, EditIsEntity DEF BInv, CallsOK
<1>3. copy'[a] = e /\ DOMAIN copy' = Admin /\ \A d \in Admin \ {a} : copy'[d] = copy[d]
  BY <1>1 DEF BInv, CallsOK
<1>4. PICK label \in {"isbn", "save"} :
         /\ Proceed(a, label)
         /\ label = "isbn" <=> "isbn" \in DOMAIN task[a].set
  BY DEF LoadBook
<1>5. step'[a] = label
  BY <1>4 DEF Proceed, BInv, CallsOK
<1>6. Carries(a)'
  BY <1>1, <1>2, <1>3, <1>4, <1>5 DEF Carries, BookOf
<1>7. DOMAIN copy'[a] = Column /\ changed' \in [Admin -> SUBSET Column]
  BY <1>1, <1>2, <1>3 DEF IsEntity, BInv, CallsOK
<1> QED
  BY <1>1, <1>3, <1>4, <1>6, <1>7, ProceedStep

\* The new ISBN is looked up, and set.
LEMMA CheckStep == ASSUME BInv, NEW a \in Admin, CheckIsbn(a) PROVE BInv'
<1>1. changed' \in [Admin -> SUBSET Column] /\ UNCHANGED <<books, isbns, task>>
  BY DEF CheckIsbn, BInv, CallsOK
<1>2. CASE Finish(a, "DUPLICATE_BOOK_ISBN") /\ UNCHANGED copy
  BY <1>1, <1>2, QuietAnswer DEF Code
<1>3. CASE Proceed(a, "save") /\ copy' = [copy EXCEPT ![a].isbn = task[a].set.isbn]
  <2>1. /\ step[a] = "isbn"
        /\ "isbn" \in DOMAIN task[a].set
        /\ BookOf(a) \in DOMAIN books
        /\ IsEntity(copy[a])
    BY DEF CheckIsbn, BInv, Carried, Carries
  <2>2. task[a].set.isbn \in Isbn
    BY <2>1, TaskSets DEF BInv, CallsOK
  <2>3. /\ DOMAIN copy' = Admin
        /\ \A d \in Admin \ {a} : copy'[d] = copy[d]
        /\ copy'[a] = [copy[a] EXCEPT !["isbn"] = task[a].set.isbn]
    BY <1>3 DEF BInv, CallsOK
  <2>4. IsEntity(copy'[a]) /\ copy'[a]["isbn"] = task[a].set.isbn
    BY <2>1, <2>2, <2>3 DEF IsEntity, Column
  <2>5. step'[a] = "save"
    BY <1>3 DEF Proceed, BInv, CallsOK
  <2>6. Carries(a)'
    BY <1>1, <2>1, <2>4, <2>5 DEF Carries, BookOf
  <2>7. DOMAIN copy'[a] = Column
    BY <2>4 DEF IsEntity
  <2> QED
    BY <1>1, <1>3, <2>3, <2>6, <2>7, ProceedStep
<1> QED
  BY <1>2, <1>3 DEF CheckIsbn

\* save reads the row again and compares.
LEMMA CompareStep == ASSUME BInv, NEW a \in Admin, CompareRow(a) PROVE BInv'
<1> DEFINE different == {c \in Column : copy[a][c] # Columns(BookOf(a))[c]}
<1>1. changed' = [changed EXCEPT ![a] = different] /\ UNCHANGED <<books, isbns, task, copy>>
  BY DEF CompareRow
<1>2. changed' \in [Admin -> SUBSET Column]
  BY <1>1 DEF BInv, CallsOK
<1>3. CASE Finish(a, "OK")
  BY <1>1, <1>2, <1>3, QuietAnswer DEF Code
<1>4. CASE Proceed(a, "write")
  <2>1. step[a] = "save" /\ step'[a] = "write"
    BY <1>4 DEF CompareRow, Proceed, BInv, CallsOK
  <2>2. Carries(a)'
    BY <1>1, <2>1 DEF BInv, Carried, Carries, BookOf
  <2> QED
    BY <1>1, <1>2, <1>4, <2>2, ProceedStep DEF BInv, CallsOK
<1> QED
  BY <1>3, <1>4 DEF CompareRow

\* The updated row has its type, and an ISBN that no other row has.
LEMMA WriteTables ==
    ASSUME BInv, NEW a \in Admin, WriteColumns(a)
    PROVE  TablesOK' /\ IsbnUnique' /\ DOMAIN books \subseteq DOMAIN books'
<1> DEFINE b == BookOf(a)
           new == Written(a)
           row == [available |-> new.available, sold |-> new.sold,
                   price |-> new.price, active |-> new.active]
<1>1. /\ books' = [books EXCEPT ![b] = row]
      /\ isbns' = [isbns EXCEPT ![b] = new.isbn]
      /\ \A d \in DOMAIN isbns \ {b} : isbns[d] # new.isbn
  BY DEF WriteColumns
<1>2. b \in DOMAIN books /\ IsEntity(copy[a])
  BY DEF WriteColumns, BInv, Carried, Carries
<1>3. IsEntity(new)
  BY <1>2, WrittenIsEntity DEF BInv
<1>4. row \in Row /\ new.isbn \in Isbn
  BY <1>3, Zenon DEF IsEntity, Row
<1>5. TablesOK'
  BY <1>1, <1>2, <1>4 DEF BInv, TablesOK
<1>6. IsbnUnique'
  BY <1>1, <1>2 DEF BInv, TablesOK, IsbnUnique
<1> QED
  BY <1>1, <1>5, <1>6

\* The row is updated.
LEMMA WriteStep == ASSUME BInv, NEW a \in Admin, WriteColumns(a) PROVE BInv'
BY WriteTables, AnswerStep DEF WriteColumns, Code, BInv, CallsOK

-----------------------------------------------------------------------------
(* The theorems.                                                           *)

\* The invariant holds at first.
LEMMA InitInv == Init => BInv
<1> SUFFICES ASSUME Init PROVE BInv
  OBVIOUS
<1>1. TablesOK /\ IsbnUnique
  BY BooksAssumption DEF Init, BooksAssumption, TablesOK, IsbnUnique
<1>2. DOMAIN NoCopy = Column
  BY DEF NoCopy, Column
<1>3. CallsOK /\ Carried
  BY <1>2 DEF Init, CallsOK, Carried, Carries, Code
<1> QED
  BY <1>1, <1>3 DEF BInv

\* Every step keeps it.
LEMMA InvKept == ASSUME BInv, [Next]_vars PROVE BInv'
<1>1. CASE UNCHANGED vars
  BY <1>1 DEF vars, BInv, TablesOK, CallsOK, Carried, Carries, BookOf, IsbnUnique
<1>2. ASSUME NEW a \in Admin, MeetDuplicate(a) \/ MissBook(a) \/ Fail(a) PROVE BInv'
  BY <1>2, QuietAnswer DEF MeetDuplicate, MissBook, Fail, Code, BInv, CallsOK
<1> QED
  BY <1>1, <1>2, LookUpStep, InsertStep, LoadStep, CheckStep, CompareStep, WriteStep
     DEF Next, Act, Finished

\* The inductive invariant holds in every reachable state.
THEOREM BooksInvariance == Spec => []BInv
BY InitInv, InvKept, PTL DEF Spec

\* The variables of Books keep their types: in particular no edit, however
\* stale, leaves a negative stock, a price of zero or a row without an ISBN.
THEOREM BooksTypes == Spec => []TypeOK
<1>1. BInv => TypeOK
  BY DEF BInv, TablesOK, CallsOK, TypeOK
<1> QED
  BY <1>1, BooksInvariance, PTL

\* However lookups and writes interleave, two books never share an ISBN.
THEOREM IsbnsAreUnique == Spec => []IsbnUnique
<1>1. BInv => IsbnUnique
  BY DEF BInv
<1> QED
  BY <1>1, BooksInvariance, PTL

\* The UPDATE meets the unique index with the ISBN the call wants: the row's
\* own is no other book's.
LEMMA WrittenIsbn ==
    ASSUME BInv, NEW a \in Admin, step[a] = "write",
           NEW b \in DOMAIN isbns \ {BookOf(a)}, isbns[b] = Written(a).isbn
    PROVE  isbns[b] = WantedIsbn(a)
<1>1. /\ BookOf(a) \in DOMAIN books
      /\ IsEntity(copy[a])
      /\ "isbn" \in DOMAIN task[a].set => copy[a]["isbn"] = task[a].set.isbn
  BY DEF BInv, Carried, Carries
<1>2. Written(a)["isbn"] \in {isbns[BookOf(a)], copy[a]["isbn"]}
  BY <1>1, WrittenIsEntity DEF BInv
<1>3. isbns[b] # isbns[BookOf(a)]
  BY <1>1 DEF BInv, TablesOK, IsbnUnique
<1> QED
  BY <1>1, <1>2, <1>3 DEF WantedIsbn

\* A call that finds its ISBN taken sets one, and so does not deactivate.
LEMMA TakenIsWanted ==
    ASSUME BInv, NEW a \in Admin, IsbnTaken(a),
           task[a].kind = "create" \/ step[a] = "isbn"
    PROVE  /\ task[a].kind # "deactivate"
           /\ \E b \in DOMAIN isbns \ {BookOf(a)} : isbns[b] = WantedIsbn(a)
<1>1. task[a] \in Tasks /\ "isbn" \in DOMAIN task[a].set
  BY TaskSets DEF BInv, CallsOK, Carried, Carries, Editable
<1> QED
  BY <1>1, TaskSets DEF IsbnTaken, WantedIsbn

\* Whoever is told of a duplicate wants an ISBN that another book has at that
\* moment, whether it named that ISBN or was about to write a stale one back,
\* and is no deactivation.
THEOREM DuplicatesAreReal == Spec => DuplicatesReal
<1> DEFINE Told(a) == result'[a] # result[a] /\ result'[a] = "DUPLICATE_BOOK_ISBN"
           Real(a) ==
               /\ task[a].kind # "deactivate"
               /\ \E b \in DOMAIN isbns \ {BookOf(a)} : isbns[b] = WantedIsbn(a)
<1>1. BInv /\ [Next]_vars => [\A a \in Admin : Told(a) => Real(a)]_vars
  <2> SUFFICES ASSUME BInv, Next, NEW a \in Admin, Told(a)
               PROVE  Real(a)
    OBVIOUS
  <2>1. PICK d \in Admin : Act(d) \/ Fail(d)
    BY DEF Next, Finished, vars
  <2>2. result \in [Admin -> Code]
    BY DEF BInv, CallsOK
  <2>3. d = a
    BY <2>1, <2>2 DEF Act, Fail, LookUpIsbn, InsertBook, MeetDuplicate, LoadBook, MissBook,
                      CheckIsbn, CompareRow, WriteColumns, Proceed, Finish
  <2>4. \/ (LookUpIsbn(a) \/ CheckIsbn(a)) /\ IsbnTaken(a)
        \/ MeetDuplicate(a) /\ task[a].kind # "deactivate"
    BY <2>1, <2>2, <2>3 DEF Act, Fail, LookUpIsbn, InsertBook, MeetDuplicate, LoadBook,
                            MissBook, CheckIsbn, CompareRow, WriteColumns, Proceed, Finish
  <2>5. CASE LookUpIsbn(a) /\ IsbnTaken(a)
    BY <2>5, TakenIsWanted DEF LookUpIsbn
  <2>6. CASE CheckIsbn(a) /\ IsbnTaken(a)
    BY <2>6, TakenIsWanted DEF CheckIsbn
  <2>7. CASE step[a] = "insert" /\ IsbnTaken(a)
    <3>1. task[a].kind = "create"
      BY <2>7 DEF BInv, Carried, Carries
    <3> QED
      BY <2>7, <3>1, TakenIsWanted
  <2>8. CASE /\ step[a] = "write" /\ task[a].kind # "deactivate"
             /\ \E b \in DOMAIN isbns \ {BookOf(a)} : isbns[b] = Written(a).isbn
    BY <2>8, WrittenIsbn
  <2> QED
    BY <2>4, <2>5, <2>6, <2>7, <2>8 DEF MeetDuplicate
<1> QED
  BY <1>1, BooksInvariance, PTL DEF Spec, DuplicatesReal
=============================================================================
