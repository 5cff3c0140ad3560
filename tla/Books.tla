-------------------------------- MODULE Books --------------------------------
(***************************************************************************)
(* BooksService: createBook, updateBook and deactivateBook, run by any     *)
(* number of concurrent calls (apps/books-service).                        *)
(*                                                                         *)
(* A call loads an entity without locking its row, changes it in memory    *)
(* and gives it to Repository.save.  TypeORM's save reads the row again,   *)
(* compares it with the entity column by column, and updates the columns   *)
(* that differ: also those that somebody else has changed since the entity *)
(* was loaded.  books has the columns Orders shares with this service;     *)
(* isbns, the column of the unique index UQ_books_isbn, stands for the     *)
(* descriptive columns too (title, author, description).                   *)
(***************************************************************************)
EXTENDS Integers

CONSTANTS Admin,   \* calls of the service that write, over its life
          BookId,  \* ids of books
          Isbn,    \* normalized ISBNs
          Stock,   \* the rows of books at the beginning, by id
          Isbns,   \* their ISBNs, by id
          Tasks    \* what clients ask of the service

Column == {"isbn", "price", "available", "sold", "active"}

\* The columns an UpdateBookRequest can set.
Editable == {"isbn", "price", "available"}

\* The columns of books that are not descriptive.
Row == [available : Nat, sold : Nat, price : Nat \ {0}, active : BOOLEAN]

\* A task: the operation, the book it names (NoBook for createBook), and the
\* columns it sets.
NoBook == 0

IsTask(t) ==
    /\ t.kind \in {"create", "update", "deactivate"}
    /\ t.book = NoBook <=> t.kind = "create"
    /\ DOMAIN t.set \subseteq Editable
    /\ t.kind = "create" => DOMAIN t.set = Editable
    /\ t.kind = "deactivate" => DOMAIN t.set = {}
    /\ "isbn" \in DOMAIN t.set => t.set.isbn \in Isbn
    /\ "price" \in DOMAIN t.set => t.set.price \in Nat \ {0}
    /\ "available" \in DOMAIN t.set => t.set.available \in Nat

ASSUME BooksAssumption ==
    /\ NoBook \notin BookId
    /\ DOMAIN Stock \subseteq BookId
    /\ \A b \in DOMAIN Stock : Stock[b] \in Row
    /\ Isbns \in [DOMAIN Stock -> Isbn]
    /\ \A b, d \in DOMAIN Stock : Isbns[b] = Isbns[d] => b = d
    /\ \A t \in Tasks : IsTask(t)

VARIABLES
    books,    \* committed rows of books, without their ISBN
    isbns,    \* committed ISBNs, by id
    task,     \* what each call was asked
    copy,     \* the entity a call works on
    changed,  \* the columns that save found different
    step,     \* where each call is
    result    \* the code each call answered

vars  == <<books, isbns, task, copy, changed, step, result>>

\* The row of a book with all its columns.
Columns(b) == [isbn |-> isbns[b], price |-> books[b].price,
               available |-> books[b].available, sold |-> books[b].sold,
               active |-> books[b].active]

NoCopy == [isbn |-> "", price |-> 0, available |-> 0, sold |-> 0, active |-> FALSE]

Init ==
    /\ books = Stock
    /\ isbns = Isbns
    /\ task \in [Admin -> Tasks]
    /\ copy = [a \in Admin |-> NoCopy]
    /\ changed = [a \in Admin |-> {}]
    /\ step = [a \in Admin |-> "idle"]
    /\ result = [a \in Admin |-> ""]

Proceed(a, label) == step' = [step EXCEPT ![a] = label] /\ UNCHANGED result

Finish(a, code) ==
    /\ step' = [step EXCEPT ![a] = "done"]
    /\ result' = [result EXCEPT ![a] = code]

BookOf(a) == task[a].book

\* Another book has the ISBN the call wants: found by findByIsbn, or by the
\* unique index.
IsbnTaken(a) ==
    \E b \in DOMAIN isbns : isbns[b] = task[a].set.isbn /\ b # BookOf(a)

\* The row an UPDATE leaves: the columns that differed come from the entity.
Written(a) ==
    [c \in Column |-> IF c \in changed[a] THEN copy[a][c] ELSE Columns(BookOf(a))[c]]

-----------------------------------------------------------------------------
(* createBook.                                                             *)

\* The ISBN is looked up before the insert.
LookUpIsbn(a) ==
    /\ step[a] = "idle"
    /\ task[a].kind = "create"
    /\ IF IsbnTaken(a) THEN Finish(a, "DUPLICATE_BOOK_ISBN") ELSE Proceed(a, "insert")
    /\ UNCHANGED <<books, isbns, task, copy, changed>>

\* Mutant of InsertBook: there is no unique index.
InsertUnchecked(a) ==
    /\ step[a] = "insert"
    /\ \E id \in BookId \ DOMAIN books :
          /\ books' = [b \in DOMAIN books \cup {id} |->
                          IF b \in DOMAIN books THEN books[b]
                          ELSE [available |-> task[a].set.available, sold |-> 0,
                                price |-> task[a].set.price, active |-> TRUE]]
          /\ isbns' = [b \in DOMAIN isbns \cup {id} |->
                          IF b \in DOMAIN isbns THEN isbns[b] ELSE task[a].set.isbn]
    /\ Finish(a, "OK")
    /\ UNCHANGED <<task, copy, changed>>

\* INSERT: the unique index is asked again.  PostgreSQL draws the id, which is
\* not the id of another book.
InsertBook(a) ==
    /\ step[a] = "insert"
    /\ ~IsbnTaken(a)
    /\ \E id \in BookId \ DOMAIN books :
          /\ books' = [b \in DOMAIN books \cup {id} |->
                          IF b \in DOMAIN books THEN books[b]
                          ELSE [available |-> task[a].set.available, sold |-> 0,
                                price |-> task[a].set.price, active |-> TRUE]]
          /\ isbns' = [b \in DOMAIN isbns \cup {id} |->
                          IF b \in DOMAIN isbns THEN isbns[b] ELSE task[a].set.isbn]
    /\ Finish(a, "OK")
    /\ UNCHANGED <<task, copy, changed>>

\* The insert, or the update below, violates the unique index (23505).  The
\* catch of createBook and updateBook says so; deactivateBook has none, and
\* the error of its UPDATE stays what it is.
MeetDuplicate(a) ==
    /\ \/ step[a] = "insert" /\ IsbnTaken(a)
       \/ step[a] = "write" /\ \E b \in DOMAIN isbns \ {BookOf(a)} : isbns[b] = Written(a).isbn
    /\ Finish(a, IF task[a].kind = "deactivate" THEN "INTERNAL_ERROR" ELSE "DUPLICATE_BOOK_ISBN")
    /\ UNCHANGED <<books, isbns, task, copy, changed>>

-----------------------------------------------------------------------------
(* updateBook and deactivateBook.                                          *)

\* hasUpdates: the request is an instance of UpdateBookRequest by the time it
\* arrives, and compiled class fields make every declared field a key of it.
OwnKeys(t) == Editable
HasUpdates(t) == OwnKeys(t) # {}

\* The entity with the columns the task sets; the ISBN is set after its check.
Edited(a, row) ==
    [c \in Column |-> CASE c = "active" /\ task[a].kind = "deactivate" -> FALSE
                        [] c \in DOMAIN task[a].set \ {"isbn"} -> task[a].set[c]
                        [] OTHER -> row[c]]

\* findById, without a lock; the entity is edited unless the task is refused.
LoadBook(a) ==
    /\ step[a] = "idle"
    /\ task[a].kind \in {"update", "deactivate"}
    /\ BookOf(a) \in DOMAIN books
    /\ task[a].kind = "update" => HasUpdates(task[a])
    /\ copy' = [copy EXCEPT ![a] = Edited(a, Columns(BookOf(a)))]
    /\ Proceed(a, IF "isbn" \in DOMAIN task[a].set THEN "isbn" ELSE "save")
    /\ UNCHANGED <<books, isbns, task, changed>>

\* The book is not there.
MissBook(a) ==
    /\ step[a] = "idle"
    /\ task[a].kind \in {"update", "deactivate"}
    /\ BookOf(a) \notin DOMAIN books
    /\ Finish(a, "BOOK_NOT_FOUND")
    /\ UNCHANGED <<books, isbns, task, copy, changed>>

\* Mutant of CheckIsbn: the book that has the ISBN may be the book itself.
CheckIsbnOfAnyBook(a) ==
    /\ step[a] = "isbn"
    /\ IF \E b \in DOMAIN isbns : isbns[b] = task[a].set.isbn
       THEN Finish(a, "DUPLICATE_BOOK_ISBN") /\ UNCHANGED copy
       ELSE /\ copy' = [copy EXCEPT ![a].isbn = task[a].set.isbn]
            /\ Proceed(a, "save")
    /\ UNCHANGED <<books, isbns, task, changed>>

\* findByIsbn: another book must not have the new ISBN.
CheckIsbn(a) ==
    /\ step[a] = "isbn"
    /\ IF IsbnTaken(a)
       THEN Finish(a, "DUPLICATE_BOOK_ISBN") /\ UNCHANGED copy
       ELSE /\ copy' = [copy EXCEPT ![a].isbn = task[a].set.isbn]
            /\ Proceed(a, "save")
    /\ UNCHANGED <<books, isbns, task, changed>>

\* Repository.save reads the row again and keeps the columns that differ.  If
\* there are none it is done.
CompareRow(a) ==
    /\ step[a] = "save"
    /\ LET different == {c \in Column : copy[a][c] # Columns(BookOf(a))[c]} IN
          /\ changed' = [changed EXCEPT ![a] = different]
          /\ IF different = {} THEN Finish(a, "OK") ELSE Proceed(a, "write")
    /\ UNCHANGED <<books, isbns, task, copy>>

\* UPDATE of the columns that differed.
WriteColumns(a) ==
    /\ step[a] = "write"
    /\ \A b \in DOMAIN isbns \ {BookOf(a)} : isbns[b] # Written(a).isbn
    /\ LET new == Written(a) IN
          /\ books' = [books EXCEPT ![BookOf(a)] =
                          [available |-> new.available, sold |-> new.sold,
                           price |-> new.price, active |-> new.active]]
          /\ isbns' = [isbns EXCEPT ![BookOf(a)] = new.isbn]
    /\ Finish(a, "OK")
    /\ UNCHANGED <<task, copy, changed>>

\* A statement fails, or the process dies: nothing is written.
Fail(a) ==
    /\ step[a] \notin {"done"}
    /\ Finish(a, "INTERNAL_ERROR")
    /\ UNCHANGED <<books, isbns, task, copy, changed>>

-----------------------------------------------------------------------------

\* What a call does when nothing fails.
Act(a) ==
    \/ LookUpIsbn(a)
    \/ InsertBook(a)
    \/ MeetDuplicate(a)
    \/ LoadBook(a)
    \/ MissBook(a)
    \/ CheckIsbn(a)
    \/ CompareRow(a)
    \/ WriteColumns(a)

Finished == (\A a \in Admin : step[a] = "done") /\ UNCHANGED vars

Next == (\E a \in Admin : Act(a) \/ Fail(a)) \/ Finished

Spec == Init /\ [][Next]_vars

-----------------------------------------------------------------------------
(* Properties.                                                             *)

Code == {"", "OK", "BOOK_NOT_FOUND", "INVALID_BOOK_UPDATE",
         "DUPLICATE_BOOK_ISBN", "INTERNAL_ERROR"}

\* The types of the variables.
TypeOK ==
    /\ DOMAIN books \subseteq BookId
    /\ \A b \in DOMAIN books : books[b] \in Row
    /\ isbns \in [DOMAIN books -> Isbn]
    /\ task \in [Admin -> Tasks]
    /\ \A a \in Admin : DOMAIN copy[a] = Column
    /\ changed \in [Admin -> SUBSET Column]
    /\ step \in [Admin -> {"idle", "insert", "isbn", "save", "write", "done"}]
    /\ result \in [Admin -> Code]

\* Two books never share an ISBN, however lookups and writes interleave.
IsbnUnique == \A b, d \in DOMAIN isbns : isbns[b] = isbns[d] => b = d

\* The ISBN a call wants its book to have: the one it sets or, when it sets
\* none, the one of the entity that it is going to write back.
WantedIsbn(a) == IF "isbn" \in DOMAIN task[a].set THEN task[a].set.isbn ELSE copy[a].isbn

\* Whoever is told of a duplicate can believe it, however lookups and writes
\* interleave: at that moment another book has the ISBN the call would give
\* its book.  It may be one the call never named, because its book had it
\* when it was loaded and has lost it to the other since.  A deactivation is
\* not told of duplicates, though it may meet one in that way.
DuplicatesReal ==
    [][\A a \in Admin :
          result'[a] # result[a] /\ result'[a] = "DUPLICATE_BOOK_ISBN" =>
              /\ task[a].kind # "deactivate"
              /\ \E b \in DOMAIN isbns \ {BookOf(a)} : isbns[b] = WantedIsbn(a)]_vars
=============================================================================
