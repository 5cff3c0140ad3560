-------------------------------- MODULE Store --------------------------------
(***************************************************************************)
(* Orders and Books over one books table: calls of createOrder and calls   *)
(* of the Books service that write, against the same rows.                 *)
(*                                                                         *)
(* An order transaction holds its rows FOR UPDATE until it ends.  The      *)
(* Books service takes no lock when it reads, at findById or inside save;  *)
(* only its UPDATE waits for the row.                                      *)
(***************************************************************************)
EXTENDS Orders

CONSTANTS Admin, BookId, Isbn, Isbns, Tasks

VARIABLES isbns, task, copy, changed, step, result

Shop == INSTANCE Books

\* Both services start from the same table.
ASSUME StoreAssumption == Shop!BooksAssumption

storeVars == <<vars, isbns, task, copy, changed, step, result>>

StoreInit == Init /\ Shop!Init

\* A step of createOrder.
Ordering ==
    /\ \E c \in Call : Receive(c) \/ Step(c) \/ DatabaseError(c) \/ Crash(c)
    /\ UNCHANGED <<isbns, task, copy, changed, step, result>>

\* A step of the Books service: its UPDATE finds the row free.
Editing ==
    /\ \E a \in Admin :
          /\ Shop!Act(a) \/ Shop!Fail(a)
          /\ step[a] = "write" => Free(task[a].book)
    /\ UNCHANGED <<orders, outbox, entity, tx, request, pc, reply>>

StoreFinished == Finished /\ Shop!Finished

StoreNext == Ordering \/ Editing \/ StoreFinished

StoreSpec == StoreInit /\ [][StoreNext]_storeVars

-----------------------------------------------------------------------------
(* Properties.                                                             *)

\* An order is placed at the stock and the prices of the moment it commits,
\* in one step with its event, whatever the Books service does meanwhile.
OrdersPlacedFresh ==
    [][orders' # orders => Promise!Next]_storeVars

\* README: row locks prevent lost inventory updates.  What was sold of a book
\* is what the committed orders contain of it.
SalesKept ==
    \A b \in DOMAIN Stock : books[b].sold = Stock[b].sold + Copies(orders, b)
=============================================================================
