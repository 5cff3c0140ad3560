------------------------------- MODULE MCBooks -------------------------------
(***************************************************************************)
(* Small instances of Books for TLC.                                       *)
(***************************************************************************)
EXTENDS Books, TLC

CONSTANTS a1, a2, a3, i1, i2, i3

Shelf == 1 :> [available |-> 2, sold |-> 1, price |-> 5, active |-> TRUE] @@
         2 :> [available |-> 1, sold |-> 0, price |-> 7, active |-> TRUE]

ShelfIsbns == 1 :> i1 @@ 2 :> i2

Create(isbn) == [kind |-> "create", book |-> NoBook,
                 set |-> [isbn |-> isbn, price |-> 3, available |-> 1]]
Update(id, set)  == [kind |-> "update", book |-> id, set |-> set]
Deactivate(id)   == [kind |-> "deactivate", book |-> id, set |-> [c \in {} |-> 0]]

\* Every operation; two of them want the same free ISBN, others one that is
\* taken; book 5 does not exist.
AllTasks ==
    { Create(i3), Create(i2), Update(1, "isbn" :> i3), Update(1, "isbn" :> i2),
      Update(2, "isbn" :> i1), Update(1, "price" :> 6),
      Update(1, "price" :> 5 @@ "available" :> 4), Deactivate(1), Update(5, "price" :> 1) }
=============================================================================
