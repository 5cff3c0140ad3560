------------------------------- MODULE MCStore -------------------------------
(***************************************************************************)
(* Small instances of Store for TLC.                                       *)
(***************************************************************************)
EXTENDS Store, TLC

CONSTANTS c1, c2, k1, k2, alice, a1, a2, i1, i2, i3

Shelf == 1 :> [available |-> 3, sold |-> 0, price |-> 5, active |-> TRUE] @@
         2 :> [available |-> 1, sold |-> 0, price |-> 7, active |-> TRUE]

ShelfIsbns == 1 :> i1 @@ 2 :> i2

Ask(key, items) == [key |-> key, user |-> alice, items |-> items]

\* Two keys, overlapping books, one request repeated.
Orderings == { Ask(k1, 1 :> 1 @@ 2 :> 1), Ask(k1, 1 :> 2), Ask(k2, 1 :> 2) }

\* Edits of price and stock, and of the descriptive columns, a deactivation and a new book.
Editings ==
    { [kind |-> "update", book |-> 1, set |-> "price" :> 6 @@ "available" :> 1],
      [kind |-> "update", book |-> 2, set |-> "isbn" :> i3],
      [kind |-> "deactivate", book |-> 1, set |-> [c \in {} |-> 0]],
      [kind |-> "create", book |-> 0,
       set |-> [isbn |-> i3, price |-> 1, available |-> 1]] }

Symmetric == Permutations(Call) \cup Permutations(Admin)
=============================================================================
