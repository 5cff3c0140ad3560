------------------------------ MODULE MCOrders ------------------------------
(***************************************************************************)
(* Small instances of Orders for TLC.                                      *)
(***************************************************************************)
EXTENDS Orders, TLC

CONSTANTS c1, c2, c3, k1, k2, alice, bob

Shelf == 1 :> [available |-> 3, sold |-> 0, price |-> 5, active |-> TRUE] @@
         2 :> [available |-> 1, sold |-> 0, price |-> 7, active |-> TRUE] @@
         3 :> [available |-> 9, sold |-> 0, price |-> 1, active |-> FALSE]

Ask(key, user, items) == [key |-> key, user |-> user, items |-> items]

\* Two keys over overlapping books, the first key for other requests, an
\* unknown user, an inactive and an unknown book, and a sold_quantity that
\* would not fit its column when all copies of book 1 are sold.
MixedRequests ==
    { Ask(k1, alice, 1 :> 1 @@ 2 :> 1),
      Ask(k1, alice, 1 :> 1),
      Ask(k1, alice, 2 :> 1),
      Ask(k2, alice, 1 :> 1 @@ 2 :> 1),
      Ask(k2, alice, 1 :> 2),
      Ask(k2, bob,   2 :> 1),
      Ask(k2, alice, 2 :> 1 @@ 3 :> 1),
      Ask(k2, alice, 2 :> 1 @@ 4 :> 1) }

\* The same request, and another one for the same books.
RetriedRequests ==
    { Ask(k1, alice, 1 :> 1 @@ 2 :> 1), Ask(k2, alice, 2 :> 1) }

Symmetric == Permutations(Call)
=============================================================================
