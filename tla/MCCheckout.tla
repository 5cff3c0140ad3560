------------------------------ MODULE MCCheckout ------------------------------
(***************************************************************************)
(* A small instance of Checkout for TLC.                                   *)
(***************************************************************************)
EXTENDS Checkout

CONSTANTS alice, bob

\* Two books and one that is not sold; 4 is another spelling of the first.
Owner == <<"b1", "b2", "b3", "b1">>
Canonical == [b1 |-> 1, b2 |-> 2, b3 |-> 3]
Prices == [b1 |-> Amount(39, <<9, 9>>), b2 |-> Amount(0, <<0, 5>>)]

\* Up to two items of one or two copies, and three single copies.
Wanted == [bookId : 1..4, quantity : 1..2]
Lists ==
    UNION {[1..n -> Wanted] : n \in 1..2} \cup [1..3 -> [bookId : 1..4, quantity : {1}]]
Asking == [user : {alice}, items : Lists]
          \cup [user : {bob}, items : [1..1 -> Wanted]]
=============================================================================
