------------------------------ MODULE MCGateway ------------------------------
(***************************************************************************)
(* A small instance of Gateway, with Reads, for TLC.                       *)
(***************************************************************************)
EXTENDS Reads, TLC

CONSTANTS c1, c2, c3, k1, alice

Single(price, active) == [available |-> 1, sold |-> 0, price |-> price, active |-> active]

\* One copy of each book.
Shelf == 1 :> Single(5, TRUE) @@ 2 :> Single(7, TRUE) @@ 3 :> Single(9, FALSE)

\* Purchases with one key, of one book or the other, or of more than there is.
\* Calls wait for the row of a book or for the key; a retry may find the copy
\* that its first attempt has taken gone, or that there never were enough.
One == [key |-> k1, user |-> alice, items |-> 1 :> 1]
Other == [key |-> k1, user |-> alice, items |-> 2 :> 1]
TooMany == [key |-> k1, user |-> alice, items |-> 1 :> 2]
Purchases == {One, Other, TooMany}

\* Which call makes which request, up to the names of the calls, which nothing
\* tells apart: three attempts of one purchase, or two and one of another, or
\* one of each.
MCGatewayInit ==
    /\ GatewayInit
    /\ \/ \E r, s \in Requests : request = (c1 :> r @@ c2 :> r @@ c3 :> s)
       \/ request = (c1 :> One @@ c2 :> Other @@ c3 :> TooMany)

MCGatewaySpec == MCGatewayInit /\ [][GatewayNext]_gatewayVars /\ GatewayFairness
=============================================================================
