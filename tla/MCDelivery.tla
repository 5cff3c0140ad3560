------------------------------ MODULE MCDelivery ------------------------------
(***************************************************************************)
(* A small instance of Delivery for TLC.                                   *)
(***************************************************************************)
EXTENDS Delivery, TLC

CONSTANTS w1, w2, n1, n2
=============================================================================
