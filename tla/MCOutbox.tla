------------------------------ MODULE MCOutbox ------------------------------
(***************************************************************************)
(* A small instance of Outbox for TLC.                                     *)
(***************************************************************************)
EXTENDS Outbox, TLC

CONSTANTS w1, w2

Symmetric == Permutations(Worker)
=============================================================================
