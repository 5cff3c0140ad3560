----------------------------- MODULE MCPipeline -----------------------------
(***************************************************************************)
(* Small instances of Pipeline for TLC.                                    *)
(***************************************************************************)
EXTENDS Pipeline, TLC

CONSTANTS k1, k2, alice, w1, n1

Shelf == [b \in {1, 2} |-> [available |-> 2, sold |-> 0, price |-> 5, active |-> TRUE]]

Ask(key, book) == [key |-> key, user |-> alice, items |-> book :> 1]

\* A request under two keys, and a key for two requests, which no row lock
\* keeps apart.
Orderings == { Ask(k1, 1), Ask(k1, 2), Ask(k2, 1) }
=============================================================================
