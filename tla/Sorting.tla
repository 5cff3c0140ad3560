------------------------------- MODULE Sorting -------------------------------
(***************************************************************************)
(* Sorted sets of numbers, as lists.  Defined without the SelectSeq and    *)
(* SortSeq of the libraries, which are recursive and out of the prover's   *)
(* reach; Sums has its laws.                                               *)
(***************************************************************************)
EXTENDS Integers, FiniteSets

\* A finite set of numbers in ascending order: before each number come those
\* that are smaller.
Sorted(numbers) ==
    [i \in 1..Cardinality(numbers) |->
        CHOOSE s \in numbers : Cardinality({t \in numbers : t < s}) = i - 1]
=============================================================================
