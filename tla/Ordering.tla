------------------------------- MODULE Ordering -------------------------------
(***************************************************************************)
(* Sorting, which the code does everywhere before an answer leaves it.     *)
(***************************************************************************)
EXTENDS Integers, FiniteSets

\* The elements of a set in the strict total order Less.
Ordered(S, Less(_, _)) == [i \in 1 .. Cardinality(S) |-> CHOOSE x \in S : Cardinality({y \in S : Less(y, x)}) = i - 1]

\* A set of numbers in increasing order.
Ascending(S) == [i \in 1 .. Cardinality(S) |-> CHOOSE x \in S : Cardinality({y \in S : y < x}) = i - 1]
=============================================================================
