------------------------------ MODULE Counting ------------------------------
(***************************************************************************)
(* Sets of numbers in ascending order, and parts of sequences: what the    *)
(* code gets by visiting an arena or a vector from the front and keeping   *)
(* some of it.                                                             *)
(***************************************************************************)
EXTENDS Naturals, Sequences, FiniteSets

\* The j-th member of K, counted from the least.
Nth(K, j) == CHOOSE i \in K : Cardinality({k \in K : k <= i}) = j

\* The members of K in ascending order.
Sorted(K) == [j \in 1..Cardinality(K) |-> Nth(K, j)]

\* The elements of s at the indices K, in order.
Pick(s, K) == [j \in 1..Cardinality(K) |-> s[Nth(K, j)]]
=============================================================================
