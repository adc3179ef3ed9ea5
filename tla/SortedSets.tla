----------------------------- MODULE SortedSets -----------------------------
(***************************************************************************)
(* The elements of a finite set of numbers in their order.                 *)
(***************************************************************************)
EXTENDS Naturals, FiniteSets

\* The k-th has k - 1 before it.  SetToSortSeq of the community modules is the same, but
\* rests on SortSeq, which has no definition to prove anything from.
Sorted(S) == [k \in 1..Cardinality(S) |-> CHOOSE i \in S : Cardinality({j \in S : j < i}) = k - 1]
=============================================================================
