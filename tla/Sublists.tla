---------------------------- MODULE Sublists ------------------------------
(*************************************************************************)
(* The list comprehensions of the code ([x for x in xs if ...]): the     *)
(* elements of a list at some of its positions, in their order; and      *)
(* sorted lists of numbers. The definitions count positions instead of   *)
(* recursing along the list, so that proofs can follow them.             *)
(*************************************************************************)
EXTENDS Naturals, Sequences, FiniteSets

\* How many of the positions come no later than i.
Rank(keep, i) == Cardinality({j \in keep : j <= i})

\* The k-th position.
Place(keep, k) == CHOOSE i \in keep : Rank(keep, i) = k

\* A set of natural numbers above 0, in order.
Ascending(keep) == [k \in 1..Cardinality(keep) |-> Place(keep, k)]

\* The elements of s at the positions keep.  (SubSeq leaves the list as it is;
\* TLC computes it once.)
Sublist(s, keep) == SubSeq([k \in 1..Cardinality(keep) |-> s[Place(keep, k)]], 1, Cardinality(keep))
===========================================================================
