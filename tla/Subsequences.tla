---------------------------- MODULE Subsequences ----------------------------
(***************************************************************************)
(* SelectSeq for models that are proved about: the library's is defined by *)
(* a recursion that proofs cannot expand.                                  *)
(***************************************************************************)
EXTENDS Integers, FiniteSets

\* How many elements of K are not above i.
Rank(K, i) == Cardinality({k \in K : k <= i})

\* The elements of the sequence at the places in K, in their order.
Subsequence(s, K) == [j \in 1..Cardinality(K) |-> s[CHOOSE i \in K : Rank(K, i) = j]]
=============================================================================
