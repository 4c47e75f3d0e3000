------------------------------ MODULE Ordered ------------------------------
(***************************************************************************)
(* The elements of a finite set of integers in ascending order, and those  *)
(* of a sequence that stand at given positions.                            *)
(***************************************************************************)
EXTENDS Integers, Sequences, FiniteSets

(* How many elements of S are not above k. *)
Rank(S, k) == Cardinality({j \in S : j <= k})

Ascending(S) == [n \in 1 .. Cardinality(S) |-> CHOOSE k \in S : Rank(S, k) = n]

(* The elements of seq at the positions in K, in their order. *)
Picked(seq, K) == [n \in 1 .. Cardinality(K) |-> seq[Ascending(K)[n]]]

=============================================================================
