-------------------------------- MODULE Lists -------------------------------
(* What is picked from a sequence keeps its order. *)
EXTENDS Naturals, FiniteSets, Sequences

(* The numbers of a finite set in their order: the k-th has k that are no larger. *)
Ascending(S) == [k \in 1..Cardinality(S) |-> CHOOSE i \in S : Cardinality({j \in S : j =< i}) = k]

(* What a sequence has at those places. *)
Picked(seq, kept) == [k \in 1..Cardinality(kept) |-> seq[Ascending(kept)[k]]]
=============================================================================
