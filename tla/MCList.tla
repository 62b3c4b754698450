------------------------------- MODULE MCList -------------------------------
(* The list on a small heap, whose nodes are alike. *)
EXTENDS List, TLC

MCMinIndex == -5

Symmetry == Permutations(Nodes)

=============================================================================
