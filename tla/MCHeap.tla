------------------------------- MODULE MCHeap -------------------------------
(* The heap with its walks checked against the list, on a heap of a few     *)
(* blocks: MCHeap*.cfg give the sizes.                                      *)
EXTENDS HeapWalk

Symmetry == Permutations(Clients)
=============================================================================
