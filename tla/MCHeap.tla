------------------------------- MODULE MCHeap -------------------------------
(* Model-checking instance of Heap. *)
EXTENDS Heap, TLC

\* Pieces of memory are interchangeable.
Memory == Permutations(Refs)
=============================================================================
