---------------------------- MODULE MCHeapLoops ----------------------------
(* Instances of HeapLoops for TLC. *)
EXTENDS HeapLoops, TLC

Deadlines == 0..2
RefSymmetry == Permutations(Ref)
=============================================================================
