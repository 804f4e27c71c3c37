---------------------------- MODULE MCKeyspace ----------------------------
(* Instances of Keyspace for TLC. *)
EXTENDS Keyspace, TLC

Ttls == {-1, 0, 1}

Symmetry == Permutations(Addr) \cup Permutations(Worker) \cup Permutations(Key)
=============================================================================
