---------------------------- MODULE MCTableMemory ----------------------------
(* Instances of the memory of the table for TLC. *)
EXTENDS TableMemory, TLC

Symmetry == Permutations(Blocks)

=============================================================================
