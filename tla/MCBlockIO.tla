----------------------------- MODULE MCBlockIO ------------------------------
(* The buffer cache and the disk driver for TLC. *)
EXTENDS BlockIO, TLC

Symm == Permutations(Proc) \cup Permutations(Block) \cup Permutations(Val)
=============================================================================
