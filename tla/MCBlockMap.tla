----------------------------- MODULE MCBlockMap -----------------------------
(* BlockMap for TLC: file 1 reaches the second entry of its double-        *)
(* indirect block, file 2 competes with it for blocks and fills the disk.  *)
(* Processes are interchangeable.                                          *)
EXTENDS BlockMap, TLC

MCMaxBlocks == <<6, 2>>
Symm == Permutations(Proc)
=============================================================================
