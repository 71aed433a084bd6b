------------------------------ MODULE MCMemory ------------------------------
(* Executables for Memory: an empty segment, one that ends inside a page,  *)
(* and two with a gap between them.                                        *)
EXTENDS Memory

MCSbrk == {1, 4, -3}
MCProgram == {
  <<[vaddr |-> 0, memsz |-> 0, filesz |-> 0]>>,
  <<[vaddr |-> 0, memsz |-> 1, filesz |-> 1]>>,
  <<[vaddr |-> 0, memsz |-> 2, filesz |-> 1], [vaddr |-> 2, memsz |-> 1, filesz |-> 1]>>}
=============================================================================
