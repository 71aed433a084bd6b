CONSTANTS
  NPAGE = 18
  FANOUT = 4
  NPROC = 2
  Sbrk <- MCSbrk
  Program <- MCProgram
  MAXARG = 1
  USERSTACK = 1
  MaxSize = 10
SPECIFICATION Spec
INVARIANTS PagesAccounted NoPanic SizeMapped
CHECK_DEADLOCK FALSE
