CONSTANTS
  Proc = {p}
  Inode = {1}
  NDIRECT = 1
  NINDIRECT = 3
  SIZE = 9
  NMETA = 1
  BPB = 9
  MaxBlocks <- MCMaxBlocks
  MaxWrite = 1
  CALLS = 3
SYMMETRY Symm
SPECIFICATION Spec
INVARIANTS NoDoubleFree
CHECK_DEADLOCK FALSE
