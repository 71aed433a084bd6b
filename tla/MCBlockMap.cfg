CONSTANTS
  Proc = {p,q}
  Inode = {1,2}
  NDIRECT = 1
  NINDIRECT = 2
  SIZE = 12
  NMETA = 1
  BPB = 6
  MaxBlocks <- MCMaxBlocks
  MaxWrite = 2
  CALLS = 3
SYMMETRY Symm
SPECIFICATION SpecWhole
INVARIANTS NoCrossLink NoLeak InodeSound
PROPERTIES MappingStable
CHECK_DEADLOCK FALSE
