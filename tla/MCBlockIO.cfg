CONSTANTS
  Proc = {p1, p2}
  Block = {a, b, c}
  Val = {v0, v1}
  NBUF = 2
  NUM = 7
  None = None
SPECIFICATION Spec
SYMMETRY Symm
INVARIANTS DescOwned NoLostRequest
PROPERTY CachesBlocks
