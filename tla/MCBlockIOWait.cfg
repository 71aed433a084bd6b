CONSTANTS
  Proc = {p1, p2, p3}
  Block = {a, b, c}
  Val = {v0, v1}
  NBUF = 2
  NUM = 4
  None = None
SPECIFICATION Spec
SYMMETRY Symm
INVARIANTS NoLostWakeup
