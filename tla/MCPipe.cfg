CONSTANTS
  Writer = {w1, w2}
  Reader = {r1}
  Byte = {a, b}
  PIPESIZE = 2
  WORD = 4
  Chunk = {1, 3}
  Killable = {w1, r1}
  None = None
SPECIFICATION LiveSpec
INVARIANTS NoLostWakeup NoUseAfterFree
PROPERTIES IsFifo EofReaches
CHECK_DEADLOCK FALSE
