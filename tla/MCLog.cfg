CONSTANTS
  Proc = {p1, p2}
  Block = {a, b}
  Val = {v0, v1}
  NoBuf = NoBuf
  MAXOPBLOCKS = 2
  OPBLOCKS = 2
  LOGSIZE = 4
  NLOG = 5
  MaxCalls = 1
  MaxCrashes = 1
SPECIFICATION LiveSpec
INVARIANTS NoLostWakeup QuiescentIsDurable
PROPERTIES CrashAtomic BeginOpReturns
CHECK_DEADLOCK FALSE
