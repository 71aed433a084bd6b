CONSTANTS
  MAXARGS = 3
  NPROC = 8
  NOFILE = 6
  MaxParsed = 5
  MaxTokens = 3
  Longer <- MCLonger
SPECIFICATION Spec
INVARIANTS ParserAgrees Wired InTurn
PROPERTY PromptReturns
CHECK_DEADLOCK FALSE
