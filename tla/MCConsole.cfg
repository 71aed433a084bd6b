CONSTANTS
  c1 = c1
  c2 = c2
  CPU = {c1, c2}
  Reader = {c1}
  Writer = {c2}
  Printer = {c1}
  INPUT_BUF_SIZE = 3
  UART_TX_BUF_SIZE = 1
  WORD = 6
  Start = {5}
  Chunk = {2}
  Typed <- MCTyped
  MaxPrints = 1
  None = None
SPECIFICATION Spec
INVARIANTS NoPanic FifoFits NoLostKick NoLostWakeup
PROPERTY IsTty
