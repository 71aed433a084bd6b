CONSTANTS
    Proc = {init, p1, p2}
    InitProc = init
    CPU = {c1, c2}
    None = none
    IO = io
SPECIFICATION LiveSpec
INVARIANTS WaitWakeup OneStack TreeUnderInit
PROPERTY InitKeepsReaping
