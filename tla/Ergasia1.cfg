SPECIFICATION Spec
CONSTANTS
    Name = {0, 1, 2}
    M = 2
    MAX_CHILDREN = 3
    Line = {"l1", "l2"}
    MaxStep = 5
INVARIANTS Baton SlotsMatch Answered
PROPERTIES AllExit
CHECK_DEADLOCK FALSE
