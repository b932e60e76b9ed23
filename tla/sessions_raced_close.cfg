SPECIFICATION Spec
CONSTANTS
    c1 = c1
    c2 = c2
    loop = loop
    ExecutionScope = ExecutionScope
    Execs = {1, 2, 3, 4}
    RunOf <- Run
    SlotOf <- Slot
    Closers = {c1, c2}
    Casts <- ForceStopBesideTurn
INVARIANT CloseRunClosesSessions
CHECK_DEADLOCK FALSE
