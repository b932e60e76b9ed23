SPECIFICATION FairSpec
CONSTANTS
    c1 = c1
    c2 = c2
    loop = loop
    ExecutionScope = ExecutionScope
    Execs = {1, 2, 3, 4}
    RunOf <- Run
    SlotOf <- Slot
    Closers = {c1, c2}
    Casts <- ConcurrentCloses
INVARIANTS
    SessionsAreAccountedFor
    ClosedRunIsQuiet
PROPERTIES
    LostStaysLost
    CloseReturns
    ExecutionsMoveOn
\* All executions and closes are over in the end.
CHECK_DEADLOCK FALSE
