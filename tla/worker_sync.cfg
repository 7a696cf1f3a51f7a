CONSTANTS
    a = a
    b = b
    Actions = {a, b}
    Idle = Idle
    None = None
    MaxInstructions = 2
    MaxSignals = 1
    Faults = {"rpc", "runner"}
SPECIFICATION FairSpec
INVARIANT TypeOK StopsSoon
PROPERTY ReportsInOrder OutcomeOrExcuse DeadRunnerNoticed ShutdownEnds
CHECK_DEADLOCK FALSE
