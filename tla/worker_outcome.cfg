CONSTANTS
    a = a
    b = b
    Actions = {a, b}
    Idle = Idle
    None = None
    MaxInstructions = 2
    MaxSignals = 1
    Faults = {}
SPECIFICATION FairSpec
PROPERTY OutcomeReported
CHECK_DEADLOCK FALSE
