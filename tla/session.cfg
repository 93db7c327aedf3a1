SPECIFICATION FairSpec
CONSTANTS
    emitter1 = emitter1
    emitter2 = emitter2
    NumConnectors = 2
    Emitter <- MCEmitters
    Capacity = 2
    CallError <- MCErrors
    WriteErrors = TRUE
INVARIANTS
    SendsPrecedeClose
    AcceptedIsWritten
    ExitTellsOutcome
    SuccessNeedsInterrupt
PROPERTIES
    EndIsReached
CHECK_DEADLOCK FALSE
