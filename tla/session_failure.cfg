SPECIFICATION FairSpec
CONSTANTS
    emitter1 = emitter1
    emitter2 = emitter2
    NumConnectors = 1
    Emitter <- MCOneEmitter
    Capacity = 1
    CallError <- MCErrors
    WriteErrors = FALSE
PROPERTIES
    FailureIsReported
CHECK_DEADLOCK FALSE
