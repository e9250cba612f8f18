SPECIFICATION Spec
CONSTANTS
    a = a
    b = b
    c = c
    Tasks <- MCTasks
    Deps <- ChainDeps
    SkipOk <- ChainSkipOk
    MaxRetries = 1
INVARIANTS
    TypeOK
    NoPendingBelowFailed
    ActiveTaskHasInputs
    RunAgreesWithTasks
PROPERTIES
    ClosedStaysClosed
