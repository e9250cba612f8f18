SPECIFICATION Spec
CONSTANTS
    a = a
    b = b
    c = c
    Tasks <- MCTasks
    Deps <- ChainDeps
    ReviewTasks = {c}
    MaxWorkers = 2
    MaxAttempts = 2
    Backoff = FALSE
INVARIANT
    DrivenToTheEnd
