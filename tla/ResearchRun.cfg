SPECIFICATION RRSpec
CONSTANTS
    a = a
    b = b
    c = c
    Tasks <- MCTasks
    Deps <- BranchDeps
    ReviewTasks = {c}
    MaxWorkers = 2
    MaxAttempts = 2
    Backoff = FALSE
INVARIANTS
    CoreIsNeverAhead
    RestAgrees
    RunsEndAlike
