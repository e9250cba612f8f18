SPECIFICATION FairSpec
CONSTANTS
    a = a
    b = b
    c = c
    Tasks <- MCTasks
    Deps <- FanInDeps
    ReviewTasks = {c}
    MaxWorkers = 2
    MaxAttempts = 2
    Backoff = FALSE
INVARIANTS
    RunnerInv
    EndedRunIsDone
PROPERTIES
    AttemptsDoNotOverlap
    JobTerminates
