SPECIFICATION Spec
CONSTANTS
    Runs <- MCRuns
    ProjectOf <- MCProjectOf
    Batch <- MCBatch
    Legacy <- MCLegacy
    FirstId = 1
    Empty = "none"
    MaxIngests = 4
    MaxDamages = 2
    MaxFailures = 1
CHECK_DEADLOCK FALSE
INVARIANTS
    BatchInv
    CommittedContentIsIntact
    ReferencesResolve
PROPERTIES
    RedeliveryAddsNothing
    NoNeedlessRejection
