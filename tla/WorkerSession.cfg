SPECIFICATION Spec
CONSTANTS
    glm = glm
    Odd = Odd
    odd = odd
    Names <- MCNames
    IdOf <- MCIdOf
    ValidIds = {glm, odd}
    Configs <- MCConfigs
    InitialFile <- MCFile
    MaxKeys = 2
    MaxRestarts = 2
    MaxTroubles = 2
    MaxSessions = 2
INVARIANTS
    SessionInv
    ReadyWorkerServesConfigured
PROPERTIES
    EveryCallReturns
