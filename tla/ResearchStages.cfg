SPECIFICATION StagesSpec
CONSTANTS
    a = a
    b = b
    x = x
    y = y
    z = z
    m = m
    n = n
    c = c
    d = d
    e = e
    f = f
    Sections <- MCSections
    First = a
    Sources <- MCSources
    Nodes <- MCNodes
    Claims <- MCClaims
    Found <- MCFound
    Mentions <- MCMentions
    Asserts <- MCAsserts
    Subject <- MCSubject
    Rivals <- MCRivals
    Last <- MCLast
    MaxWorkers = 2
    MaxAttempts = 2
    MaxTries = 2
    MaxFailures = 2
INVARIANTS
    SinkInv
    OwnSourcesExtracted
    NoConflictSlips
    LoopNeverSpins
