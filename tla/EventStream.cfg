SPECIFICATION Spec
CONSTANTS
    MaxBuffered = 5
    MaxEvents = 4
    MaxCuts = 2
    MaxBeats = 2
    MaxFailures = 1
INVARIANTS
    StreamInv
    CleanEndIsComplete
PROPERTIES
    JobArrivesWhole
