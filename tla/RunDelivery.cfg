SPECIFICATION FairSpec
CONSTANTS
    MaxProjectionAttempts = 2
    MaxDeliveryAttempts = 2
    RearmCycles = 1
    MaxLog = 4
    MaxFaults = 2
    MaxWorkerDeaths = 1
    MaxCoreDeaths = 1
INVARIANTS
    DeliveryInv
    OpenRunIsHeld
PROPERTIES
    ClosedRunIsFinal
    ResultsLand
    LostRunIsClosed
