SPECIFICATION Spec
CONSTANTS
    Dimensions <- MCDimensions
    Names      <- MCNames
    Findings   <- MCFindings
    MaxPlans   = 2
INVARIANT
    ReportedGapIsReal
CHECK_DEADLOCK FALSE
