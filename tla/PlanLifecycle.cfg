SPECIFICATION Spec
CONSTANTS
    d1 = d1
    d2 = d2
    t1 = t1
    t2 = t2
    Dims <- MCDims
    GapDims <- MCGaps
    Topic <- MCTopic
    Inputs <- MCInputs
    Extra = 0
    MaxWork = 5
    MaxConfigs = 2
    MaxPlans = 2
    MaxRuns = 2
INVARIANTS
    JobInv
    OneActiveRunPerPlan
    PlanRunsOnce
    FollowUpReachable
PROPERTIES
    FollowUpKeepsItsText
