SPECIFICATION LoopSpec
CONSTANTS
    Rank <- MCRank
    Groups <- MCGroups
    Limits = {1, 2, 8}
    Varying <- MCVarying
    MaxNumRungs = 3
    MaxDtIncrease = 2
    MinDt = 4
    MaxSteps = 3
    MaxIteration = 9
    MaxCrashes = 1
    ClockSkew = FALSE
INVARIANTS
    TimesAgree
    StepWithinLimit
    PrevStepKnown
    EndsSynchronised
