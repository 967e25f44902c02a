SPECIFICATION Spec
CONSTANTS
    MaxLevel = 3
    CountBits = 6
    NumRanks = 3
    BucketSize = 2
    BucketSizeFocus = 1
    MaxHaloFactor = 512
    MaxRep = 3
    InvTheta = 1
    DriftInvTheta = 2
    SearchRadius = 9
    Boundaries <- MCBoundaries
    Gravity = {TRUE, FALSE}
    Builds = {"cpu", "gpu"}
    Distributions <- MCDistributions
    MaxSync = 3
INVARIANTS
    FocusResolved
    TreeletsAgree
    QuantitiesExact
    HalosComplete
