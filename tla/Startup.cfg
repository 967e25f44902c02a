SPECIFICATION Spec
CONSTANTS
    err = err
    None = None
    MaxLevel = 2
    LeavesPerRank = 4
    IdBits = 8
    MaxNumGroupIds = 3
    Block <- MCBlock
    Options <- MCOptions
    GivenFiles <- MCGivenFiles
    Paths <- MCPaths
    RestartRanks = {1, 2}
INVARIANTS
    InitPartition
    SettingsInForce
    TagsApplied
    OutputAligned
PROPERTY
    Restarts
