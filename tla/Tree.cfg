SPECIFICATION Spec
CONSTANTS
    MaxLevel = 3
    CountBits = 6
    NumRanks = 2
    BucketSize = 2
    InitNodesPerRank = 1
    ParticleKeys <- MCParticleKeys
    Builds = {"cpu", "gpu"}
    MaxSync = 2
INVARIANTS
    TreesAgree
    FirstTreeResolved
    OctreeLinked
    SendsMatchAssignment
