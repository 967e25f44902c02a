SPECIFICATION Spec
CONSTANTS
    MaxLevel = 3
    CountBits = 4
    NumRanks = 2
    BucketSize = 2
    InitNodesPerRank = 1
    ParticleKeys <- MCParticleKeys
    Builds = {"cpu"}
    MaxSync = 1
INVARIANTS
    CountsCapped
