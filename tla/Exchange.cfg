CONSTANTS
    Eager = FALSE
    NumRanks = 3
    NumParticles = 3
    NumKeys = 2
    InitialOwner <- OnOneRank
    NumFit <- SplitSends
    MaxHalos <- HalosMoved
    MaxSync = 2
    MaxRemoved = 1
SPECIFICATION Spec
INVARIANTS NoStrayMessages ReapplyMatches SfcSorted ParticlesConserved
