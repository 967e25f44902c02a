CONSTANTS
    Eager = TRUE
    NumRanks = 2
    NumParticles = 3
    NumKeys = 2
    InitialOwner <- RoundRobin
    NumFit <- WholeSends
    MaxHalos <- Halos
    MaxSync = 3
    MaxRemoved = 1
SPECIFICATION Spec
INVARIANTS ParticlesConserved
