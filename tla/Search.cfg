SPECIFICATION Spec
CONSTANTS
 MaxLevel = 3
 CountBits = 6
 NumRanks = 1
 WarpSize = 16
 MemPerWarp = 4
 SymmetryBlock = 1
 Problems <- MCProblems
 Configurations <- MCConfigurations
 SearchExt <- MCSearchExt
 Warps = {w1, w2}
SYMMETRY Symmetry
INVARIANTS GroupsPartition SearchExact UnconvergedRemoved ListsStored LoopComplete
PROPERTY SubgroupOnly
