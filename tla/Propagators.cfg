SPECIFICATION Spec
CONSTANTS
    FieldNames <- MCFieldNames
    Type <- MCType
    Confs <- AllConfs
    MaxRungs = 3
CHECK_DEADLOCK FALSE
INVARIANTS
    AccessAllocated
    FieldsReturned
    NeighborsCurrent
    InputsComputed
    ForcesComplete
    OutputCurrent
    RemovalsKept
    AllAdvanced
