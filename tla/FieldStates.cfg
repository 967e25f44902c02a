SPECIFICATION FieldSpec
CONSTANTS
    FieldNames <- MCFieldNames
    Type <- MCType
    MaxSize = 2
INVARIANTS
    ActiveFieldsSized
PROPERTY
    ConservedKept
