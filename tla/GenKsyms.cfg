CONSTANTS
    NmOutputs <- MCNmOutputs
    NotHex = NotHex
    NoFile = NoFile
    OldFile = OldFile
SPECIFICATION Spec
INVARIANTS
    TypeOK
    KsymTable
    OffsetsIndexNames
CHECK_DEADLOCK FALSE
