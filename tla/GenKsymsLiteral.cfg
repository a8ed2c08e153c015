CONSTANTS
    NmOutputs <- MCNmOutputs
    NotHex = NotHex
    NoFile = NoFile
    OldFile = OldFile
SPECIFICATION Spec
INVARIANTS
    NamesLiteralDecodes
CHECK_DEADLOCK FALSE
