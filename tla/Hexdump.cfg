CONSTANT Payloads <- MCPayloads
SPECIFICATION Spec
INVARIANTS
    TypeOK
    ElidedDump
PROPERTY
    HexdumpRefines
CHECK_DEADLOCK FALSE
