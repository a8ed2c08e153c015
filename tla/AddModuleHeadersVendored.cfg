CONSTANTS
    Files <- MCFiles
    InitialContent <- MCInitialContent
    SuffixOf <- MCSuffixOf
    LowerOf <- MCLowerOf
    Roots <- MCRoots
    ExtChoices <- MCExtChoices
    ExtraExcludes <- MCExtraExcludes
    Empty = Empty
    MaxRuns = 2
SPECIFICATION Spec
INVARIANTS
    VendoredUntouched
CHECK_DEADLOCK FALSE
