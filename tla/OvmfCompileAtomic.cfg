CONSTANTS
    g1 = g1
    g2 = g2
    fs = fs
    st = st
    p1 = p1
    p2 = p2
    Guids <- MCGuids
    FsGuid = fs
    StoreGuid = st
    Registered <- MCRegistered
    PayloadIds <- MCPayloadIds
    NotMap = NotMap
    IntKey = IntKey
    BadData = BadData
    BadTime = BadTime
    NoTime = NoTime
    Malformed = Malformed
    InputDocs <- MCInputDocs
    UserFile = UserFile
    Empty = Empty
    NoFile = NoFile
    NoRc = NoRc
SPECIFICATION Spec
CHECK_DEADLOCK FALSE
INVARIANT
    OutputAtomic
