SPECIFICATION FairCommandsSpec
CONSTANTS
    k1 = k1
    k2 = k2
    v1 = v1
    v2 = v2
    pa = pa
    pb = pb
    Process = {p1, p2}
    Key = {k1}
    Value = {v1, v2}
    Passphrase = {pa}
    Name <- TwoSeconds
    NoEntry = NoEntry
    NoFile = NoFile
    NoWrap = NoWrap
    Closed = Closed
    Free = Free
    NoArg = NoArg
    NoCmd = NoCmd
    NoBundle = NoBundle
    MaxFresh = 19
    ForeignPass = pa
    DiskFails = TRUE
    SetInput <- NoInput
    RotateInput <- NoInput
    Menu <- ThreeCopies
    MaxClock = 2
CHECK_DEADLOCK FALSE
PROPERTIES
    LockIsReleased
    CommandsEnd
