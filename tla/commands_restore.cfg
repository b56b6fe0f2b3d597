SPECIFICATION CommandsSpec
CONSTANTS
    k1 = k1
    k2 = k2
    v1 = v1
    v2 = v2
    pa = pa
    pb = pb
    Process = {p1, p2}
    Key = {k1}
    Value = {v1, v2}
    Passphrase = {pa}
    Name <- TwoSeconds
    NoEntry = NoEntry
    NoFile = NoFile
    NoWrap = NoWrap
    Closed = Closed
    Free = Free
    NoArg = NoArg
    NoCmd = NoCmd
    NoBundle = NoBundle
    MaxFresh = 25
    ForeignPass = pa
    DiskFails = FALSE
    SetInput <- NoInput
    RotateInput <- NoInput
    Menu <- FourCopies
    MaxClock = 2
CHECK_DEADLOCK FALSE
PROPERTIES
    RestoreBacksUp
