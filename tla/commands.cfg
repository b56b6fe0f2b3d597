SPECIFICATION CommandsSpec
CONSTANTS
    k1 = k1
    k2 = k2
    v1 = v1
    v2 = v2
    pa = pa
    pb = pb
    Process = {p1, p2}
    Key = {k1, k2}
    Value = {v1, v2}
    Passphrase = {pa, pb}
    Name <- OneSecond
    NoEntry = NoEntry
    NoFile = NoFile
    NoWrap = NoWrap
    Closed = Closed
    Free = Free
    NoArg = NoArg
    NoCmd = NoCmd
    NoBundle = NoBundle
    MaxFresh = 25
    ForeignPass = pa
    DiskFails = TRUE
    SetInput <- NoInput
    RotateInput <- NoInput
    Menu <- Menus
    MaxClock = 1
SYMMETRY Symmetry
CHECK_DEADLOCK FALSE
INVARIANTS
    ReportIsTrue
PROPERTIES
    CommitsTouchOnlyTheirPart
    RotationKeepsTier
    TierFourIsOneWay
    SharingNeverLoosens
    ReportedSnapshotHoldsEntry
