SPECIFICATION ImportsSpec
CONSTANTS
    k1 = k1
    k2 = k2
    v1 = v1
    v2 = v2
    Process = {p1, p2}
    Key = {k1, k2}
    Value = {v1, v2, nul}
    Passphrase = {pa}
    Name = {copy}
    NoEntry = NoEntry
    NoFile = NoFile
    NoWrap = NoWrap
    Closed = Closed
    Free = Free
    NoArg = NoArg
    MaxFresh = 4
    ForeignPass = pa
    DiskFails = TRUE
    SetInput <- NoInput
    RotateInput <- NoInput
    Job <- Jobs
    NoJob = NoJob
    LineNo <- Two
    Text <- UserTexts
    NoLine = NoLine
    Wiped = Wiped
    Nul = nul
    NoSource = NoSource
    MaxJobs = 2
SYMMETRY Symmetry
CHECK_DEADLOCK FALSE
INVARIANTS
    StoredBeforeDestroyed
PROPERTIES
    AdoptWritesBackWhatIsThere
