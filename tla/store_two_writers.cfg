SPECIFICATION Spec
CONSTANTS
    v1 = v1
    Process = {p1, p2}
    Key = {k1}
    Value = {v1}
    Passphrase = {pa, pb}
    Name = {n1}
    NoEntry = NoEntry
    NoFile = NoFile
    NoWrap = NoWrap
    Closed = Closed
    Free = Free
    NoArg = NoArg
    MaxFresh = 4
    ForeignPass = pa
    DiskFails = TRUE
    SetInput <- SetTiers
    RotateInput = {FALSE}
SYMMETRY Symmetry
INVARIANTS
    TypeOK
    LockInv
    WriteIsCurrent
    WrapsOpenBody
PROPERTIES
    NoLostUpdate
    DataKeyIsStable
    Implements
