SPECIFICATION MigrationSpec
CONSTANTS
    Process = {p1, p2, p3}
    Path <- Files
    Whole <- Vaults
    NoFile = NoFile
    Torn = Torn
    NoWrite = NoWrite
    System = {"unix", "windows"}
    DiskFails = TRUE
    Old = Old
    NoJob = NoJob
    Free = Free
    Kept <- There
    MaxPower = 1
SYMMETRY Symmetry
CHECK_DEADLOCK FALSE
INVARIANTS
    TypeOK
    ReportedIsFound
    DataKeyIsKept
PROPERTIES
    NothingIsLost
