SPECIFICATION MigrationSpec
CONSTANTS
    Process = {p1}
    Path <- Files
    Whole <- Vaults
    NoFile = NoFile
    Torn = Torn
    NoWrite = NoWrite
    System = {"unix"}
    DiskFails = FALSE
    Old = Old
    NoJob = NoJob
    Free = Free
    Kept <- There
    MaxPower = 0
CHECK_DEADLOCK FALSE
INVARIANTS
    MigrateMoves
