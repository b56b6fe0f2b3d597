SPECIFICATION FairSpec
CONSTANTS
    va = va
    dir = dir
    ta = ta
    c = c
    Process = {p1, p2}
    Vault = {va}
    DirOf <- InDir
    Typed = {ta}
    Credential = {c}
    Line <- Lines
    Installer = {p1}
    Detect = Detect
    NoCmd = NoCmd
    NoVault = NoVault
    NoBlob = NoBlob
    Nothing = Nothing
    Host <- Hosts
    Tpm2Compiled = TRUE
    DiskFails = TRUE
    MaxFresh = 2
    MaxRuns = 2
    MaxFirmware = 1
CHECK_DEADLOCK FALSE
INVARIANTS
    TypeOK
    MachineVaultHasItsBundle
PROPERTIES
    BackendIsNeverFatal
    KeyringNeverHangs
