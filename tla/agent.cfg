SPECIFICATION FairSpec
CONSTANTS
    Agent = {a1}
    Client = {c1, c2}
    Suspended = {}
    Op <- AllCommands
    Passphrase = {pa, pb}
    FirstPass = pa
    NoSocket = NoSocket
    NoKey = NoKey
    NoReq = NoReq
    Gone = Gone
    MaxStarts = 2
    MaxRuns = 2
    MaxSalt = 1
CHECK_DEADLOCK FALSE
INVARIANTS
    TypeOK
    AgentIsNeverFatal
PROPERTIES
    NoExpiredKeyIsServed
    LockForgetsEverything
    RefusedOnlyByAnother
    ClientsEnd
