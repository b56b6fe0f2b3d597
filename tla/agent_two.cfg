SPECIFICATION Spec
CONSTANTS
    Agent = {a1, a2}
    Client = {c1}
    Suspended = {}
    Op = {"open"}
    Passphrase = {pa}
    FirstPass = pa
    NoSocket = NoSocket
    NoKey = NoKey
    NoReq = NoReq
    Gone = Gone
    MaxStarts = 3
    MaxRuns = 1
    MaxSalt = 0

CHECK_DEADLOCK FALSE
PROPERTIES
    LiveSocketIsNotStolen
