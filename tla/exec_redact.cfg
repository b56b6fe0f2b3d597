SPECIFICATION FairSpec
CONSTANTS
    Byte <- Bytes
    Newline = "nl"
    Escape <- EscapeOf
    Secret = {"TOKEN"}
    ValueOf <- Values
    MIN_REDACTABLE_LEN = 2
    Capacity = 2
    Stream = {"stdout", "stderr"}
    MaxBytes = 3
    Fragile = {"stdout", "stderr"}
    ATTEMPTS = 3
    Inconclusive = 2
CHECK_DEADLOCK FALSE
INVARIANTS
    ReturnsWithAllOutput
    SinksAreClean
    UnsealedChildIsNamed
PROPERTIES
    PipesDrain
    EndsWithChild
