SPECIFICATION StreamSpec
CONSTANTS
    Byte <- Bytes
    Newline = "nl"
    Escape <- EscapeOf
    Secret <- LineNames
    ValueOf <- LineValues
    MIN_REDACTABLE_LEN = 2
    Stream = {"stdout"}
    MaxBytes = 7
CHECK_DEADLOCK FALSE
INVARIANTS
    StreamsAsAWhole
    NothingLeaks
    WithholdsLittle
