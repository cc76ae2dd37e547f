SPECIFICATION Spec
CONSTANTS
    Writers = {"stdout", "stderr"}
    Messages <- MCMessages
    Size <- MCSize
    MaxBytes = 1
    None = None
    Lengths <- MCLengths
    BufSize = 2
    ReadSize = 2
CHECK_DEADLOCK FALSE
INVARIANTS
    RingSound
    CloseSound
    LogComplete
PROPERTIES
    LoggerEnds
