SPECIFICATION Safety
CONSTANTS
    Waiters = {w1}
    ExitCodes = {0, 1}
CHECK_DEADLOCK FALSE
INVARIANT ExitCodeReturned
