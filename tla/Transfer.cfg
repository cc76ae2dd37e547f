SPECIFICATION Spec
CONSTANTS
    c1 = c1
    c2 = c2
    Clients = {c1, c2}
    Pull <- MCPull
    Transfers = {t1, t2, t3}
    Limits = {0, 1}
    None = None
CHECK_DEADLOCK FALSE
INVARIANTS
    SlotsKept
    TransferShared
    ResultHeld
PROPERTIES
    PullsSettle
