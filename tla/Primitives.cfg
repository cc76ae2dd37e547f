SPECIFICATION PrimitivesSpec
CONSTANTS
    Procs = {p1, p2, p3}
    Names = {n1, n2}
    Ctrs = {c1, c2, c3}
    NoProc = NoProc
    NoName = NoName
    NoCtr = NoCtr
    Waiters = {w1}
    ExitCodes = {0, 1}
    Monitors = {m1, m2}
    NoMonitor = NoMonitor
    Retries = 2
CHECK_DEADLOCK FALSE
INVARIANTS
    MutualExclusion
    NoLeak
    NoLostWakeup
    RemovedMeansRemoved
    ExitCodeOrZero
    HealthyIsEarned
    MonitorMatches
PROPERTIES
    ImplementsNamedMutex
    RemovalEndsWaits
    StoppedMonitorsEnd
