SPECIFICATION Safety
CONSTANTS
    Clients = {c1, c2}
    Scenarios <- SafetyScenarios
SYMMETRY Symmetry
CHECK_DEADLOCK FALSE
INVARIANTS
    StateAgrees
    RemovalWhole
    PausedAgrees
    StopSticks
