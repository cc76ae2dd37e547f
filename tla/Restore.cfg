SPECIFICATION Spec
CONSTANT
    Scenarios <- AllScenarios
CHECK_DEADLOCK FALSE
INVARIANTS
    RecordAgrees
    RemovalSafe
PROPERTIES
    StaysDown
    BackAfterDown
