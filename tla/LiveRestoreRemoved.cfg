SPECIFICATION Spec
CONSTANT
    Scenarios <- LiveRemoved
CHECK_DEADLOCK FALSE
INVARIANT
    LiveRestoreKeeps
