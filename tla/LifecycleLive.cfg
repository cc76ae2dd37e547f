SPECIFICATION Spec
CONSTANTS
    Clients = {c1, c2}
    Scenarios <- LivenessScenarios
PROPERTIES
    CallsReturn
    RestartResolves
    ExitHandled
CHECK_DEADLOCK FALSE
