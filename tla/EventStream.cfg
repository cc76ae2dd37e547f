SPECIFICATION Spec
CONSTANTS
    d1 = d1
    d2 = d2
    Ids = {d1, d2}
    Handlers = {h1, h2}
    Callers = {a1}
    CallerId <- MCCallerId
    Subscribers = {s1}
    Filters = {{d1}, {d1, d2}}
    Limit = 2
    Buffer = 1
    None = None
INVARIANTS
    InOrder
    StreamKept
    Ordered
PROPERTY AllRun
CHECK_DEADLOCK FALSE
