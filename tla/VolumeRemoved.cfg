SPECIFICATION Spec
CONSTANTS
    Names = {v}
    Drivers = {local, plugin}
    DefaultDriver = local
    Containers = {c1, c2}
    Clients = {a}
    AnyDriver = AnyDriver
    None = None
    MaxFaults = 1
SYMMETRY Symmetry
INVARIANT InUseNeverRemoved
