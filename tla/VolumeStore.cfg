SPECIFICATION Spec
CONSTANTS
    Names = {v}
    Drivers = {local, plugin}
    DefaultDriver = local
    Containers = {c1, c2}
    Clients = {a}
    AnyDriver = AnyDriver
    None = None
    MaxFaults = 2
SYMMETRY Symmetry
INVARIANTS
    
    
    RecordsAgree
