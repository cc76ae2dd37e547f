SPECIFICATION Spec
CONSTANTS
    base = base
    top = top
    Chains = {base, top}
    Parent <- MCParent
    Procs = {g1, g2}
    Layers = {l1, l2, l3}
    Names = {n1}
    Refs = {r1, r2, r3}
    None = None
    NoMount = NoMount
    MaxCrashes = 1
SYMMETRY Symmetry
INVARIANTS
    RefsExact
    UsedIsThere
    NoLeak
    CrashSafe
