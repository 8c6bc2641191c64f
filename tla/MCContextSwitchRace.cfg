CONSTANTS
    None = None
    Other = Other
    Stale = Stale
    Windows = {w32k, w256k}
    Profiles = {m}
    Expected = {m}
    ModelId = m
    Proc = {p1, p2}
    Switcher = {c1, c2}
    Concurrent = TRUE
    Faults = {}
SPECIFICATION ContextSpec
SYMMETRY Symmetry
INVARIANTS NoConcurrentRestart
