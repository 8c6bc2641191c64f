CONSTANTS
    None = None
    Other = Other
    Stale = Stale
    Windows = {w32k, w256k}
    Profiles = {m}
    Expected = {m}
    ModelId = m
    Proc = {p1, p2}
    Switcher = {c1}
    Concurrent = FALSE
    Faults = {"kill", "crash", "verify", "write"}
SPECIFICATION ContextSpec
SYMMETRY Symmetry
INVARIANTS ServesItsFiles ServersAreNamed
PROPERTIES SwitchIsAtomic
