CONSTANTS
    None = None
    Timer = Timer
    User = {u1}
    Email = {e1, e2}
    Grant = {g1, g2}
    Task = {t1, t2}
    SlotCount = 1
    LinkTtl = 1
    ControlTtl = 1
    MaxTime = 1
    Faults = {"vnc", "web"}
SPECIFICATION BrokerSafety
SYMMETRY Symmetry
INVARIANTS BrokerTypeOK AgentHoldsLease ViewerNeverWithAgent RelayServesItsTakeover OneRelay DeadlineIsWatched
