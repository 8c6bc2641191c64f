CONSTANTS
    None = None
    Timer = Timer
    User = {u1}
    Email = {e1, e2}
    Grant = {g1}
    Task = {t1, t2}
    SlotCount = 1
    LinkTtl = 1
    ControlTtl = 1
    MaxTime = 1
    Faults = {"audit"}
SPECIFICATION BrokerSpec
PROPERTIES ExpiryStopsViewer
