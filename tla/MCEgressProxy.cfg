CONSTANTS
    Destination <- Destinations
    MaxChunks = 3
    Buffer = 2
    Faults = {"reset", "timeout"}
SPECIFICATION ProxySpec
INVARIANTS RepliesArrive LateStatusIsKnown
PROPERTIES EndsTogether
CHECK_DEADLOCK FALSE
