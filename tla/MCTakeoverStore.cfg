CONSTANTS
    None = None
    User = {u1, u2, u3}
    Email = {e1, e2}
    Grant = {g1, g2}
    SlotCount = 2
    LinkTtl = 1
    ControlTtl = 1
    MaxTime = 3
SPECIFICATION Spec
SYMMETRY Symmetry
CHECK_DEADLOCK FALSE
INVARIANTS TypeOK GrantMatchesControl GrantEpochs OwnerIsPinned ProfilesApart
PROPERTIES Fenced SingleUse LeaseSpec
