SPECIFICATION Spec
CONSTANTS
    Link = {l1,l2}
    Verifier = {v1,v2}
    Journey = {j1,j2}
    Email = {e1,e2}
    LinkTtl = 1
    VerifiedTtl = 1
    Retention = 2
    Cooldown = 1
    MaxTime = 1
    None = None
SYMMETRY Symmetry
CHECK_DEADLOCK FALSE
INVARIANTS
    UsedOnce
    GateIsSound
