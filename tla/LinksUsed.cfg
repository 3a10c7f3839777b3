SPECIFICATION Spec
CONSTANTS
    Link = {l1}
    Verifier = {v1,v2}
    Journey = {j1}
    Email = {e1}
    LinkTtl = 1
    VerifiedTtl = 1
    Retention = 2
    Cooldown = 1
    MaxTime = 1
    None = None
SYMMETRY Symmetry
CHECK_DEADLOCK FALSE
INVARIANTS
    UsedIsToldSo
