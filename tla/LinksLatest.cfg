SPECIFICATION Spec
CONSTANTS
    Link = {l1,l2}
    Verifier = {v1}
    Journey = {j1}
    Email = {e1}
    LinkTtl = 2
    VerifiedTtl = 1
    Retention = 3
    Cooldown = 1
    MaxTime = 2
    None = None
SYMMETRY Symmetry
CHECK_DEADLOCK FALSE
INVARIANTS
    OnlyLatestWorks
