SPECIFICATION Spec
CONSTANTS
    Link = {l1,l2}
    Verifier = {v1}
    Journey = {j1}
    Email = {e1}
    LinkTtl = 1
    VerifiedTtl = 2
    Retention = 3
    Cooldown = 1
    MaxTime = 3
    None = None
SYMMETRY Symmetry
CHECK_DEADLOCK FALSE
INVARIANTS
    OneLiveLink
    NeverWithoutLink
    ProofOutlives
    LinksInv
PROPERTIES
    UsedUpIsFinal
    ImplementsLinks
