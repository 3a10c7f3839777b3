SPECIFICATION Spec
CONSTANTS
    Request = {q1,q2}
    Journey = {j1,j2}
    Email = {e1}
    Limits = {"journey", "global"}
    MaxPerEmail = 1
    MaxPerJourney = 1
    MaxGlobal = 1
    WindowLength = 2
    Cooldown = 1
    MaxTime = 2
    MaxFaults = 1
    Nobody = Nobody
SYMMETRY Symmetry
CHECK_DEADLOCK FALSE
INVARIANTS
    QuotaReturned
    QuotaInv
