SPECIFICATION Spec
CONSTANTS
    Request = {q1,q2}
    Journey = {j1,j2}
    Email = {e1}
    Limits = {"global"}
    MaxPerEmail = 1
    MaxPerJourney = 1
    MaxGlobal = 1
    WindowLength = 1
    Cooldown = 1
    MaxTime = 1
    MaxFaults = 0
    Nobody = Nobody
SYMMETRY Symmetry
CHECK_DEADLOCK FALSE
INVARIANTS
    NeverOvershoots
