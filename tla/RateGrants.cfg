SPECIFICATION Spec
CONSTANTS
    Request = {q1,q2,q3}
    Journey = {j1}
    Email = {e1}
    Limits = {"journey"}
    MaxPerEmail = 1
    MaxPerJourney = 2
    MaxGlobal = 2
    WindowLength = 2
    Cooldown = 1
    MaxTime = 3
    MaxFaults = 0
    Nobody = Nobody
SYMMETRY Symmetry
CHECK_DEADLOCK FALSE
INVARIANTS
    LimitHeld
    
    CooldownInv
