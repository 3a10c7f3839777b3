SPECIFICATION Spec
CONSTANTS
    Ref = {r1, r2}
    LegacyRef = {r2}
    Caller = {c1, c2}
    MaxVersion = 1
    MaxRetries = 1
    Legacy = Legacy
    Absent = Absent
    NoRequest = NoRequest
SYMMETRY Symmetry
INVARIANTS
    IInv
    RejectedLeavesNothing
PROPERTIES
    ImplementsStore
