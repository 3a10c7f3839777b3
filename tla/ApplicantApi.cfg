SPECIFICATION Spec
CONSTANTS
    Tier <- MCTier
    Call = {c1,c2}
    Earlier = earlier
    Journey = {j1,j2}
    Spelling = {"Ann ","ann"}
    Lower <- MCLower
    Reference = {r1,r2}
    SeedReference = {s1}
    MaxAttempts = 2
    LinkTtl = 2
    VerifiedTtl = 2
    MaxTime = 2
    MaxOpen = 2
    None = None
SYMMETRY Symmetry
CHECK_DEADLOCK FALSE
INVARIANTS
    GateHolds
    OneCallOneRegistration
    AnswersComplete
    SessionCountsOnce
    EventsMatchMilestones
    ApplicantInv
PROPERTIES
    NoFalseRefusal
    StoredForGood
    StatusAgreesWithGate
    LinksAsPromised
