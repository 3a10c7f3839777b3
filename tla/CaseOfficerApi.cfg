SPECIFICATION Spec
CONSTANTS
    Setting <- MCSetting
    Request <- MCRequest
    Call = {c1,c2}
    Session = {1,2,3}
    Matches <- MCMatches
    BlankTerm = "everything"
    OtherPrefix = {4}
    InitialWorlds <- MCInitialWorlds
    DaysPerMonth = 1
    MonthsPerYear = 2
    FirstDay = 1
    MaxTime = 2
    MaxWrites = 2
    None = None
SYMMETRY Symmetry
CHECK_DEADLOCK FALSE
INVARIANTS
    OnlyOfficersServed
    EachListedOnce
    LastPageIsLast
    ExportComplete
    ShownVersionWorks
    DeletedOnce
    DropOutsAreReal
    MetricsAddUp
    OfficerInv
