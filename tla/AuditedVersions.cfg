SPECIFICATION FairSpec
CONSTANTS
    Ref = {r1}
    LegacyRef = {}
    Caller = {c1, c2}
    MaxVersion = 2
    MaxRetries = 1
    Legacy = Legacy
    Absent = Absent
    NoRequest = NoRequest
INVARIANTS
    HistoryComplete
    AcknowledgedIsRecorded
    CallsInv
PROPERTIES
    DeletedIsFrozen
    EveryCallEnds
