SPECIFICATION Spec
CONSTANTS
    s1 = s1
    s2 = s2
    Sessions = {s1, s2}
    MaxTurn = 2
    Requests = 3
    Sizes = {2, 3}
    MaxItemBytes = 2
    MaxItems = 2
    MaxBytes = 4
    MaxInFlight = 3
    StoreLimit = 1
    Gap = 1
    Hang = 0
    Cooling = 1
    SlowLimit = 2
    ErrorLimit = 1
    Sent <- TwoSessions
    Older = {s2}
INVARIANTS
    ShadowTypeOK
    AccountingIsExact
    NoSessionIsForgotten
    EveryTurnIsCountedOnce
    OneTrialAtMost
    OnlyKnownLeaks
PROPERTIES
    WaitsOnlyShrink
    RunsOnWholeContext
    QueuedTurnsLeave
    TrialsComeBack
CHECK_DEADLOCK FALSE
