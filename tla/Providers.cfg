SPECIFICATION MCSpec
CONSTANTS
    q1 = q1
    q2 = q2
    Requests = {q1, q2}
    Plans <- ThreePlans
    Voices <- TwoVoices
    Policy <- TightPolicy
    PerRequest = 2
    TotalCap = 3
    Retention = 0
    MaxIdle = 1
    Reports = {0, 3}
    Cool = 1
    MaxDay = 2
    MaxRestarts = 1
    Limits <- TwoLimits
    Callers <- ThreeCallers
    MaxTime = 3
INVARIANTS
    TypeOK
    WithinAllowance
    SentIsCounted
PROPERTIES
    RequestsEnd
    RateIsExact
CHECK_DEADLOCK FALSE
