SPECIFICATION Spec
CONSTANTS
    s1 = s1
    s2 = s2
    Sessions = {s1, s2}
    Workspaces = {w1, w2}
    TurnsOf <- ThreeAndOne
    CacheLimit = 1
    Idle = 0
    Retention = 0
    MaxNow = 1
    MaxEpoch = 1
    None = None
CONSTRAINTS
    OneTalks
    RestartsOrWaits
SYMMETRY Symmetry
INVARIANT TypeOK
PROPERTIES
    YesAnswersTheLastQuestion
    RestartForgetsQuestions
    MemoryIsContinuous
CHECK_DEADLOCK FALSE
