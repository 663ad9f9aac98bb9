SPECIFICATION Spec
CONSTANTS
    s1 = s1
    s2 = s2
    Sessions = {s1}
    Workspaces = {w1, w2}
    TurnsOf <- TwoOfOne
    CacheLimit = 1
    Idle = 0
    Retention = 0
    MaxNow = 0
    MaxEpoch = 0
    None = None
SYMMETRY Symmetry
INVARIANT WorkspaceSwitchForgets
CHECK_DEADLOCK FALSE
