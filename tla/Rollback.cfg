SPECIFICATION Spec
CONSTANTS
    Users = {u1, u2}
    Visitors = {}
    Sessions = {s1}
    Scopes = {x1}
    Changes = {c1}
    Keys = {k1, k2}
    Requests = {r1, r2}
    Modes = {"definition", "legacy"}
    MaxTurn = 2
    MaxGen = 1
    MaxNow = 0
    Lifetime = 0
    Retention = 0
    Rejections = {}
    None = None
SYMMETRY Symmetry
INVARIANTS
    UsableKeysAreCurrent
