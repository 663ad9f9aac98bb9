SPECIFICATION Spec
CONSTANTS
    Users = {u1}
    Visitors = {u1}
    Sessions = {s1, s2}
    Scopes = {x1}
    Changes = {c1}
    Keys = {k1, k2}
    Requests = {r1}
    Modes = {"definition"}
    MaxTurn = 1
    MaxGen = 2
    MaxNow = 1
    Lifetime = 0
    Retention = 0
    Rejections = {"record_conflict"}
    None = None
SYMMETRY Symmetry
PROPERTIES
    OutcomesAreFinal
    OnlyCurrentCallersWrite
    KeysAreOneShot
