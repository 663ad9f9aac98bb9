SPECIFICATION Spec
CONSTANTS
    Users = {u1}
    Visitors = {}
    Sessions = {s1}
    Scopes = {x1, x2}
    Changes = {c1, c2}
    Keys = {k1, k2}
    Requests = {r1, r2}
    Modes = {"definition"}
    MaxTurn = 2
    MaxGen = 1
    MaxNow = 0
    Lifetime = 1
    Retention = 1
    Rejections = {}
    None = None
SYMMETRY Symmetry
INVARIANTS
    TypeOK
    LedgerTellsTheTruth
    ReceiptsAgree
    CancelledTurnsStayCancelled
    CurrentTurnsKeepTheirMemory
