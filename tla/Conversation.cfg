SPECIFICATION MCSpec
CONSTANTS
    t1 = t1
    t2 = t2
    m1 = m1
    m2 = m2
    r1 = r1
    r2 = r2
    Nothing = Nothing
    Tickets = {t1, t2}
    Folk = {m1, m2}
    Levels = {"hi"}
    Products <- TwoProducts
    Messages <- Heard
    Askers = {r1, r2}
    IssueList <- TwoTickets
    Members = {m1, m2}
    NoOne = NoOne
    Remarks <- ToldTheAgent
    LastTurn = 2
INVARIANTS
    TypeOK
    ChangesAreMeant
    LegacyTurnsAreContained
PROPERTIES
    RepliesAreSettled
CHECK_DEADLOCK FALSE
