SPECIFICATION MCSpec
CONSTANTS
    Visitors = {n1, n2}
    Calls = {r1, r2}
    Keys = {"k"}
    Kinds = {"projects"}
    Seed <- OneTicket
    ActiveLimit = 1
    RecordLimit = 3
    Absolute = 2
    IdleFor = 2
    ReclaimAfter = 1
    TokenAge = 4
    Batch = 1
    MaxClock = 3
    MaxGeneration = 2
    MaxRevision = 2
    Workers = {r1, r2}
    RequestKeys = {"k"}
    Bodies = {"a", "b"}
    SeedIssues = {1}
    IdleTicks = 1
    MaxIssue = 2
    Readers = {r1, r2}
    Areas = {"x", "y"}
    Books = {1, 2}
    Notes = {0}
    MaxRecords = 2
    MaxVersion = 3
    Versions = {1, 2}
    Shape <- TwoShapes
    Tenants = {"t"}
    Teams = {"a", "b"}
    Sessions = {1}
    Operators = {r1, r2}
    MaxMigrations = 1
    Threads = {r1, r2}
    Emails = {n1, n2}
    Products = {"p"}
    CodesPerHour = 1
    Tries = 1
    MaxChallenges = 2
    MaxUsers = 3
    MaxChanges = 2
SYMMETRY Symmetry
INVARIANTS
    TypeOK
    InstancesAreWhole
    OneRecordPerKey
    EditsAreNoticed
    ProductRecordsAreSound
    PinsFitTheirRecords
    AccountsAreSound
PROPERTIES
    BusyAreKept
CHECK_DEADLOCK FALSE
