SPECIFICATION MCSpec
CONSTANTS
    ForegroundRun = {t1, t2}
    CronRun = {c1}
    Update = {u1, u2}
    NoUpdate = NoUpdate
    MaxGeneration = 4
    MaxTurn = 2
    MaxRequest = 2
    MaxEvent = 2
    QueueMax = 2
    GapDrop = 2
    a = a
    b = b
    c = c
    Server = {a, b, c}
    Valid = {a, b}
    Builtin = {"bash"}
    Call = {"call"}
    Order <- MCOrder
    Info <- MCInfo
    Offers <- MCOffers
    Named <- MCNamed
INVARIANTS
    GuardSafety
    NoOrphanScheduler
    TuiIsSound
    McpIsSound
PROPERTIES
    SwapIsExclusive
    WaitersGoOn
CHECK_DEADLOCK FALSE
