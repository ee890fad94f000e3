SPECIFICATION MCSpec
CONSTANTS
    Turn = {t1, t2}
    ForegroundRun = {t1, t2}
    CronRun = {c1}
    Update = {u1}
    MaxGeneration = 1
    Session = {s1, s2}
    OnlySession = s1
    Compaction = {k1}
    Abort = {a1}
    DecorateMayFail = TRUE
    NoUpdate = NoUpdate
    NoTurn = NoTurn
    NoSession = NoSession
    Nobody = Nobody
INVARIANTS
    TurnsAreSound
PROPERTIES
    ImplementsTurnService
    CallsKeepTheirWord
CHECK_DEADLOCK FALSE
