SPECIFICATION MCSpec
CONSTANTS
    ForegroundRun = {r1}
    CronRun = {}
    Update = {u1}
    MaxGeneration = 1
    NoUpdate = NoUpdate
    Account = {a1, a2}
    Adapter = {x1, x2}
    StopCall = {k1}
    Daemon = Daemon
    NoAccount = NoAccount
    NoAdapter = NoAdapter
    NoSession = NoSession
    Session = {s1, s2}
    LocalFilter = {s1}
    RemoteFilter = {NoSession}
    QueueMax = 3
    GapDrop = 2
    WireMax = 2
    MaxSeq = 6
    Operator = {"a"}
    MaxProc = 3
    MaxRestart = 1
    MaxVerb = 4
INVARIANTS
    DaemonIsSound
    StreamIsComplete
PROPERTIES
    StreamIsLive
    StopsStop
CHECK_DEADLOCK FALSE
