SPECIFICATION MCSpec
CONSTANTS
    RecentTurns = 1
    MaxIterations = 3
    Verbose = {1, 2}
    MaxTurn = 2
    MaxGroup = 3
    MaxNotes = 1
    MaxCompaction = 3
    MaxReset = 1
    Path = {"a", "b", "c", "d", ".git"}
    Kept = {".git"}
    Word = {"x", "y", "z", "w"}
    Session = {"s", "t"}
    Back = 2
    Ahead = 3
    MaxCall = 3
    MaxMishap = 1
    Root = {"v", "w"}
    Requirement = {"git"}
    Filter = {"k", "l"}
    MarkerSize = 40
    MaxChars = 120
    TotalMaxChars = 200
    MaxToolIters = 2
    MaxEdit = 1
INVARIANTS
    WireIsPaired
    ConversationIsKept
    FilesAreRecoverable
    PatchesAreExact
    ContextIsSound
CHECK_DEADLOCK FALSE
