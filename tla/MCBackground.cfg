SPECIFICATION MCSpec
CONSTANTS
    Recurring = {j1}
    OneShot = {o1}
    Run = {r1, r2}
    Period = 2
    MaxConcurrent = 2
    MissedLimit = 1
    MaxTime = 4
    MaxCrash = 1
    MaxDefer = 1
    NoJob = NoJob
    Never = Never
    Daily = {"day"}
    Note = {"a", "b"}
    Longer <- MCLonger
    MinRecall = 1
    MaxLines = 2
    MaxEdits = 2
    MaxCount = 1
    MaxSlots = 2
    MaxRuntime = 2
    MaxCrashes = 1
    Start = {"", "a"}
    Cooldown = 1
    MaxTurns = 3
    MaxCompactions = 1
    MaxResets = 1
    MaxEnds = 1
    Skill = {k1, k2}
    Process = {"daemon", "terminal"}
    Pinned = {k2}
    StaleAfter = 1
    ArchiveAfter = 2
    MaxDay = 2
    MaxEvent = 2
    MaxRun = 2
INVARIANTS
    JobsAreSound
    MemoryIsExact
    SkillsAreSound
PROPERTIES
    BackgroundProceeds
CHECK_DEADLOCK FALSE
