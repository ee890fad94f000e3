SPECIFICATION Spec
CONSTANTS
    RecentTurns = 1
    MaxIterations = 3
    Verbose = {1, 2}
    MaxTurn = 2
    MaxGroup = 3
    MaxNotes = 0
    MaxCompaction = 3
    MaxReset = 1
INVARIANT SummaryForgetsReset
CHECK_DEADLOCK FALSE
