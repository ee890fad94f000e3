SPECIFICATION MCSpec
CONSTANTS
    Run = {r1, r2, r3, r4}
    Review = {r3}
    Research = {r4}
    Session = {s1, s2}
    MaxConcurrent = 2
    MaxTurn = 3
    NoSession = NoSession
    Agent = {"a", "b"}
    Founders = {"a"}
    Rounds = 2
    MaxChange = 2
INVARIANTS
    ResultsArrive
    PodcastIsSound
PROPERTY WaitingEnds
CHECK_DEADLOCK FALSE
