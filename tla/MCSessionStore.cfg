SPECIFICATION MCSpec
CONSTANTS
    Session = {s1, s2}
    Turn = {t1, t2}
    Call = {k1}
    MaxObject = 2
    MaxRestart = 1
    NoObject = NoObject
    Nobody = Nobody
    NoTurn = NoTurn
    NoSession = NoSession
    NoMsg = NoMsg
    p1 = p1
    p2 = p2
    Page = {p1, p2}
    MaxSession = 3
    MaxTurn = 1
    MaxAct = 3
    MaxDrop = 1
SYMMETRY Symmetry
INVARIANTS
    TranscriptIsKept
    SessionsAreSound
    PagesAreSound
CHECK_DEADLOCK FALSE
