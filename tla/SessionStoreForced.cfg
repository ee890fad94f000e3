SPECIFICATION Spec
CONSTANTS
    Session = {s1}
    Turn = {t1, t2}
    Call = {k1}
    MaxObject = 1
    MaxRestart = 1
    NoObject = NoObject
    Nobody = Nobody
    NoTurn = NoTurn
    NoSession = NoSession
    NoMsg = NoMsg
INVARIANTS
    CompactedStaysCompacted
CHECK_DEADLOCK FALSE
