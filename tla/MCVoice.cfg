SPECIFICATION MCSpec
CONSTANTS
    Bounds <- MCBounds
    MaxNet = 2
    Output = {"cloud", "local"}
    Agent = {"a", "b"}
    MaxSeq = 3
    MaxChange = 2
    Slots = 1
    Speaker <- MCSpeaker
INVARIANTS
    TalkIsSound
    PlayerIsSound
PROPERTIES
    SoundGoesOn
CHECK_DEADLOCK FALSE
