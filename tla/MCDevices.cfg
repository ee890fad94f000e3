SPECIFICATION MCSpec
CONSTANTS
    Scenarios <- MCScenarios
    MaxGeneration = 3
    MaxTask = 2
    u1 = u1
    u2 = u2
    n1 = n1
    n2 = n2
    User = {u1, u2}
    Notice = {n1, n2}
    Inbound <- MCInbound
    Target <- MCTarget
    Chunks = 2
    Limit = 1
    MaxBot = 2
    MaxMessage = 3
    MaxSession = 6
    Lines <- MCLines
    MaxLines = 4
    Limits = {10, 14}
INVARIANTS
    VoiceIsSound
    WechatIsSound
PROPERTIES
    TalkersAreServed
CHECK_DEADLOCK FALSE
