SPECIFICATION FairSpec
CONSTANTS
    Turn = {t1, t2}
    Pip = Pip
    Install = Install
    Restarting = Restarting
    Noting = Noting
    Command = {Pip, Install, Restarting, Noting}
    Exempt = {Noting}
    Protected = {Install}
    AskMode = "on-miss"
    SecurityMode = "allowlist"
    Matches <- MCMatches
    MaxBatch = 2
    Batch <- MCBatch
    NoAnswer = NoAnswer
INVARIANTS
    RunsOnlyWithConsent
    RefusalStopsBatch
    AnswerIsObeyed
    PendingIsAwaited
PROPERTIES
    AllowAlwaysIsForever
    PromptEnds
