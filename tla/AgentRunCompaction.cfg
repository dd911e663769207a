SPECIFICATION FairSpec
CONSTANTS
    MaxSteps = 2
    MaxNoTool = 2
    MaxRepeat = 2
    TokenLimit = 0
    ExplicitFinish = FALSE
    HasPolicy = TRUE
    AutoPressure = TRUE
    AutoOverflow = TRUE
    MaxOverflowRetries = 1
    Signatures = {a}
    NoSignature = NoSignature
    Costs = {1}
    OldTurns = 1
    MaxRuns = 2
    MaxCalls = 2
    MaxCancels = 1
    MaxResets = 0
CHECK_DEADLOCK FALSE
PROPERTY NoRetryAfterOutput
PROPERTY RunHistoryKept
INVARIANT HistoryMatchesSession
PROPERTY AbortEndsRun
