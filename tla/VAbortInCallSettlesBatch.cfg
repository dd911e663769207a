SPECIFICATION Spec
CONSTANTS
    MaxSteps = 2
    MaxNoTool = 2
    MaxRepeat = 2
    TokenLimit = 0
    ExplicitFinish = FALSE
    HasPolicy = TRUE
    AutoPressure = TRUE
    AutoOverflow = TRUE
    MaxOverflowRetries = 1
    Signatures = {a}
    NoSignature = NoSignature
    Costs = {1}
    OldTurns = 2
    MaxRuns = 1
    MaxCalls = 2
    MaxCancels = 1
    MaxResets = 0
CHECK_DEADLOCK FALSE
INVARIANT AbortInCallSettlesBatch
