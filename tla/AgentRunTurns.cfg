SPECIFICATION Spec
CONSTANTS
    MaxSteps = 3
    MaxNoTool = 2
    MaxRepeat = 3
    TokenLimit = 4
    ExplicitFinish = TRUE
    HasPolicy = TRUE
    AutoPressure = FALSE
    AutoOverflow = TRUE
    MaxOverflowRetries = 1
    Signatures = {a}
    NoSignature = NoSignature
    Costs = {1, 2}
    OldTurns = 1
    MaxRuns = 1
    MaxCalls = 2
    MaxCancels = 1
    MaxResets = 1
CHECK_DEADLOCK FALSE
INVARIANT RequestsWellFormed
INVARIANT CancelledBatchSettles
INVARIANT EventsNest
INVARIANT BudgetOvershoot
INVARIANT ResetForgets
PROPERTY AbortStopsWork
