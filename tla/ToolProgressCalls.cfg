SPECIFICATION FairSpec
CONSTANTS
    Background = {b1}
    Work = work
    Main = main
    None = None
    MaxRuns = 2
    MaxCalls = 2
    MaxCancels = 2
CHECK_DEADLOCK FALSE
INVARIANT ClosedCallIsQuiet
INVARIANT EventsDoNotOverlap
INVARIANT AbortMutes
PROPERTY CloseReturns
