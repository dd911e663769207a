SPECIFICATION Spec
CONSTANTS
    Recorders = {r1}
    Threads = {t1}
    Branches = {main}
    Main = main
    None = None
    Setups <- AloneOnly
    MaxRuns = 2
    MaxCancels = 1
    MaxCrashes = 1
CHECK_DEADLOCK FALSE
INVARIANT JournalReadable
INVARIANT Recoverable
PROPERTY DurableLog
