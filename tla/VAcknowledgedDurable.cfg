SPECIFICATION Spec
CONSTANTS
    Recorders = {r1}
    Threads = {t1, t2}
    Branches = {main}
    Main = main
    None = None
    Setups <- Brief
    MaxRuns = 1
    MaxCancels = 1
    MaxCrashes = 0
CHECK_DEADLOCK FALSE
SYMMETRY Symmetry
INVARIANT AcknowledgedDurable
