SPECIFICATION Spec
CONSTANTS
    Recorders = {r1, r2}
    Threads = {t1}
    Branches = {main, b1}
    Main = main
    None = None
    Setups <- TreeAndTogether
    MaxRuns = 2
    MaxCancels = 0
    MaxCrashes = 0
CHECK_DEADLOCK FALSE
SYMMETRY Symmetry
INVARIANT EventFollowsChecked
INVARIANT RestoreMatches
INVARIANT RetryStartsBefore
