SPECIFICATION FairSpec
CONSTANTS
    Callers = {c1, c2, c3}
    None = None
    Resources = 2
    AllowCancel = TRUE
CHECK_DEADLOCK FALSE
INVARIANT IInv
INVARIANT PendingExact
INVARIANT AbortIsScoped
INVARIANT IdleWaitCoversEntered
INVARIANT BodyHasResources
INVARIANT ShutdownReleases
PROPERTY Sequential
PROPERTY OperationsFinish
