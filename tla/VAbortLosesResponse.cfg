SPECIFICATION FairSpec
CONSTANTS
    NoCount = NoCount
    NoReport = NoReport
    NoChunk = NoChunk
    Reports <- MCReports
    MaxRequests = 2
    MaxChunks = 2
    MaxCancels = 1
CHECK_DEADLOCK FALSE
INVARIANT AbortClosesStream
