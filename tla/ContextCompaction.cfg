SPECIFICATION Spec
CONSTANTS
    Prompts = 1
    Threshold = 5
    KeepRecent = 3
    Sizes = {1, 3}
    ReplySize = 1
    MaxCalls = 2
    MaxHandMade = 1
    MaxMessages = 5
CHECK_DEADLOCK FALSE
INVARIANT CutIsMinimal
INVARIANT PairsIntact
INVARIANT SummaryIsExact
INVARIANT CompactionSettles
INVARIANT SessionFollowsState
