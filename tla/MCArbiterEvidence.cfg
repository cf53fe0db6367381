CONSTANTS
    Ids = {e1}
    Assigned = {e1}
    Parties = {p1, p2}
    MaxBlocks = 6
    UserBlocks = 4
    ReorgDepth = 0
    MaxLag = 0
    MaxFaults = 0
    BlockConfirmations = 1
    BlockRangeChunkSize = 2
    StartBlockLookback = 6
    Lookbacks = {}
SPECIFICATION Spec
CHECK_DEADLOCK FALSE
INVARIANT
    EverySubmissionGathered
