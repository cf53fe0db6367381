CONSTANTS
    Ids = {e1}
    Assigned = {e1}
    Parties = {p1}
    MaxBlocks = 4
    UserBlocks = 2
    ReorgDepth = 0
    MaxLag = 0
    MaxFaults = 1
    BlockConfirmations = 1
    BlockRangeChunkSize = 2
    StartBlockLookback = 6
    Lookbacks = {}
SPECIFICATION Spec
CHECK_DEADLOCK FALSE
INVARIANT
    PollSettlesWhatItFinds
