CONSTANTS
    Ids = {e1, e2}
    Assigned = {e1}
    Parties = {p1}
    MaxBlocks = 8
    UserBlocks = 4
    ReorgDepth = 0
    MaxLag = 2
    MaxFaults = 0
    BlockConfirmations = 2
    BlockRangeChunkSize = 2
    StartBlockLookback = 6
    Lookbacks = {}
SPECIFICATION FairSpec
CHECK_DEADLOCK FALSE
INVARIANT
    NothingLeftBehind
PROPERTIES
    DisputesGetRuled
    FinalRecordStands
