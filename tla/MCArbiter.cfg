CONSTANTS
    Ids = {e1, e2}
    Assigned = {e1}
    Parties = {p1}
    MaxBlocks = 7
    UserBlocks = 3
    ReorgDepth = 1
    MaxLag = 1
    MaxFaults = 2
    BlockConfirmations = 2
    BlockRangeChunkSize = 2
    StartBlockLookback = 2
    Lookbacks = {}
SPECIFICATION Spec
CHECK_DEADLOCK FALSE
INVARIANTS
    TypeOK
    NeverRulesOnReorgedLog
    CursorMissesNothing
    RulingsStand
