CONSTANTS
    Ids = {e1}
    Assigned = {}
    Parties = {p1}
    MaxBlocks = 6
    UserBlocks = 3
    ReorgDepth = 2
    MaxLag = 0
    MaxFaults = 2
    BlockConfirmations = 2
    BlockRangeChunkSize = 2
    StartBlockLookback = 1
    Lookbacks = {6}
SPECIFICATION OperatedSpec
CHECK_DEADLOCK FALSE
PROPERTIES
    RestartsRecover
    StopsWhenAsked
    ShutdownAdvances
    FinalRecordStands
