CONSTANTS
    Unset = Unset
    Malformed = Malformed
    StartBlockLookback = 2
    Lookbacks = {1, 3}
SPECIFICATION Spec
CHECK_DEADLOCK FALSE
INVARIANTS
    NeverAsksWithoutKey
    OtherKeyIrrelevant
    ExitCodeNamesTheCause
