CONSTANTS
    MaxParts = 2
    Escrow = e1
SPECIFICATION Spec
CHECK_DEADLOCK FALSE
INVARIANT
    VendorsAgree
