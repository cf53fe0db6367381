CONSTANTS
    Accounts = {buyer, seller, arbiter, visitor}
    Keyless = {}
    ZeroAddress = zero
    Amounts = {0, 1}
    Secrets = {s1}
    ZeroWord = zeroWord
    MaxEscrows = 3
    Runs = {r1, r2}
    Buyer = buyer
    Seller = seller
    Arbiter = arbiter
    Visitor = visitor
    Amount = 1
    Secret = s1
SPECIFICATION SpecDemo
CHECK_DEADLOCK FALSE
SYMMETRY Symmetry
INVARIANTS
    ActOneSettles
    StageUnlessRuled
