CONSTANTS
    Accounts = {a1, a2, a3}
    Keyless = {}
    ZeroAddress = ZeroAddress
    Amounts = {0, 1, 2}
    Secrets = {s1}
    ZeroWord = ZeroWord
    MaxEscrows = 2
SYMMETRY Symmetry
SPECIFICATION Spec
INVARIANTS
    TypeOK
    Solvency
    TotalMatchesCredits
    EntitlementsKept
    SettledToAParty
    ProofsSpentOnce
    ReleaseStaysOpen
    EvidenceOnRecord
    Soundness
PROPERTIES
    ImplementsCustody
    KeepsTheRecord
CHECK_DEADLOCK FALSE
