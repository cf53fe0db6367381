CONSTANTS
    Accounts = {a1, a2, a3, k}
    Keyless = {k}
    ZeroAddress = ZeroAddress
    Amounts = {0, 1}
    Secrets = {s1}
    ZeroWord = ZeroWord
    MaxEscrows = 1
SPECIFICATION SpecRecovery
INVARIANTS
    TypeOKV2
    Soundness
    SettledToAParty
PROPERTIES
    ImplementsCustody
    KeepsTheRecord
    DisputesAreSettled
CHECK_DEADLOCK FALSE
