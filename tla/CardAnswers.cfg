SPECIFICATION HSpec
CONSTANTS
    Cards = {c1}
    Accounts = {a1}
    Requests = {r1, r2}
    Settings <- IssuedOnly
    None = none
    Preissued = {}
    BulkLimit = 1
    MaxFaults = 2
    FaultKinds = {"refused", "lost"}
    External = {"toggle", "drop_wallet"}
SYMMETRY Symmetry
INVARIANTS
    RollbackReport
    SetAnswerWasTrue
    BulkAnswerWasTrue
