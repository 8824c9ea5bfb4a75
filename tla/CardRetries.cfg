SPECIFICATION FairSpec
CONSTANTS
    Cards = {c1}
    Accounts = {a1}
    Requests = {r1, r2}
    Settings <- IssuedOnly
    None = none
    Preissued = {}
    BulkLimit = 1
    MaxFaults = 1
    FaultKinds = {"refused", "lost", "crash"}
    External = {"drop_wallet"}
PROPERTIES
    EveryRequestAnswered
    RetriedDeleteCompletes
