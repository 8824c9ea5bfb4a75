SPECIFICATION Spec
CONSTANTS
    Cards = {c1}
    Accounts = {a1}
    Requests = {r1, r2}
    Settings <- IssuedOrEuro
    None = none
    Preissued = {}
    BulkLimit = 1
    MaxFaults = 2
    FaultKinds = {"refused", "lost", "crash"}
    External = {"toggle", "edit", "drop_link", "switch"}
SYMMETRY Symmetry
INVARIANTS
    TypeOK
    DeletedWalletHasNoLink
    DeleteOkMeansGone
    RowsStayDeletable
PROPERTIES
    ImplementsContract
    ImplementsLife
