SPECIFICATION Spec
CONSTANTS
    Cards = {c1, c2}
    Accounts = {a1, a2}
    Requests = {r1, r2}
    Settings <- IssuedOrEuro
    None = none
    Preissued = {c1, c2}
    BulkLimit = 1
    MaxFaults = 0
    FaultKinds = {}
    External = {}
SYMMETRY Symmetry
INVARIANTS
    HandlersGoOn
PROPERTIES
    OnlyOwnersAct
    SettingsSurvive
    CallsRunOut
