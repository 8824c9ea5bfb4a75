SPECIFICATION FairSpec
CONSTANTS
    Cards = {c1, c2, c3}
    None = none
    Limit = 2
    Batch = 2
    MaxPayments = 3
    PageSize = 1
    MaxPartial = 1
    Mode = {"public", "admin"}
INVARIANTS
    HistoryHasNoGap
    FoundCardWasWhole
    TableIsComplete
PROPERTIES
    EveryTapAnswered
