SPECIFICATION FairSpec
CONSTANTS
    Cards = {c1, c2}
    Requests = {r1, r2}
    None = none
    Cooldown = 2
    MaxTime = 5
INVARIANTS
    TypeOK
    OneReceiptAtATime
PROPERTIES
    AutoPrintsSpaced
    SuppressedForAReason
    EveryReceiptAnswered
