SPECIFICATION FairSpec
CONSTANTS
    Cards = {c1, c2}
    Lookups = {l1, l2}
    None = none
    Cooldown = 2
    Generations = {1, 2, 3}
    MaxTime = 4
INVARIANTS
    LoadingIsTrue
PROPERTIES
    ResultIsOfLastTap
    AutoPrintsOnTime
    TapsAnswered
