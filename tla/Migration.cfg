SPECIFICATION FairSpec
CONSTANTS
    Profiles = {p1}
    Cards = {c1, c2}
    Contents = {old, new}
    None = none
    MaxWrites = 2
    MaxCrashes = 2
INVARIANTS
    ImportFaithful
PROPERTIES
    ImportCompletes
