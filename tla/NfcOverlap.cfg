SPECIFICATION Spec
CONSTANTS
    Cards = {A, B}
    Calls = {t1, t2}
    None = null
    OneAtATime = FALSE
    MaxFaults = 0
INVARIANTS
    WrittenMeansTagged
