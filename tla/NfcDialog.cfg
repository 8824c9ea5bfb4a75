SPECIFICATION FairSpec
CONSTANTS
    Cards = {A, B}
    Calls = {t1, t2}
    None = null
    OneAtATime = TRUE
    MaxFaults = 2
INVARIANTS
    TypeOK
    WrittenMeansTagged
PROPERTIES
    RetryNeverRewrites
    WrittenTagIsRecorded
