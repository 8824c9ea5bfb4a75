\* The operator may ask for no more.
CHECK_DEADLOCK FALSE
SPECIFICATION Spec
CONSTANTS
    Cards = {1, 2}
    Browses = {b1}
    None = none
    PageSize = 1
    MaxPage = 2
    MaxRequests = 2
    MaxMeddling = 1
INVARIANTS
    ListIsTrue
    ToastIsTrue
