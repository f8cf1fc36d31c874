SPECIFICATION FairCacheSpec
CONSTANTS
    Proc = {A, B}
    A = A
    B = B
    Req <- Requests
    MaxFills = 1
    MaxWrites = 1
INVARIANTS
    ListShowsAnnouncedWrites
PROPERTIES
    StoredWasCurrent
    EveryRequestEnds
CHECK_DEADLOCK FALSE
