SPECIFICATION FairSpec
CONSTANTS
    q1 = q1
    q2 = q2
    q3 = q3
    none = none
    NoRequest = none
    Request = {q1, q2, q3}
    Cod = {q1, q2}
    BuyNow = {q3}
    Keyed = {q1, q3}
    MaxCarts = 2
    MaxCrashes = 1
INVARIANTS
    OneCheckoutWithinTTL
    CartOrderedOnce
    ReplayStandsForOrder
PROPERTIES
    AccountNotShutOut
CHECK_DEADLOCK FALSE
