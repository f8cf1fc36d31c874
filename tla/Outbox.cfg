SPECIFICATION FairSpec
CONSTANTS
    r1 = r1
    r2 = r2
    d1 = d1
    d2 = d2
    none = none
    NoRow = none
    Row = {r1, r2}
    OrderRow = {r2}
    CouponRow = {}
    GiftingRow = {r1}
    Dispatcher = {d1, d2}
    MaxAttempts = 3
    MinStuck = 2
    MaxReplays = 1
    MaxFaults = 1
INVARIANTS
    EventNeverForgotten
    SingleDispatch
    AttemptsBounded
PROPERTIES
    EventSettles
CHECK_DEADLOCK FALSE
