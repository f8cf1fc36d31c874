SPECIFICATION CouponSpec
CONSTANTS
    o1 = o1
    o2 = o2
    o3 = o3
    u1 = u1
    u2 = u2
    NoCopy = NoCopy
    Checkout = {o1, o2, o3}
    User = {u1, u2}
    UserOf <- Owner
    UsageLimit = {0, 1, 2}
    LastDay = 1
    MaxEdits = 1
SYMMETRY SameUser
INVARIANTS
    UsageAccounted
PROPERTIES
    CountedWithinLimits
    DeniedOnlyByChange
CHECK_DEADLOCK FALSE
