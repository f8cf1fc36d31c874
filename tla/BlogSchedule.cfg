SPECIFICATION FairSpec
CONSTANTS
    e1 = e1
    e2 = e2
    t1 = t1
    t2 = t2
    NoPoller = NoPoller
    Edit = {e1, e2}
    Creator = e1
    Caller = {t1, t2}
    LastDay = 2
    MaxAttempts = 2
    MinStuck = 1
    MaxFaults = 1
INVARIANTS
    ClaimedOnce
PROPERTIES
    NeverBeforeSchedule
    PendingIsServed
CHECK_DEADLOCK FALSE
