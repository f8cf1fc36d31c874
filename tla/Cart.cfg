SPECIFICATION Spec
CONSTANTS
    o1 = o1
    o2 = o2
    o3 = o3
    a = a
    b = b
    none = none
    NoOp = none
    Op = {o1, o2, o3}
    Item = {a, b}
    Jobs <- Scenarios
    MaxReprices = 1
    MaxCheckouts = 1
    MaxCrashes = 1
INVARIANTS
    OneLinePerItem
    AddedUnitsStay
CHECK_DEADLOCK FALSE
