SPECIFICATION FairSpec
CONSTANTS
    i1 = i1
    i2 = i2
    a = a
    b = b
    Intent = {i1, i2}
    Legacy = {i2}
    Sku = {a, b}
    InitStock <- OneEach
INVARIANTS
    UnitsAccounted
    OneOrderPerPayment
    OpenIntentHoldsStock
PROPERTIES
    FateIsFinal
    LedgerSpec
    EveryCheckoutSettles
    ReleasedUnitsReturn
CHECK_DEADLOCK FALSE
