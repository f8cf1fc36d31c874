SPECIFICATION GiftFairSpec
CONSTANTS
    o1 = o1
    a = a
    b = b
    custom = custom
    Order = {o1}
    Sku = {a, b, custom}
    Custom = custom
    InitStock <- TwoEach
    MaxEdits = 2
    GiftEdits = 1
    MaxCrashes = 1
    Update = {1, 2}
    Answer = {3, 4}
    NoOrderId = NoOrderId
INVARIANTS
    NoStockMinted
    CancelledIsReleased
    GiftOrderedOnce
PROPERTIES
    PaidIsOnlyRefunded
    LedgerSpec
    CancelledStockReturns
CHECK_DEADLOCK FALSE
