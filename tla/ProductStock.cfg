SPECIFICATION StockFairSpec
CONSTANTS
    s1 = s1
    s2 = s2
    s3 = s3
    a = a
    b = b
    Sale = {s1, s2, s3}
    Sku = {a, b}
    InitStock <- Shelf
    StockOps <- Baskets
    MaxLost = 1
    MaxCrashes = 1
    Receipt = {1, 2}
    Keyed = {1}
    Delivered = a
    Scenario <- Scenarios
INVARIANTS
    StockIsExplained
PROPERTIES
    FailedSaleEnds
    DriftIsFixed
CHECK_DEADLOCK FALSE
