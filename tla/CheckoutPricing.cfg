SPECIFICATION MCSpec
CONSTANTS
    silkXL = silkXL
    old = old
    chanderi = chanderi
    sarees = sarees
    dupattas = dupattas
    c1 = c1
    s1 = s1
    None = None
    Items <- const_Items
    Catalog <- const_Catalog
    CategoryName <- const_CategoryName
    Subcategory <- const_Subcategory
    Sales <- const_Sales
    Promotions <- const_Promotions
    Coupons <- const_Coupons
    MaxUnits = 2
    MaxChanges = 1
CHECK_DEADLOCK FALSE
INVARIANTS
    ShownIsCharged
    OrderAddsUp
    BestPromotionApplied
    HintUnlocks
PROPERTIES
    RefusedExactlyWhenDue
