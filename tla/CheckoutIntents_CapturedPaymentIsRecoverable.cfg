SPECIFICATION Spec
CONSTANTS
    i1 = i1
    i2 = i2
    a = a
    b = b
    Intent = {i1, i2}
    Legacy = {}
    Sku = {a}
    InitStock <- OneShort
INVARIANTS
    CapturedPaymentIsRecoverable
CHECK_DEADLOCK FALSE
