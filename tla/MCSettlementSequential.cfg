SPECIFICATION Spec
CONSTANTS
    Slots = {s1}
    MaxPay = 2
    MaxRefund = 1
    MaxCancel = 1
    Total = 2
    Callbacks = {"PAID", "FAILED", "EXPIRED", "CANCELLED"}
INVARIANT PaidMirrorIsBacked
INVARIANT RestoredWithinDeducted
INVARIANT DeductedOnce
PROPERTY KitchenEntry
PROPERTY CancelReturnsStock
PROPERTY PaidRowStays
PROPERTY PaidOrderStays
CHECK_DEADLOCK FALSE
