SPECIFICATION Spec
CONSTANTS
    Slots = {s1}
    MaxPay = 2
    MaxRefund = 0
    MaxCancel = 0
    Total = 1
    Callbacks = {"PAID"}
INVARIANT PaidOnce
CHECK_DEADLOCK FALSE
