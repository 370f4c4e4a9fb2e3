SPECIFICATION Spec
CONSTANTS
    Slots = {s1, s2}
    MaxPay = 1
    MaxRefund = 2
    MaxCancel = 0
    Total = 2
    Callbacks = {"PAID"}
SYMMETRY SlotSymmetry
INVARIANT RefundsWithinCollected
CHECK_DEADLOCK FALSE
