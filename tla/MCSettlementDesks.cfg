SPECIFICATION Spec
CONSTANTS
    Slots = {s1, s2}
    MaxPay = 1
    MaxRefund = 2
    MaxCancel = 2
    Total = 1
    Callbacks = {"PAID"}
SYMMETRY SlotSymmetry
INVARIANT OneOpenRequest
INVARIANT RefundBookMatchesRows
PROPERTY KitchenInOrder
CHECK_DEADLOCK FALSE
