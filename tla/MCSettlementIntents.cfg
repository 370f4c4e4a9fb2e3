SPECIFICATION Spec
CONSTANTS
    Slots = {s1, s2}
    MaxPay = 2
    MaxRefund = 0
    MaxCancel = 0
    Total = 1
    Callbacks = {"PAID", "FAILED", "EXPIRED"}
SYMMETRY SlotSymmetry
INVARIANT MoneyInv
INVARIANT OneLiveQris
INVARIANT CashBookMatchesRows
PROPERTY RowsKeepLifecycle
CHECK_DEADLOCK FALSE
