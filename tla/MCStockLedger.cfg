CONSTANTS
    tea = tea
    cake = cake
    o1 = o1
    o2 = o2
    d1 = d1
    d2 = d2
    r1 = r1
    Slots = {s1, s2}
    Products = {tea, cake}
    Orders = {o1, o2}
    Purchases = {d1, d2}
    Refunds = {r1}
    LegacyOrders = {o2}
    OrderOf <- MCOrderOf
    Quantity <- MCQuantity
    Opening <- MCOpening
    Unlisted = {cake}
    Counted = {tea}
    Levels = {0, 3}
    MaxMoves = 1
SYMMETRY SlotSymmetry
SPECIFICATION Spec
INVARIANTS LedgerInv MovedOnceAndWhole NothingBackBeforeItLeft
PROPERTY AccountsKept
CHECK_DEADLOCK FALSE
