CONSTANTS
    ani = ani
    budi = budi
    admin = admin
    till1 = till1
    till2 = till2
    office = office
    cash = cash
    qris = qris
    None = None
    Desks = {till1, till2, office}
    User <- MCUser
    Cashiers = {ani, budi}
    Admin = admin
    Cash = {cash}
    Online = {qris}
    Due <- MCDue
    Opening = 1
    Counts = {1}
    MaxTries = 2
    MaxShifts = 2
    MaxRefunds = 1
    MaxOverrides = 1
    MaxInFlight = 2
SYMMETRY TillSymmetry
SPECIFICATION Spec
INVARIANTS DrawerInv RefundLeavesItsDrawer ExpectedIsTheDrawerLessRefunded CloseMissesNoCash
PROPERTIES MoneyStaysInItsDrawer EveryShiftChangeHasACause
CHECK_DEADLOCK FALSE
