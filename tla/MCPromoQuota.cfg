SPECIFICATION Spec
CONSTANTS
    Slots = {s1, s2, s3}
    Customers = {c1, c2}
    MaxUsage = 2
    PerCustomerLimit = 1
    Kind = "PERCENT"
    Value = 50
    MinOrder = 2
    MaxDiscount = 3
    Subtotals = {9}
    Taxed = TRUE
    MaxOrders = 7
    MaxClaims = 2
SYMMETRY PromoSymmetry
INVARIANTS
    OverrunIsBounded
    UsesNameTheirOrders
    DiscountIsFair
