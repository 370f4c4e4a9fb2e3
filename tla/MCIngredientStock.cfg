CONSTANTS
    rice = rice
    milk = milk
    d1 = d1
    d2 = d2
    o1 = o1
    None = None
    Slots = {s1, s2}
    Ingredients = {rice, milk}
    Purchases = {d1, d2}
    Orders = {o1}
    Scale = 2
    Opening <- MCOpening
    Lines <- MCLines
    FirstLines <- MCFirstLines
    Needs <- MCNeeds
    Units <- MCUnits
    Targets = {1}
    Costs = {2}
    MaxRefunds = 2
    MaxCounts = 1
SYMMETRY SlotSymmetry
SPECIFICATION Spec
INVARIANTS ReceivedAsOneDraft RestoredWithinUsed AverageIsWithinPrices
PROPERTY IngredientAccounts
CHECK_DEADLOCK FALSE
