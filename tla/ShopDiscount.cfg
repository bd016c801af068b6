SPECIFICATION Spec
CONSTANTS
    shirt = shirt
    mug = mug
    tab1 = tab1
    Products = {shirt, mug}
    Prices = {4}
    Amounts = {1}
    Pages = {tab1}
    Editors = {}
    MaxChanges = 1
    MaxStores = 2
    MaxCards = 0
INVARIANT DiscountedOnce
CHECK_DEADLOCK FALSE
