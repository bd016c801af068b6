SPECIFICATION Spec
CONSTANTS
    shirt = shirt
    mug = mug
    tab1 = tab1
    tab2 = tab2
    editor = editor
    Products = {shirt, mug}
    Prices = {2}
    Amounts = {1}
    Pages = {tab1, tab2}
    Editors = {editor}
    MaxChanges = 2
    MaxStores = 2
    MaxCards = 1
SYMMETRY ShopSymmetry
INVARIANT TypeOK
INVARIANT PricedAsShown
INVARIANT OnlyFreeIsRejected
INVARIANT PaidByCard
INVARIANT GoneForGood
PROPERTY NothingDropsOut
CHECK_DEADLOCK FALSE
