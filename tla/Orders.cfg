SPECIFICATION QuerySpec
CONSTANTS
    u1 = u1
    shirt = shirt
    Requests = {u1}
    Products = {shirt}
    Prices = {14}
    MaxOrders = 3
    MaxChanges = 3
    PageSize = 1
    Mine = {1, 2}
INVARIANT WholeOrders
INVARIANT EventsTellTheState
INVARIANT FinallyGone
INVARIANT ViewsAreWhole
INVARIANT RepeatsNeedInserts
INVARIANT MissesNeedDeletes
CHECK_DEADLOCK FALSE
