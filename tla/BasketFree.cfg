SPECIFICATION Spec
CONSTANTS
    Requests = {r1, r2, r3}
    r1 = r1
    r2 = r2
    r3 = r3
    MaxVersion = 3
    MaxFaults = 1
INVARIANT AnnouncedIsGone
INVARIANT OnlyFilledAnnounced
INVARIANT OrdersNeverOutnumberBaskets
INVARIANT AcknowledgedIsOrdered
SYMMETRY RequestSymmetry
