SPECIFICATION Spec
CONSTANTS
    a = a
    b = b
    Callers = {a, b}
    r1 = r1
    r2 = r2
    Slots = {r1, r2}
    Limit = 2
    Window = 2
    MaxNow = 5
INVARIANT TypeOK
INVARIANT RefusedOnlyOverLimit
INVARIANT BurstBounded
INVARIANT MapIsSwept
CHECK_DEADLOCK FALSE
SYMMETRY Symmetry
