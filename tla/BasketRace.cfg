SPECIFICATION Spec
CONSTANTS
    Requests = {r1, r2}
    r1 = r1
    r2 = r2
    MaxVersion = 2
    MaxFaults = 0
INVARIANT CheckoutLosesNothing
