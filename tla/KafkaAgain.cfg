SPECIFICATION Spec
CONSTANTS
    c1 = c1
    Members = {c1}
    MaxOffset = 2
    MaxGroupFaults = 1
INVARIANT FailedIsReadAgain
