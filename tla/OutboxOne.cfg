SPECIFICATION FairSpec
CONSTANTS
    Workers = {w1}
    w1 = w1
    BatchSize = 1
    MaxAttempts = 2
    UnhealthyAfter = 2
    MaxLsn = 3
    MaxPerTx = 2
    MaxMessages = 3
    MaxFaults = 1
INVARIANT TypeOK
INVARIANT CheckpointCovers
INVARIANT AttemptsBounded
PROPERTY InOrder
PROPERTY StreamSpec
PROPERTY Delivery
PROPERTY StuckIsReported
