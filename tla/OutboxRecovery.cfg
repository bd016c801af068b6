SPECIFICATION OperatedSpec
CONSTANTS
    Workers = {w1}
    w1 = w1
    BatchSize = 1
    MaxAttempts = 2
    UnhealthyAfter = 2
    MaxLsn = 3
    MaxPerTx = 1
    MaxMessages = 3
    MaxFaults = 1
INVARIANT RecoveryIsComplete
