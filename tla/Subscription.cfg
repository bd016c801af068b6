SPECIFICATION SubscriptionFairSpec
CONSTANTS
    c1 = c1
    c2 = c2
    m1 = m1
    m2 = m2
    Consumers = {c1}
    Messages = {m1, m2}
    Prefetch = 2
    MaxCopies = 3
    MaxFaults = 1
    Members = {c1, c2}
    MaxOffset = 3
    MaxGroupFaults = 2
INVARIANT TypeOK
INVARIANT NothingLost
INVARIANT RepeatsAreAbsorbed
INVARIANT OnlyFailuresAreSkipped
PROPERTY InPartitionOrder
PROPERTY QueueDrains
PROPERTY PartitionMovesOn
