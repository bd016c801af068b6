SPECIFICATION FairSpec
CONSTANTS
    r1 = r1
    Relays = {r1}
    BatchSize = 2
    MaxAttempts = 2
    MaxMessages = 3
    MaxFaults = 1
INVARIANT NothingLost
INVARIANT AttemptsBounded
PROPERTY OnlyRefusedAreOvertaken
PROPERTY Delivery
