SPECIFICATION PipelineFairSpec
CONSTANTS
    r1 = r1
    r2 = r2
    Relays = {r1, r2}
    BatchSize = 1
    MaxAttempts = 2
    MaxMessages = 1
    Messages = {1}
    MaxRelayFaults = 1
    c1 = c1
    Consumers = {c1}
    Prefetch = 2
    MaxCopies = 3
    MaxFaults = 1
INVARIANT CheckoutSurvives
PROPERTY OrderedInTheEnd
