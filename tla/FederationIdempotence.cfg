SPECIFICATION FairSpec
CONSTANTS
    Workers = {w1, w2}
    MaxRetries = 1
    SlowRetries = {}
    MaxFaults = 0
PROPERTIES
    IdempotentAfterSuccess
CHECK_DEADLOCK FALSE
