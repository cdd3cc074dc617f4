SPECIFICATION FairSpec
CONSTANTS
    Workers = {w1}
    TaskIds = {t1}
    RetryLimit <- MCRetryLimit
    RecordedMax <- MCRecordedMax
    LastRetry = 5
    MaxFaults = 0
    NoMsg = NoMsg
INVARIANTS
    TerminalIsFinal
CHECK_DEADLOCK FALSE
