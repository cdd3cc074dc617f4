SPECIFICATION DeadLetterSpec
CONSTANTS
    Workers = {w1, w2}
    TaskIds = {t1, t2, t3}
    RetryLimit <- MCRetryLimit
    RecordedMax <- MCRecordedMax
    LastRetry = 2
    MaxFaults = 1
    NoMsg = NoMsg
    Operators = {o1, o2}
    MaxReplays = 1
    MaxRequests <- MCMaxRequests
    MaxCommands <- MCMaxCommands
INVARIANTS
    AttemptTrail
    TerminalRowsClose
    SuccessIsServed
    ReplayLimit
PROPERTIES
    ImplementsJob
    EventuallySettled
CHECK_DEADLOCK FALSE
