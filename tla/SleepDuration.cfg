SPECIFICATION Spec
CONSTANTS
    None = None
    passed = passed
    failed = failed
    Tests = {t1}
    Durations = {2}
    Verdicts <- MCVerdicts
    CallTimeout = 1
    MonitorTimeout = 6
    ReadTimeout = 1
    ReadTime = 1
    PollInterval = 1
    EnterLimit = 2
    SleepGrace = 3
    ConnectTime = 1
    RetryWait = 1
    MaxAttempts = 2
    MaxCalls = 2
    MaxLines = 2
    MaxDrops = 0
    MaxFlush = 0
INVARIANT
    SleepActualIsGoneTime
CHECK_DEADLOCK FALSE
