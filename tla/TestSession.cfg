SPECIFICATION Spec
CONSTANTS
    None = None
    passed = passed
    failed = failed
    Tests = {t1}
    Durations = {1}
    Verdicts <- MCVerdicts
    CallTimeout = 1
    MonitorTimeout = 5
    ReadTimeout = 1
    ReadTime = 2
    PollInterval = 1
    EnterLimit = 1
    SleepGrace = 2
    ConnectTime = 1
    RetryWait = 1
    MaxAttempts = 2
    MaxCalls = 3
    MaxLines = 1
    MaxDrops = 1
    MaxFlush = 1
INVARIANTS
    TypeOK
    LogFaithful
    VerdictOfThisRun
    NoSleepMissed
    ReconnectsIfPortOpens
    OverrunBounded
PROPERTIES
    CallsReturn
CHECK_DEADLOCK FALSE
