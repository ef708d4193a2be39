SPECIFICATION Spec
CONSTANTS
    None = None
    backtrace = backtrace
    sleep_lines = sleep_lines
    memory_lines = memory_lines
    Tests = {t1, t2}
    NoTest = NoTest
    Messages <- MCMessages
    Alphabets <- MCAlphabets
    Routes <- MCRoutes
    Accepts <- MCAccepts
    SilentTimeout = 2
    LineLimits = {0, 1, 3}
    MaxFed = 4
    MaxMem = 3
INVARIANT
    PortBackIsWaking
