SPECIFICATION Spec
CONSTANTS
    None = None
    Sizes = {1, None}
    Timeouts = {0, 2}
    Chunks = {0, 2}
    OpenTimeout = 1
    ReconnectTimeout = 2
    ReconnectInterval = 1
    MaxConnects = 2
    MaxSends = 2
    MaxWrites = 2
    MaxDrops = 2
INVARIANTS
    TransportTypeOK
    HeardAsWritten
    ReadOverrunBounded
PROPERTIES
    ImplementsStream
    RawOnlyIfLostAgain
    ReadsReturn
CHECK_DEADLOCK FALSE
