SPECIFICATION Spec
CONSTANTS
    Radix = 128
    VarintMaxBytes = 2
    Lead = {195}
    Cont = {129}
    Alphabet <- MCAlphabet
    MaxBytes = 6
    MaxChunk = 3
INVARIANTS
    TypeOK
    ParsesStream
    LinesOfStream
    BuffersBelongToMessage
    PayloadAsAnnounced
PROPERTIES
    FeedAdvances
