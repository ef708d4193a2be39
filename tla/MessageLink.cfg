SPECIFICATION Spec
CONSTANTS
    Radix = 4
    VarintMaxBytes = 5
    Lead = {}
    Cont = {}
    TextBufSize = 2
    BinaryBufSize = 3
    Lines <- MCLines
    Payloads <- MCPayloads
    MaxSent = 2
    MaxRestarts = 1
INVARIANTS
    TypeOK
    InSync
    BufferedAsParsed
PROPERTIES
    ImplementsChannel
