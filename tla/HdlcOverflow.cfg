SPECIFICATION Spec
CONSTANTS
    Crc <- MCCrc
    BufSize = 3
    Pieces = {}
    Payloads <- MCPayloads
    NoiseBytes = {}
    MaxWritten = 0
    MaxFrames = 1
    MaxNoise = 0
PROPERTY
    OverflowDiscarded
CHECK_DEADLOCK FALSE
