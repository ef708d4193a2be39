SPECIFICATION FramingsSpec
CONSTANTS
    BufSize = 4
    FullBlock = 3
    Pieces <- MCCobsPieces
    Payloads <- MCCobsPayloads
    NoiseBytes <- MCCobsNoise
    HdlcPieces <- MCHdlcPieces
    HdlcPayloads <- MCHdlcPayloads
    HdlcNoise <- MCHdlcNoise
    SlipPieces <- MCSlipPieces
    SlipPayloads <- MCSlipPayloads
    SlipNoise <- MCSlipNoise
    MaxWritten = 6
    MaxFrames = 2
    MaxNoise = 2
INVARIANTS
    FramingsTypeOK
    FramingsWholeOrDropped
    HdlcOnlySentDelivered
    FramingsCarry
CHECK_DEADLOCK FALSE
