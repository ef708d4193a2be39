SPECIFICATION Spec
CONSTANTS
    None = None
    HalfPeriod = 2
    Names = {gps, imu}
    Cores = {c0, c1}
    MaxSkew = 1
    MaxGap = 1
    MaxPeriod = 2
    MaxEvents = 4
SYMMETRY Symmetry
INVARIANTS
    TypeOK
    AdjustedTimeTrue
    SpansMatchLog
CHECK_DEADLOCK FALSE
