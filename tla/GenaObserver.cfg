SPECIFICATION GSpec
CONSTANTS
    None = None
    Sids = {s1, s2}
    MaxSeq = 2
    MaxCallbacks = 2
    MaxQueue = 2
    MaxAir = 2
INVARIANTS
    ConfirmedTrue
    OrderlyAccepted
CHECK_DEADLOCK FALSE
