SPECIFICATION OLive
CONSTANTS
    Clients = {c1, c2}
    Invocations = {i1, i2}
INVARIANTS
    LaunchGapClosed
    RustOwnsAlone
PROPERTY ClaimReleased
