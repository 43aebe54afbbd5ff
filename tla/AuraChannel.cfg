SPECIFICATION HLive
\* units of five seconds
CONSTANTS
    StableTimeout = 7
    InspectTimeout = 4
    ConnectTimeout = 4
    FddfTimeout = 6
    ReleaseTimeout = 1
    ScanWindow = 6
    DeviceTimeout = 3
    SetupTimeout = 3
    RetryDelay = 3
    ScanAttempts = 3
    TotalTimeout = 30
    MaxStale = 2
    MaxInbox = 2
    MaxReceived = 2
INVARIANTS
    DeadlineKept
    ReleaseInTime
    FallbackReleased
    HeldReported
    AcceptedTrue
PROPERTY AcquisitionEnds
CHECK_DEADLOCK FALSE
