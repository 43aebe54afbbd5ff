SPECIFICATION TSpec
CONSTANTS
    MaxCalls = 3
    FrameLength <- StartAndStop
    ServerMtus = {22, 23, 201, 202, 517}
    MAX_PACKETS_PER_ACTION = 3
    LegacyTicks = 2
    MaxChunks = 2
    MAX_HEADER_BYTES = 2
    MAX_BODY_BYTES = 1
    MaxMessage = 10
    MaxRevision = 1
    GroupReplies <- SmallReplies
    Spellings <- OddSpelling
    Addresses = {a1, a2}
    NoAddress = NoAddress
    MaxEvents = 3
INVARIANTS
    FramingAgrees
    StatusReadable
    FailureTrue
    FreshOnly
    NothingMissed
PROPERTIES
    OneShotKept
CHECK_DEADLOCK FALSE
