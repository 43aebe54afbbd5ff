SPECIFICATION WLive
CONSTANTS
    Commands = {c1}
    Tabs = {t1}
    MaxRevision = 2
    MaxBoots = 2
    MaxQueue = 2
INVARIANTS
    AnswerTrue
    MutationsCurrent
PROPERTIES
    SignalEnds
CHECK_DEADLOCK FALSE
