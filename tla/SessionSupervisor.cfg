SPECIFICATION SLive
CONSTANT MaxLeaving = 2
INVARIANTS
    ReadyReleasedUnlessForgotten
    RolesOnRecord
    LinkedTrue
PROPERTY RestartNormalizes
