SPECIFICATION RecoverySpec
CONSTANTS
    MaxFailures = 3
    MaxRevision = 4
INVARIANTS
    WriteCovered
    NoBlindWrite
    LatchMatchesJournal
PROPERTIES
    RevisionTracksState
    LatchReleasedByRecovery
    RecoveryConverges
