SPECIFICATION Spec
CONSTANTS
    MaxFailures = 3
    MaxRevision = 4
INVARIANTS
    ClearedOnlyAfterAccepted
