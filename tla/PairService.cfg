\* Counters saturate at once: the composition is about roles and latches.
SPECIFICATION SRecoverySpec
CONSTANTS
    MaxFailures = 2
    MaxRevision = 0
INVARIANTS
    ManagedTrue
    HalfSwitchedPending
    ReceiverNested
PROPERTIES
    ImplementsController
    HalfSwitchedHeals
