SPECIFICATION HSpec
CONSTANTS
    Clients = {c1, c2}
    Invocations = {i1, i2}
    Modules = {policy, discover}
SYMMETRY Symmetric
INVARIANTS
    GuardHolds
    HostOnRecord
