SPECIFICATION Spec
CONSTANTS
    u1 = u1
    u2 = u2
    u3 = u3
    Users = {u1, u2}
    CallIds = {c1, c2}
    Requests = {r1, r2}
    Blocked <- NoBlocks
    MaxSockets = 1
    MaxFaults = 0
    Nil = Nil
SYMMETRY Symmetry
CONSTRAINT NoSelfCalls
INVARIANTS
    TypeOK
    SingleClaim
    OutcomeMatchesAnswer
    RingingIsOwned
    BusyNamesOwnCall
PROPERTIES
    LifecycleSpec
