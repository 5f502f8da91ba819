SPECIFICATION Spec
CONSTANTS
    u1 = u1
    u2 = u2
    u3 = u3
    Users = {u1, u2, u3}
    Pair <- TwoUsers
    Requests = {r1, r2}
    MaxOps = 3
    MaxFaults = 0
    Nil = Nil
SYMMETRY Symmetric
CHECK_DEADLOCK FALSE
INVARIANTS
    OwnerStays
