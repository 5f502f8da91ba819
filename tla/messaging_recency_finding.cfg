SPECIFICATION Spec
CONSTANTS
    u1 = u1
    u2 = u2
    u3 = u3
    Users = {u1, u2}
    Requests = {r1, r2}
    Blocked <- NoBlocks
    Muted = {}
    MaxMsgs = 2
    MaxMoves = 0
    MaxFaults = 0
    Nil = Nil
SYMMETRY SymmetricAll
INVARIANTS
    RecencyIsNewest
