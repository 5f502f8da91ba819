SPECIFICATION Spec
CONSTANTS
    u1 = u1
    u2 = u2
    u3 = u3
    Users = {u1, u2, u3}
    Requests = {r1, r2}
    Blocked <- OneBlock
    Muted = {u3}
    MaxMsgs = 1
    MaxMoves = 1
    MaxFaults = 1
    Nil = Nil
SYMMETRY SymmetricRequests
INVARIANTS
    ShownIsFannedOut
