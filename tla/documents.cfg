SPECIFICATION Spec
CONSTANTS
    e1 = e1
    e2 = e2
    Users = {u1, u2}
    Sender = u1
    Emojis = {e1, e2}
    Targets = {c1, c2}
    Requests = {r1, r2}
    MaxOps = 4
    MaxFaults = 1
    Nil = Nil
SYMMETRY Symmetric
CHECK_DEADLOCK FALSE
INVARIANTS
    TypeOK
    OneReactionEach
    ShownIsStored
    CopiesAnnounced
PROPERTIES
    OnlyLateEditsRestore
    OthersUntouched
    LifeSpec
