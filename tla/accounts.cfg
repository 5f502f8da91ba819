SPECIFICATION Spec
CONSTANTS
    n1 = n1
    n2 = n2
    p1 = p1
    p2 = p2
    Names = {n1, n2}
    Emails = {e1}
    PushTokens = {p1, p2}
    Requests = {r1, r2, r3}
    MaxTokens = 4
    MaxOps = 4
    MaxFaults = 1
    Nil = Nil
SYMMETRY Symmetric
CHECK_DEADLOCK FALSE
INVARIANTS
    TypeOK
    NamesUnique
    TokensBalance
    DeviceKnown
PROPERTIES
    OverIsOver
    SessionSpec
