SPECIFICATION FairSpec
CONSTANTS
    u1 = u1
    u2 = u2
    u3 = u3
    Users = {u1, u2}
    Requests = {r1, r2}
    Blocked <- NoBlocks
    Muted = {}
    MaxMsgs = 1
    MaxMoves = 2
    MaxFaults = 0
    Nil = Nil
PROPERTIES
    HiddenChatComesBack
