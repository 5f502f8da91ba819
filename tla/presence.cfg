SPECIFICATION FairSpec
CONSTANTS
    u1 = u1
    Users = {u1}
    Sockets = {s1, s2}
    UserOf <- OneUser
    MaxMoves = 1
    MaxFaults = 1
CHECK_DEADLOCK FALSE
INVARIANTS
    TypeOK
    GoneIsOffline
    RoomFollowsRow
    ReachedOrPushed
PROPERTIES
    EntriesFade
