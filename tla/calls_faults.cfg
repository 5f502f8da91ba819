SPECIFICATION FairSpec
CONSTANTS
    u1 = u1
    u2 = u2
    u3 = u3
    Users = {u1, u2, u3}
    CallIds = {c1}
    Requests = {r1, r2}
    Blocked <- NoBlocks
    MaxSockets = 1
    MaxFaults = 1
    Nil = Nil
CONSTRAINT OneCall
INVARIANTS
    BusyNamesOwnCall
PROPERTIES
    OrphansStayUnanswered
    RingStopsForBoth
