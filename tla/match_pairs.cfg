CONSTANTS
    u1 = u1
    u2 = u2
    u3 = u3
    r1 = r1
    r2 = r2
    Users = {u1, u2, u3}
    Replicas = {r1, r2}
    NoPeer = NoPeer
    Sessions <- TwoTabs
    Rejected <- OnePairRejected
    MaxConnects = 4
    MaxFaults = 1
SPECIFICATION FairSpec
INVARIANTS
    OnlyTheTwo
    ReceivedOnce
PROPERTY ListedAreMatched
CHECK_DEADLOCK FALSE
