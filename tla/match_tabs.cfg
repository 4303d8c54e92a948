CONSTANTS
    u1 = u1
    u2 = u2
    u3 = u3
    r1 = r1
    r2 = r2
    Users = {u1, u2, u3}
    Replicas = {r1, r2}
    NoPeer = NoPeer
    Sessions <- TwoTabs
    Rejected <- NoneRejected
    MaxConnects = 3
    MaxFaults = 0
SPECIFICATION FairSpec
PROPERTY NobodyWaitsTogether
CHECK_DEADLOCK FALSE
