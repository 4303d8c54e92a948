CONSTANTS
    u1 = u1
    u2 = u2
    r1 = r1
    r2 = r2
    Users = {u1, u2}
    Replicas = {r1, r2}
    NoReplica = NoReplica
    Sessions <- TwoReplicas
    MaxFaults = 1
    MaxMessages = 3
SPECIFICATION FairSpec
PROPERTIES
    InOrder
    EventuallyReceived
