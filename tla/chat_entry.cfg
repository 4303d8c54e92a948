SPECIFICATION MCSpec
CONSTANTS
    u1 = u1
    u2 = u2
    r1 = r1
    r2 = r2
    Users = {u1, u2}
    Replicas = {r1, r2}
    NoReplica = NoReplica
    Sessions <- TwoUsers
    MaxFaults = 2
    Peers = {ann, bob}
    Creator = ann
    NoPeer = NoPeer
    Tickets = {t1}
    Visits = {v1, v2}
    MaxVisits = 2
    MaxChanges = 2
    MaxMisreads = 1
    None = None
    People = {kim, lee}
    Calls = {c1, c2}
    MaxCalls = 4
    MaxFailing = 1
SYMMETRY Symmetry
CHECK_DEADLOCK FALSE
INVARIANTS
    RegistriesAgree
    TicketOnce
    SpokenIsAllowed
    OneAnswer
    FriendsAgreed
    AcceptedIsMutual
    AskedIsNotified
PROPERTY BlockedCannotAsk
