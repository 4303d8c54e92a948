CONSTANTS
    ann = ann
    bob = bob
    cyd = cyd
    Users = {ann, bob, cyd}
    Owner = ann
    First = {ann, bob}
    Calls <- RoomCalls
    MaxFaults = 1
    Founder = ann
    Guests = {bob}
    Others = {cyd}
    Visits = {v1, v2}
    MaxVisits = 3
    MaxSlips = 1
    Notices = {n1, n2}
    Readers = {r1, r2}
    Page = 1
    LastMoment = 2
    Losses = 1
    Replicas = {s1, s2}
    Channels = {a}
    Senders = {k1, k2}
    PartPage = 1
    MaxFiles = 2
    MaxParts = 2
    MaxPuts = 2
    MaxErrors = 1
    People = {ann, bob}
    Asks = {a1, a2}
    Bodies <- Profiles
    Ratings = {5}
    MaxAsks = 3
    MaxTroubles = 1
    Signed = {g1, g2}
    Processes = {s1}
    Handlers = {h1, h2}
    Lifetime = 4
    Leeway = 1
    Skews <- Clocks
    Timeout = 1
    LastTick = 6
    MaxArrivals = 3
    MaxCrashes = 1
    Rpcs = {q1, q2, q3}
    MaxTries = 2
    Trip = 2
    MaxOpenings = 2
    Citizens = {ann, bob}
    Judges = {ann}
    Cases = {r1}
    RuleIds = {k1}
    Desks = {h1, h2}
    MaxDesks = 5
    MaxSnags = 1
SPECIFICATION MCSpec
INVARIANTS
    DenialIsFresh
    MemberIsListed
    CountSettles
    ReadStaysRead
    AnsweredIsStored
    NeverOffered
    AcceptedOnce
    RanAsAnswered
    FreeWasFree
CHECK_DEADLOCK FALSE
