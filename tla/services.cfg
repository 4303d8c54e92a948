CONSTANTS
    MaxEvents = 2
    LastDay = 1
    MaxOutages = 1
    Edits = {e1, e2}
    MaxVersions = 2
    Clients = {k1, k2}
    SendBuffer = 2
    Checks = {c1, c2}
    Texts <- Text
    TextScore <- NoScore
    RuleScores = {45}
    WarnScore = 40
    BlockScore = 70
    WindowSecond = 2
    Grace = 1
    MaxMessages = 1
    MuteSecond = 2
    RepeatSecond = 5
    Patience = 1
    MaxTime = 3
    MaxChecks = 3
    MaxFailures = 1
    Requests = {q1, q2}
    Rate = 1
    Burst = 2
    Expiration = 3
    Delay = 1
    LastSecond = 4
    MaxRequests = 7
    u1 = u1
    u2 = u2
    Users = {u1, u2}
    Calls <- ThreeCalls
    None = None
    MaxFaults = 2
SPECIFICATION MCSpec
CHECK_DEADLOCK FALSE
INVARIANTS
    NoSendOnClosed
    WindowHolds
    RateHolds
    OneChannel
    NothingHalfMade
PROPERTIES
    EventuallySent
    HandlerReturns
