SPECIFICATION Spec
CONSTANTS
    c1 = c1
    c2 = c2
    c3 = c3
    ann = ann
    ann1 = ann1
    h = h
    h1 = h1
    h2 = h2
    h3 = h3
    g = g
    None = None
    Calls = {c1, c2, c3}
    Jobs <- MCJobs
    Users <- MCUsers
    Handles <- MCHandles
    Subjects = {g}
    Lag = TRUE
    MaxId = 3
    MaxAttempts = 2
    MaxFaults = 2
    HandleOf <- MCHandleOf
    NameOf <- MCNameOf
SYMMETRY Symmetry
CHECK_DEADLOCK FALSE
INVARIANTS
    KeysLeadHome
    ClaimsAreUsed
    AnsweredIsFound
PROPERTY ImplementsRegistry
