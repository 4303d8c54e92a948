CONSTANTS
    u1 = u1
    u2 = u2
    Users = {u1, u2}
    Calls <- ThreeCalls
    None = None
    MaxFaults = 1
SPECIFICATION Spec
INVARIANT ReservedIsUsable
CHECK_DEADLOCK FALSE
