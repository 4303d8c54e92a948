SPECIFICATION Spec
CONSTANTS
    ann = ann
    bob = bob
    c1 = c1
    c2 = c2
    hi = hi
    ho = ho
    None = None
    Empty = Empty
    Users = {ann, bob}
    Calls = {c1, c2}
    Texts = {hi, ho}
    MaxMessages = 2
    Stored = 1
    MaxId = 3
    MaxCalls = 3
    MaxFaults = 1
SYMMETRY Symmetry
CHECK_DEADLOCK FALSE
INVARIANTS
    ReadCovers
    DeletedIsGone
    LiveAgrees
