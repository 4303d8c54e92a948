CONSTANTS
    NoOwner = NoOwner
    Workers = {w1, w2}
    Intents = {1}
    Lease = 1
    MaxAttempts = 2
    BaseDelay = 1
    MaxDelay = 1
    BatchSize = 1
    DayLength = 2
    ScanDays = 1
    MaxTime = 3
SPECIFICATION Spec
INVARIANTS
    LeaseExclusive
    AcknowledgedIsIndexed
PROPERTY ImplementsDelivery
SYMMETRY Symmetry
