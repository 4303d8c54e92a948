CONSTANTS
    NoOwner = NoOwner
    Workers = {w1}
    Intents = {1, 2}
    Lease = 1
    MaxAttempts = 2
    BaseDelay = 1
    MaxDelay = 1
    BatchSize = 1
    DayLength = 4
    ScanDays = 0
    MaxTime = 3
SPECIFICATION SmoothSpec
PROPERTY EventuallySettled
