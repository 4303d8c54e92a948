CONSTANTS
    NoOwner = NoOwner
    Workers = {w1, w2}
    Intents = {1, 2}
    Lease = 1
    MaxAttempts = 2
    BaseDelay = 1
    MaxDelay = 1
    BatchSize = 4
    DayLength = 2
    ScanDays = 1
    MaxTime = 3
SPECIFICATION PromptSpec
PROPERTY EventuallySettled
