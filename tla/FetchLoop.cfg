SPECIFICATION FairSpec
CONSTANTS
    Items = {a}
    Workers = {w1}
    Handlers = {h1}
    QuietHours <- Windows
    Poll = 1
    Interval = 1
    Jitter = 0
    BackoffBase = 1
    BackoffMax = 2
    RetryAfter = 2
    LockTTL = 1
    PauseAfterFailures = 2
    Hours = 3
    MaxActions = 1
    None = None
PROPERTIES WaitKept  SuccessStands FetchedAgain ImplementsWorkSet
