SPECIFICATION Spec
CONSTANTS
    like = like
    follow = follow
    Kinds = {like, follow}
    Workers = {w1, w2}
    Limit <- Limits
    MinInterval = 1
    MaxJitter = 1
    StartHour = 1
    EndHour = 2
    TicksPerHour = 1
    HoursPerDay = 3
    NoToken = NoToken
    Orphan = Orphan
    NoKind = NoKind
    LockMayExpire = FALSE
    MaxTime = 5
    MaxUnrecorded = 1
    MaxCrashes = 1
INVARIANTS TypeOK DailyLimit Spaced EffectsBudgeted DisableStops
CHECK_DEADLOCK FALSE
SYMMETRY Symmetry
