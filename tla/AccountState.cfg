SPECIFICATION FairSpec
CONSTANTS
    Handlers = {h1}
    Workers = {w1}
    Api = Api
    PauseAfterFailures = 1
    NoRow = NoRow
    Operations = {"edit", "reload", "disable", "enable", "delete", "validate"}
    NoOne = NoOne
    Files = {"absent", "enabled", "disabled"}
    LockMayExpire = FALSE
INVARIANTS TypeOK StatusMatchesReason StreakCounts
PROPERTIES AdminDisableHolds DisableHeals ConfigurationApplied
