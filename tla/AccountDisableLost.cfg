SPECIFICATION Spec
CONSTANTS
    Handlers = {h1}
    Workers = {w1}
    Api = Api
    PauseAfterFailures = 2
    NoRow = NoRow
    Operations = {"disable"}
    NoOne = NoOne
    Files = {"enabled", "disabled"}
    LockMayExpire = FALSE

PROPERTIES ReloadPreservesDisable

