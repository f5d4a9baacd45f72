SPECIFICATION Spec
CONSTANTS
    acc = acc
    tw = tw
    author = author
    row1 = row1
    row2 = row2
    Items = {1}
    Accounts = {acc}
    Requests <- LikeAndReply
    Handlers = {h1, h2}
    Workers = {w1}
    None = None
    NoToken = NoToken
    Orphan = Orphan
    Deletable = {}
    LockMayExpire <- LongPlaces
    OneAtATime = FALSE
    AccountMayVanish = FALSE
    MaxCrashes = 0

PROPERTIES ApprovedFromPending
CHECK_DEADLOCK FALSE
