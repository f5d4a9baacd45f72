SPECIFICATION FairSpec
CONSTANTS
    acc = acc
    tw = tw
    author = author
    row1 = row1
    row2 = row2
    Items = {1}
    Accounts = {acc}
    Requests <- LikeAndReply
    Handlers = {h1, h2}
    Workers = {w1, w2}
    None = None
    NoToken = NoToken
    Orphan = Orphan
    Deletable = {}
    LockMayExpire <- LongPlaces
    OneAtATime = TRUE
    AccountMayVanish = FALSE
    MaxCrashes = 1
INVARIANTS AtMostOnce RefusedNeverCalled
PROPERTIES TerminalIsFinal ApprovedIsDecided LearningClosed
CHECK_DEADLOCK FALSE
