SPECIFICATION Spec
CONSTANTS
    acc = acc
    tw = tw
    author = author
    row1 = row1
    row2 = row2
    Items = {1}
    Accounts = {acc}
    Requests <- LikeAndReply
    Handlers = {h1, h2}
    Workers = {w1, w2}
    None = None
    NoToken = NoToken
    Orphan = Orphan
    Deletable = {1}
    LockMayExpire <- LongPlaces
    OneAtATime = FALSE
    AccountMayVanish = TRUE
    MaxCrashes = 1
INVARIANTS CallsPaid NoOrphan 
PROPERTIES ImplementsWorkSet
CHECK_DEADLOCK FALSE
SYMMETRY Symmetry
