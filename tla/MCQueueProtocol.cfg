SPECIFICATION FairSpec
CONSTANTS
    Items = {i1, i2}
    Clients = {c1, c2, c3}
    NoItem = NoItem
    MaxCrashes = 1
INVARIANTS NoDuplicates NothingLost
PROPERTIES Delivered ImplementsWorkSet
