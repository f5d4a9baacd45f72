SPECIFICATION Spec
CONSTANTS
    me = me
    hot = hot
    plain = plain
    old = old
    said = said
    echo = echo
    Workers = {w1}
    Handlers = {h1}
    Accounts = {me}
    SourcesOf <- TwoSources
    Tweets = {hot, plain, old, said, echo}
    Item <- Items
    Feeds <- Shows
    IncludeReplies = FALSE
    IncludeRetweets = FALSE
    Limit = 1
    Answers <- AllAnswers
    Hopeless = {}
    Absent = Absent
    Words = Words
    None = None
    MaxRows = 2
    MaxLogs = 1
INVARIANTS CollectsNewest  DecidedIsActedOn RowsAgree ReusedIsTold 
