SPECIFICATION FairSpec
CONSTANTS
    me = me
    hot = hot
    plain = plain
    old = old
    said = said
    echo = echo
    Workers = {w1}
    Handlers = {}
    Accounts = {me}
    SourcesOf <- OneSource
    Tweets = {hot, plain, old, said, echo}
    Item <- Items
    Feeds <- Singles
    IncludeReplies = TRUE
    IncludeRetweets = FALSE
    Limit = 1
    Answers <- SomeAnswers
    Hopeless = {said}
    Absent = Absent
    Words = Words
    None = None
    MaxRows = 3
    MaxLogs = 2
PROPERTIES EventuallyScored
