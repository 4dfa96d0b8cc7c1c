CONSTANTS
    u = u  w = w  s = s
    Files = {1, 2, 3}
    Urls = {u, w}
    Sources = {s}
    UrlOf <- TwoUrls
    SourceOf <- OneSource
    Limit = 2
    MaxRetry = 2
    PushAttempts = 3
    MaxEdits = 2
    MaxFaults = 1
SPECIFICATION Spec
INVARIANTS
    NothingLost
    QuarantineIsEarned
PROPERTIES
    EverySettled
CHECK_DEADLOCK FALSE
