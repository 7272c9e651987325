SPECIFICATION FairSpec
CONSTANTS
    u1 = u1
    w1 = w1
    w2 = w2
    j1 = j1
    j2 = j2
    None = None
    DefaultMedia = DefaultMedia
    Uri = {u1}
    Secure = {u1}
    Audio = {}
    Worker = {w1}
    Job = {j1, j2}
    RetryLimit = 1
    MaxVersion = 1
    Linked = {}
    FetchError = {}
    Requested <- NoRequests
    CronActive = TRUE
    Expiry = FALSE
    Faults = FALSE
PROPERTY MissingMediaIsFetched
