SPECIFICATION Spec
CONSTANTS
    u1 = u1
    w1 = w1
    w2 = w2
    j1 = j1
    j2 = j2
    None = None
    DefaultMedia = DefaultMedia
    Uri = {}
    Secure = {}
    Audio = {}
    Worker = {w1}
    Job = {j1, j2}
    RetryLimit = 2
    MaxVersion = 2
    Linked = {1, 2}
    FetchError = {"retryable", "failed"}
    Requested <- NoRequests
    CronActive = TRUE
    Expiry = TRUE
    Faults = FALSE
SYMMETRY Symmetry
INVARIANTS AckMeansStored
