SPECIFICATION FairSpec
CONSTANTS
    u1 = u1
    w1 = w1
    w2 = w2
    j1 = j1
    j2 = j2
    None = None
    DefaultMedia = DefaultMedia
    Uri = {u1}
    Secure = {u1}
    Audio = {u1}
    Worker = {w1}
    Job = {j1}
    RetryLimit = 2
    MaxVersion = 1
    Linked = {}
    FetchError = {}
    Requested <- Thumbnails
    CronActive = TRUE
    Expiry = FALSE
    Faults = FALSE
PROPERTY JobsEnd
INVARIANTS AckMeansThumbnails

\* A thumbnail task can wait forever for ffmpeg, which is a stop the code really makes.
CHECK_DEADLOCK FALSE
