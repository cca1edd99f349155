\* One download with one retry, two calls and a shutdown, of a file that is
\* replaced once; its user asks for a range.  Progress is not of interest.
SPECIFICATION ManagedFairSpec
CONSTANTS
    Jobs = {j1}
    Calls = {c1, c2}
    Retries <- OneRetry
    MaxConcurrent = 1
    Limits = {}
    QueueCap = 1
    Urls = {u1}
    NoUrl = NoUrl
    NoTag = NoTag
    Revisions = 2
    Size <- MCSize
    Tag <- MCTag
    Chunk = 2
    Checkpoint = 2
    Sample = 1
    First = 1
CHECK_DEADLOCK FALSE
INVARIANTS
    StoppedOnlyIfTold
    CleanedUp
    DeliveredOnlyIfOk
    PausedKeepsMost
PROPERTIES
    PausedFileUntouched
    ImplementsScheduler
