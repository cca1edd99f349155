\* Two downloads, one of them with a retry, and two calls.  No symmetry.
SPECIFICATION FairSpec
CONSTANTS
    j1 = j1
    j2 = j2
    c1 = c1
    c2 = c2
    c3 = c3
    Jobs = {j1, j2}
    Calls = {c1, c2}
    Retries <- FirstRetries
    MaxConcurrent = 1
    Limits = {2}
    QueueCap = 2
CHECK_DEADLOCK FALSE
PROPERTIES
    CancelResolves
    AcksResolve
    ShutdownReturns
    RetryEnds
