\* cancel waits for ever when its download was never seen by the scheduler.
SPECIFICATION FairSpec
CONSTANTS
    j1 = j1
    j2 = j2
    c1 = c1
    c2 = c2
    c3 = c3
    Jobs = {j1}
    Calls = {c1}
    Retries <- TwoRetries
    MaxConcurrent = 1
    Limits = {2}
    QueueCap = 2
CHECK_DEADLOCK FALSE
PROPERTY CancelReturns
