\* Two downloads with two retries each, three client calls, one slot or two.
SPECIFICATION Spec
CONSTANTS
    j1 = j1
    j2 = j2
    c1 = c1
    c2 = c2
    c3 = c3
    Jobs = {j1, j2}
    Calls = {c1, c2, c3}
    Retries <- TwoRetries
    MaxConcurrent = 1
    Limits = {2}
    QueueCap = 2
SYMMETRY Symmetry
CHECK_DEADLOCK FALSE
INVARIANTS
    TypeOK
    OneWorkerPerLiveJob
    ReadyHoldsQueuedJobs
    OneTimerPerRetry
    AcksAccountedFor
    DownloadsAccountedFor
    CancelledOnlyIfAsked
    RetriesUsedUp
    NoIdleSlot
PROPERTIES
    PauseAckAfterWorker
    RetryWaitsForItsTimer
    CancellationWins
    KeepsContract
