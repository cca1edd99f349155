\* A pause that meets a broken connection and a failed checkpoint.
SPECIFICATION ManagedSpec
CONSTANTS
    Jobs = {j1}
    Calls = {c1, c2}
    Retries <- OneRetry
    MaxConcurrent = 1
    Limits = {}
    QueueCap = 1
    Urls = {u1}
    NoUrl = NoUrl
    NoTag = NoTag
    Revisions = 2
    Size <- MCSize
    Tag <- MCTag
    Chunk = 2
    Checkpoint = 2
    Sample = 1
    First = 0
CHECK_DEADLOCK FALSE
PROPERTY PausePreserves
