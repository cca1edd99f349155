\* A file of four bytes that never changes, asked for from its second byte on.
SPECIFICATION Spec
CONSTANTS
    Urls = {u1}
    NoUrl = NoUrl
    NoTag = NoTag
    Revisions = 1
    Size <- MCSizeFour
    Tag <- MCTagOne
    Chunk = 2
    Checkpoint = 2
    Sample = 2
    First = 1
INVARIANT RangeKept
