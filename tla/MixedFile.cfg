\* Two URLs downloaded to one destination, one after another.
SPECIFICATION Spec
CONSTANTS
    Urls = {u1, u2}
    NoUrl = NoUrl
    NoTag = NoTag
    Revisions = 2
    Size <- MCSizeTwo
    Tag <- MCTagTwo
    Chunk = 2
    Checkpoint = 2
    Sample = 2
    First = 0
INVARIANT DestWhole
