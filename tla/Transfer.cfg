\* One URL whose file is replaced twice; crashes and losses of power.
SPECIFICATION Spec
CONSTANTS
    Urls = {u1}
    NoUrl = NoUrl
    NoTag = NoTag
    Revisions = 3
    Size <- MCSize
    Tag <- MCTag
    Chunk = 2
    Checkpoint = 2
    Sample = 2
    First = 0
INVARIANTS
    TypeOK
    DestWhole
    ResumeSafe
    BoundedLoss
    NeverExtends
    ProgressTrue
PROPERTIES
    CheckpointDurable
