\* Two downloads of two bytes each, with overwrite off.
SPECIFICATION Spec
CONSTANTS
    Runs = {r1, r2}
    Size = 2
    Overwrite = FALSE
    None = None
CHECK_DEADLOCK FALSE
PROPERTY WritesTargetPart
