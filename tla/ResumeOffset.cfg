\* Up to three ranges over bytes 0 to 4.
SPECIFICATION Spec
CONSTANTS
    MaxRanges = 3
    MaxByte = 4
CHECK_DEADLOCK FALSE
INVARIANTS
    Covered
    WholePrefix
    RoundTrip
PROPERTY Terminates
