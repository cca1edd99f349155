\* Two downloads with 65 retries each.
SPECIFICATION Spec
CONSTANTS
    Downloads = {d1, d2}
    Retries = 65
CHECK_DEADLOCK FALSE
INVARIANT RetriesHonoured
