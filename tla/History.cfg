\* Histories that hold no chunk, part of the largest, and just the largest.
SPECIFICATION Spec
CONSTANTS
    UTFMax = 3
    ReadSize = 2
    Limits = {1, 4, 5}
    MaxInput = 6
INVARIANTS
    NoRuneSplit
    NothingLost
    ReplaySound
