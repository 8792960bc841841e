\* A kept session and a new one, the current socket and an old one.
SPECIFICATION Spec
CONSTANTS
    Session = {a, b}
    Conn = {c1, c2}
    None = None
    Kept = a
    OutboxLimit = 2
    ChunkBytes = {1, 2}
    Dimension = {1, 3}
    DimensionMax = 2
    MaxActs = 4
    MaxQueue = 2
CHECK_DEADLOCK FALSE
SYMMETRY Sockets
INVARIANTS InputInOrder NoCrossTalk ReadyIsSynced VerdictShown
