\* Two sessions, no detached TTL, and a shutdown.
SPECIFICATION Spec
CONSTANTS
    Conn = {c1, c2}
    Session = {s1, s2}
    NoConn = NoConn
    NoSession = NoSession
    DetachedTTL = FALSE
    MaxMessages = 2
    MaxOutput = 1
SYMMETRY Symmetry
INVARIANTS WriterExclusion ClosedIsRemoved ShutdownCloses
