\* Shutdown while a cleanup is under way.
SPECIFICATION Spec
CONSTANTS
    Conn = {c1}
    Session = {s1}
    NoConn = NoConn
    NoSession = NoSession
    DetachedTTL = TRUE
    MaxMessages = 1
    MaxOutput = 0
INVARIANT ShutdownEndsAll
