\* A client attaches to a session that has just exited.
SPECIFICATION FairSpec
CONSTANTS
    Conn = {c1, c2}
    Session = {s1}
    NoConn = NoConn
    NoSession = NoSession
    DetachedTTL = TRUE
    MaxMessages = 1
    MaxOutput = 0
PROPERTY ExitRemoves
