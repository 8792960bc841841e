\* Progress when every process reads its input.
SPECIFICATION ReadingSpec
CONSTANTS
    Conn = {c1, c2}
    Session = {s1}
    NoConn = NoConn
    NoSession = NoSession
    DetachedTTL = TRUE
    MaxMessages = 2
    MaxOutput = 0
PROPERTIES DetachedExpires RemovedIsReaped DroppedDetaches
