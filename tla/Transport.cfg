\* One current socket and two that are still closing, two attempts, three commands.
SPECIFICATION FairSpec
CONSTANTS
    Socket = {s1, s2, s3}
    None = None
    MaxAttempts = 2
    MaxCommands = 3
INVARIANTS
    NoOrphan
    StatusBacked
    HeartbeatOfCurrent
    AttemptsBounded
PROPERTIES
    ImplementsLink
    SilenceDetected
    RecoveryEnds
