\* Two chunks fit into the channel and three units into the terminal.
SPECIFICATION FairSpec
CONSTANTS
    Capacity = 2
    TtyBuffer = 3
    MaxOutput = 5
INVARIANTS
    NoSurvivors
PROPERTIES
    ImplementsContract
    ExitAnnounced
    CloseEndsAll
