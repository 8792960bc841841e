\* Two clients come and go while a session produces output.
SPECIFICATION Spec
CONSTANTS
    Conn = {c1, c2}
    Session = {s1}
    NoConn = NoConn
    NoSession = NoSession
    DetachedTTL = TRUE
    MaxMessages = 2
    MaxOutput = 2
SYMMETRY Symmetry
INVARIANTS TypeOK RoleAgreement CleanupArmed StreamOrder StreamComplete
PROPERTIES OnlyControllerSteers NoPrematureRemoval ImplementsLifecycle
