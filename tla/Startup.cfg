\* Two tabs, two tokens, and every kind of setting.
SPECIFICATION Spec
CONSTANTS
    Tab = {t1, t2}
    Token = {k1, k2}
    None = None
    Page = "page"
    Setting <- Addresses
    MaxActs = 4
CHECK_DEADLOCK FALSE
SYMMETRY Symmetry
INVARIANTS AccessKept EndpointsAgree
