\* Two tabs, three sessions, a history of two, four events, failures or foreign writes;
\* what others store may have one entry more than the limit.
SPECIFICATION Spec
CONSTANTS
    Tab = {t1, t2}
    Session = {a, b, c}
    None = None
    MaxEntries = 2
    MaxLive = 2
    MaxForeign = 3
    MaxActs = 4
CHECK_DEADLOCK FALSE
SYMMETRY Interchangeable
INVARIANTS ReloadResumes MenuSound
