\* One request under way and two overtaken ones; the circuit opens after two failures.
SPECIFICATION FairSpec
CONSTANTS
    Request = {r1, r2, r3}
    None = None
    FailureLimit = 2
INVARIANTS NoStaleList PollingAlive NoticeTimed
PROPERTY RefreshServed
