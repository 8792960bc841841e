-------------------------- MODULE MCStoredSessions --------------------------
(* Model checking of StoredSessions.  Tabs are interchangeable, and so are   *)
(* sessions.                                                                 *)
EXTENDS StoredSessions, TLC

Interchangeable == Permutations(Tab) \cup Permutations(Session)
=============================================================================
