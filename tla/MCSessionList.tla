--------------------------- MODULE MCSessionList ----------------------------
(* Model checking of SessionList.  Requests are interchangeable, but the run *)
(* checks liveness, so no symmetry is declared.                              *)
EXTENDS SessionList
=============================================================================
