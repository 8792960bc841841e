---------------------------- MODULE MCTransport -----------------------------
(* Model checking of Transport.  Sockets are interchangeable, but the run    *)
(* checks liveness, so no symmetry is declared.                              *)
EXTENDS Transport
=============================================================================
