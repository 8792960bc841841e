---------------------------- MODULE MCConnection ----------------------------
(* Model checking of Connection.  Sockets are interchangeable.               *)
EXTENDS Connection, TLC

Sockets == Permutations(Conn)
=============================================================================
