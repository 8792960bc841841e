-------------------------- MODULE MCSessionManager --------------------------
(***************************************************************************)
(* Small instances of SessionManager for TLC.                              *)
(***************************************************************************)
EXTENDS SessionManager, TLC

\* Connections are interchangeable and so are session ids: neither the
\* specification nor its invariants name one.
Symmetry == Permutations(Conn) \cup Permutations(Session)
=============================================================================
