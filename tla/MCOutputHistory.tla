--------------------------- MODULE MCOutputHistory --------------------------
(* Model checking of OutputHistory.                                         *)
EXTENDS OutputHistory
=============================================================================
