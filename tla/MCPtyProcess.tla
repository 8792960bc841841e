---------------------------- MODULE MCPtyProcess ----------------------------
(* Model checking of PtyProcess; the constants are in the configurations.   *)
EXTENDS PtyProcess
=============================================================================
