-------------------------- MODULE ProcessContract --------------------------
(***************************************************************************)
(* What the session manager relies on in a Process (process.go), as its    *)
(* forwarding goroutine sees it: chunks of output in order, then the end   *)
(* of the data, then one exit.  Output may be missing at the end only when *)
(* the session was removed or the process was closed before it was drained.*)
(***************************************************************************)
EXTENDS Naturals

CONSTANT MaxOutput   \* bound: units of output the process writes

VARIABLES
    written,    \* units of output the process has written
    received,   \* units the forwarding goroutine has received
    phase,      \* "data", then "exit" (data at its end), then "end" (exit read)
    waived      \* removed, or closed before the output was drained

vars == <<written, received, phase, waived>>

Init ==
    /\ written = 0
    /\ received = 0
    /\ phase = "data"
    /\ waived = FALSE

\* A process whose output has been drained writes no more.
Write ==
    /\ phase = "data" \/ waived
    /\ written' \in written + 1 .. MaxOutput
    /\ UNCHANGED <<received, phase, waived>>

Receive ==
    /\ phase = "data"
    /\ received' \in received + 1 .. written
    /\ UNCHANGED <<written, phase, waived>>

\* The data ends: everything has been received, unless that was waived.
EndOfData ==
    /\ phase = "data"
    /\ received = written \/ waived
    /\ phase' = "exit"
    /\ received' \in received .. written
    /\ UNCHANGED <<written, waived>>

Exit ==
    /\ phase = "exit"
    /\ phase' = "end"
    /\ UNCHANGED <<written, received, waived>>

Waive ==
    /\ waived' = TRUE
    /\ UNCHANGED <<written, received, phase>>

Next == Write \/ Receive \/ EndOfData \/ Exit \/ Waive

Spec == Init /\ [][Next]_vars
=============================================================================
