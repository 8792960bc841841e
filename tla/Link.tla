-------------------------------- MODULE Link --------------------------------
(***************************************************************************)
(* What the transport promises to its users: one current socket at most,   *)
(* the status that goes with it, and no socket of a page that is gone.      *)
(* Transport implements it; Connection is written on top of it.             *)
(***************************************************************************)

VARIABLES
    link,     \* the current socket: "none", "connecting", "open", "closing"
    status,   \* TransportState.status
    page      \* "booting", "active", "gone"

linkVars == <<link, status, page>>

Init == link = "none" /\ status = "connecting" /\ page = "booting"

\* A socket is created, in place of the one there was.
Dial ==
    /\ page # "gone"
    /\ page' = "active"
    /\ link' = "connecting"
    /\ status' \in {"connecting", "reconnecting"}

\* The endpoint yields no socket; one that is closing may stay the current one.
Refused ==
    /\ page # "gone"
    /\ page' = "active"
    /\ link' \in {"none", "closing"}
    /\ link = "none" => link' = "none"
    /\ status' = "error"

Opened ==
    /\ link = "connecting"
    /\ link' = "open"
    /\ status' = "connected"
    /\ UNCHANGED page

\* The socket refuses to send.
SendFails ==
    /\ link = "open"
    /\ status' = "error"
    /\ UNCHANGED <<link, page>>

\* The current socket is being closed: nothing is sent or delivered any more.
HangUp ==
    /\ link \in {"connecting", "open"}
    /\ link' = "closing"
    /\ UNCHANGED <<status, page>>

\* The close event of the current socket.
Lost ==
    /\ link # "none"
    /\ link' = "none"
    /\ status' \in {"reconnecting", "error", "closed"}
    /\ UNCHANGED page

Leave ==
    /\ page = "active"
    /\ page' = "gone"
    /\ \/ link \in {"connecting", "open"} /\ link' = "closing" /\ UNCHANGED status
       \/ link \in {"none", "closing"} /\ link' = "none" /\ status' = "closed"

Next == Dial \/ Refused \/ Opened \/ SendFails \/ HangUp \/ Lost \/ Leave

Spec == Init /\ [][Next]_linkVars
=============================================================================
