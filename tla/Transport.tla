----------------------------- MODULE Transport ------------------------------
(***************************************************************************)
(* The web client's connection: TransportLifecycleService with its socket  *)
(* session, heartbeat monitor, close plan and state machine, driven by the *)
(* effects and commands of useConnectionCoordinator.                       *)
(*                                                                         *)
(* A step is one task of the browser's event loop: a socket event, a timer *)
(* or a command runs to its end before the next.  A socket's readyState    *)
(* changes in the task that dispatches the event, and a socket that is not *)
(* open delivers no message.  An error event is part of the task of the    *)
(* close event that follows it.  Failure notices are left out.             *)
(***************************************************************************)
EXTENDS Naturals

CONSTANTS
    Socket,         \* sockets; a closed one is used again, as if it were new
    None,
    MaxAttempts,    \* TERMINAL_RECONNECT_POLICY.MAX_ATTEMPTS (8)
    MaxCommands     \* bound: commands of the user and changes of the endpoint

ASSUME TransportConstants ==
    /\ None \notin Socket
    /\ MaxAttempts \in Nat
    /\ MaxCommands \in Nat

VARIABLES
    ws,               \* readyState of every socket
    current,          \* TransportSocketSession.socket
    closeIntent,      \* TransportSocketSession.closeIntent
    reconnectTimer,   \* is TransportLifecycleService.reconnectTimer pending ?
    status,           \* TransportState.status
    reconnectAttempt, \* TransportState.reconnectAttempt
    pingTimer,        \* is the heartbeat interval running ?
    pongTimeout,      \* "none", "armed", or "fired" and not forgotten
    pingSentAt,       \* not null: the socket the ping was sent on
    page,             \* "booting", "active" (the connect effect runs), "gone"
    commands,         \* commands left
    \* the server's side and an observation
    pinged,           \* sockets on which a ping waits for its pong
    dead,             \* sockets whose server has gone silent
    automatic         \* automatic attempts since the last open or command

socketVars == <<ws, current, closeIntent>>
heartbeatVars == <<pingTimer, pongTimeout, pingSentAt>>
peerVars == <<pinged, dead>>
vars == <<socketVars, reconnectTimer, status, reconnectAttempt, heartbeatVars, page,
          commands, peerVars, automatic>>

TypeOK ==
    /\ ws \in [Socket -> {"connecting", "open", "closing", "closed"}]
    /\ current \in Socket \cup {None}
    /\ closeIntent \in {"normal", "manual", "fresh", "dispose"}
    /\ reconnectTimer \in BOOLEAN
    /\ status \in {"connecting", "reconnecting", "connected", "closed", "error"}
    /\ reconnectAttempt \in 0 .. MaxAttempts
    /\ pingTimer \in BOOLEAN
    /\ pongTimeout \in {"none", "armed", "fired"}
    /\ pingSentAt \in Socket \cup {None}
    /\ page \in {"booting", "active", "gone"}
    /\ commands \in 0 .. MaxCommands
    /\ pinged \subseteq Socket
    /\ dead \subseteq Socket
    /\ automatic \in Nat

Init ==
    /\ ws = [s \in Socket |-> "closed"]
    /\ current = None
    /\ closeIntent = "normal"
    /\ reconnectTimer = FALSE
    /\ status = "connecting"
    /\ reconnectAttempt = 0
    /\ pingTimer = FALSE
    /\ pongTimeout = "none"
    /\ pingSentAt = None
    /\ page = "booting"
    /\ commands = MaxCommands
    /\ pinged = {}
    /\ dead = {}
    /\ automatic = 0

-----------------------------------------------------------------------------
(* What the handlers below are made of.                                    *)

\* hasActiveConnection, for sockets in states w of which cur is the current one.
Active(w, cur) == cur # None /\ w[cur] \in {"connecting", "open"}

\* createSocket and attach: a new socket, in place of the current one.
NewSocket(w) ==
    /\ \E s \in Socket \ {pingSentAt} :
          /\ w[s] = "closed"
          /\ ws' = [w EXCEPT ![s] = "connecting"]
          /\ current' = s
          /\ pinged' = pinged \ {s}
          /\ dead' = dead \ {s}
    /\ closeIntent' = "normal"
    /\ status' \in {"connecting", "reconnecting"}

\* createSocket finds the endpoint missing or invalid: the failure is reported and
\* the socket session stays as it is.
NoSocket(w, cur, intent) ==
    /\ ws' = w /\ current' = cur /\ closeIntent' = intent
    /\ status' = "error"
    /\ UNCHANGED peerVars

\* connect, in a task that has made w of the sockets, cur of the current one and
\* intent of the close intent.  It does nothing if there is an active connection.
Connect(w, cur, intent) ==
    \/ /\ Active(w, cur)
       /\ ws' = w /\ current' = cur /\ closeIntent' = intent
       /\ UNCHANGED <<status, peerVars>>
    \/ ~Active(w, cur) /\ NewSocket(w)
    \/ ~Active(w, cur) /\ NoSocket(w, cur, intent)

\* heartbeatMonitor.stop.
StopHeartbeat == pingTimer' = FALSE /\ pongTimeout' = "none" /\ UNCHANGED pingSentAt

\* clearReconnectTimer and clearLifecycleTimers.
ClearTimers == StopHeartbeat /\ reconnectTimer' = FALSE

\* closeActive: close the current socket for a reason.
Closing == [ws EXCEPT ![current] = "closing"]

CloseFor(intent) ==
    /\ Active(ws, current)
    /\ ws' = Closing
    /\ closeIntent' = intent
    /\ UNCHANGED <<current, peerVars>>

-----------------------------------------------------------------------------
(* Effects and commands.                                                   *)

\* The terminal is ready: the effect connects.
Mount ==
    /\ page = "booting"
    /\ page' = "active"
    /\ Connect(ws, current, closeIntent)
    /\ UNCHANGED <<reconnectTimer, reconnectAttempt, heartbeatVars, commands, automatic>>

\* dispose, when the page goes away.  (Mutant: a socket that is already closing is
\* waited for.)
UnmountWaiting ==
    /\ page = "active"
    /\ page' = "gone"
    /\ ClearTimers
    /\ \/ CloseFor("dispose") /\ UNCHANGED status
       \/ ~Active(ws, current) /\ UNCHANGED <<ws, current, closeIntent, status, peerVars>>
    /\ UNCHANGED <<reconnectAttempt, commands, automatic>>

Unmount ==
    /\ page = "active"
    /\ page' = "gone"
    /\ ClearTimers
    /\ \/ CloseFor("dispose") /\ UNCHANGED status
       \/ /\ ~Active(ws, current)
          /\ current' = None
          /\ closeIntent' = "normal"
          /\ status' = "closed"
          /\ UNCHANGED <<ws, peerVars>>
    /\ UNCHANGED <<reconnectAttempt, commands, automatic>>

\* What executeLifecycleCommand does first, for a user who finds the controls
\* enabled (the terminal is ready).
Command ==
    /\ page = "active"
    /\ commands > 0
    /\ commands' = commands - 1
    /\ ClearTimers

ClearReconnectAttempts == reconnectAttempt' = 0 /\ automatic' = 0

\* The connect effect runs again: dispose and connect in one task.
Remount ==
    /\ Command
    /\ IF Active(ws, current)
       THEN Connect(Closing, current, "dispose")
       ELSE Connect(ws, None, "normal")
    /\ UNCHANGED <<page, reconnectAttempt, automatic>>

\* reconnectNow and scheduleFreshConnection: reconnect once the socket has closed,
\* at once if there is none or it is closing already.
Reconnect(intent) ==
    /\ Command
    /\ ClearReconnectAttempts
    /\ \/ CloseFor(intent) /\ UNCHANGED status
       \/ ~Active(ws, current) /\ Connect(ws, current, closeIntent)
    /\ UNCHANGED page

\* reconnectWithEndpointChange does not wait for the old socket.
\* (Mutant: it forgets to close it.)
SwapWithoutClose == Connect(ws, None, "normal")
Swap == Connect(IF Active(ws, current) THEN Closing ELSE ws, None, "normal")

EndpointChange ==
    /\ Command
    /\ ClearReconnectAttempts
    /\ Swap
    /\ UNCHANGED page

-----------------------------------------------------------------------------
(* Socket events.  Those of a socket that is not current are ignored.       *)

Opened(s) ==
    /\ ws[s] = "connecting"
    /\ ws' = [ws EXCEPT ![s] = "open"]
    /\ IF s = current
       THEN /\ pingTimer' = TRUE
            /\ pongTimeout' = "none"
            /\ status' = "connected"
            /\ reconnectAttempt' = 0
            /\ automatic' = 0
       ELSE UNCHANGED <<pingTimer, pongTimeout, status, reconnectAttempt, automatic>>
    /\ UNCHANGED <<current, closeIntent, pingSentAt, reconnectTimer, page, commands, peerVars>>

\* Codes of a close event: a normal end and a connection that was lost; which of
\* them isRecoverableTransportClose finds worth another attempt.
CloseCode == {1000, 1006}
IsRecoverable(code) == code \notin (1000 .. 1003) \cup (1007 .. 1011)

\* resolveTransportClosePlan: automatic recovery goes on.
MayRetry == reconnectAttempt < MaxAttempts

\* nextAttempt.  (Mutant: the attempt is not counted.)
NextAttemptSame == reconnectAttempt
NextAttempt == reconnectAttempt + 1

\* scheduleReconnect.  (Mutant: the old timer is cleared after the new one is set.)
ScheduleThenClear == reconnectTimer' = FALSE
ScheduleReconnect == reconnectTimer' = TRUE

\* The current socket is released and the close plan executed.
ClosePlan(s, code) ==
    LET w == [ws EXCEPT ![s] = "closed"]
    IN  \/ /\ closeIntent \in {"manual", "fresh"}
           /\ Connect(w, None, "normal")
           /\ UNCHANGED <<reconnectAttempt, reconnectTimer>>
        \/ /\ closeIntent \in {"normal", "dispose"}
           /\ ws' = w /\ current' = None /\ closeIntent' = "normal"
           /\ UNCHANGED peerVars
           /\ IF closeIntent = "normal" /\ IsRecoverable(code) /\ MayRetry
              THEN /\ status' = "reconnecting"
                   /\ reconnectAttempt' = NextAttempt
                   /\ ScheduleReconnect
              ELSE /\ status' = IF closeIntent = "dispose" THEN "closed" ELSE "error"
                   /\ UNCHANGED <<reconnectAttempt, reconnectTimer>>

\* handleSocketClose stops the heartbeat.  (Mutant: it leaves it running.)
HandleSocketCloseOnly == UNCHANGED heartbeatVars
HandleSocketClose == StopHeartbeat

Closed(s) ==
    /\ ws[s] # "closed"
    /\ IF s = current
       THEN /\ HandleSocketClose
            /\ \E code \in CloseCode : ClosePlan(s, code)
       ELSE /\ ws' = [ws EXCEPT ![s] = "closed"]
            /\ UNCHANGED <<current, closeIntent, heartbeatVars, status, reconnectAttempt,
                           reconnectTimer, peerVars>>
    /\ UNCHANGED <<page, commands, automatic>>

\* A pong is delivered: markPong.
Pong(s) ==
    /\ s \in pinged
    /\ s \notin dead
    /\ ws[s] = "open"
    /\ pinged' = pinged \ {s}
    /\ IF s = current
       THEN pingSentAt' = None /\ pongTimeout' = "none"
       ELSE UNCHANGED <<pingSentAt, pongTimeout>>
    /\ UNCHANGED <<socketVars, pingTimer, reconnectTimer, status, reconnectAttempt, page,
                   commands, dead, automatic>>

\* sendPayload, when the socket refuses to send: the failure is reported, the socket
\* stays.
SendFails ==
    /\ current # None /\ ws[current] = "open"
    /\ status' = "error"
    /\ UNCHANGED <<socketVars, heartbeatVars, reconnectTimer, reconnectAttempt, page,
                   commands, peerVars, automatic>>

\* The server, or the network on the way to it, falls silent.
Silent(s) ==
    /\ ws[s] = "open"
    /\ s \notin dead
    /\ dead' = dead \cup {s}
    /\ UNCHANGED <<socketVars, heartbeatVars, reconnectTimer, status, reconnectAttempt, page,
                   commands, pinged, automatic>>

-----------------------------------------------------------------------------
(* Timers.                                                                 *)

\* The interval of the heartbeat: a ping, unless a timeout is on record.
Ping ==
    /\ pingTimer
    /\ pongTimeout = "none"
    /\ pongTimeout' = "armed"
    /\ pingSentAt' = current
    /\ pinged' = IF current # None /\ ws[current] = "open" THEN pinged \cup {current} ELSE pinged
    /\ UNCHANGED <<socketVars, pingTimer, reconnectTimer, status, reconnectAttempt, page,
                   commands, dead, automatic>>

\* No pong in time: the current socket is closed.  The handle of the timeout stays
\* on record.  (Mutant: the failure is reported and nothing is closed.)
PongTimeoutReports ==
    /\ pongTimeout = "armed"
    /\ pongTimeout' = "fired"
    /\ UNCHANGED <<socketVars, peerVars, pingTimer, pingSentAt, reconnectTimer, status,
                   reconnectAttempt, page, commands, automatic>>

PongTimeout ==
    /\ pongTimeout = "armed"
    /\ pongTimeout' = "fired"
    /\ \/ CloseFor("normal")
       \/ ~Active(ws, current) /\ UNCHANGED <<socketVars, peerVars>>
    /\ UNCHANGED <<pingTimer, pingSentAt, reconnectTimer, status, reconnectAttempt, page,
                   commands, automatic>>

\* scheduleReconnect's callback.  (Mutant: it returns early.)
ReconnectTimerReturns == reconnectTimer /\ UNCHANGED vars

ReconnectTimer ==
    /\ reconnectTimer
    /\ reconnectTimer' = FALSE
    /\ Connect(ws, current, closeIntent)
    /\ automatic' = IF current' = current THEN automatic ELSE automatic + 1
    /\ UNCHANGED <<reconnectAttempt, heartbeatVars, page, commands>>

-----------------------------------------------------------------------------
Effects == Mount \/ Unmount \/ Remount \/ EndpointChange
Commands == \E intent \in {"manual", "fresh"} : Reconnect(intent)
SocketEvent ==
    \/ \E s \in Socket : Opened(s) \/ Closed(s) \/ Pong(s) \/ Silent(s)
    \/ SendFails
Timers == Ping \/ PongTimeout \/ ReconnectTimer

\* The page is gone and its sockets are closed.
Terminated == page = "gone" /\ (\A s \in Socket : ws[s] = "closed") /\ UNCHANGED vars

Next == Effects \/ Commands \/ SocketEvent \/ Timers \/ Terminated

Spec == Init /\ [][Next]_vars

-----------------------------------------------------------------------------
(* Safety properties.                                                      *)

\* Reconnects, endpoint changes and remounts leave no connection behind: a socket
\* that is connecting or open is the current one.  Two open sockets would be two
\* clients of the session.
NoOrphan == \A s \in Socket : ws[s] \in {"connecting", "open"} => s = current

\* The status the user sees is backed by something: a connection attempt, a timer,
\* or a close event to come; never a "reconnecting" that nothing will end.
StatusBacked ==
    page = "active" =>
        /\ status \in {"connecting", "reconnecting"} =>
              reconnectTimer \/ (current # None /\ ws[current] # "closed")
        /\ status = "connected" => current # None /\ ws[current] \in {"open", "closing"}

\* A pong timeout closes the socket that was pinged and no other, and a pong is
\* measured against the ping it answers, although stop does not forget pingSentAt.
HeartbeatOfCurrent ==
    /\ pongTimeout = "armed" => current # None /\ pingSentAt = current
    /\ \A s \in pinged : s = current /\ ws[s] = "open" => pingSentAt = s

\* What the users of the transport rely on: whatever commands, timers and socket
\* events overlap, the current socket and the status only change together, in the
\* ways Link allows (lifecycle service, state machine and close plan); and a page that
\* is gone opens nothing and leaves no socket that it has not closed.
L == INSTANCE Link WITH link <- IF current = None THEN "none" ELSE ws[current]
ImplementsLink == L!Spec

\* Docs: "Automatic recovery stops after eight failed attempts".
AttemptsBounded == automatic <= MaxAttempts

-----------------------------------------------------------------------------
(* Liveness.  Timers fire; a connection attempt ends and a closing handshake *)
(* ends, as the browser limits both.                                        *)

FairSpec ==
    /\ Spec
    /\ WF_vars(Ping) /\ WF_vars(PongTimeout) /\ WF_vars(ReconnectTimer)
    /\ \A s \in Socket :
          /\ WF_vars(ws[s] = "connecting" /\ (Opened(s) \/ Closed(s)))
          /\ WF_vars(ws[s] = "closing" /\ Closed(s))

\* A connection whose server has fallen silent is given up (docs: "Missing pong for
\* 12s triggers close code 4103").
SilenceDetected == \A s \in Socket : (ws[s] = "open" /\ s \in dead) ~> ws[s] # "open"

\* Recovery ends: connected, or given up, or the page is gone.
RecoveryEnds ==
    status = "reconnecting" ~> status \in {"connected", "error", "closed"} \/ page = "gone"
=============================================================================
