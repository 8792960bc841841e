-------------------------- MODULE TransportProofs ---------------------------
(***************************************************************************)
(* Proofs about Transport, for any number of sockets, attempts and         *)
(* commands: its safety properties, and that it implements Link.           *)
(***************************************************************************)
EXTENDS Transport, TLAPS

\* The current socket has not been closed, and nothing happens while the page boots.
\* Once the page is gone, a current socket is one that dispose is closing.
CurrentInv ==
    /\ current # None => ws[current] # "closed"
    /\ page = "booting" => current = None
    /\ page = "gone" /\ current # None => ws[current] = "closing" /\ closeIntent = "dispose"

\* The timers: a reconnect is pending only when there is no socket, a heartbeat runs
\* only on a socket that has opened, and neither runs on a page that is not active.
TimerInv ==
    /\ reconnectTimer => current = None /\ page = "active"
    /\ pingTimer => /\ current # None /\ ws[current] \in {"open", "closing"}
                    /\ page = "active"
    /\ pongTimeout # "none" => pingTimer

\* A socket that is connecting has not been sent a ping.
PingInv == \A s \in pinged : ws[s] # "connecting"

\* Every automatic attempt was counted, the one whose timer is pending in advance.
AttemptInv == (IF reconnectTimer THEN automatic + 1 ELSE automatic) <= reconnectAttempt

TransportInv ==
    /\ TypeOK
    /\ CurrentInv /\ TimerInv /\ PingInv /\ AttemptInv
    /\ NoOrphan /\ StatusBacked /\ HeartbeatOfCurrent

\* The invariant holds initially.
LEMMA TransportInit == Init => TransportInv
<1> SUFFICES ASSUME Init PROVE TransportInv
  OBVIOUS
<1> USE TransportConstants DEF Init
<1>1. TypeOK
  <2>1. reconnectTimer \in BOOLEAN /\ pingTimer \in BOOLEAN
    BY Zenon
  <2>2. 0 \in 0 .. MaxAttempts /\ MaxCommands \in 0 .. MaxCommands
    OBVIOUS
  <2>3. ws \in [Socket -> {"connecting", "open", "closing", "closed"}]
    OBVIOUS
  <2> QED BY <2>1, <2>2, <2>3 DEF TypeOK
<1>2. CurrentInv /\ TimerInv /\ PingInv
  BY DEF CurrentInv, TimerInv, PingInv
<1>3. AttemptInv
  BY DEF AttemptInv
<1>4. NoOrphan /\ StatusBacked /\ HeartbeatOfCurrent
  BY DEF NoOrphan, StatusBacked, HeartbeatOfCurrent
<1> QED BY <1>1, <1>2, <1>3, <1>4 DEF TransportInv

\* The two ways in which a socket session without an active connection goes on: a new
\* socket, or an endpoint that yields none.
LEMMA ConnectIdle ==
    ASSUME NEW w, NEW cur, NEW intent, ~Active(w, cur), Connect(w, cur, intent)
    PROVE  NewSocket(w) \/ NoSocket(w, cur, intent)
BY DEF Connect

\* A new socket leaves the invariant intact in a task that has stopped the heartbeat
\* and whose old socket, if any, is not active any more.
LEMMA NewSocketStep ==
    ASSUME TransportInv,
           NEW w \in [Socket -> {"connecting", "open", "closing", "closed"}],
           \A s \in Socket : w[s] \notin {"connecting", "open"},
           NewSocket(w),
           pingTimer' = FALSE, pongTimeout' = "none", pingSentAt' = pingSentAt,
           page # "gone", page' = "active", reconnectTimer' = FALSE, commands' \in 0 .. MaxCommands,
           automatic' \in Nat, reconnectAttempt' \in 0 .. MaxAttempts,
           automatic' <= reconnectAttempt'
    PROVE  TransportInv' /\ L!Dial
<1>1. PICK s \in Socket \ {pingSentAt} :
          /\ w[s] = "closed"
          /\ ws' = [w EXCEPT ![s] = "connecting"]
          /\ current' = s
          /\ pinged' = pinged \ {s}
          /\ dead' = dead \ {s}
  BY DEF NewSocket
<1>2. closeIntent' = "normal" /\ status' \in {"connecting", "reconnecting"}
  BY DEF NewSocket
<1>3. current' # None /\ ws'[current'] = "connecting"
  BY <1>1, TransportConstants
<1>4. \A t \in Socket : t # s => ws'[t] = w[t]
  BY <1>1
<1>5. TypeOK'
  BY <1>1, <1>2 DEF TransportInv, TypeOK
<1>6. NoOrphan' /\ PingInv'
  BY <1>1, <1>4 DEF NoOrphan, PingInv, TransportInv, TypeOK
<1>7. CurrentInv' /\ TimerInv' /\ StatusBacked' /\ AttemptInv'
  BY <1>2, <1>3 DEF CurrentInv, TimerInv, StatusBacked, AttemptInv
<1>8. HeartbeatOfCurrent'
  BY <1>1, <1>4 DEF HeartbeatOfCurrent
<1>9. L!Dial
  BY <1>2, <1>3 DEF L!Dial
<1> QED BY <1>5, <1>6, <1>7, <1>8, <1>9 DEF TransportInv

\* So does an endpoint that yields no socket.
LEMMA NoSocketStep ==
    ASSUME TransportInv,
           NEW w \in [Socket -> {"connecting", "open", "closing", "closed"}],
           \A s \in Socket : w[s] \notin {"connecting", "open"},
           NEW cur \in Socket \cup {None},
           cur # None => w[cur] = "closing",
           current = None => cur = None,
           NEW intent \in {"normal", "manual", "fresh", "dispose"},
           NoSocket(w, cur, intent),
           pingTimer' = FALSE, pongTimeout' = "none", pingSentAt' = pingSentAt,
           page # "gone", page' = "active", reconnectTimer' = FALSE, commands' \in 0 .. MaxCommands,
           automatic' \in Nat, reconnectAttempt' \in 0 .. MaxAttempts,
           automatic' <= reconnectAttempt'
    PROVE  TransportInv' /\ L!Refused
<1>1. /\ ws' = w /\ current' = cur /\ closeIntent' = intent
      /\ status' = "error"
      /\ pinged' = pinged /\ dead' = dead
  BY DEF NoSocket, peerVars
<1>2. TypeOK'
  BY <1>1 DEF TransportInv, TypeOK
<1>3. NoOrphan' /\ PingInv'
  BY <1>1 DEF NoOrphan, PingInv, TransportInv, TypeOK
<1>4. CurrentInv' /\ TimerInv' /\ StatusBacked' /\ AttemptInv'
  BY <1>1 DEF CurrentInv, TimerInv, StatusBacked, AttemptInv
<1>5. HeartbeatOfCurrent'
  BY <1>1 DEF HeartbeatOfCurrent, TransportInv, TypeOK
<1>6. L!Refused
  BY <1>1 DEF L!Refused, TransportInv, TypeOK
<1> QED BY <1>2, <1>3, <1>4, <1>5, <1>6 DEF TransportInv

\* connect, in a task that has left no active connection and no timer behind.
LEMMA ConnectStep ==
    ASSUME TransportInv,
           NEW w \in [Socket -> {"connecting", "open", "closing", "closed"}],
           \A s \in Socket : w[s] \notin {"connecting", "open"},
           NEW cur \in Socket \cup {None},
           cur # None => w[cur] = "closing",
           current = None => cur = None,
           NEW intent \in {"normal", "manual", "fresh", "dispose"},
           Connect(w, cur, intent),
           pingTimer' = FALSE, pongTimeout' = "none", pingSentAt' = pingSentAt,
           page # "gone", page' = "active", reconnectTimer' = FALSE, commands' \in 0 .. MaxCommands,
           automatic' \in Nat, reconnectAttempt' \in 0 .. MaxAttempts,
           automatic' <= reconnectAttempt'
    PROVE  TransportInv' /\ L!Next
<1>1. ~Active(w, cur)
  BY DEF Active
<1>2. CASE NewSocket(w)
  BY <1>2, NewSocketStep DEF L!Next
<1>3. CASE NoSocket(w, cur, intent)
  BY <1>3, NoSocketStep DEF L!Next
<1> QED BY <1>1, <1>2, <1>3, ConnectIdle

\* What is known of the sockets when there is no active connection, and when the
\* current one is told to close.
LEMMA Sockets ==
    ASSUME TransportInv
    PROVE  /\ ws \in [Socket -> {"connecting", "open", "closing", "closed"}]
           /\ ~Active(ws, current) =>
                 /\ \A s \in Socket : ws[s] \notin {"connecting", "open"}
                 /\ current # None => ws[current] = "closing"
           /\ Active(ws, current) =>
                 /\ current \in Socket
                 /\ Closing \in [Socket -> {"connecting", "open", "closing", "closed"}]
                 /\ Closing[current] = "closing"
                 /\ \A s \in Socket : Closing[s] \notin {"connecting", "open"}
<1> USE DEF TransportInv, TypeOK
<1>1. ~Active(ws, current) =>
          /\ \A s \in Socket : ws[s] \notin {"connecting", "open"}
          /\ current # None => ws[current] = "closing"
  BY TransportConstants DEF NoOrphan, Active, CurrentInv
<1>2. Active(ws, current) =>
          /\ current \in Socket
          /\ Closing \in [Socket -> {"connecting", "open", "closing", "closed"}]
          /\ Closing[current] = "closing"
          /\ \A s \in Socket : Closing[s] \notin {"connecting", "open"}
  BY DEF Active, Closing, NoOrphan
<1> QED BY <1>1, <1>2

\* Closing the current socket keeps what is said of the sockets and the timers.
LEMMA CloseForStep ==
    ASSUME TransportInv, NEW intent \in {"normal", "manual", "fresh", "dispose"},
           CloseFor(intent),
           status' = status, page' \in {"active", "gone"}, page # "gone",
           page' = "gone" => intent = "dispose",
           reconnectTimer' = FALSE,
           \/ pingTimer' = FALSE /\ pongTimeout' = "none"
           \/ pingTimer' = pingTimer /\ pongTimeout' = "fired" /\ pongTimeout = "armed"
              /\ page' = page,
           pingSentAt' = pingSentAt, commands' \in 0 .. MaxCommands,
           automatic' \in Nat, reconnectAttempt' \in 0 .. MaxAttempts,
           automatic' <= reconnectAttempt'
    PROVE  /\ TransportInv'
           /\ page' = page => L!HangUp
           /\ page = "active" /\ page' = "gone" => L!Leave
<1>1. /\ Active(ws, current) /\ current' = current /\ current # None
      /\ ws' = Closing /\ closeIntent' = intent
      /\ pinged' = pinged /\ dead' = dead
  BY DEF CloseFor, peerVars, Active
<1>2. /\ current \in Socket
      /\ ws' \in [Socket -> {"connecting", "open", "closing", "closed"}]
      /\ ws'[current] = "closing"
      /\ \A s \in Socket : ws'[s] \notin {"connecting", "open"}
  BY <1>1, Sockets
<1>3. pingTimer' \in BOOLEAN
  <2>1. pingTimer \in BOOLEAN
    BY DEF TransportInv, TypeOK
  <2> QED BY <2>1, Zenon
<1>4. TypeOK'
  BY <1>1, <1>2, <1>3 DEF TransportInv, TypeOK
<1>5. NoOrphan' /\ PingInv'
  BY <1>1, <1>2, <1>4 DEF NoOrphan, PingInv, TypeOK
<1>6. CurrentInv'
  BY <1>1, <1>2 DEF CurrentInv
<1>7. TimerInv'
  BY <1>1, <1>2 DEF TimerInv, TransportInv
<1>8. StatusBacked'
  BY <1>1, <1>2 DEF StatusBacked
<1>9. AttemptInv'
  BY DEF AttemptInv
<1>10. HeartbeatOfCurrent'
  BY <1>1, <1>2 DEF HeartbeatOfCurrent
<1>11. page' = page => L!HangUp
  BY <1>1, <1>2 DEF L!HangUp, Active
<1>12. page = "active" /\ page' = "gone" => L!Leave
  BY <1>1, <1>2 DEF L!Leave, Active
<1> QED BY <1>4, <1>5, <1>6, <1>7, <1>8, <1>9, <1>10, <1>11, <1>12 DEF TransportInv

-----------------------------------------------------------------------------
(* The actions.  The last part of every conclusion is the step of Link.     *)

\* The first connection.
LEMMA MountStep == TransportInv /\ Mount => TransportInv' /\ L!Next
<1> SUFFICES ASSUME TransportInv, Mount PROVE TransportInv' /\ L!Next
  OBVIOUS
<1>1. /\ page = "booting" /\ page' = "active"
      /\ Connect(ws, current, closeIntent)
      /\ reconnectTimer' = reconnectTimer /\ reconnectAttempt' = reconnectAttempt
      /\ pingTimer' = pingTimer /\ pongTimeout' = pongTimeout /\ pingSentAt' = pingSentAt
      /\ commands' = commands /\ automatic' = automatic
  BY DEF Mount, heartbeatVars
<1>2. current = None /\ ~Active(ws, current)
  BY <1>1 DEF TransportInv, CurrentInv, Active
<1>3. reconnectTimer' = FALSE /\ pingTimer' = FALSE
  <2>1. ~reconnectTimer /\ ~pingTimer /\ reconnectTimer \in BOOLEAN /\ pingTimer \in BOOLEAN
    BY <1>1 DEF TransportInv, TimerInv, TypeOK
  <2> QED BY <2>1, <1>1, Zenon
<1>4. pongTimeout' = "none"
  BY <1>1, <1>3 DEF TransportInv, TimerInv
<1>5. /\ closeIntent \in {"normal", "manual", "fresh", "dispose"} /\ current \in Socket \cup {None}
      /\ commands' \in 0 .. MaxCommands /\ automatic' \in Nat
      /\ reconnectAttempt' \in 0 .. MaxAttempts
  BY <1>1 DEF TransportInv, TypeOK
<1>6. automatic' <= reconnectAttempt'
  BY <1>1, <1>5 DEF TransportInv, AttemptInv
<1>7. page # "gone"
  BY <1>1
<1> QED BY <1>1, <1>2, <1>3, <1>4, <1>5, <1>6, <1>7, Sockets, ConnectStep

\* The page goes away.
LEMMA UnmountStep == TransportInv /\ Unmount => TransportInv' /\ L!Next
<1> SUFFICES ASSUME TransportInv, Unmount PROVE TransportInv' /\ L!Next
  OBVIOUS
<1>1. /\ page = "active" /\ page' = "gone"
      /\ pingTimer' = FALSE /\ pongTimeout' = "none" /\ pingSentAt' = pingSentAt
      /\ reconnectTimer' = FALSE
      /\ commands' = commands /\ automatic' = automatic /\ reconnectAttempt' = reconnectAttempt
  BY DEF Unmount, ClearTimers, StopHeartbeat
<1>2. /\ commands' \in 0 .. MaxCommands /\ automatic' \in Nat
      /\ reconnectAttempt' \in 0 .. MaxAttempts
  BY <1>1 DEF TransportInv, TypeOK
<1>3. automatic' <= reconnectAttempt'
  BY <1>1, <1>2 DEF TransportInv, AttemptInv
<1>4. CASE CloseFor("dispose") /\ status' = status
  BY <1>1, <1>2, <1>3, <1>4, CloseForStep DEF L!Next
<1>5. CASE /\ ~Active(ws, current)
           /\ current' = None
           /\ closeIntent' = "normal"
           /\ status' = "closed"
           /\ ws' = ws /\ pinged' = pinged /\ dead' = dead
  <2>1. TypeOK'
    <3>1. reconnectTimer' \in BOOLEAN /\ pingTimer' \in BOOLEAN
      BY <1>1, Zenon
    <3> QED BY <1>1, <1>2, <1>5, <3>1 DEF TransportInv, TypeOK
  <2>2. NoOrphan' /\ PingInv'
    BY <1>5, Sockets DEF NoOrphan, PingInv, TransportInv
  <2>3. CurrentInv' /\ TimerInv' /\ StatusBacked' /\ AttemptInv'
    BY <1>1, <1>3, <1>5 DEF CurrentInv, TimerInv, StatusBacked, AttemptInv
  <2>4. HeartbeatOfCurrent'
    BY <1>1, <1>5, TransportConstants DEF HeartbeatOfCurrent, TransportInv, TypeOK
  <2>5. L!Leave
    BY <1>1, <1>5, Sockets DEF L!Leave
  <2> QED BY <2>1, <2>2, <2>3, <2>4, <2>5 DEF TransportInv, L!Next
<1> QED BY <1>4, <1>5 DEF Unmount, peerVars

\* What every command does first.
LEMMA CommandFacts ==
    ASSUME TransportInv, Command
    PROVE  /\ page = "active"
           /\ pingTimer' = FALSE /\ pongTimeout' = "none" /\ pingSentAt' = pingSentAt
           /\ reconnectTimer' = FALSE
           /\ commands' \in 0 .. MaxCommands
<1>1. commands' \in 0 .. MaxCommands
  BY TransportConstants DEF TransportInv, TypeOK, Command
<1> QED BY <1>1 DEF Command, ClearTimers, StopHeartbeat

\* The connect effect runs again.
LEMMA RemountStep == TransportInv /\ Remount => TransportInv' /\ L!Next
<1> SUFFICES ASSUME TransportInv, Remount PROVE TransportInv' /\ L!Next
  OBVIOUS
<1>1. /\ Command /\ page' = page /\ reconnectAttempt' = reconnectAttempt /\ automatic' = automatic
  BY DEF Remount
<1>2. /\ automatic' \in Nat /\ reconnectAttempt' \in 0 .. MaxAttempts
      /\ current \in Socket \cup {None}
  BY <1>1 DEF TransportInv, TypeOK
<1>3. automatic' <= reconnectAttempt'
  BY <1>1, <1>2 DEF TransportInv, AttemptInv
<1>4. /\ page = "active" /\ page' = "active"
      /\ pingTimer' = FALSE /\ pongTimeout' = "none" /\ pingSentAt' = pingSentAt
      /\ reconnectTimer' = FALSE
      /\ commands' \in 0 .. MaxCommands
  BY <1>1, CommandFacts
<1>5. CASE Active(ws, current)
  <2>1. Connect(Closing, current, "dispose")
    BY <1>5 DEF Remount
  <2> QED BY <1>2, <1>3, <1>4, <1>5, <2>1, Sockets, ConnectStep
<1>6. CASE ~Active(ws, current)
  <2>1. Connect(ws, None, "normal")
    BY <1>6 DEF Remount
  <2> QED BY <1>2, <1>3, <1>4, <1>6, <2>1, Sockets, ConnectStep
<1> QED BY <1>5, <1>6

\* The user reconnects, or picks another session.
LEMMA ReconnectStep ==
    ASSUME TransportInv, NEW intent \in {"manual", "fresh"}, Reconnect(intent)
    PROVE  TransportInv' /\ L!Next
<1>1. /\ Command /\ page' = page /\ reconnectAttempt' = 0 /\ automatic' = 0
  BY DEF Reconnect, ClearReconnectAttempts
<1>2. /\ automatic' \in Nat /\ reconnectAttempt' \in 0 .. MaxAttempts
      /\ automatic' <= reconnectAttempt'
  BY <1>1, TransportConstants
<1>3. /\ page = "active" /\ page' = "active"
      /\ pingTimer' = FALSE /\ pongTimeout' = "none" /\ pingSentAt' = pingSentAt
      /\ reconnectTimer' = FALSE
      /\ commands' \in 0 .. MaxCommands
  BY <1>1, CommandFacts
<1>4. CASE CloseFor(intent) /\ status' = status
  BY <1>2, <1>3, <1>4, CloseForStep DEF L!Next
<1>5. CASE ~Active(ws, current) /\ Connect(ws, current, closeIntent)
  <2>1. /\ closeIntent \in {"normal", "manual", "fresh", "dispose"}
        /\ current \in Socket \cup {None}
    BY DEF TransportInv, TypeOK
  <2> QED BY <1>2, <1>3, <1>5, <2>1, Sockets, ConnectStep
<1> QED BY <1>4, <1>5 DEF Reconnect

\* The endpoint changes.
LEMMA EndpointChangeStep == TransportInv /\ EndpointChange => TransportInv' /\ L!Next
<1> SUFFICES ASSUME TransportInv, EndpointChange PROVE TransportInv' /\ L!Next
  OBVIOUS
<1>1. /\ Command /\ page' = page /\ reconnectAttempt' = 0 /\ automatic' = 0 /\ Swap
  BY DEF EndpointChange, ClearReconnectAttempts
<1>2. /\ automatic' \in Nat /\ reconnectAttempt' \in 0 .. MaxAttempts
      /\ automatic' <= reconnectAttempt'
  BY <1>1, TransportConstants
<1>3. /\ page = "active" /\ page' = "active"
      /\ pingTimer' = FALSE /\ pongTimeout' = "none" /\ pingSentAt' = pingSentAt
      /\ reconnectTimer' = FALSE
      /\ commands' \in 0 .. MaxCommands
  BY <1>1, CommandFacts
<1> DEFINE w == IF Active(ws, current) THEN Closing ELSE ws
<1>4. Connect(w, None, "normal")
  BY <1>1 DEF Swap
<1>5. /\ w \in [Socket -> {"connecting", "open", "closing", "closed"}]
      /\ \A s \in Socket : w[s] \notin {"connecting", "open"}
  BY Sockets
<1> HIDE DEF w
<1> QED BY <1>2, <1>3, <1>4, <1>5, ConnectStep

\* The socket opens.
LEMMA OpenedStep ==
    ASSUME TransportInv, NEW s \in Socket, Opened(s)
    PROVE  TransportInv' /\ L!Next
<1>1. s = current /\ current # None /\ ws[s] = "connecting"
  BY TransportConstants DEF Opened, TransportInv, NoOrphan
<1>2. /\ ws' = [ws EXCEPT ![s] = "open"]
      /\ pingTimer' = TRUE /\ pongTimeout' = "none" /\ status' = "connected"
      /\ reconnectAttempt' = 0 /\ automatic' = 0
      /\ current' = current /\ closeIntent' = closeIntent /\ pingSentAt' = pingSentAt
      /\ reconnectTimer' = reconnectTimer /\ page' = page /\ commands' = commands
      /\ pinged' = pinged /\ dead' = dead
  BY <1>1 DEF Opened, peerVars
<1>3. page = "active" /\ ~reconnectTimer
  BY <1>1 DEF TransportInv, TypeOK, CurrentInv, TimerInv
<1>4. /\ ws' \in [Socket -> {"connecting", "open", "closing", "closed"}]
      /\ ws'[s] = "open"
      /\ \A t \in Socket : t # s => ws'[t] = ws[t]
  BY <1>2 DEF TransportInv, TypeOK
<1>5. TypeOK'
  <2>1. pingTimer' \in BOOLEAN
    BY <1>2, Zenon
  <2> QED BY <1>2, <1>4, <2>1, TransportConstants DEF TransportInv, TypeOK
<1>6. NoOrphan' /\ PingInv'
  BY <1>1, <1>2, <1>4 DEF TransportInv, TypeOK, NoOrphan, PingInv
<1>7. CurrentInv' /\ TimerInv' /\ StatusBacked'
  BY <1>1, <1>2, <1>3, <1>4 DEF CurrentInv, TimerInv, StatusBacked
<1>8. AttemptInv'
  BY <1>2, <1>3 DEF AttemptInv
<1>9. HeartbeatOfCurrent'
  BY <1>1, <1>2 DEF HeartbeatOfCurrent, TransportInv, PingInv
<1>10. L!Opened
  BY <1>1, <1>2, <1>4 DEF L!Opened
<1> QED BY <1>5, <1>6, <1>7, <1>8, <1>9, <1>10 DEF TransportInv, L!Next

\* The close event of a socket that has been replaced changes nothing else.
LEMMA OldClosedStep ==
    ASSUME TransportInv, NEW s \in Socket, Closed(s), s # current
    PROVE  TransportInv' /\ UNCHANGED L!linkVars
<1>1. /\ ws' = [ws EXCEPT ![s] = "closed"]
      /\ current' = current /\ closeIntent' = closeIntent
      /\ pingTimer' = pingTimer /\ pongTimeout' = pongTimeout /\ pingSentAt' = pingSentAt
      /\ status' = status /\ reconnectAttempt' = reconnectAttempt
      /\ reconnectTimer' = reconnectTimer /\ pinged' = pinged /\ dead' = dead
      /\ page' = page /\ commands' = commands /\ automatic' = automatic
  BY DEF Closed, heartbeatVars, peerVars
<1>2. /\ ws' \in [Socket -> {"connecting", "open", "closing", "closed"}]
      /\ ws'[s] = "closed"
      /\ \A t \in Socket : t # s => ws'[t] = ws[t]
  BY <1>1 DEF TransportInv, TypeOK
<1>3. TypeOK' /\ current \in Socket \cup {None}
  BY <1>1, <1>2 DEF TransportInv, TypeOK
<1>4. current # None => ws'[current] = ws[current]
  BY <1>2, <1>3
<1>5. NoOrphan' /\ PingInv'
  BY <1>1, <1>2 DEF TransportInv, TypeOK, NoOrphan, PingInv
<1>6. CurrentInv' /\ TimerInv'
  BY <1>1, <1>4 DEF TransportInv, CurrentInv, TimerInv
<1>7. StatusBacked' /\ AttemptInv'
  BY <1>1, <1>4 DEF TransportInv, StatusBacked, AttemptInv
<1>8. HeartbeatOfCurrent'
  BY <1>1, <1>2, <1>3, <1>4, TransportConstants DEF TransportInv, HeartbeatOfCurrent
<1>9. UNCHANGED L!linkVars
  BY <1>1, <1>4 DEF L!linkVars
<1> QED BY <1>3, <1>5, <1>6, <1>7, <1>8, <1>9 DEF TransportInv

\* The close event of the current socket: another attempt at once, later, or never.
LEMMA CurrentClosedStep ==
    ASSUME TransportInv, NEW s \in Socket, Closed(s), s = current
    PROVE  TransportInv' /\ L!Next
<1> DEFINE w == [ws EXCEPT ![s] = "closed"]
<1>1. /\ pingTimer' = FALSE /\ pongTimeout' = "none" /\ pingSentAt' = pingSentAt
      /\ page' = page /\ commands' = commands /\ automatic' = automatic
      /\ ws[s] # "closed"
  BY DEF Closed, HandleSocketClose, StopHeartbeat
<1>2. PICK code \in CloseCode : ClosePlan(s, code)
  BY DEF Closed
<1>3. current # None /\ page # "booting" /\ ~reconnectTimer
  BY TransportConstants DEF TransportInv, CurrentInv, TimerInv
<1>4. reconnectTimer = FALSE
  <2>1. reconnectTimer \in BOOLEAN
    BY DEF TransportInv, TypeOK
  <2> QED BY <1>3, <2>1, Zenon
<1>5. closeIntent # "dispose" => page = "active"
  BY <1>3 DEF TransportInv, TypeOK, CurrentInv
<1>6. /\ w \in [Socket -> {"connecting", "open", "closing", "closed"}]
      /\ \A t \in Socket : w[t] \notin {"connecting", "open"}
  BY DEF TransportInv, TypeOK, NoOrphan
<1>7. /\ commands' \in 0 .. MaxCommands /\ automatic' \in Nat
      /\ reconnectAttempt \in 0 .. MaxAttempts
      /\ automatic' <= reconnectAttempt
  BY <1>1, <1>3, <1>4 DEF TransportInv, TypeOK, AttemptInv
<1>8. CASE closeIntent \in {"manual", "fresh"}
  <2>1. /\ Connect(w, None, "normal")
        /\ reconnectAttempt' = reconnectAttempt /\ reconnectTimer' = reconnectTimer
    BY <1>2, <1>8 DEF ClosePlan
  <2>2. page # "gone" /\ page' = "active"
    BY <1>1, <1>5, <1>8
  <2> HIDE DEF w
  <2> QED BY <1>1, <1>4, <1>6, <1>7, <2>1, <2>2, ConnectStep
<1>9. CASE closeIntent \notin {"manual", "fresh"}
  <2>1. /\ ws' = w /\ current' = None /\ closeIntent' = "normal"
        /\ pinged' = pinged /\ dead' = dead
    BY <1>2, <1>9 DEF ClosePlan, peerVars
  <2>2. \/ /\ closeIntent = "normal" /\ reconnectAttempt < MaxAttempts
           /\ status' = "reconnecting"
           /\ reconnectAttempt' = reconnectAttempt + 1
           /\ reconnectTimer' = TRUE
        \/ /\ status' \in {"closed", "error"}
           /\ reconnectAttempt' = reconnectAttempt
           /\ reconnectTimer' = FALSE
    BY <1>2, <1>4, <1>9 DEF ClosePlan, MayRetry, NextAttempt, ScheduleReconnect
  <2>3. reconnectTimer' => page = "active"
    BY <1>5, <2>2
  <2>4. TypeOK'
    <3>1. reconnectTimer' \in BOOLEAN /\ pingTimer' \in BOOLEAN
      BY <1>1, <2>2, Zenon
    <3>2. reconnectAttempt' \in 0 .. MaxAttempts
      BY <1>7, <2>2, TransportConstants
    <3> HIDE DEF w
    <3> QED BY <1>1, <1>6, <1>7, <2>1, <2>2, <3>1, <3>2 DEF TransportInv, TypeOK
  <2>5. NoOrphan' /\ PingInv'
    BY <1>6, <2>1, <2>4 DEF NoOrphan, PingInv, TypeOK
  <2>6. CurrentInv' /\ TimerInv'
    BY <1>1, <1>3, <2>1, <2>3 DEF CurrentInv, TimerInv
  <2>7. StatusBacked'
    BY <1>1, <2>1, <2>2 DEF StatusBacked
  <2>8. AttemptInv'
    BY <1>7, <2>2 DEF AttemptInv
  <2>9. HeartbeatOfCurrent'
    BY <1>1, <2>1, <2>4, TransportConstants DEF HeartbeatOfCurrent, TypeOK
  <2>10. L!Lost
    <3>1. ws[current] # "none"
      BY DEF TransportInv, TypeOK
    <3> QED BY <1>1, <1>3, <2>1, <2>2, <3>1 DEF L!Lost
  <2> QED BY <2>4, <2>5, <2>6, <2>7, <2>8, <2>9, <2>10 DEF TransportInv, L!Next
<1> QED BY <1>8, <1>9

\* A pong: its ping is forgotten, and so is the timeout.
LEMMA PongStep ==
    ASSUME TransportInv, NEW s \in Socket, Pong(s)
    PROVE  TransportInv' /\ UNCHANGED L!linkVars
<1>1. /\ ws' = ws /\ current' = current /\ closeIntent' = closeIntent
      /\ pingTimer' = pingTimer /\ reconnectTimer' = reconnectTimer
      /\ status' = status /\ reconnectAttempt' = reconnectAttempt
      /\ page' = page /\ commands' = commands /\ dead' = dead /\ automatic' = automatic
      /\ pinged' = pinged \ {s} /\ s \in Socket /\ ws[s] = "open" /\ s = current
      /\ pingSentAt' = None /\ pongTimeout' = "none"
  BY DEF Pong, socketVars, TransportInv, NoOrphan
<1>2. TypeOK'
  BY <1>1 DEF TransportInv, TypeOK
<1>3. NoOrphan' /\ PingInv' /\ CurrentInv' /\ TimerInv'
  BY <1>1 DEF TransportInv, NoOrphan, PingInv, CurrentInv, TimerInv
<1>4. StatusBacked' /\ AttemptInv'
  BY <1>1 DEF TransportInv, StatusBacked, AttemptInv
<1>5. HeartbeatOfCurrent'
  BY <1>1 DEF HeartbeatOfCurrent
<1>6. UNCHANGED L!linkVars
  BY <1>1 DEF L!linkVars
<1> QED BY <1>2, <1>3, <1>4, <1>5, <1>6 DEF TransportInv

\* A server that falls silent is noticed by nobody yet.
LEMMA SilentStep ==
    ASSUME TransportInv, NEW s \in Socket, Silent(s)
    PROVE  TransportInv' /\ UNCHANGED L!linkVars
<1>1. /\ ws' = ws /\ current' = current /\ closeIntent' = closeIntent
      /\ pingTimer' = pingTimer /\ pongTimeout' = pongTimeout /\ pingSentAt' = pingSentAt
      /\ reconnectTimer' = reconnectTimer
      /\ status' = status /\ reconnectAttempt' = reconnectAttempt
      /\ page' = page /\ commands' = commands /\ automatic' = automatic
      /\ pinged' = pinged /\ dead' = dead \cup {s}
  BY DEF Silent, socketVars, heartbeatVars
<1>2. TypeOK'
  BY <1>1 DEF TransportInv, TypeOK
<1>3. NoOrphan' /\ PingInv' /\ CurrentInv' /\ TimerInv'
  BY <1>1 DEF TransportInv, NoOrphan, PingInv, CurrentInv, TimerInv
<1>4. StatusBacked' /\ AttemptInv' /\ HeartbeatOfCurrent'
  BY <1>1 DEF TransportInv, StatusBacked, AttemptInv, HeartbeatOfCurrent
<1>5. UNCHANGED L!linkVars
  BY <1>1 DEF L!linkVars
<1> QED BY <1>2, <1>3, <1>4, <1>5 DEF TransportInv

\* A send that fails shows in the status alone.
LEMMA SendFailsStep == TransportInv /\ SendFails => TransportInv' /\ L!Next
<1> SUFFICES ASSUME TransportInv, SendFails PROVE TransportInv' /\ L!Next
  OBVIOUS
<1>1. /\ ws' = ws /\ current' = current /\ closeIntent' = closeIntent
      /\ pingTimer' = pingTimer /\ pongTimeout' = pongTimeout /\ pingSentAt' = pingSentAt
      /\ reconnectTimer' = reconnectTimer
      /\ status' = "error" /\ reconnectAttempt' = reconnectAttempt
      /\ page' = page /\ commands' = commands /\ automatic' = automatic
      /\ pinged' = pinged /\ dead' = dead
      /\ current # None /\ ws[current] = "open"
  BY DEF SendFails, socketVars, heartbeatVars, peerVars
<1>2. TypeOK'
  BY <1>1 DEF TransportInv, TypeOK
<1>3. NoOrphan' /\ PingInv' /\ CurrentInv' /\ TimerInv'
  BY <1>1 DEF TransportInv, NoOrphan, PingInv, CurrentInv, TimerInv
<1>4. StatusBacked' /\ AttemptInv' /\ HeartbeatOfCurrent'
  BY <1>1 DEF TransportInv, StatusBacked, AttemptInv, HeartbeatOfCurrent
<1>5. L!SendFails
  BY <1>1 DEF L!SendFails
<1> QED BY <1>2, <1>3, <1>4, <1>5 DEF TransportInv, L!Next

\* The heartbeat's interval pings the current socket.
LEMMA PingStep == TransportInv /\ Ping => TransportInv' /\ UNCHANGED L!linkVars
<1> SUFFICES ASSUME TransportInv, Ping PROVE TransportInv' /\ UNCHANGED L!linkVars
  OBVIOUS
<1>1. /\ ws' = ws /\ current' = current /\ closeIntent' = closeIntent
      /\ pingTimer' = pingTimer /\ pongTimeout' = "armed" /\ pingSentAt' = current
      /\ reconnectTimer' = reconnectTimer
      /\ status' = status /\ reconnectAttempt' = reconnectAttempt
      /\ page' = page /\ commands' = commands /\ automatic' = automatic
      /\ dead' = dead /\ pingTimer
      /\ pinged' = IF current # None /\ ws[current] = "open" THEN pinged \cup {current}
                   ELSE pinged
  BY DEF Ping, socketVars
<1>2. current # None /\ current \in Socket
  BY <1>1 DEF TransportInv, TimerInv, TypeOK
<1>3. TypeOK'
  BY <1>1, <1>2 DEF TransportInv, TypeOK
<1>4. NoOrphan' /\ PingInv' /\ CurrentInv' /\ TimerInv'
  BY <1>1 DEF TransportInv, NoOrphan, PingInv, CurrentInv, TimerInv
<1>5. StatusBacked' /\ AttemptInv' /\ HeartbeatOfCurrent'
  BY <1>1, <1>2 DEF TransportInv, StatusBacked, AttemptInv, HeartbeatOfCurrent
<1>6. UNCHANGED L!linkVars
  BY <1>1 DEF L!linkVars
<1> QED BY <1>3, <1>4, <1>5, <1>6 DEF TransportInv

\* No pong in time: the socket is told to close, unless it is closing already.
LEMMA PongTimeoutStep == TransportInv /\ PongTimeout => TransportInv' /\ [L!Next]_(L!linkVars)
<1> SUFFICES ASSUME TransportInv, PongTimeout PROVE TransportInv' /\ [L!Next]_(L!linkVars)
  OBVIOUS
<1>1. /\ pongTimeout = "armed" /\ pongTimeout' = "fired"
      /\ pingTimer' = pingTimer /\ pingSentAt' = pingSentAt
      /\ reconnectTimer' = reconnectTimer
      /\ status' = status /\ reconnectAttempt' = reconnectAttempt
      /\ page' = page /\ commands' = commands /\ automatic' = automatic
  BY DEF PongTimeout
<1>2. page = "active" /\ ~reconnectTimer /\ pingTimer
  BY <1>1 DEF TransportInv, TimerInv
<1>3. reconnectTimer' = FALSE
  <2>1. reconnectTimer \in BOOLEAN
    BY DEF TransportInv, TypeOK
  <2> QED BY <1>1, <1>2, <2>1, Zenon
<1>4. /\ commands' \in 0 .. MaxCommands /\ automatic' \in Nat
      /\ reconnectAttempt' \in 0 .. MaxAttempts
      /\ automatic' <= reconnectAttempt'
  BY <1>1, <1>2 DEF TransportInv, TypeOK, AttemptInv
<1>5. CASE CloseFor("normal")
  BY <1>1, <1>2, <1>3, <1>4, <1>5, CloseForStep DEF L!Next
<1>6. CASE /\ ws' = ws /\ current' = current /\ closeIntent' = closeIntent
           /\ pinged' = pinged /\ dead' = dead
  <2>1. TypeOK'
    BY <1>1, <1>6 DEF TransportInv, TypeOK
  <2>2. NoOrphan' /\ PingInv' /\ CurrentInv' /\ TimerInv'
    BY <1>1, <1>2, <1>6 DEF TransportInv, NoOrphan, PingInv, CurrentInv, TimerInv
  <2>3. StatusBacked' /\ AttemptInv' /\ HeartbeatOfCurrent'
    BY <1>1, <1>6 DEF TransportInv, StatusBacked, AttemptInv, HeartbeatOfCurrent
  <2>4. UNCHANGED L!linkVars
    BY <1>1, <1>6 DEF L!linkVars
  <2> QED BY <2>1, <2>2, <2>3, <2>4 DEF TransportInv
<1> QED BY <1>5, <1>6 DEF PongTimeout, socketVars, peerVars

\* The reconnect timer fires: there is no socket, and one more attempt is made.
LEMMA ReconnectTimerStep == TransportInv /\ ReconnectTimer => TransportInv' /\ L!Next
<1> SUFFICES ASSUME TransportInv, ReconnectTimer PROVE TransportInv' /\ L!Next
  OBVIOUS
<1>1. /\ reconnectTimer /\ reconnectTimer' = FALSE
      /\ Connect(ws, current, closeIntent)
      /\ automatic' = IF current' = current THEN automatic ELSE automatic + 1
      /\ reconnectAttempt' = reconnectAttempt
      /\ pingTimer' = pingTimer /\ pongTimeout' = pongTimeout /\ pingSentAt' = pingSentAt
      /\ page' = page /\ commands' = commands
  BY DEF ReconnectTimer, heartbeatVars
<1>2. current = None /\ page = "active" /\ ~Active(ws, current)
  BY <1>1 DEF TransportInv, TimerInv, Active
<1>3. pingTimer' = FALSE /\ pongTimeout' = "none"
  <2>1. ~pingTimer /\ pingTimer \in BOOLEAN /\ pongTimeout = "none"
    BY <1>2 DEF TransportInv, TimerInv, TypeOK
  <2> QED BY <1>1, <2>1, Zenon
<1>4. /\ commands' \in 0 .. MaxCommands /\ automatic' \in Nat
      /\ reconnectAttempt' \in 0 .. MaxAttempts
      /\ automatic' <= reconnectAttempt'
      /\ closeIntent \in {"normal", "manual", "fresh", "dispose"}
  BY <1>1 DEF TransportInv, TypeOK, AttemptInv
<1> QED BY <1>1, <1>2, <1>3, <1>4, Sockets, ConnectStep

\* A step that changes nothing.
LEMMA TransportStutter ==
    ASSUME TransportInv, UNCHANGED vars
    PROVE  TransportInv' /\ UNCHANGED L!linkVars
<1> USE DEF vars, socketVars, heartbeatVars, peerVars
<1>1. TypeOK' /\ NoOrphan' /\ PingInv' /\ CurrentInv' /\ TimerInv'
  BY DEF TransportInv, TypeOK, NoOrphan, PingInv, CurrentInv, TimerInv
<1>2. StatusBacked' /\ AttemptInv' /\ HeartbeatOfCurrent'
  BY DEF TransportInv, StatusBacked, AttemptInv, HeartbeatOfCurrent
<1>3. UNCHANGED L!linkVars
  BY DEF L!linkVars
<1> QED BY <1>1, <1>2, <1>3 DEF TransportInv

\* The invariant is inductive, and every step of the transport is a step of Link or
\* leaves its variables alone.
LEMMA TransportStep ==
    TransportInv /\ [Next]_vars => TransportInv' /\ [L!Next]_(L!linkVars)
<1> SUFFICES ASSUME TransportInv, [Next]_vars
             PROVE  TransportInv' /\ [L!Next]_(L!linkVars)
  OBVIOUS
<1>1. CASE Effects
  BY <1>1, MountStep, UnmountStep, RemountStep, EndpointChangeStep DEF Effects
<1>2. CASE Commands
  BY <1>2, ReconnectStep DEF Commands
<1>3. CASE SocketEvent
  <2>1. CASE SendFails
    BY <2>1, SendFailsStep
  <2>2. ASSUME NEW s \in Socket, Opened(s) \/ Closed(s) \/ Pong(s) \/ Silent(s)
        PROVE  TransportInv' /\ [L!Next]_(L!linkVars)
    <3>1. CASE Opened(s)
      BY <3>1, OpenedStep
    <3>2. CASE Closed(s)
      BY <3>2, OldClosedStep, CurrentClosedStep
    <3>3. CASE Pong(s)
      BY <3>3, PongStep
    <3>4. CASE Silent(s)
      BY <3>4, SilentStep
    <3> QED BY <2>2, <3>1, <3>2, <3>3, <3>4
  <2> QED BY <1>3, <2>1, <2>2 DEF SocketEvent
<1>4. CASE Timers
  BY <1>4, PingStep, PongTimeoutStep, ReconnectTimerStep DEF Timers
<1>5. CASE Terminated \/ UNCHANGED vars
  BY <1>5, TransportStutter DEF Terminated
<1> QED BY <1>1, <1>2, <1>3, <1>4, <1>5 DEF Next

\* Every reachable state satisfies the invariant.
LEMMA TransportInvariant == Spec => []TransportInv
BY TransportInit, TransportStep, PTL DEF Spec

-----------------------------------------------------------------------------
(* Results.                                                                 *)

\* Whatever commands, timers and events overlap, no socket is left connected that is
\* not the current one (connect, reconnectWithEndpointChange, dispose).
THEOREM NoOrphanHolds == Spec => []NoOrphan
<1>1. TransportInv => NoOrphan
  BY DEF TransportInv
<1> QED BY <1>1, TransportInvariant, PTL

\* A status that promises a connection is backed by a socket or a timer
\* (transport state machine and close plan).
THEOREM StatusBackedHolds == Spec => []StatusBacked
<1>1. TransportInv => StatusBacked
  BY DEF TransportInv
<1> QED BY <1>1, TransportInvariant, PTL

\* The heartbeat measures, and closes, the socket that it pinged (heartbeat monitor).
THEOREM HeartbeatOfCurrentHolds == Spec => []HeartbeatOfCurrent
<1>1. TransportInv => HeartbeatOfCurrent
  BY DEF TransportInv
<1> QED BY <1>1, TransportInvariant, PTL

\* Automatic recovery stops after MaxAttempts attempts (resolveTransportClosePlan).
THEOREM AttemptsBoundedHolds == Spec => []AttemptsBounded
<1>1. TransportInv => AttemptsBounded
  BY TransportConstants DEF TransportInv, TypeOK, AttemptInv, AttemptsBounded
<1> QED BY <1>1, TransportInvariant, PTL

\* The transport implements the link its users rely on: its states map to those of
\* Link by the readyState of the current socket.
THEOREM TransportImplementsLink == Spec => ImplementsLink
<1>1. Init => L!Init
  BY DEF Init, L!Init
<1> QED BY <1>1, TransportInvariant, TransportStep, PTL DEF Spec, ImplementsLink, L!Spec
=============================================================================
