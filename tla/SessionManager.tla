--------------------------- MODULE SessionManager ---------------------------
(***************************************************************************)
(* The server's session core: the session Manager (internal/session), the  *)
(* websocket handler goroutine of every connection (handleTerminal), the   *)
(* goroutine that pumps a process's output to its connections, the cleanup *)
(* timers, and server shutdown.                                            *)
(*                                                                         *)
(* Grain of atomicity.  A step is one critical section of Manager.mu, one  *)
(* write to a connection, or one call on a process.  A handler may still   *)
(* find messages in its read buffer after its socket has been closed, so   *)
(* reading a message and acting on it are one step that no socket state    *)
(* disables.                                                               *)
(*                                                                         *)
(* Output is counted in chunks: the manager's view of a session's stream   *)
(* is positions 0, 1, 2, ...; history holds a window of it and every frame *)
(* sent to a client carries the positions it covers.  Replies (error,      *)
(* pong) are not recorded; what a failed reply does to the socket is.      *)
(***************************************************************************)
EXTENDS Naturals, Sequences

CONSTANTS
    Conn,         \* websocket connections, each served by one handler goroutine
    Session,      \* the session ids uuid.NewString may return
    NoConn,       \* the nil controller
    NoSession,    \* the empty session id
    DetachedTTL,  \* is ManagerOptions.DetachedTTL > 0 ?
    MaxMessages,  \* bound: messages one client sends on one connection
    MaxOutput     \* bound: chunks one process writes

ASSUME ConstantsOK ==
    /\ NoConn \notin Conn
    /\ NoSession \notin Session
    /\ DetachedTTL \in BOOLEAN
    /\ MaxMessages \in Nat
    /\ MaxOutput \in Nat

VARIABLES
    \* Manager and managedSession
    sessions,           \* domain of Manager.sessions
    controller,         \* managedSession.controller (its conn)
    watchers,           \* managedSession.watchers (their conns)
    exitInfo,           \* managedSession.exitInfo # nil
    cleanupGeneration,  \* managedSession.cleanupGeneration
    reconnectTimer,     \* generation of the pending timer, 0 if none is pending
    history,            \* window (from, to] of the stream kept for replay
    cleanups,           \* cleanup goroutines started by a timer, by generation
    reaper,             \* who is about to close a removed session's process
    \* the process and the goroutine that forwards its output
    process,            \* "none", "running", or "ended" (output drained)
    closed,             \* the manager has called process.Close
    pump,               \* program counter of the forwarding goroutine
    targets,            \* connections the current frame is still to be sent to
    \* the handler of each connection
    pc,                 \* program counter
    sock,               \* the websocket as the server sees it
    budget,             \* messages the client may still send
    active,             \* activeSessionID
    readOnly,           \* activeReadOnly
    result,             \* AttachResult of the attach in progress
    \* observations
    wire,               \* session frames written to each connection
    steer,              \* connection that last resized, renamed or typed
    server              \* progress of Server.Shutdown and main

managerVars == <<sessions, controller, watchers, exitInfo, cleanupGeneration,
                 reconnectTimer, history, cleanups, reaper>>
processVars == <<process, closed, pump, targets>>
handlerVars == <<pc, sock, budget, active, readOnly, result>>
vars == <<managerVars, processVars, handlerVars, wire, steer, server>>

-----------------------------------------------------------------------------
(* Types.                                                                  *)

Position == Nat
Frame == [kind : {"ready", "output", "exit"}, from : Position, to : Position]

\* AttachResult: the snapshot taken under the lock, and what was granted.
AttachResult == [session : Session \cup {NoSession}, created : BOOLEAN,
                 readOnly : BOOLEAN, from : Position, to : Position,
                 exit : BOOLEAN]
NoResult == [session |-> NoSession, created |-> FALSE, readOnly |-> FALSE,
             from |-> 0, to |-> 0, exit |-> FALSE]

TypeOK ==
    /\ sessions \subseteq Session
    /\ controller \in [Session -> Conn \cup {NoConn}]
    /\ watchers \in [Session -> SUBSET Conn]
    /\ exitInfo \in [Session -> BOOLEAN]
    /\ cleanupGeneration \in [Session -> Nat]
    /\ reconnectTimer \in [Session -> Nat]
    /\ history \in [Session -> [from : Position, to : Position]]
    /\ cleanups \in [Session -> SUBSET Nat]
    /\ reaper \in [Session -> {"none", "cleanup", "shutdown"}]
    /\ process \in [Session -> {"none", "running", "ended"}]
    /\ closed \in [Session -> BOOLEAN]
    /\ pump \in [Session -> {"off", "forward", "wait", "exit", "done"}]
    /\ targets \in [Session -> SUBSET Conn]
    /\ pc \in [Conn -> {"new", "loop", "handshake", "undo", "input", "resize", "done"}]
    /\ sock \in [Conn -> {"new", "up", "dropped", "closed"}]
    /\ budget \in [Conn -> Nat]
    /\ active \in [Conn -> Session \cup {NoSession}]
    /\ readOnly \in [Conn -> BOOLEAN]
    /\ result \in [Conn -> AttachResult]
    /\ wire \in [Conn -> Seq(Frame)]
    /\ steer \in [Session -> Conn \cup {NoConn}]
    /\ server \in {"up", "connsClosed", "managerClosed", "down"}

Init ==
    /\ sessions = {}
    /\ controller = [s \in Session |-> NoConn]
    /\ watchers = [s \in Session |-> {}]
    /\ exitInfo = [s \in Session |-> FALSE]
    /\ cleanupGeneration = [s \in Session |-> 0]
    /\ reconnectTimer = [s \in Session |-> 0]
    /\ history = [s \in Session |-> [from |-> 0, to |-> 0]]
    /\ cleanups = [s \in Session |-> {}]
    /\ reaper = [s \in Session |-> "none"]
    /\ process = [s \in Session |-> "none"]
    /\ closed = [s \in Session |-> FALSE]
    /\ pump = [s \in Session |-> "off"]
    /\ targets = [s \in Session |-> {}]
    /\ pc = [c \in Conn |-> "new"]
    /\ sock = [c \in Conn |-> "new"]
    /\ budget = [c \in Conn |-> MaxMessages]
    /\ active = [c \in Conn |-> NoSession]
    /\ readOnly = [c \in Conn |-> FALSE]
    /\ result = [c \in Conn |-> NoResult]
    /\ wire = [c \in Conn |-> <<>>]
    /\ steer = [s \in Session |-> NoConn]
    /\ server = "up"

-----------------------------------------------------------------------------
(* Helpers of the manager.                                                 *)

\* collectConnectionsLocked: the controller, if any, and the watchers.
Connections(s) == (IF controller[s] = NoConn THEN {} ELSE {controller[s]}) \cup watchers[s]

\* scheduleCleanupLocked: stop the pending timer; unless the session runs and
\* somebody (hasConns) is still connected, arm a new one for a new generation.
\* (Mutant: the timer is armed with the generation it replaces.)
ScheduleCleanupStale(s, hasConns) ==
    LET arm == exitInfo[s] \/ ~hasConns
    IN  /\ cleanupGeneration' = [cleanupGeneration EXCEPT ![s] = IF arm THEN @ + 1 ELSE @]
        /\ reconnectTimer' = [reconnectTimer EXCEPT ![s] = IF arm THEN cleanupGeneration[s] ELSE 0]

ScheduleCleanup(s, hasConns) ==
    LET arm == exitInfo[s] \/ ~hasConns
    IN  /\ cleanupGeneration' = [cleanupGeneration EXCEPT ![s] = IF arm THEN @ + 1 ELSE @]
        /\ reconnectTimer' = [reconnectTimer EXCEPT
                                 ![s] = IF arm THEN cleanupGeneration[s] + 1 ELSE 0]

\* Detach: forget c, stop the timer, and schedule the cleanup of a session that
\* has exited, or that runs detached when there is a TTL.
\* (Mutant: the watcher is not deleted.)
DetachController(s, c) ==
    IF s \notin sessions
    THEN UNCHANGED <<controller, watchers, cleanupGeneration, reconnectTimer>>
    ELSE /\ controller' = [controller EXCEPT ![s] = IF @ = c THEN NoConn ELSE @]
         /\ ScheduleCleanup(s, watchers[s] # {} \/ controller[s] \notin {c, NoConn})
         /\ UNCHANGED watchers

Detach(s, c) ==
    IF s \notin sessions
    THEN UNCHANGED <<controller, watchers, cleanupGeneration, reconnectTimer>>
    ELSE LET ctl  == IF controller[s] = c THEN NoConn ELSE controller[s]
             wat  == watchers[s] \ {c}
         IN  /\ controller' = [controller EXCEPT ![s] = ctl]
             /\ watchers' = [watchers EXCEPT ![s] = wat]
             /\ IF exitInfo[s] \/ DetachedTTL
                THEN ScheduleCleanup(s, ctl # NoConn \/ wat # {})
                ELSE /\ reconnectTimer' = [reconnectTimer EXCEPT ![s] = 0]
                     /\ UNCHANGED cleanupGeneration

\* What finishAttachLocked writes: ready, the replayed history if there is any,
\* and the exit if the session has already exited.
Replay(r) ==
    <<[kind |-> "ready", from |-> r.from, to |-> r.from]>>
    \o (IF r.from < r.to THEN <<[kind |-> "output", from |-> r.from, to |-> r.to]>> ELSE <<>>)
    \o (IF r.exit THEN <<[kind |-> "exit", from |-> r.to, to |-> r.to]>> ELSE <<>>)

\* conn.Close() on every connection of a set.
\* (Mutant: they are left open.)
CloseSocketsSkipped(C) == UNCHANGED sock

CloseSockets(C) == sock' = [c \in Conn |-> IF c \in C THEN "closed" ELSE sock[c]]

-----------------------------------------------------------------------------
(* The handler goroutine of connection c.                                  *)

\* The upgrade succeeds and the connection is registered with the server,
\* unless the server has stopped: then the handler returns at once.
Upgrade(c) ==
    /\ pc[c] = "new"
    /\ IF server = "up"
       THEN /\ pc' = [pc EXCEPT ![c] = "loop"]
            /\ sock' = [sock EXCEPT ![c] = "up"]
       ELSE /\ pc' = [pc EXCEPT ![c] = "done"]
            /\ sock' = [sock EXCEPT ![c] = "closed"]
    /\ UNCHANGED <<managerVars, processVars, budget, active, readOnly, result, wire, steer, server>>

\* The handler reads one message of the client.
Receive(c) ==
    /\ pc[c] = "loop"
    /\ budget[c] > 0
    /\ budget' = [budget EXCEPT ![c] = @ - 1]

\* A reply through the manager (SendJSON) closes the socket when it fails; a
\* reply on a connection that is attached to nothing ignores the failure.
SendReply(c) ==
    \/ UNCHANGED sock
    \/ /\ active[c] \in sessions
       /\ c \in Connections(active[c])
       /\ sock' = [sock EXCEPT ![c] = "closed"]

\* A message that is only answered: a ping, an invalid message, an attach that
\* is refused because the connection is attached, the manager is closed, the
\* session is unknown or the process cannot start; input, resize or rename from a
\* connection that is not attached or read-only; input or resize for a session
\* that is gone or has exited.
Reply(c) ==
    /\ Receive(c)
    /\ SendReply(c)
    /\ UNCHANGED <<managerVars, processVars, pc, active, readOnly, result, wire, steer, server>>

\* A connection attaches once.  (Mutant: it may attach again.)
MayAttachAgain(c) == TRUE
MayAttach(c) == active[c] = NoSession

\* Manager.closed is not set.  (Mutant: it is not looked at.)
AcceptsLate == TRUE
Accepts == server \in {"up", "connsClosed"}

\* Nobody else controls s.
MayControl(c, s) == controller[s] \in {NoConn, c}

\* Attach without a session id: a new process and a new session, controlled by c.
AttachCreate(c, s) ==
    /\ Receive(c)
    /\ MayAttach(c)
    /\ Accepts
    /\ process[s] = "none"
    /\ process' = [process EXCEPT ![s] = "running"]
    /\ sessions' = sessions \cup {s}
    /\ controller' = [controller EXCEPT ![s] = c]
    /\ steer' = [steer EXCEPT ![s] = c]
    /\ result' = [result EXCEPT ![c] = [NoResult EXCEPT !.session = s, !.created = TRUE]]
    /\ pc' = [pc EXCEPT ![c] = "handshake"]
    /\ UNCHANGED <<watchers, exitInfo, cleanupGeneration, reconnectTimer, history,
                   cleanups, reaper, closed, pump, targets, sock, active, readOnly,
                   wire, server>>

\* What every attach to an existing session does first, the refused one too:
\* it invalidates the pending cleanup.
DisarmCleanup(s) ==
    /\ cleanupGeneration' = [cleanupGeneration EXCEPT ![s] = @ + 1]
    /\ reconnectTimer' = [reconnectTimer EXCEPT ![s] = 0]

\* (Mutant: the snapshot misses that the session has exited.)
GrantNoExit(c, s, ro) ==
    /\ result' = [result EXCEPT ![c] =
                    [session |-> s, created |-> FALSE, readOnly |-> ro,
                     from |-> history[s].from, to |-> history[s].to, exit |-> FALSE]]
    /\ pc' = [pc EXCEPT ![c] = "handshake"]

\* The snapshot an attach takes under the lock; the handler goes on to write it.
Grant(c, s, ro) ==
    /\ result' = [result EXCEPT ![c] =
                    [session |-> s, created |-> FALSE, readOnly |-> ro,
                     from |-> history[s].from, to |-> history[s].to,
                     exit |-> exitInfo[s]]]
    /\ pc' = [pc EXCEPT ![c] = "handshake"]

\* Attach to session s as a watcher.
AttachWatch(c, s) ==
    /\ Receive(c)
    /\ MayAttach(c)
    /\ s \in sessions
    /\ DisarmCleanup(s)
    /\ watchers' = [watchers EXCEPT ![s] = @ \cup {c}]
    /\ Grant(c, s, TRUE)
    /\ UNCHANGED <<sessions, controller, exitInfo, history, cleanups, reaper, processVars,
                   sock, active, readOnly, wire, steer, server>>

\* Attach to session s as its controller; the process is resized.
AttachControl(c, s) ==
    /\ Receive(c)
    /\ MayAttach(c)
    /\ s \in sessions
    /\ MayControl(c, s)
    /\ DisarmCleanup(s)
    /\ controller' = [controller EXCEPT ![s] = c]
    /\ steer' = [steer EXCEPT ![s] = c]
    /\ Grant(c, s, FALSE)
    /\ UNCHANGED <<sessions, watchers, exitInfo, history, cleanups, reaper, processVars,
                   sock, active, readOnly, wire, server>>

\* Attach to a session that another connection controls.
AttachRefused(c, s) ==
    /\ Receive(c)
    /\ MayAttach(c)
    /\ s \in sessions
    /\ ~MayControl(c, s)
    /\ DisarmCleanup(s)
    /\ UNCHANGED <<sessions, controller, watchers, exitInfo, history, cleanups, reaper,
                   processVars, pc, sock, active, readOnly, result, wire, steer, server>>

\* The forwarding goroutine of a session that c has created is started when the
\* attach returns.
StartPump(c) ==
    pump' = IF result[c].created THEN [pump EXCEPT ![result[c].session] = "forward"] ELSE pump

\* finishAttachLocked writes the replay with the connection's writer lock held.
HandshakeOk(c) ==
    /\ pc[c] = "handshake"
    /\ sock[c] # "closed"
    /\ wire' = [wire EXCEPT ![c] = @ \o Replay(result[c])]
    /\ active' = [active EXCEPT ![c] = result[c].session]
    /\ readOnly' = [readOnly EXCEPT ![c] = result[c].readOnly]
    /\ StartPump(c)
    /\ result' = [result EXCEPT ![c] = NoResult]
    /\ pc' = [pc EXCEPT ![c] = "loop"]
    /\ UNCHANGED <<managerVars, process, closed, targets, sock, budget, steer, server>>

\* One of the replay's writes fails after k frames: the socket is closed.
HandshakeFail(c) ==
    /\ pc[c] = "handshake"
    /\ \E k \in 0 .. Len(Replay(result[c])) - 1 :
          wire' = [wire EXCEPT ![c] = @ \o SubSeq(Replay(result[c]), 1, k)]
    /\ sock' = [sock EXCEPT ![c] = "closed"]
    /\ pc' = [pc EXCEPT ![c] = "undo"]
    /\ UNCHANGED <<managerVars, processVars, budget, active, readOnly, result, steer, server>>

\* ... the attach is undone, and the handler returns.
\* (Mutant: the handler goes on reading.)
UndoAttachStays(c) ==
    /\ pc[c] = "undo"
    /\ Detach(result[c].session, c)
    /\ StartPump(c)
    /\ result' = [result EXCEPT ![c] = NoResult]
    /\ pc' = [pc EXCEPT ![c] = "loop"]
    /\ UNCHANGED <<sessions, exitInfo, history, cleanups, reaper, process, closed, targets,
                   sock, budget, active, readOnly, wire, steer, server>>

UndoAttach(c) ==
    /\ pc[c] = "undo"
    /\ Detach(result[c].session, c)
    /\ StartPump(c)
    /\ result' = [result EXCEPT ![c] = NoResult]
    /\ pc' = [pc EXCEPT ![c] = "done"]
    /\ UNCHANGED <<sessions, exitInfo, history, cleanups, reaper, process, closed, targets,
                   sock, budget, active, readOnly, wire, steer, server>>

\* The handler believes that it is the controller.  (Mutant: or a watcher.)
MaySteerAttached(c) == active[c] # NoSession
MaySteer(c) == active[c] # NoSession /\ ~readOnly[c]

\* Input or resize from a connection that believes it is the controller: the
\* manager looks the session up and releases its lock before it calls the process.
BeginCall(c, op) ==
    /\ Receive(c)
    /\ MaySteer(c)
    /\ active[c] \in sessions
    /\ ~exitInfo[active[c]]
    /\ pc' = [pc EXCEPT ![c] = op]
    /\ UNCHANGED <<managerVars, processVars, sock, active, readOnly, result, wire, steer, server>>

\* process.Write or process.Resize returns without an error.  A write may block
\* for as long as the process does not read its input.
CallOk(c, op) ==
    /\ pc[c] = op
    /\ process[active[c]] = "running"
    /\ ~closed[active[c]]
    /\ steer' = [steer EXCEPT ![active[c]] = c]
    /\ pc' = [pc EXCEPT ![c] = "loop"]
    /\ UNCHANGED <<managerVars, processVars, sock, budget, active, readOnly, result, wire, server>>

\* The call fails because the process is gone; the client is told.
CallError(c) ==
    /\ pc[c] \in {"input", "resize"}
    /\ process[active[c]] = "ended" \/ closed[active[c]]
    /\ SendReply(c)
    /\ pc' = [pc EXCEPT ![c] = "loop"]
    /\ UNCHANGED <<managerVars, processVars, budget, active, readOnly, result, wire, steer, server>>

\* Rename from a connection that believes it is the controller.
Rename(c) ==
    /\ Receive(c)
    /\ MaySteer(c)
    /\ steer' = IF active[c] \in sessions THEN [steer EXCEPT ![active[c]] = c] ELSE steer
    /\ UNCHANGED <<managerVars, processVars, pc, sock, active, readOnly, result, wire, server>>

\* The peer goes away, with or without a close frame.
PeerDrop(c) ==
    /\ sock[c] = "up"
    /\ sock' = [sock EXCEPT ![c] = "dropped"]
    /\ UNCHANGED <<managerVars, processVars, pc, budget, active, readOnly, result, wire, steer, server>>

\* ReadMessage returns an error.  (Mutant: only a local close is noticed.)
ReadFailsLocally(c) == sock[c] = "closed"
ReadFails(c) == sock[c] \in {"dropped", "closed"}

\* Reading fails: the handler detaches from its session and returns.
Leave(c) ==
    /\ pc[c] = "loop"
    /\ ReadFails(c)
    /\ Detach(active[c], c)
    /\ sock' = [sock EXCEPT ![c] = "closed"]
    /\ pc' = [pc EXCEPT ![c] = "done"]
    /\ UNCHANGED <<sessions, exitInfo, history, cleanups, reaper, processVars,
                   budget, active, readOnly, result, wire, steer, server>>

-----------------------------------------------------------------------------
(* The process of session s and the goroutine that forwards its output.    *)

\* The process ends, by itself or because it was killed: its output is drained
\* and its exit can be read.
ProcessEnd(s) ==
    /\ process[s] = "running"
    /\ process' = [process EXCEPT ![s] = "ended"]
    /\ UNCHANGED <<managerVars, closed, pump, targets, handlerVars, wire, steer, server>>

\* forwardOutput takes a chunk: it joins the history, which may evict old output,
\* and is to be sent to every connection.  For a removed session the loop ends.
ForwardChunk(s) ==
    /\ pump[s] = "forward"
    /\ targets[s] = {}
    /\ process[s] = "running"
    /\ history[s].to < MaxOutput
    /\ IF s \in sessions
       THEN /\ \E lo \in history[s].from .. history[s].to + 1 :
                  history' = [history EXCEPT ![s] = [from |-> lo, to |-> @.to + 1]]
            /\ targets' = [targets EXCEPT ![s] = Connections(s)]
            /\ UNCHANGED pump
       ELSE /\ pump' = [pump EXCEPT ![s] = "wait"]
            /\ UNCHANGED <<history, targets>>
    /\ UNCHANGED <<sessions, controller, watchers, exitInfo, cleanupGeneration, reconnectTimer,
                   cleanups, reaper, process, closed, handlerVars, wire, steer, server>>

\* The frame the pump is sending: the newest chunk, or the exit.
\* (Mutant: an output frame starts one chunk early.)
PumpFrameEarly(s) == [kind |-> "output", from |-> history[s].to - 2, to |-> history[s].to]

PumpFrame(s) ==
    IF pump[s] = "forward"
    THEN [kind |-> "output", from |-> history[s].to - 1, to |-> history[s].to]
    ELSE [kind |-> "exit", from |-> history[s].to, to |-> history[s].to]

\* No handshake holds the connection's writer lock.  (Mutant: nobody checks.)
WriterUnlocked(c) == TRUE
WriterFree(c) == pc[c] # "handshake"

\* writeJSON takes the connection's writer lock, which a handshake holds.
Deliver(s, c) ==
    /\ c \in targets[s]
    /\ WriterFree(c)
    /\ targets' = [targets EXCEPT ![s] = @ \ {c}]
    /\ \/ /\ sock[c] # "closed"
          /\ wire' = [wire EXCEPT ![c] = Append(@, PumpFrame(s))]
          /\ UNCHANGED sock
       \/ /\ sock' = [sock EXCEPT ![c] = "closed"]
          /\ UNCHANGED wire
    /\ UNCHANGED <<managerVars, process, closed, pump, pc, budget, active, readOnly, result,
                   steer, server>>

\* watchExit: the output is drained and the exit is recorded.
WatchExit(s) ==
    /\ pump[s] \in {"forward", "wait"}
    /\ targets[s] = {}
    /\ process[s] = "ended"
    /\ IF s \in sessions
       THEN /\ exitInfo' = [exitInfo EXCEPT ![s] = TRUE]
            /\ targets' = [targets EXCEPT ![s] = Connections(s)]
            /\ pump' = [pump EXCEPT ![s] = "exit"]
       ELSE /\ pump' = [pump EXCEPT ![s] = "done"]
            /\ UNCHANGED <<exitInfo, targets>>
    /\ UNCHANGED <<sessions, controller, watchers, cleanupGeneration, reconnectTimer, history,
                   cleanups, reaper, process, closed, handlerVars, wire, steer, server>>

\* ... and once every connection has been told, the cleanup is scheduled.
ExitCleanup(s) ==
    /\ pump[s] = "exit"
    /\ targets[s] = {}
    /\ IF s \in sessions
       THEN ScheduleCleanup(s, Connections(s) # {})
       ELSE UNCHANGED <<cleanupGeneration, reconnectTimer>>
    /\ pump' = [pump EXCEPT ![s] = "done"]
    /\ UNCHANGED <<sessions, controller, watchers, exitInfo, history, cleanups, reaper,
                   process, closed, targets, handlerVars, wire, steer, server>>

-----------------------------------------------------------------------------
(* Cleanup of session s and shutdown.                                      *)

\* The timer fires: its callback is now a goroutine that Stop cannot recall.
TimerFire(s) ==
    /\ reconnectTimer[s] # 0
    /\ cleanups' = [cleanups EXCEPT ![s] = @ \cup {reconnectTimer[s]}]
    /\ reconnectTimer' = [reconnectTimer EXCEPT ![s] = 0]
    /\ UNCHANGED <<sessions, controller, watchers, exitInfo, cleanupGeneration, history,
                   reaper, processVars, handlerVars, wire, steer, server>>

\* What cleanup checks before it removes the session.  (Mutant: any callback may.)
MayRemoveStale(s, g) ==
    /\ s \in sessions
    /\ exitInfo[s] \/ Connections(s) = {}

MayRemove(s, g) ==
    /\ s \in sessions
    /\ cleanupGeneration[s] = g
    /\ exitInfo[s] \/ Connections(s) = {}

\* The session leaves the map; its process is closed once the lock is released.
\* (Mutant: it leaves the map after that.)
RemoveLate(s) ==
    /\ reaper' = [reaper EXCEPT ![s] = "cleanup"]
    /\ UNCHANGED sessions

Remove(s) ==
    /\ sessions' = sessions \ {s}
    /\ reaper' = [reaper EXCEPT ![s] = "cleanup"]

\* cleanup(s, g), the part under the lock.
Cleanup(s, g) ==
    /\ g \in cleanups[s]
    /\ cleanups' = [cleanups EXCEPT ![s] = @ \ {g}]
    /\ IF MayRemove(s, g)
       THEN Remove(s)
       ELSE UNCHANGED <<sessions, reaper>>
    /\ UNCHANGED <<controller, watchers, exitInfo, cleanupGeneration, reconnectTimer, history,
                   processVars, handlerVars, wire, steer, server>>

\* The part of cleanup, and of Manager.Shutdown, that runs without the lock:
\* kill and close the process, close the connections (and stop the timer).
Reap(s) ==
    /\ reaper[s] # "none"
    /\ closed' = [closed EXCEPT ![s] = TRUE]
    /\ CloseSockets(Connections(s))
    /\ reconnectTimer' = IF reaper[s] = "shutdown"
                         THEN [reconnectTimer EXCEPT ![s] = 0] ELSE reconnectTimer
    /\ reaper' = [reaper EXCEPT ![s] = "none"]
    /\ UNCHANGED <<sessions, controller, watchers, exitInfo, cleanupGeneration, history,
                   cleanups, process, pump, targets, pc, budget, active, readOnly, result,
                   wire, steer, server>>

\* Server.Shutdown stops accepting and closes every registered connection.
CloseConnections ==
    /\ server = "up"
    /\ server' = "connsClosed"
    /\ CloseSockets({c \in Conn : pc[c] \notin {"new", "done"}})
    /\ UNCHANGED <<managerVars, processVars, pc, budget, active, readOnly, result, wire, steer>>

\* Manager.Shutdown, the part under the lock: every session is taken out.
CloseManager ==
    /\ server = "connsClosed"
    /\ server' = "managerClosed"
    /\ reaper' = [s \in Session |-> IF s \in sessions THEN "shutdown" ELSE reaper[s]]
    /\ sessions' = {}
    /\ UNCHANGED <<controller, watchers, exitInfo, cleanupGeneration, reconnectTimer, history,
                   cleanups, processVars, handlerVars, wire, steer>>

\* Shutdown has closed the sessions it took out, and main returns.
MainReturns ==
    /\ server = "managerClosed"
    /\ \A s \in Session : reaper[s] # "shutdown"
    /\ server' = "down"
    /\ UNCHANGED <<managerVars, processVars, handlerVars, wire, steer>>

-----------------------------------------------------------------------------
Handler(c) ==
    \/ Upgrade(c)
    \/ Reply(c)
    \/ \E s \in Session : AttachCreate(c, s)
    \/ \E s \in Session : AttachWatch(c, s)
    \/ \E s \in Session : AttachControl(c, s)
    \/ \E s \in Session : AttachRefused(c, s)
    \/ HandshakeOk(c)
    \/ HandshakeFail(c)
    \/ UndoAttach(c)
    \/ \E op \in {"input", "resize"} : BeginCall(c, op)
    \/ \E op \in {"input", "resize"} : CallOk(c, op)
    \/ CallError(c)
    \/ Rename(c)
    \/ PeerDrop(c)
    \/ Leave(c)

SessionStep(s) ==
    \/ ProcessEnd(s)
    \/ ForwardChunk(s)
    \/ \E c \in Conn : Deliver(s, c)
    \/ WatchExit(s)
    \/ ExitCleanup(s)
    \/ TimerFire(s)
    \/ \E g \in cleanups[s] : Cleanup(s, g)
    \/ Reap(s)

Shutdown == CloseConnections \/ CloseManager \/ MainReturns

\* When main has returned nothing runs any more.
Terminated == server = "down" /\ UNCHANGED vars

Next ==
    \/ server # "down" /\ \E c \in Conn : Handler(c)
    \/ server # "down" /\ \E s \in Session : SessionStep(s)
    \/ Shutdown
    \/ Terminated

Spec == Init /\ [][Next]_vars

-----------------------------------------------------------------------------
(* Safety properties.                                                      *)

\* The handler of c believes that it is attached to s, read-only or not.
Believes(c, s, ro) ==
    \/ pc[c] \in {"handshake", "undo"} /\ result[c].session = s /\ result[c].readOnly = ro
    \/ pc[c] \in {"loop", "input", "resize"} /\ active[c] = s /\ readOnly[c] = ro

\* The role a handler caches in activeSessionID/activeReadOnly (terminal.go) and
\* checks without the manager's lock is the role the manager has on record, in
\* both directions: a handler that may type is the controller, and a session has
\* no controller or watcher whose handler has forgotten it.
RoleAgreement ==
    \A s \in sessions, c \in Conn :
        /\ controller[s] = c <=> Believes(c, s, FALSE)
        /\ c \in watchers[s] <=> Believes(c, s, TRUE)

\* A listed session that nobody is connected to always has a cleanup under way
\* that the generation check will accept: its timer is pending, or its callback
\* is in flight, or watchExit is about to schedule it.  The exception is the
\* running session of a server without a detached TTL.
CleanupArmed ==
    \A s \in sessions :
        Connections(s) = {} =>
            \/ reconnectTimer[s] # 0 /\ reconnectTimer[s] = cleanupGeneration[s]
            \/ cleanupGeneration[s] \in cleanups[s]
            \/ pump[s] = "exit"
            \/ ~exitInfo[s] /\ ~DetachedTTL

\* What one connection is sent is one session's stream: ready first and once,
\* then output without a gap and without a repetition between the replay and the
\* live frames, and the exit, if any, last.
WellFormed(w) ==
    /\ \A i \in 1 .. Len(w) : (w[i].kind = "ready") <=> (i = 1)
    /\ \A i \in 1 .. Len(w) : (w[i].kind = "exit") => (i = Len(w))
    /\ \A i \in 1 .. Len(w) - 1 : w[i + 1].from = w[i].to

StreamOrder == \A c \in Conn : WellFormed(wire[c])

\* An attached connection whose socket is open and that the pump does not owe a
\* frame has been sent everything the session's history has received, and the exit.
StreamComplete ==
    \A c \in Conn, s \in sessions :
        (/\ pc[c] \in {"loop", "input", "resize"}
         /\ active[c] = s
         /\ sock[c] # "closed"
         /\ c \notin targets[s])
        => /\ wire[c] # <<>>
           /\ wire[c][Len(wire[c])].to = history[s].to
           /\ exitInfo[s] => wire[c][Len(wire[c])].kind = "exit"

\* A handler that is not attached writes its replies without a lock: no pump may
\* be about to write to its connection, and no session may hand it to one.  No
\* connection is ever written to by two pumps.
WriterExclusion ==
    \A c \in Conn :
        /\ pc[c] = "loop" /\ active[c] = NoSession =>
              \A s \in Session : c \notin targets[s] /\ c \notin Connections(s)
        /\ \A s, t \in Session : c \in targets[s] \cap targets[t] => s = t

\* The manager closes the process of a session only after it has taken the
\* session out of its map: nobody can attach to a killed process.
ClosedIsRemoved == \A s \in Session : closed[s] \/ reaper[s] # "none" => s \notin sessions

\* When main returns every process has been closed, except one whose session a
\* cleanup had just taken out of the map.
ShutdownCloses ==
    server = "down" =>
        \A s \in Session : process[s] # "none" => closed[s] \/ reaper[s] = "cleanup"

\* Only the connection on record as the controller resizes, renames or types
\* into a listed session (docs: "Session labels can be renamed by their
\* controller", "A running session has at most one controller").
OnlyControllerSteers ==
    [][\A s \in sessions : steer'[s] # steer[s] => controller'[s] = steer'[s]]_vars

\* A cleanup never removes a running session that somebody is connected to, nor
\* a session whose detached period has been started anew by a later detach.
NoPrematureRemoval ==
    [][\A s \in sessions :
          s \notin sessions' /\ server' # "managerClosed" =>
              /\ exitInfo[s] \/ Connections(s) = {}
              /\ reconnectTimer[s] = 0]_vars

-----------------------------------------------------------------------------
(* Refinement: the manager implements SessionLifecycle.                    *)

Phase(s) ==
    CASE process[s] = "none"                 -> "unborn"
      [] s \in sessions /\ ~exitInfo[s]      -> "running"
      [] s \in sessions /\ exitInfo[s]       -> "exited"
      [] OTHER                               -> "gone"

\* Connections whose handler has attached to nothing yet.
Unseated == {c \in Conn : pc[c] \in {"new", "loop"} /\ active[c] = NoSession}

Lifecycle == INSTANCE SessionLifecycle WITH
    phase   <- [s \in Session |-> Phase(s)],
    holder  <- [s \in Session |-> IF s \in sessions THEN controller[s] ELSE NoConn],
    viewers <- [s \in Session |-> IF s \in sessions THEN watchers[s] ELSE {}],
    free    <- Unseated,
    open    <- server \in {"up", "connsClosed"}

\* Every step of the manager, its handlers, pumps and timers is a step of the
\* abstract life cycle or changes nothing it speaks of: a controller is never
\* displaced, a connection attaches at most once, a running session ends only
\* detached and with a TTL, an ended session never comes back.
ImplementsLifecycle == Lifecycle!Spec

-----------------------------------------------------------------------------
(* Fairness and liveness.  Goroutines are scheduled, timers fire, writes to *)
(* a socket end within their deadline, and a killed process dies.           *)

Alive(A) == server # "down" /\ A

HandlerFairness ==
    \A c \in Conn :
        /\ WF_vars(Alive(HandshakeOk(c) \/ HandshakeFail(c)))
        /\ WF_vars(Alive(UndoAttach(c)))
        /\ WF_vars(Alive(CallOk(c, "resize")))
        /\ WF_vars(Alive(CallError(c)))
        /\ WF_vars(Alive(Leave(c)))

SessionFairness ==
    \A s \in Session :
        /\ WF_vars(Alive(closed[s] /\ ProcessEnd(s)))
        /\ WF_vars(Alive(\E c \in Conn : Deliver(s, c)))
        /\ WF_vars(Alive(WatchExit(s)))
        /\ WF_vars(Alive(ExitCleanup(s)))
        /\ WF_vars(Alive(TimerFire(s)))
        /\ WF_vars(Alive(\E g \in cleanups[s] : Cleanup(s, g)))
        /\ WF_vars(Alive(Reap(s)))

ShutdownFairness == WF_vars(CloseManager) /\ WF_vars(MainReturns)

FairSpec == Spec /\ HandlerFairness /\ SessionFairness /\ ShutdownFairness

\* The same, when every process goes on reading its input.
ReadingSpec == FairSpec /\ \A c \in Conn : WF_vars(Alive(CallOk(c, "input")))

\* A detached session expires, unless somebody comes back or the server stops.
DetachedExpires ==
    \A s \in Session :
        (s \in sessions /\ Connections(s) = {})
            ~> (s \notin sessions \/ Connections(s) # {} \/ server = "down")

\* A removed session's process dies and its clients' handlers end, also those
\* that were blocked in a write to the process.
RemovedIsReaped ==
    \A s \in Session :
        (process[s] # "none" /\ s \notin sessions)
            ~> \/ server = "down"
               \/ /\ process[s] = "ended"
                  /\ \A c \in Conn : active[c] = s => pc[c] = "done"

\* A client that goes away is detached (docs: "Closing the last controller/watcher
\* starts the detached TTL").
DroppedDetaches ==
    \A c \in Conn : sock[c] = "dropped" ~> (pc[c] = "done" \/ server = "down")

\* Docs: "Process exit removes the live session".
ExitRemoves ==
    \A s \in Session : exitInfo[s] ~> (s \notin sessions \/ server = "down")

\* Docs: "Server shutdown or restart ends all sessions".
ShutdownEndsAll ==
    server = "down" => \A s \in Session : process[s] # "none" => closed[s]
=============================================================================
