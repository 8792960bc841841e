----------------------------- MODULE Connection -----------------------------
(***************************************************************************)
(* A page and its session: useConnectionCoordinator with the runtime bridge, *)
(* the input queue, the message gateway and the status projector, on top of  *)
(* a transport (Link) and against the handlers of the server, of which those *)
(* of earlier sockets may still be at work.                                  *)
(*                                                                           *)
(* A step of the page is one task of the event loop.  React renders in a task *)
(* of its own, which replaces the closures of the handlers and runs the       *)
(* effects, except that a click is rendered before the next task.  Until then *)
(* the handlers see the session and the mode of the last rendering.  The      *)
(* handlers of the socket are only compared with the state by the next open,  *)
(* which no rendering is slow enough to miss.                                *)
(*                                                                           *)
(* A page that goes away is one that takes no further steps: its socket is    *)
(* lost to the server.  Left out: pings, names, the text of notices, the       *)
(* counters of bytes that the status bar shows, and an open socket that        *)
(* refuses to send.                                                           *)
(***************************************************************************)
EXTENDS Integers, Sequences

CONSTANTS
    Session,       \* session ids; one that has gone is not used again
    Conn,          \* sockets; one that is closed on both sides is used again
    None,
    Kept,          \* the session the page finds in its storage, or None
    OutboxLimit,   \* OUTBOX_MAX_BYTES
    ChunkBytes,    \* lengths of the chunks that are typed
    Dimension,     \* sizes the terminal's element can have
    DimensionMax,  \* TERMINAL_DIMENSION_LIMIT.MAX; MIN is 1
    MaxActs,       \* bound: keys, changes of size, commands, faults, and ends of
                   \* sessions together
    MaxQueue       \* bound: messages on their way in one direction

ASSUME ConnectionConstants ==
    /\ None \notin Session \cup Conn
    /\ Kept \in Session \cup {None}
    /\ OutboxLimit \in Nat /\ DimensionMax \in Nat \ {0}
    /\ ChunkBytes \subseteq Nat \ {0} /\ Dimension \subseteq Nat
    /\ MaxActs \in Nat /\ MaxQueue \in Nat \ {0}

VARIABLES
    link, status, page,  \* the transport, see Link
    cur,         \* the socket of the link
    runtime,     \* the terminal: "loading", "ready", "failed"
    sessionId, attachMode,  \* the session the page is in, and how
    seen,        \* the session and the mode of the last rendering
    shown,       \* connection-status-projector: the transport's status and the flag
    outbox,      \* chunks of input that could not be sent
    pendingResize,  \* a size that could not be sent, or None
    fitSize,     \* runtimeFitSizeRef
    dims,        \* the size of the terminal's element
    fitDue,      \* a resize observer or a timer is going to call fitAndSyncSize
    screen,      \* sessions whose output is on the screen
    handler,     \* of every socket, the server's handler: its session and role
    up, down,    \* of every socket, the messages to and from the server
    sess,        \* of every session: "unused", "running", "ended", "gone"
    size,        \* of every session, the size its process has been given
    \* bounds and observations
    acts,        \* acts left
    typed,       \* chunks typed so far; a chunk is known by its number
    era,         \* sessions chosen so far
    eraOf,       \* of every socket, the era it attached in
    got,         \* of every session, the chunks its process was written
    verdict      \* the last thing the user was to be told of the session on this link,
                 \* and whether its handler came before the effect of the status

transportVars == <<link, status, page, cur>>
serverVars == <<handler, down, sess, size, got>>
choiceVars == <<sessionId, attachMode>>
inputVars == <<outbox, pendingResize, typed>>
sizeVars == <<fitSize, dims, fitDue>>
viewVars == <<seen, shown, verdict>>
eraVars == <<era, eraOf>>
vars == <<transportVars, serverVars, up, choiceVars, inputVars, sizeVars, viewVars, eraVars,
          runtime, screen, acts>>

L == INSTANCE Link

Act == acts > 0 /\ acts' = acts - 1

Idle == [session |-> None, readOnly |-> FALSE]
Flag == {"runtime_error", "protocol_incompatible", "session_not_found", "remote_exit"}
Handler == [session : Session \cup {None}, readOnly : BOOLEAN]

ASSUME NoneIsNothing ==
    None \notin Handler \cup Flag
              \cup {"malformed_payload", "incompatible_version", "unsupported_type",
                    "attach_forbidden"}

TypeOK ==
    /\ link \in {"none", "connecting", "open", "closing"}
    /\ status \in {"connecting", "reconnecting", "connected", "closed", "error"}
    /\ page \in {"booting", "active", "gone"}
    /\ cur \in Conn \cup {None} /\ (cur = None <=> link = "none")
    /\ runtime \in {"loading", "ready", "failed"}
    /\ sessionId \in Session \cup {None} /\ attachMode \in {"control", "watch"}
    /\ seen \in [session : Session \cup {None}, mode : {"control", "watch"}]
    /\ shown.flag \in Flag \cup {None}
    /\ \A i \in 1 .. Len(outbox) : outbox[i].n \in 1 .. MaxActs
    /\ pendingResize \in Dimension \cup {None} /\ fitSize \in Nat /\ dims \in Dimension
    /\ fitDue \in BOOLEAN
    /\ screen \subseteq Session
    /\ handler \in [Conn -> Handler \cup {None}]
    /\ sess \in [Session -> {"unused", "running", "ended", "gone"}]
    /\ size \in [Session -> 0 .. DimensionMax]
    /\ typed \in 0 .. MaxActs /\ era \in 0 .. MaxActs
    /\ verdict \in [flag : Flag, early : BOOLEAN] \cup {None}

Init ==
    /\ L!Init /\ cur = None /\ runtime = "loading"
    /\ sessionId = Kept /\ attachMode = "control"
    /\ seen = [session |-> Kept, mode |-> "control"]
    /\ shown = [transport |-> "connecting", flag |-> None]
    /\ outbox = <<>> /\ pendingResize = None
    /\ fitSize = 1 /\ dims = 1 /\ fitDue = FALSE   \* 80 x 24 until the first fit
    /\ screen = {}
    /\ handler = [c \in Conn |-> None]
    /\ up = [c \in Conn |-> <<>>] /\ down = [c \in Conn |-> <<>>]
    /\ sess = [s \in Session |-> IF s = Kept THEN "running" ELSE "unused"]
    /\ size = [s \in Session |-> 0]
    /\ acts = MaxActs
    /\ typed = 0 /\ era = 0 /\ eraOf = [c \in Conn |-> 0]
    /\ got = [s \in Session |-> <<>>]
    /\ verdict = None

-----------------------------------------------------------------------------
(* Messages.                                                               *)

\* normalizeTerminalDimension.
Normalize(d) == IF d < 1 THEN 1 ELSE IF d > DimensionMax THEN DimensionMax ELSE d

AttachMessage(s, d, watch) ==
    [type |-> "attach", session |-> s, size |-> Normalize(d), watch |-> watch]
InputMessage(chunk) ==   \* early: the server has not attached this socket yet
    [type |-> "input", n |-> chunk.n, era |-> chunk.era, early |-> handler[cur] = Idle]
ResizeMessage(d) == [type |-> "resize", size |-> Normalize(d)]

\* What a server sends.
Ready(s, readOnly) == [type |-> "ready", session |-> s, readOnly |-> readOnly, version |-> 1]
Output(s) == [type |-> "output", data |-> s]
Exit == [type |-> "exit", code |-> 0, signal |-> 0]
Error(code) == [type |-> "error", message |-> "text", code |-> code]

\* A server of another version may send frames of another form.
Foreign == [type |-> "foreign"]
ForeignFrame ==
    {[type |-> "ready", session |-> s, readOnly |-> FALSE, version |-> 2] : s \in {None, Kept}}
        \cup {[type |-> "exit", code |-> 0, signal |-> -1], [type |-> "no object"],
              [type |-> "banner"], Error("incompatible_version"), Error("banned")}

\* parseServerMessageWithReason: what is wrong with a frame.
ParseFailure(frame) ==
    CASE frame.type = "ready" /\ (frame.session = None \/ frame.readOnly \notin BOOLEAN)
            -> "malformed_payload"
      [] frame.type = "ready" /\ frame.session # None /\ frame.version # 1
            -> "incompatible_version"
      [] frame.type = "exit" /\ (frame.code < 0 \/ frame.signal < 0) -> "malformed_payload"
      [] frame.type = "no object" -> "malformed_payload"
      [] frame.type \notin {"ready", "output", "exit", "error", "no object"} -> "unsupported_type"
      [] OTHER -> None

\* SERVER_ERROR_SIDE_EFFECTS.
ErrorPolicy(code) ==
    CASE code = "session_not_found" -> [flag |-> "session_not_found", watch |-> FALSE]
      [] code = "attach_forbidden" -> [flag |-> None, watch |-> TRUE]
      [] code = "incompatible_version" -> [flag |-> "protocol_incompatible", watch |-> FALSE]
      [] OTHER -> [flag |-> None, watch |-> FALSE]

-----------------------------------------------------------------------------
(* The status of the status bar.                                            *)

\* reduceConnectionStatusState, for the effect that follows the transport's status.
TransportStatus(sh, st) ==
    [transport |-> st, flag |-> IF st = "connected" THEN None ELSE sh.flag]

\* The effect runs when the status has changed.  (Mutant: after every rendering.)
StatusEffectAlways(sh, st) == TransportStatus(sh, st)
StatusEffect(sh, st) == IF st = sh.transport THEN sh ELSE TransportStatus(sh, st)

\* projectStatus.
ProjectStatus(sh) ==
    CASE sh.flag \in {"runtime_error", "protocol_incompatible"} -> "error"
      [] sh.flag \in {"session_not_found", "remote_exit"} /\ sh.transport = "connected" -> "closed"
      [] OTHER -> sh.transport

\* A rendering in which the session is s, the mode m and the transport's status st.
\* Another mode makes another sendResize: the resize observer is set up again.
Rendered(s, m, sh, st) ==
    /\ seen' = [session |-> s, mode |-> m]
    /\ shown' = StatusEffect(sh, st)
    /\ fitDue' = (fitDue \/ (m # seen.mode /\ runtime = "ready"))

Render ==
    /\ \/ seen # [session |-> sessionId, mode |-> attachMode]
       \/ shown.transport # status
    /\ Rendered(sessionId, attachMode, shown, status)
    /\ UNCHANGED <<transportVars, serverVars, up, choiceVars, inputVars, fitSize, dims,
                   verdict, eraVars, runtime, screen, acts>>

-----------------------------------------------------------------------------
(* Sending and queueing.                                                    *)

\* sendPayload: only on an open socket.  What is sent after the server's handler has
\* gone is lost.
CanSend == link = "open"
Sent(messages) ==
    up' = IF handler[cur] = None THEN up ELSE [up EXCEPT ![cur] = @ \o messages]

InputMessages(chunks) == [i \in 1 .. Len(chunks) |-> InputMessage(chunks[i])]

Bytes(chunks) ==
    LET sum[i \in 0 .. Len(chunks)] == IF i = 0 THEN 0 ELSE sum[i - 1] + chunks[i].bytes
    IN  sum[Len(chunks)]

\* enqueueOutbox: too large a chunk is dropped, otherwise the oldest ones are until
\* the rest fits.
EnqueueOutbox(chunk) ==
    LET all == Append(outbox, chunk)
        Rest(i) == SubSeq(all, i, Len(all))
    IN  \/ chunk.bytes > OutboxLimit /\ UNCHANGED outbox
        \/ /\ chunk.bytes <= OutboxLimit
           /\ \E first \in 1 .. Len(all) :
                 /\ Bytes(Rest(first)) <= OutboxLimit
                 /\ \A i \in 1 .. first - 1 : Bytes(Rest(i)) > OutboxLimit
                 /\ outbox' = Rest(first)

\* handleRuntimeInput, of a page that is not watching.  (Mutant: the queue is left
\* for the ready message to flush.)
HandleRuntimeInputPassing(chunk) ==
    \/ CanSend /\ Sent(<<InputMessage(chunk)>>) /\ UNCHANGED outbox
    \/ ~CanSend /\ EnqueueOutbox(chunk) /\ UNCHANGED up

HandleRuntimeInput(chunk) ==
    \/ CanSend /\ Sent(InputMessages(Append(outbox, chunk))) /\ outbox' = <<>>
    \/ ~CanSend /\ EnqueueOutbox(chunk) /\ UNCHANGED up

\* The user types.  While the page is watching, as far as the handler knows, it is
\* ignored.
Type(bytes) ==
    /\ runtime = "ready" /\ page = "active"
    /\ seen.mode = "control"
    /\ Act
    /\ cur # None => Len(up[cur]) < MaxQueue
    /\ typed' = typed + 1
    /\ HandleRuntimeInput([n |-> typed + 1, bytes |-> bytes, era |-> era])
    /\ UNCHANGED <<transportVars, serverVars, choiceVars, pendingResize, sizeVars, viewVars,
                   eraVars, runtime, screen>>

\* The window, the font or the layout changes.
Layout(d) ==
    /\ Act
    /\ dims' = d /\ fitDue' = (runtime = "ready")
    /\ UNCHANGED <<transportVars, serverVars, up, choiceVars, inputVars, fitSize, viewVars,
                   eraVars, runtime, screen>>

\* sendResize: a watching page does not, and what cannot be sent is kept.
SendResize(d) ==
    \/ seen.mode = "watch" /\ pendingResize' = None /\ UNCHANGED up
    \/ seen.mode = "control" /\ CanSend /\ pendingResize' = None /\ Sent(<<ResizeMessage(d)>>)
    \/ seen.mode = "control" /\ ~CanSend /\ pendingResize' = d /\ UNCHANGED up

FitAndSyncSize ==
    /\ fitDue /\ page = "active"
    /\ cur # None => Len(up[cur]) < MaxQueue
    /\ fitDue' = FALSE
    /\ fitSize' = dims
    /\ SendResize(dims)
    /\ UNCHANGED <<transportVars, serverVars, choiceVars, outbox, typed, dims, viewVars,
                   eraVars, runtime, screen, acts>>

\* resetQueuedBuffers.
ResetQueuedBuffers == outbox' = <<>> /\ pendingResize' = None

\* resetRuntimeBuffers.  (Mutant: only the screen is reset.)
ResetScreenOnly == screen' = {} /\ UNCHANGED <<outbox, pendingResize>>
ResetRuntimeBuffers == screen' = {} /\ ResetQueuedBuffers

\* flushQueuedInput and flushPendingResize, of a page whose socket is open: what they
\* send.  A page that is watching drops its input.
FlushQueuedInput == IF seen.mode = "watch" THEN <<>> ELSE InputMessages(outbox)
FlushPendingResize == IF pendingResize = None THEN <<>> ELSE <<ResizeMessage(pendingResize)>>

\* flushAfterReady: the screen is reset; a read-only page drops what is queued,
\* another one sends it.  (Mutant: the queue waits for the next key.)
FlushAfterReadyLazily(readOnly) ==
    IF readOnly THEN ResetRuntimeBuffers /\ UNCHANGED up
    ELSE screen' = {} /\ UNCHANGED <<outbox, pendingResize, up>>

FlushAfterReady(readOnly) ==
    IF readOnly THEN ResetRuntimeBuffers /\ UNCHANGED up
    ELSE /\ screen' = {}
         /\ ResetQueuedBuffers
         /\ Sent(FlushQueuedInput \o FlushPendingResize)

-----------------------------------------------------------------------------
(* The transport.                                                          *)

Free(c) == c # cur /\ handler[c] = None /\ up[c] = <<>>

\* What comes on the current socket is not looked at any more.
TurnAway == down' = [d \in Conn |-> IF d = cur THEN <<>> ELSE down[d]]

\* A new socket is the current one; "set-connecting" depends on the session.
NewSocket ==
    /\ L!Dial
    /\ status' = IF seen.session = None THEN "connecting" ELSE "reconnecting"
    /\ \E c \in Conn : Free(c) /\ cur' = c
    /\ TurnAway

\* No socket: an invalid endpoint.
NoSocket ==
    /\ L!Refused
    /\ cur' = IF link' = "none" THEN None ELSE cur
    /\ TurnAway

clientVars == <<choiceVars, inputVars, sizeVars, eraVars, runtime, screen>>
pageVars == <<clientVars, viewVars, acts>>
remoteVars == <<handler, sess, size, got>>

\* The terminal is ready: the effect connects, and the size is taken.
Boot ==
    /\ runtime = "loading"
    /\ runtime' = "ready" /\ fitDue' = TRUE
    /\ \/ NewSocket /\ UNCHANGED acts
       \/ NoSocket /\ Act
    /\ UNCHANGED <<remoteVars, up, choiceVars, inputVars, fitSize, dims, viewVars,
                   eraVars, screen>>

\* It could not be loaded.
BootFails ==
    /\ runtime = "loading"
    /\ runtime' = "failed"
    /\ shown' = [shown EXCEPT !.flag = "runtime_error"]
    /\ UNCHANGED <<transportVars, serverVars, up, choiceVars, inputVars, sizeVars, seen, verdict,
                   eraVars, screen, acts>>

\* A reconnect timer, the close event after a command, or another endpoint.
Redial ==
    /\ page = "active"
    /\ \/ link = "none" /\ status = "reconnecting" /\ NewSocket /\ UNCHANGED acts
       \/ link = "closing" /\ NewSocket /\ UNCHANGED acts
       \/ (NewSocket \/ NoSocket) /\ Act
    /\ verdict' = None
    /\ UNCHANGED <<remoteVars, up, clientVars, seen, shown>>

\* onOpen: the page attaches to the session of the last rendering.
Opened ==
    /\ L!Opened
    /\ seen = [session |-> sessionId, mode |-> attachMode]
    /\ shown' = [shown EXCEPT !.flag = None]
    /\ verdict' = None
    /\ handler' = [handler EXCEPT ![cur] = Idle]
    /\ up' = [up EXCEPT ![cur] = <<AttachMessage(seen.session, fitSize, seen.mode = "watch")>>]
    /\ eraOf' = [eraOf EXCEPT ![cur] = era]
    /\ UNCHANGED <<cur, down, sess, size, got, choiceVars, inputVars, sizeVars, seen, era,
                   runtime, screen, acts>>

\* The network fails, or the close event of a socket that was being closed.
Lost ==
    /\ L!Lost
    /\ status' \in {"reconnecting", "error"}
    /\ IF link = "closing" THEN UNCHANGED acts ELSE Act
    /\ cur' = None
    /\ TurnAway
    /\ verdict' = None
    /\ UNCHANGED <<remoteVars, up, clientVars, seen, shown>>

\* A pong timeout closes the socket.
HangUp ==
    /\ L!HangUp
    /\ Act
    /\ TurnAway
    /\ verdict' = None
    /\ UNCHANGED <<cur, remoteVars, up, clientVars, seen, shown>>

-----------------------------------------------------------------------------
(* Commands of the user.                                                    *)

\* reconnectNow and scheduleFreshConnection of the coordinator, with the rendering.
ReconnectNow(s, m) ==
    /\ page = "active"
    /\ Act
    /\ \/ L!HangUp /\ UNCHANGED cur /\ TurnAway
       \/ link \in {"none", "closing"} /\ (NewSocket \/ NoSocket)
    /\ Rendered(s, m, [shown EXCEPT !.flag = None], status')
    /\ verdict' = None
    /\ UNCHANGED <<remoteVars, up, typed, fitSize, dims, runtime, eraOf>>

Reconnect ==
    /\ ReconnectNow(sessionId, attachMode)
    /\ UNCHANGED <<choiceVars, outbox, pendingResize, screen, era>>

\* attachToSession and resumePreviousSession; startFreshSession without a session.
Choose(s, m) ==
    /\ IF s = None THEN m = "control" ELSE sess[s] # "unused"
    /\ ResetRuntimeBuffers
    /\ sessionId' = s /\ attachMode' = m
    /\ era' = era + 1
    /\ ReconnectNow(s, m)

-----------------------------------------------------------------------------
(* Messages from the server.                                                *)

\* onReady.
HandleReady(message) ==
    /\ sessionId' = message.session
    /\ attachMode' = IF message.readOnly THEN "watch" ELSE "control"
    /\ shown' = [shown EXCEPT !.flag = None]
    /\ verdict' = None
    /\ FlushAfterReady(message.readOnly)

\* The flag of a message.  It comes early if the effect of a status that has just
\* changed is still to come.
Tell(flag) ==
    /\ shown' = IF flag = None THEN shown ELSE [shown EXCEPT !.flag = flag]
    /\ verdict' = IF flag = None THEN verdict
                  ELSE [flag |-> flag, early |-> shown.transport # status]

\* handleServerError.
HandleError(code) ==
    LET policy == ErrorPolicy(code)
    IN  /\ Tell(policy.flag)
        /\ sessionId' = IF code = "session_not_found" THEN None ELSE sessionId
        /\ attachMode' = IF code = "session_not_found" THEN "control"
                         ELSE IF policy.watch THEN "watch" ELSE attachMode
        /\ UNCHANGED <<outbox, pendingResize, up, screen>>

\* onExit, onOutput and onProtocolFailure.
HandleExit == Tell("remote_exit") /\ UNCHANGED <<choiceVars, outbox, pendingResize, up, screen>>

HandleOutput(message) ==
    /\ screen' = screen \cup {message.data}
    /\ UNCHANGED <<choiceVars, outbox, pendingResize, up, shown, verdict>>

HandleProtocolFailure(failure) ==
    /\ Tell(IF failure = "incompatible_version" THEN "protocol_incompatible" ELSE None)
    /\ UNCHANGED <<choiceVars, outbox, pendingResize, up, screen>>

\* handleIncomingServerMessage.
HandleMessage(frame) ==
    LET failure == ParseFailure(frame)
    IN  \/ failure # None /\ HandleProtocolFailure(failure)
        \/ failure = None /\ frame.type = "ready" /\ HandleReady(frame)
        \/ failure = None /\ frame.type = "error" /\ HandleError(frame.code)
        \/ failure = None /\ frame.type = "exit" /\ HandleExit
        \/ failure = None /\ frame.type = "output" /\ HandleOutput(frame)

Receive ==
    /\ link = "open"
    /\ down[cur] # <<>>
    /\ down' = [down EXCEPT ![cur] = Tail(@)]
    /\ \E frame \in IF Head(down[cur]) = Foreign THEN ForeignFrame ELSE {Head(down[cur])} :
          HandleMessage(frame)
    /\ UNCHANGED <<transportVars, remoteVars, typed, sizeVars, seen, eraVars, runtime, acts>>

-----------------------------------------------------------------------------
(* The server, as its terminal handler and its manager answer.              *)

Controls(c, s) == handler[c] = [session |-> s, readOnly |-> FALSE]

\* What is sent on a socket whose page has turned away is not looked at.
Reply(c, frames) == down' = IF c = cur /\ link = "open" THEN [down EXCEPT ![c] = @ \o frames] ELSE down

Replay(s) == IF sess[s] = "ended" THEN <<Output(s), Exit>> ELSE <<Output(s)>>

ServeAttach(c, message) ==
    LET s == message.session
    IN  \/ /\ s # None /\ sess[s] \in {"running", "ended"} /\ message.watch
           /\ handler' = [handler EXCEPT ![c] = [session |-> s, readOnly |-> TRUE]]
           /\ Reply(c, <<Ready(s, TRUE)>> \o Replay(s))
           /\ UNCHANGED <<sess, size>>
        \/ /\ s # None /\ sess[s] \in {"running", "ended"} /\ ~message.watch
           /\ \A d \in Conn : ~Controls(d, s)
           /\ handler' = [handler EXCEPT ![c] = [session |-> s, readOnly |-> FALSE]]
           /\ size' = [size EXCEPT ![s] = message.size]
           /\ Reply(c, <<Ready(s, FALSE)>> \o Replay(s))
           /\ UNCHANGED sess
        \/ /\ s # None /\ sess[s] \in {"running", "ended"} /\ ~message.watch
           /\ \E d \in Conn : Controls(d, s)
           /\ Reply(c, <<Error("attach_forbidden")>>)
           /\ UNCHANGED <<handler, sess, size>>
        \/ /\ s # None /\ sess[s] \notin {"running", "ended"}
           /\ Reply(c, <<Error("session_not_found")>>)
           /\ UNCHANGED <<handler, sess, size>>
        \/ /\ s = None
           /\ \E new \in Session :
                 /\ sess[new] = "unused"
                 /\ sess' = [sess EXCEPT ![new] = "running"]
                 /\ size' = [size EXCEPT ![new] = message.size]
                 /\ handler' = [handler EXCEPT ![c] = [session |-> new, readOnly |-> FALSE]]
                 /\ Reply(c, <<Ready(new, FALSE)>>)

\* The process of a new session cannot be started, or the server has another version.
ServeTrouble(c, message) ==
    \/ message.session = None /\ Reply(c, <<Error(None)>>)
    \/ Reply(c, <<Foreign>>)

\* Input and sizes; a refusal of either only leads to a notice, and is left out.
ServeSteering(c, message) ==
    LET s == handler[c].session
        steers == s # None /\ ~handler[c].readOnly /\ sess[s] = "running"
    IN  \/ /\ steers /\ message.type = "input"
           /\ got' = [got EXCEPT ![s] = Append(@, [n |-> message.n, early |-> message.early])]
           /\ UNCHANGED size
        \/ /\ steers /\ message.type = "resize"
           /\ size' = [size EXCEPT ![s] = message.size]
           /\ UNCHANGED got
        \/ ~steers /\ UNCHANGED <<got, size>>

Serve(c) ==
    /\ handler[c] # None /\ up[c] # <<>>
    /\ Len(down[c]) < MaxQueue
    /\ up' = [up EXCEPT ![c] = Tail(@)]
    /\ LET message == Head(up[c])
       IN  \/ message.type = "attach" /\ ServeAttach(c, message) /\ UNCHANGED <<got, acts>>
           \/ /\ message.type = "attach" /\ ServeTrouble(c, message) /\ Act
              /\ UNCHANGED <<handler, sess, size, got>>
           \/ /\ message.type # "attach" /\ ServeSteering(c, message)
              /\ UNCHANGED <<handler, down, sess, acts>>
    /\ UNCHANGED <<transportVars, clientVars, viewVars>>

\* The handler's read fails, and it detaches: what was on its way is lost.
HandlerEnds(c) ==
    /\ handler[c] # None
    /\ IF c = cur /\ link # "closing" THEN Act ELSE UNCHANGED acts
    /\ handler' = [handler EXCEPT ![c] = None]
    /\ up' = [up EXCEPT ![c] = <<>>]
    /\ UNCHANGED <<transportVars, down, sess, size, got, clientVars, viewVars>>

Attached(s) == {c \in Conn : handler[c] # None /\ handler[c].session = s}

\* The process of a session ends; everybody attached is told.
SessionEnds(s) ==
    /\ sess[s] = "running"
    /\ Act
    /\ \A c \in Attached(s) : Len(down[c]) < MaxQueue
    /\ sess' = [sess EXCEPT ![s] = "ended"]
    /\ down' = [c \in Conn |-> IF c \in Attached(s) /\ c = cur /\ link = "open"
                               THEN Append(down[c], Exit) ELSE down[c]]
    /\ UNCHANGED <<transportVars, handler, up, size, got, clientVars, viewVars>>

\* A session that has ended or is detached is removed, with its process.
SessionGoes(s) ==
    /\ sess[s] \in {"running", "ended"}
    /\ sess[s] = "running" => Attached(s) = {}
    /\ Act
    /\ sess' = [sess EXCEPT ![s] = "gone"]
    /\ size' = [size EXCEPT ![s] = 0] /\ got' = [got EXCEPT ![s] = <<>>]
    /\ UNCHANGED <<transportVars, handler, up, down, clientVars, viewVars>>

-----------------------------------------------------------------------------
Page ==
    \/ Boot \/ BootFails \/ Render \/ FitAndSyncSize
    \/ (\E bytes \in ChunkBytes : Type(bytes))
    \/ (\E d \in Dimension \ {dims} : Layout(d))
    \/ Reconnect
    \/ (\E s \in Session \cup {None}, m \in {"control", "watch"} : Choose(s, m))
    \/ Receive

Transport == Redial \/ Opened \/ Lost \/ HangUp

Server ==
    \/ \E c \in Conn : Serve(c) \/ HandlerEnds(c)
    \/ \E s \in Session : SessionEnds(s) \/ SessionGoes(s)

Next == Page \/ Transport \/ Server

Spec == Init /\ [][Next]_vars

-----------------------------------------------------------------------------
(* Properties.                                                             *)

\* A process is written no chunk twice, and the chunks in the order in which they were
\* typed, across reconnects, queueing, eviction and the flush that a keystroke and a
\* ready message both do, and although handlers of earlier sockets may still be at
\* work (terminal-outbox.ts, connection-input-backpressure.ts).  The exception is a
\* chunk that was sent before its socket was attached: it may come late, when its
\* socket is attached after the session has already been written on a newer one.
InputInOrder ==
    \A s \in Session : \A i, j \in 1 .. Len(got[s]) :
        i < j => \/ got[s][i].n < got[s][j].n
                 \/ got[s][i].n > got[s][j].n /\ got[s][j].early

\* Sessions do not mix: what was typed before the user chose another session is never
\* sent on a socket that attaches to the new one, and the screen shows the output of
\* the page's own session only (resetRuntimeBuffers, flushAfterReady).
NoCrossTalk ==
    /\ \A c \in Conn : \A i \in 1 .. Len(up[c]) :
          up[c][i].type = "input" => up[c][i].era = eraOf[c]
    /\ sessionId # None => screen \subseteq {sessionId}

\* Nothing is on its way, and the page controls a session that runs.
Settled ==
    /\ link = "open" /\ up[cur] = <<>> /\ down[cur] = <<>>
    /\ handler[cur] # None /\ handler[cur].session # None /\ ~handler[cur].readOnly
    /\ sess[handler[cur].session] = "running"
    /\ ~fitDue

\* Once the page controls its session, nothing stays queued for it, and its process
\* has the size of the terminal, whatever was typed or resized while the connection
\* was down, in between, or while the page was only watching.
ReadyIsSynced ==
    Settled => /\ outbox = <<>> /\ pendingResize = None
               /\ size[handler[cur].session] = Normalize(dims)

\* What the user has been told of the session (it has ended, it does not exist, the
\* server is of another version) once the status bar follows the connection stays there
\* as long as the connection does: no effect of a later rendering shows it as connected
\* again.  Only what came before the effect of the status "connected" is taken away, by
\* that effect (connection-status-projector.ts, connection-coordinator.ts).
VerdictShown == verdict # None /\ ~verdict.early => ProjectStatus(shown) # "connected"
=============================================================================
