-------------------------- MODULE ConnectionProofs --------------------------
(***************************************************************************)
(* Proofs about Connection, for any sessions, sockets, limits and sizes:   *)
(* input reaches a process in order and once, sessions do not mix, a       *)
(* controlling page is in step with its session, and what the user was     *)
(* told stays on the screen.                                               *)
(***************************************************************************)
EXTENDS Connection, SequenceTheorems, TLAPS

Mode == {"control", "watch"}
Status == {"connecting", "reconnecting", "connected", "closed", "error"}

\* What is on its way to the server on a socket that attached in era e, and to the page.
Wire(e) ==
    [type : {"attach"}, session : Session \cup {None}, size : Nat, watch : BOOLEAN]
        \cup [type : {"input"}, n : Nat, era : {e}, early : BOOLEAN]
        \cup [type : {"resize"}, size : Nat]
Frame ==
    [type : {"ready"}, session : Session, readOnly : BOOLEAN, version : {1}]
        \cup [type : {"output"}, data : Session]
        \cup [type : {"error"}, message : {"text"},
              code : {None, "attach_forbidden", "session_not_found"}]
        \cup {Exit, Foreign}
Chunk(e) == [n : Nat, bytes : Nat, era : {e}]

-----------------------------------------------------------------------------
(* The invariant.                                                           *)

\* The link: it is up only once the terminal is ready, an open one shows as connected,
\* and what was sent on a socket the page has left is not looked at.
LinkInv ==
    /\ link \in {"none", "connecting", "open", "closing"} /\ status \in Status
    /\ cur \in Conn \cup {None} /\ (cur = None <=> link = "none")
    /\ link = "open" => status = "connected"
    /\ runtime # "ready" => link = "none" /\ page = "booting"

ChoiceInv ==
    /\ sessionId \in Session \cup {None} /\ attachMode \in Mode
    /\ sessionId = None => attachMode = "control"
    /\ seen \in [session : Session \cup {None}, mode : Mode]

\* A verdict is given on an open link, and the flag of one that is not early is not
\* waiting for an effect.
VerdictInv ==
    /\ shown \in [transport : Status, flag : Flag \cup {None}]
    /\ verdict # None => link = "open"
    /\ verdict # None /\ ~verdict.early => shown.transport = "connected" /\ shown.flag \in Flag

\* Input on its way on a socket is of the era of the socket, and queued input of the
\* current one; so is an open link.
EraInv ==
    /\ era \in Nat /\ eraOf \in [Conn -> Nat]
    /\ link = "open" => eraOf[cur] = era
    /\ DOMAIN up = Conn /\ \A c \in Conn : up[c] \in Seq(Wire(eraOf[c]))
    /\ outbox \in Seq(Chunk(era))

\* Only an open link has frames on their way; output follows the ready message of its
\* session, which may have been handled already.
Announced(q, s) ==
    \A i \in 1 .. Len(q) : q[i].type = "output" =>
        \/ i = 1 /\ q[i].data = s
        \/ i > 1 /\ q[i - 1].type = "ready" /\ q[i - 1].session = q[i].data
DownInv ==
    /\ down \in [Conn -> Seq(Frame)]
    /\ \A c \in Conn : c # cur \/ link # "open" => down[c] = <<>>
    /\ link = "open" => Announced(down[cur], sessionId)
    /\ link = "open" => \A i \in 1 .. Len(down[cur]) :
          down[cur][i].type = "error" /\ down[cur][i].code = "attach_forbidden" =>
              i = 1 /\ sessionId # None
    /\ screen \subseteq Session
    /\ sessionId # None => screen \subseteq {sessionId}

\* The server: one controller per session at most, of a session that has been created;
\* an attach comes first on its socket.
ServerInv ==
    /\ handler \in [Conn -> Handler \cup {None}]
    /\ DOMAIN sess = Session /\ DOMAIN size = Session
    /\ \A c, d \in Conn : \A s \in Session : Controls(c, s) /\ Controls(d, s) => c = d
    /\ \A c \in Conn : handler[c] # None /\ handler[c].session # None =>
          sess[handler[c].session] # "unused"
    /\ \A c \in Conn : \A i \in 1 .. Len(up[c]) :
          up[c][i].type = "attach" =>
              i = 1 /\ handler[c] = Idle /\ (up[c][i].session = None => ~up[c][i].watch)

\* Chunks: each is queued, or on its way on one socket, or written; what is queued is
\* newer than what was sent, and what was sent is in order on every socket.
Inputs(c) == {i \in 1 .. Len(up[c]) : up[c][i].type = "input"}
FreshInv ==
    /\ typed \in Nat
    /\ \A k \in 1 .. Len(outbox) :
          /\ outbox[k].n <= typed
          /\ \A j \in 1 .. k - 1 : outbox[j].n < outbox[k].n
          /\ \A c \in Conn : \A i \in Inputs(c) : up[c][i].n < outbox[k].n
          /\ \A s \in Session : \A i \in 1 .. Len(got[s]) : got[s][i].n < outbox[k].n
    /\ \A c \in Conn : \A i \in Inputs(c) : up[c][i].n <= typed
    /\ \A s \in Session : \A i \in 1 .. Len(got[s]) : got[s][i].n <= typed
WireInv ==
    /\ \A c \in Conn : \A i, j \in Inputs(c) : i < j => up[c][i].n < up[c][j].n
    /\ \A c, d \in Conn : \A i \in Inputs(c), j \in Inputs(d) :
          c # d => up[c][i].n # up[d][j].n
    /\ \A c \in Conn : \A i \in Inputs(c) : handler[c] = Idle => up[c][i].early

\* What a socket may still write to a session is newer than what the session was
\* written, or early.
WriteInv ==
    /\ got \in [Session -> Seq([n : Nat, early : BOOLEAN])]
    /\ \A c \in Conn, s \in Session : handler[c] = Idle \/ Controls(c, s) =>
          \A i \in Inputs(c), k \in 1 .. Len(got[s]) :
             \/ got[s][k].n < up[c][i].n
             \/ got[s][k].n > up[c][i].n /\ up[c][i].early

\* Sizes the page knows of: the last fit is that of the element unless one is due, and a
\* size that is kept is that of the last fit.
FitInv ==
    /\ fitSize \in Nat /\ dims \in Nat /\ fitDue \in BOOLEAN
    /\ pendingResize # None => pendingResize = fitSize
    /\ runtime = "ready" /\ ~fitDue => fitSize = dims

\* An attached page has handled its ready message, or it is on its way.
ReadyInv ==
    link = "open" /\ handler[cur] # None /\ handler[cur].session # None =>
        \/ \E i \in 1 .. Len(down[cur]) : down[cur][i].type = "ready"
        \/ outbox = <<>> /\ pendingResize = None

\* The socket controls its session, or is going to ask for that.
AttachPending(c) == up[c] # <<>> /\ up[c][1].type = "attach"
Controlling(c) ==
    \/ AttachPending(c) /\ ~up[c][1].watch
    \/ handler[c].session # None /\ ~handler[c].readOnly

\* The last size on its way is that of the last fit.
SizeUnderway(q) ==
    \E k \in 1 .. Len(q) :
        /\ q[k].type \in {"attach", "resize"} /\ q[k].size = Normalize(fitSize)
        /\ \A j \in k + 1 .. Len(q) : q[j].type = "input"
SizeGiven(c) ==
    /\ \A j \in 1 .. Len(up[c]) : up[c][j].type = "input"
    /\ handler[c].session # None
    /\ sess[handler[c].session] = "running" =>
          size[handler[c].session] = Normalize(fitSize)

\* The page on a controlling socket is and stays in control, and the session has, or is
\* going to have, the size of the last fit.
SyncInv ==
    link = "open" /\ handler[cur] # None =>
        /\ AttachPending(cur) => down[cur] = <<>> /\ up[cur][1].session = sessionId
        /\ Controlling(cur) =>
              /\ attachMode = "control" /\ seen.mode = "control"
              /\ \A i \in 1 .. Len(down[cur]) :
                    /\ down[cur][i].type # "error"
                    /\ down[cur][i].type = "ready" => ~down[cur][i].readOnly
              /\ SizeUnderway(up[cur]) \/ SizeGiven(cur)

ConnInv ==
    /\ LinkInv /\ ChoiceInv /\ VerdictInv /\ EraInv /\ DownInv /\ ServerInv
    /\ FreshInv /\ WireInv /\ WriteInv /\ InputInOrder
    /\ FitInv /\ ReadyInv /\ SyncInv

\* The invariant holds initially.
LEMMA ConnInit == Init => ConnInv
<1> SUFFICES ASSUME Init PROVE ConnInv
  OBVIOUS
<1> USE ConnectionConstants, NoneIsNothing
<1>1. LinkInv
  BY DEF Init, L!Init, LinkInv, Status
<1>2. ChoiceInv /\ VerdictInv
  BY DEF Init, ChoiceInv, VerdictInv, Mode, Status
<1>3. /\ up \in [Conn -> {<<>>}] /\ down \in [Conn -> {<<>>}] /\ got \in [Session -> {<<>>}]
      /\ handler \in [Conn -> {None}] /\ outbox = <<>> /\ link = "none"
  BY DEF Init, L!Init
<1>4. EraInv
  BY <1>3 DEF Init, EraInv
<1>5. DownInv
  BY <1>3 DEF Init, DownInv
<1>6. ServerInv
  <2>1. handler \in [Conn -> Handler \cup {None}]
    BY <1>3
  <2>2. DOMAIN sess = Session /\ DOMAIN size = Session
    BY DEF Init
  <2>3. \A c \in Conn, s \in Session : ~Controls(c, s)
    <3>1. \A s \in Session : [session |-> s, readOnly |-> FALSE] \in Handler
      BY DEF Handler
    <3>2. None \notin Handler
      BY NoneIsNothing
    <3> HIDE ConnectionConstants, NoneIsNothing
    <3>3. \A c \in Conn : handler[c] = None
      BY <1>3
    <3> QED BY <3>1, <3>2, <3>3 DEF Controls
  <2> QED BY <1>3, <2>1, <2>2, <2>3 DEF ServerInv
<1>7. FreshInv /\ WireInv /\ WriteInv /\ InputInOrder
  BY <1>3 DEF Init, FreshInv, WireInv, WriteInv, InputInOrder, Inputs
<1>8. FitInv
  <2>1. fitDue \in BOOLEAN
    BY Zenon DEF Init
  <2> QED BY <2>1 DEF Init, FitInv
<1>9. ReadyInv /\ SyncInv
  BY <1>3 DEF ReadyInv, SyncInv
<1> QED BY <1>1, <1>2, <1>4, <1>5, <1>6, <1>7, <1>8, <1>9 DEF ConnInv

-----------------------------------------------------------------------------
(* What a step keeps by leaving it alone.                                   *)

\* The server, its sessions and what is on its way to it.
LEMMA ServerSame ==
    ASSUME ServerInv, UNCHANGED <<handler, sess, size, up>> PROVE ServerInv'
BY DEF ServerInv, Controls

\* The order of input.
LEMMA InputSame ==
    ASSUME WireInv, WriteInv, InputInOrder, UNCHANGED <<handler, up, got>>
    PROVE  WireInv' /\ WriteInv' /\ InputInOrder'
<1>1. \A c \in Conn : Inputs(c)' = Inputs(c)
  BY DEF Inputs
<1>2. WireInv'
  BY <1>1 DEF WireInv
<1>3. WriteInv'
  BY <1>1 DEF WriteInv, Controls
<1> QED BY <1>2, <1>3 DEF InputInOrder

\* The numbers of chunks, also when the queue is emptied.
LEMMA FreshSame ==
    ASSUME FreshInv, UNCHANGED <<typed, up, got>>, outbox' = outbox \/ outbox' = <<>>
    PROVE  FreshInv'
<1>1. \A c \in Conn : Inputs(c)' = Inputs(c)
  BY DEF Inputs
<1> QED BY <1>1 DEF FreshInv

\* What the page and its session know of each other.
LEMMA SyncSame ==
    ASSUME SyncInv, ReadyInv,
           UNCHANGED <<link, cur, handler, up, down, attachMode, sessionId, fitSize, sess, size>>,
           seen'.mode = seen.mode \/ seen'.mode = attachMode,
           UNCHANGED <<outbox, pendingResize>>
    PROVE  SyncInv' /\ ReadyInv'
<1>1. ReadyInv'
  BY DEF ReadyInv
<1>2. SyncInv'
  BY DEF SyncInv, Controlling, AttachPending, SizeUnderway, SizeGiven, Normalize
<1> QED BY <1>1, <1>2

-----------------------------------------------------------------------------
(* The page leaves its socket: a new one, none, or the one that is closing. *)

\* After TurnAway no frame is on its way.
LEMMA TurnAwayEmpty ==
    ASSUME DownInv, TurnAway
    PROVE  down' \in [Conn -> Seq(Frame)] /\ \A c \in Conn : down'[c] = <<>>
BY DEF DownInv, TurnAway

\* The invariant, when the page has left its socket, with its input or without.
LEMMA LeaveKeeps ==
    ASSUME ConnInv, LinkInv', ChoiceInv', VerdictInv', FitInv',
           link' # "open", TurnAway,
           UNCHANGED <<handler, sess, size, got, up, eraOf, typed>>,
           \/ UNCHANGED <<outbox, era, sessionId, screen>>
           \/ outbox' = <<>> /\ era' \in Nat /\ screen' = {}
    PROVE  ConnInv'
<1>1. EraInv'
  <2>1. era' \in Nat /\ outbox' \in Seq(Chunk(era'))
    <3>1. CASE UNCHANGED <<outbox, era>>
      BY <3>1 DEF ConnInv, EraInv
    <3>2. CASE outbox' = <<>> /\ era' \in Nat
      <4>1. <<>> \in Seq(Chunk(era'))
        BY EmptySeq
      <4> QED BY <3>2, <4>1
    <3> QED BY <3>1, <3>2
  <2>2. DOMAIN up' = Conn /\ \A c \in Conn : up'[c] \in Seq(Wire(eraOf'[c]))
    BY DEF ConnInv, EraInv
  <2> QED BY <2>1, <2>2 DEF ConnInv, EraInv
<1>2. DownInv'
  BY TurnAwayEmpty DEF ConnInv, DownInv
<1>3. ServerInv' /\ FreshInv' /\ WireInv' /\ WriteInv' /\ InputInOrder'
  BY ServerSame, FreshSame, InputSame DEF ConnInv
<1>4. ReadyInv' /\ SyncInv'
  BY DEF ReadyInv, SyncInv
<1> QED BY <1>1, <1>2, <1>3, <1>4 DEF ConnInv

\* A new socket, or none.
LEMMA SocketKeeps ==
    ASSUME LinkInv, NewSocket \/ NoSocket, runtime' = "ready"
    PROVE  LinkInv' /\ link' # "open" /\ TurnAway
<1>1. CASE NewSocket
  <2>1. link' = "connecting" /\ status' \in {"connecting", "reconnecting"}
    BY <1>1 DEF NewSocket, L!Dial
  <2>2. cur' \in Conn /\ cur' # None /\ TurnAway
    BY <1>1, ConnectionConstants DEF NewSocket
  <2> QED BY <2>1, <2>2 DEF LinkInv, Status
<1>2. CASE NoSocket
  <2>1. link' \in {"none", "closing"} /\ (link = "none" => link' = "none") /\ status' = "error"
    BY <1>2 DEF NoSocket, L!Refused
  <2>2. cur' = (IF link' = "none" THEN None ELSE cur) /\ TurnAway
    BY <1>2 DEF NoSocket
  <2> QED BY <2>1, <2>2 DEF LinkInv, Status
<1> QED BY <1>1, <1>2

\* The terminal is ready and connects.
LEMMA BootStep == ASSUME ConnInv, Boot PROVE ConnInv'
<1>1. /\ runtime = "loading" /\ runtime' = "ready" /\ fitDue' = TRUE
      /\ NewSocket \/ NoSocket
      /\ UNCHANGED <<remoteVars, up, choiceVars, inputVars, fitSize, dims, viewVars,
                      eraVars, screen>>
  BY DEF Boot
<1>2. LinkInv' /\ link' # "open" /\ TurnAway
  BY <1>1, SocketKeeps DEF ConnInv
<1>3. ChoiceInv'
  BY <1>1 DEF ConnInv, ChoiceInv, choiceVars, viewVars
<1>4. verdict = None
  BY <1>1 DEF ConnInv, LinkInv, VerdictInv
<1>5. VerdictInv'
  BY <1>1, <1>4 DEF ConnInv, VerdictInv, viewVars
<1>6. FitInv'
  <2>1. fitDue' \in BOOLEAN
    BY <1>1, Zenon
  <2> QED BY <1>1, <2>1 DEF ConnInv, FitInv, inputVars
<1>7. /\ UNCHANGED <<handler, sess, size, got, up, eraOf, typed>>
      /\ UNCHANGED <<outbox, era, sessionId, screen>>
  BY <1>1 DEF remoteVars, choiceVars, inputVars, eraVars
<1> QED BY <1>2, <1>3, <1>5, <1>6, <1>7, LeaveKeeps

\* The link is lost, redialled or hung up without a command.
LEMMA LinkDownStep == ASSUME ConnInv, Redial \/ Lost \/ HangUp PROVE ConnInv'
<1>1. /\ verdict' = None
      /\ UNCHANGED <<remoteVars, up, clientVars, seen, shown>>
  BY DEF Redial, Lost, HangUp
<1>2. LinkInv' /\ link' # "open" /\ TurnAway
  <2>1. CASE Redial
    <3>1. page = "active" /\ (NewSocket \/ NoSocket)
      BY <2>1 DEF Redial
    <3>2. runtime' = "ready"
      BY <1>1, <3>1 DEF ConnInv, LinkInv, clientVars
    <3> QED BY <3>1, <3>2, SocketKeeps DEF ConnInv
  <2>2. CASE Lost
    <3>1. /\ link # "none" /\ link' = "none" /\ status' \in Status /\ page' = page
          /\ cur' = None /\ TurnAway
      BY <2>2 DEF Lost, L!Lost, Status
    <3> QED BY <1>1, <3>1 DEF ConnInv, LinkInv, clientVars
  <2>3. CASE HangUp
    <3>1. /\ link \in {"connecting", "open"} /\ link' = "closing"
          /\ UNCHANGED <<cur, status, page>> /\ TurnAway
      BY <2>3 DEF HangUp, L!HangUp
    <3> QED BY <1>1, <3>1 DEF ConnInv, LinkInv, clientVars
  <2> QED BY <2>1, <2>2, <2>3
<1>3. ChoiceInv' /\ VerdictInv'
  BY <1>1 DEF ConnInv, ChoiceInv, VerdictInv, clientVars, choiceVars
<1>4. FitInv'
  BY <1>1 DEF ConnInv, FitInv, clientVars, inputVars, sizeVars
<1>5. /\ UNCHANGED <<handler, sess, size, got, up, eraOf, typed>>
      /\ UNCHANGED <<outbox, era, sessionId, screen>>
  BY <1>1 DEF remoteVars, clientVars, choiceVars, inputVars, eraVars
<1> QED BY <1>2, <1>3, <1>4, <1>5, LeaveKeeps

\* A rendering shows a status and keeps the fit, or makes one due.
LEMMA RenderedKeeps ==
    ASSUME NEW s \in Session \cup {None}, NEW m \in Mode, NEW sh, NEW st \in Status,
           sh \in [transport : Status, flag : Flag \cup {None}],
           FitInv, Rendered(s, m, sh, st)
    PROVE  /\ seen' = [session |-> s, mode |-> m]
           /\ seen' \in [session : Session \cup {None}, mode : Mode]
           /\ shown' \in [transport : Status, flag : Flag \cup {None}]
           /\ shown'.transport = st
           /\ st = sh.transport => shown' = sh
           /\ fitDue' \in BOOLEAN /\ (fitDue => fitDue')
<1>1. /\ seen' = [session |-> s, mode |-> m]
      /\ shown' = StatusEffect(sh, st)
      /\ fitDue' = (fitDue \/ (m # seen.mode /\ runtime = "ready"))
  BY DEF Rendered
<1>2. fitDue' \in BOOLEAN /\ (fitDue => fitDue')
  BY <1>1, Zenon
<1>3. shown' \in [transport : Status, flag : Flag \cup {None}] /\ shown'.transport = st
      /\ (st = sh.transport => shown' = sh)
  BY <1>1 DEF StatusEffect, TransportStatus
<1> QED BY <1>1, <1>2, <1>3

\* reconnectNow: the link goes down, the flag is cleared.
LEMMA ReconnectNowKeeps ==
    ASSUME ConnInv, NEW s \in Session \cup {None}, NEW m \in Mode, ReconnectNow(s, m),
           pendingResize' = pendingResize \/ pendingResize' = None
    PROVE  /\ LinkInv' /\ VerdictInv' /\ FitInv'
           /\ seen' \in [session : Session \cup {None}, mode : Mode]
           /\ link' # "open" /\ TurnAway
<1>1. /\ page = "active"
      /\ \/ L!HangUp /\ UNCHANGED cur /\ TurnAway
         \/ NewSocket \/ NoSocket
      /\ Rendered(s, m, [shown EXCEPT !.flag = None], status')
      /\ verdict' = None
      /\ UNCHANGED <<fitSize, dims, runtime>>
  BY DEF ReconnectNow
<1>2. runtime' = "ready"
  BY <1>1 DEF ConnInv, LinkInv
<1>3. LinkInv' /\ link' # "open" /\ TurnAway
  <2>1. CASE L!HangUp /\ UNCHANGED cur /\ TurnAway
    BY <1>1, <1>2, <2>1 DEF ConnInv, LinkInv, L!HangUp
  <2>2. CASE NewSocket \/ NoSocket
    BY <1>2, <2>2, SocketKeeps DEF ConnInv
  <2> QED BY <1>1, <2>1, <2>2
<1>4. [shown EXCEPT !.flag = None] \in [transport : Status, flag : Flag \cup {None}]
  BY DEF ConnInv, VerdictInv
<1>5. status' \in Status /\ FitInv
  BY <1>3 DEF LinkInv, ConnInv
<1>6. /\ seen' \in [session : Session \cup {None}, mode : Mode]
      /\ shown' \in [transport : Status, flag : Flag \cup {None}]
      /\ fitDue' \in BOOLEAN /\ (fitDue => fitDue')
  BY <1>1, <1>4, <1>5, RenderedKeeps
<1>7. VerdictInv'
  BY <1>1, <1>6 DEF VerdictInv
<1>8. FitInv'
  BY <1>1, <1>5, <1>6 DEF FitInv
<1> QED BY <1>3, <1>6, <1>7, <1>8

\* The user reconnects: what is queued stays queued.
LEMMA ReconnectStep == ASSUME ConnInv, Reconnect PROVE ConnInv'
<1>1. /\ ReconnectNow(sessionId, attachMode)
      /\ UNCHANGED <<choiceVars, outbox, pendingResize, screen, era>>
  BY DEF Reconnect
<1>2. sessionId \in Session \cup {None} /\ attachMode \in Mode
  BY DEF ConnInv, ChoiceInv
<1>3. /\ LinkInv' /\ VerdictInv' /\ FitInv' /\ link' # "open" /\ TurnAway
      /\ seen' \in [session : Session \cup {None}, mode : Mode]
  BY <1>1, <1>2, ReconnectNowKeeps
<1>4. ChoiceInv'
  BY <1>1, <1>3 DEF ConnInv, ChoiceInv, choiceVars
<1>5. UNCHANGED <<handler, sess, size, got, up, eraOf, typed, outbox, era, sessionId, screen>>
  BY <1>1 DEF ReconnectNow, remoteVars, choiceVars
<1> QED BY <1>3, <1>4, <1>5, LeaveKeeps

\* Another session is chosen: everything that belongs to the old one is dropped.
LEMMA ChooseStep ==
    ASSUME ConnInv, NEW s \in Session \cup {None}, NEW m \in Mode, Choose(s, m)
    PROVE  ConnInv'
<1>1. /\ s = None => m = "control"
      /\ screen' = {} /\ outbox' = <<>> /\ pendingResize' = None
      /\ sessionId' = s /\ attachMode' = m /\ era' = era + 1
      /\ ReconnectNow(s, m)
  BY DEF Choose, ResetRuntimeBuffers, ResetQueuedBuffers
<1>2. /\ LinkInv' /\ VerdictInv' /\ FitInv' /\ link' # "open" /\ TurnAway
      /\ seen' \in [session : Session \cup {None}, mode : Mode]
  BY <1>1, ReconnectNowKeeps
<1>3. ChoiceInv'
  BY <1>1, <1>2 DEF ChoiceInv
<1>4. era' \in Nat
  BY <1>1 DEF ConnInv, EraInv
<1>5. UNCHANGED <<handler, sess, size, got, up, eraOf, typed>>
  BY <1>1 DEF ReconnectNow, remoteVars
<1> QED BY <1>1, <1>2, <1>3, <1>4, <1>5, LeaveKeeps

-----------------------------------------------------------------------------
(* The socket opens, and what changes the page alone.                       *)

\* A handler that has not attached is none of the attached ones.
LEMMA IdleIsHandler ==
    /\ Idle \in Handler /\ Idle.session = None /\ Idle # None
    /\ \A s \in Session : Idle # [session |-> s, readOnly |-> FALSE]
<1>1. Idle \in Handler
  BY DEF Idle, Handler
<1>2. Idle.session = None
  BY DEF Idle
<1>3. \A s \in Session : [session |-> s, readOnly |-> FALSE].session # None
  BY ConnectionConstants
<1> QED BY <1>1, <1>2, <1>3, NoneIsNothing

\* The page attaches: the socket has its attach on the way and no frame yet.
LEMMA OpenedStep == ASSUME ConnInv, Opened PROVE ConnInv'
<1> DEFINE attach == AttachMessage(seen.session, fitSize, seen.mode = "watch")
<1>1. /\ link = "connecting" /\ link' = "open" /\ status' = "connected" /\ page' = page
      /\ seen = [session |-> sessionId, mode |-> attachMode]
      /\ shown' = [shown EXCEPT !.flag = None]
      /\ verdict' = None
      /\ handler' = [handler EXCEPT ![cur] = Idle]
      /\ up' = [up EXCEPT ![cur] = <<attach>>]
      /\ eraOf' = [eraOf EXCEPT ![cur] = era]
      /\ UNCHANGED <<cur, down, sess, size, got, choiceVars, inputVars, sizeVars, seen, era,
                      runtime, screen, acts>>
  BY DEF Opened, L!Opened
<1>2. /\ UNCHANGED <<sessionId, attachMode, outbox, pendingResize, typed, fitSize, dims, fitDue>>
      /\ UNCHANGED <<cur, down, sess, size, got, seen, era, runtime, screen>>
  BY <1>1 DEF choiceVars, inputVars, sizeVars
<1>3. cur \in Conn /\ cur # None
  BY <1>1, ConnectionConstants DEF ConnInv, LinkInv
<1>4. /\ attach.type = "attach" /\ attach.session = sessionId
      /\ attach.size = Normalize(fitSize)
      /\ attach.watch <=> attachMode = "watch"
  BY <1>1 DEF AttachMessage
<1>5. attach \in Wire(era)
  <2>1. (seen.mode = "watch") \in BOOLEAN
    BY Zenon
  <2>2. Normalize(fitSize) \in Nat
    BY ConnectionConstants DEF Normalize, ConnInv, FitInv
  <2>3. seen.session \in Session \cup {None}
    BY DEF ConnInv, ChoiceInv
  <2> QED BY <2>1, <2>2, <2>3 DEF AttachMessage, Wire
<1> HIDE DEF attach
<1>6. /\ DOMAIN up = Conn /\ handler \in [Conn -> Handler \cup {None}]
      /\ eraOf \in [Conn -> Nat] /\ era \in Nat
  BY DEF ConnInv, EraInv, ServerInv
<1>7. Idle \in Handler /\ Idle.session = None /\ Idle # None
  BY IdleIsHandler
<1>8. /\ up'[cur] = <<attach>> /\ handler'[cur] = Idle /\ eraOf'[cur] = era
      /\ DOMAIN up' = Conn /\ handler' \in [Conn -> Handler \cup {None}]
      /\ eraOf' \in [Conn -> Nat]
      /\ \A c \in Conn \ {cur} :
            up'[c] = up[c] /\ handler'[c] = handler[c] /\ eraOf'[c] = eraOf[c]
  BY <1>1, <1>3, <1>6, <1>7
<1>9. LinkInv' /\ ChoiceInv' /\ VerdictInv'
  BY <1>1, <1>2 DEF ConnInv, LinkInv, ChoiceInv, VerdictInv, Status
<1>10. EraInv'
  <2>1. <<attach>> \in Seq(Wire(era))
    BY <1>5
  <2>2. \A c \in Conn : up'[c] \in Seq(Wire(eraOf'[c]))
    BY <1>8, <2>1 DEF ConnInv, EraInv
  <2> QED BY <1>2, <1>8, <2>2 DEF ConnInv, EraInv
<1>11. \A c \in Conn : down'[c] = <<>>
  BY <1>1, <1>2 DEF ConnInv, DownInv
<1>12. DownInv'
  BY <1>2, <1>3, <1>11 DEF ConnInv, DownInv, Announced
<1>13. \A c \in Conn, s \in Session : Controls(c, s)' <=> c # cur /\ Controls(c, s)
  <2>1. \A s \in Session : Idle # [session |-> s, readOnly |-> FALSE]
    BY IdleIsHandler
  <2> QED BY <1>8, <2>1 DEF Controls
<1>14. ServerInv'
  <2>1. \A c, d \in Conn : \A s \in Session : Controls(c, s)' /\ Controls(d, s)' => c = d
    BY <1>13 DEF ConnInv, ServerInv
  <2>2. \A c \in Conn : handler'[c] # None /\ handler'[c].session # None =>
          sess'[handler'[c].session] # "unused"
    BY <1>2, <1>7, <1>8 DEF ConnInv, ServerInv
  <2>3. \A c \in Conn : \A i \in 1 .. Len(up'[c]) : up'[c][i].type = "attach" =>
          i = 1 /\ handler'[c] = Idle /\ (up'[c][i].session = None => ~up'[c][i].watch)
    <3>1. \A i \in 1 .. Len(up'[cur]) : i = 1 /\ up'[cur][i] = attach
      BY <1>8
    <3>2. attach.session = None => ~attach.watch
      BY <1>4 DEF ConnInv, ChoiceInv
    <3> QED BY <1>8, <3>1, <3>2 DEF ConnInv, ServerInv
  <2> QED BY <1>2, <1>8, <2>1, <2>2, <2>3 DEF ConnInv, ServerInv
<1>15. \A c \in Conn : \A i \in Inputs(c)' :
          c # cur /\ i \in Inputs(c) /\ up'[c] = up[c] /\ handler'[c] = handler[c]
  <2>1. \A i \in 1 .. Len(up'[cur]) : up'[cur][i].type = "attach"
    BY <1>4, <1>8
  <2>2. \A c \in Conn : Inputs(c)' = {i \in 1 .. Len(up'[c]) : up'[c][i].type = "input"}
    BY DEF Inputs
  <2>3. {i \in 1 .. Len(up'[cur]) : up'[cur][i].type = "input"} = {}
    BY <2>1
  <2> QED BY <1>8, <2>2, <2>3 DEF Inputs
<1>16. FreshInv' /\ WireInv'
  <2>1. FreshInv'
    BY <1>2, <1>15 DEF ConnInv, FreshInv
  <2>2. WireInv'
    BY <1>15 DEF ConnInv, WireInv
  <2> QED BY <2>1, <2>2
<1>17. WriteInv' /\ InputInOrder'
  <2>1. WriteInv'
    BY <1>2, <1>13, <1>15 DEF ConnInv, WriteInv
  <2>2. InputInOrder'
    BY <1>2 DEF ConnInv, InputInOrder
  <2> QED BY <2>1, <2>2
<1>18. FitInv'
  BY <1>2 DEF ConnInv, FitInv
<1>19. ReadyInv'
  BY <1>2, <1>7, <1>8 DEF ReadyInv
<1>20. SyncInv'
  <2>1. SizeUnderway(up[cur])'
    <3>1. Len(<<attach>>) = 1 /\ <<attach>>[1] = attach
      OBVIOUS
    <3> QED BY <1>2, <1>4, <1>8, <3>1 DEF SizeUnderway, Normalize
  <2>2. AttachPending(cur)' => up'[cur][1].session = sessionId'
    BY <1>2, <1>4, <1>8
  <2>3. Controlling(cur)' => attachMode = "control"
    BY <1>2, <1>4, <1>7, <1>8 DEF Controlling, ConnInv, ChoiceInv, Mode
  <2>4. down'[cur'] = <<>>
    BY <1>2, <1>3, <1>11
  <2>5. seen.mode = attachMode
    BY <1>1
  <2> QED BY <1>2, <2>1, <2>2, <2>3, <2>4, <2>5 DEF SyncInv
<1> QED BY <1>9, <1>10, <1>12, <1>14, <1>16, <1>17, <1>18, <1>19, <1>20 DEF ConnInv

\* Steps that leave the socket, the server and the input alone.
LEMMA LocalKeeps ==
    ASSUME ConnInv, LinkInv', VerdictInv', FitInv', fitSize' = fitSize,
           UNCHANGED <<link, cur, serverVars, up, choiceVars, inputVars, eraVars, screen>>,
           seen' = seen \/ seen' = [session |-> sessionId, mode |-> attachMode]
    PROVE  ConnInv'
<1>1. /\ UNCHANGED <<handler, down, sess, size, got, sessionId, attachMode>>
      /\ UNCHANGED <<outbox, pendingResize, typed, era, eraOf>>
  BY DEF serverVars, choiceVars, inputVars, eraVars
<1>2. ChoiceInv'
  BY <1>1 DEF ConnInv, ChoiceInv
<1>3. EraInv'
  BY <1>1 DEF ConnInv, EraInv
<1>4. DownInv'
  BY <1>1 DEF ConnInv, DownInv, Announced
<1>5. ServerInv' /\ FreshInv' /\ WireInv' /\ WriteInv' /\ InputInOrder'
  BY <1>1, ServerSame, FreshSame, InputSame DEF ConnInv
<1>6. seen'.mode = seen.mode \/ seen'.mode = attachMode
  OBVIOUS
<1>7. SyncInv' /\ ReadyInv'
  BY <1>1, <1>6, SyncSame DEF ConnInv
<1> QED BY <1>2, <1>3, <1>4, <1>5, <1>7 DEF ConnInv

\* The terminal cannot be loaded: there is no link and no verdict.
LEMMA BootFailsStep == ASSUME ConnInv, BootFails PROVE ConnInv'
<1>1. /\ runtime = "loading" /\ runtime' = "failed"
      /\ shown' = [shown EXCEPT !.flag = "runtime_error"]
      /\ UNCHANGED <<transportVars, serverVars, up, choiceVars, inputVars, sizeVars, seen,
                      verdict, eraVars, screen, acts>>
  BY DEF BootFails
<1>2. LinkInv'
  BY <1>1 DEF ConnInv, LinkInv, transportVars
<1>3. VerdictInv'
  BY <1>1 DEF ConnInv, LinkInv, VerdictInv, Flag
<1>4. FitInv'
  BY <1>1 DEF ConnInv, FitInv, sizeVars, inputVars
<1> QED BY <1>1, <1>2, <1>3, <1>4, LocalKeeps DEF transportVars, sizeVars

\* A rendering takes the choice over; its effect does not disturb a verdict.
LEMMA RenderStep == ASSUME ConnInv, Render PROVE ConnInv'
<1>1. /\ Rendered(sessionId, attachMode, shown, status)
      /\ UNCHANGED <<transportVars, serverVars, up, choiceVars, inputVars, fitSize, dims,
                      verdict, eraVars, runtime, screen, acts>>
  BY DEF Render
<1>2. /\ sessionId \in Session \cup {None} /\ attachMode \in Mode
      /\ shown \in [transport : Status, flag : Flag \cup {None}] /\ status \in Status /\ FitInv
  BY DEF ConnInv, ChoiceInv, VerdictInv, LinkInv
<1>3. /\ seen' = [session |-> sessionId, mode |-> attachMode]
      /\ shown' \in [transport : Status, flag : Flag \cup {None}]
      /\ status = shown.transport => shown' = shown
      /\ fitDue' \in BOOLEAN /\ (fitDue => fitDue')
  BY <1>1, <1>2, RenderedKeeps
<1>4. LinkInv'
  BY <1>1 DEF ConnInv, LinkInv, transportVars
<1>5. VerdictInv'
  BY <1>1, <1>3 DEF ConnInv, LinkInv, VerdictInv, transportVars
<1>6. FitInv'
  BY <1>1, <1>2, <1>3 DEF FitInv, inputVars
<1> QED BY <1>1, <1>3, <1>4, <1>5, <1>6, LocalKeeps DEF transportVars

\* The layout changes: a fit is due once there is a terminal.
LEMMA LayoutStep == ASSUME ConnInv, NEW d \in Dimension, Layout(d) PROVE ConnInv'
<1>1. /\ dims' = d /\ fitDue' = (runtime = "ready")
      /\ UNCHANGED <<transportVars, serverVars, up, choiceVars, inputVars, fitSize, viewVars,
                      eraVars, runtime, screen>>
  BY DEF Layout
<1>2. LinkInv' /\ VerdictInv'
  BY <1>1 DEF ConnInv, LinkInv, VerdictInv, transportVars, viewVars
<1>3. fitDue' \in BOOLEAN /\ (runtime = "ready" => fitDue')
  BY <1>1, Zenon
<1>4. FitInv'
  BY <1>1, <1>3, ConnectionConstants DEF ConnInv, FitInv, inputVars
<1> QED BY <1>1, <1>2, <1>4, LocalKeeps DEF transportVars, viewVars

-----------------------------------------------------------------------------
(* Sending.                                                                 *)

\* The fields of a message on its way.
LEMMA WireType ==
    ASSUME NEW e, NEW m \in Wire(e)
    PROVE  /\ m.type \in {"attach", "input", "resize"}
           /\ m.type = "input" => m.n \in Nat /\ m.era = e /\ m.early \in BOOLEAN
           /\ m.type = "attach" =>
                 m.session \in Session \cup {None} /\ m.size \in Nat /\ m.watch \in BOOLEAN
           /\ m.type = "resize" => m.size \in Nat
<1>1. CASE m \in [type : {"attach"}, session : Session \cup {None}, size : Nat, watch : BOOLEAN]
  BY <1>1
<1>2. CASE m \in [type : {"input"}, n : Nat, era : {e}, early : BOOLEAN]
  BY <1>2
<1>3. CASE m \in [type : {"resize"}, size : Nat]
  BY <1>3
<1> QED BY <1>1, <1>2, <1>3 DEF Wire

\* The messages q may be sent while t chunks have been typed: no attach, and input that
\* is in order and newer than everything sent before.
Batch(q, t) ==
    /\ q \in Seq(Wire(era))
    /\ \A i \in 1 .. Len(q) :
          /\ q[i].type \in {"input", "resize"}
          /\ q[i].type = "input" =>
                /\ q[i].n <= t
                /\ handler[cur] = Idle => q[i].early
                /\ \A c \in Conn : \A k \in Inputs(c) : up[c][k].n < q[i].n
                /\ \A s \in Session : \A k \in 1 .. Len(got[s]) : got[s][k].n < q[i].n
          /\ \A j \in 1 .. Len(q) :
                i < j /\ q[i].type = "input" /\ q[j].type = "input" => q[i].n < q[j].n

\* Where a message on its way comes from: it was there before, or it is of the batch.
LEMMA SentFrom ==
    ASSUME ConnInv, link = "open", NEW q, q \in Seq(Wire(era)), Sent(q)
    PROVE  /\ DOMAIN up' = Conn
           /\ \A c \in Conn : up'[c] \in Seq(Wire(eraOf[c]))
           /\ \A c \in Conn \ {cur} : up'[c] = up[c]
           /\ handler[cur] # None =>
                 /\ Len(up'[cur]) = Len(up[cur]) + Len(q)
                 /\ \A i \in 1 .. Len(up'[cur]) : up'[cur][i] =
                       IF i <= Len(up[cur]) THEN up[cur][i] ELSE q[i - Len(up[cur])]
           /\ handler[cur] = None => up' = up
<1>1. /\ cur \in Conn /\ eraOf[cur] = era /\ DOMAIN up = Conn
      /\ \A c \in Conn : up[c] \in Seq(Wire(eraOf[c]))
  BY ConnectionConstants DEF ConnInv, LinkInv, EraInv
<1>2. CASE handler[cur] = None
  BY <1>1, <1>2 DEF Sent
<1>3. CASE handler[cur] # None
  <2>1. up' = [up EXCEPT ![cur] = up[cur] \o q]
    BY <1>3 DEF Sent
  <2>2. up[cur] \in Seq(Wire(era))
    BY <1>1
  <2>3. /\ up[cur] \o q \in Seq(Wire(era))
        /\ Len(up[cur] \o q) = Len(up[cur]) + Len(q)
        /\ \A i \in 1 .. Len(up[cur]) + Len(q) : (up[cur] \o q)[i] =
              IF i <= Len(up[cur]) THEN up[cur][i] ELSE q[i - Len(up[cur])]
    BY <2>2, ConcatProperties
  <2>4. up'[cur] = up[cur] \o q /\ DOMAIN up' = Conn /\ \A c \in Conn \ {cur} : up'[c] = up[c]
    BY <1>1, <2>1
  <2> QED BY <1>1, <1>3, <2>3, <2>4
<1> QED BY <1>2, <1>3

\* A batch keeps the order of input and the rules of the server.
LEMMA SentKeeps ==
    ASSUME ConnInv, link = "open", NEW t \in Nat, typed <= t, NEW q, Batch(q, t), Sent(q),
           UNCHANGED <<cur, handler, got, eraOf, sess, size>>
    PROVE  /\ ServerInv' /\ WireInv' /\ WriteInv' /\ InputInOrder'
           /\ \A c \in Conn : \A i \in Inputs(c)' :
                 /\ up'[c][i].n <= t
                 /\ \/ \E j \in Inputs(c) : up'[c][i] = up[c][j]
                    \/ \E j \in 1 .. Len(q) : q[j].type = "input" /\ up'[c][i] = q[j]
<1> DEFINE N == Len(up[cur])
<1>1. /\ q \in Seq(Wire(era)) /\ cur \in Conn /\ up[cur] \in Seq(Wire(era))
      /\ N \in Nat /\ Len(q) \in Nat
  BY ConnectionConstants DEF Batch, ConnInv, LinkInv, EraInv
<1>2. /\ \A c \in Conn \ {cur} : up'[c] = up[c]
      /\ \A c \in Conn : up'[c] \in Seq(Wire(eraOf[c]))
  BY <1>1, SentFrom
<1>3. \A i \in 1 .. Len(up'[cur]) :
          \/ i \in 1 .. N /\ up'[cur][i] = up[cur][i]
          \/ i > N /\ i - N \in 1 .. Len(q) /\ up'[cur][i] = q[i - N]
  <2>1. CASE handler[cur] = None
    BY <1>1, <2>1, SentFrom
  <2>2. CASE handler[cur] # None
    <3>1. /\ Len(up'[cur]) = N + Len(q)
          /\ \A i \in 1 .. Len(up'[cur]) : up'[cur][i] =
                IF i <= N THEN up[cur][i] ELSE q[i - N]
      BY <1>1, <2>2, SentFrom
    <3> HIDE DEF N
    <3> QED BY <1>1, <3>1
  <2> QED BY <2>1, <2>2
<1>4. \A c \in Conn : \A i \in Inputs(c) : up[c][i].n \in Nat
  <2> SUFFICES ASSUME NEW c \in Conn, NEW i \in Inputs(c) PROVE up[c][i].n \in Nat
    OBVIOUS
  <2>1. up[c] \in Seq(Wire(eraOf[c])) /\ i \in 1 .. Len(up[c]) /\ up[c][i].type = "input"
    BY DEF ConnInv, EraInv, Inputs
  <2>2. up[c][i] \in Wire(eraOf[c])
    BY <2>1, ElementOfSeq
  <2> QED BY <2>1, <2>2, WireType
<1>5. \A i \in 1 .. Len(q) : q[i].type = "input" => q[i].n \in Nat
  BY <1>1, ElementOfSeq, WireType
<1>6. \A s \in Session : \A k \in 1 .. Len(got[s]) : got[s][k].n \in Nat
  <2> SUFFICES ASSUME NEW s \in Session, NEW k \in 1 .. Len(got[s]) PROVE got[s][k].n \in Nat
    OBVIOUS
  <2>1. got[s] \in Seq([n : Nat, early : BOOLEAN])
    BY DEF ConnInv, WriteInv
  <2>2. got[s][k] \in [n : Nat, early : BOOLEAN]
    BY <2>1, ElementOfSeq
  <2> QED BY <2>2
\* An input on its way, after the step, is an old one or one of the batch.
<1>7. \A c \in Conn : \A i \in Inputs(c)' :
          \/ i \in Inputs(c) /\ up'[c][i] = up[c][i]
          \/ c = cur /\ i > N /\ i - N \in 1 .. Len(q) /\ i \in Nat
             /\ up'[c][i] = q[i - N] /\ q[i - N].type = "input"
  <2> SUFFICES ASSUME NEW c \in Conn, NEW i \in Inputs(c)'
               PROVE \/ i \in Inputs(c) /\ up'[c][i] = up[c][i]
                     \/ c = cur /\ i > N /\ i - N \in 1 .. Len(q) /\ i \in Nat
                        /\ up'[c][i] = q[i - N] /\ q[i - N].type = "input"
    OBVIOUS
  <2>1. i \in 1 .. Len(up'[c]) /\ up'[c][i].type = "input"
    BY DEF Inputs
  <2>2. CASE c # cur
    BY <1>2, <2>1, <2>2 DEF Inputs
  <2>3. CASE c = cur
    BY <1>3, <2>1, <2>3 DEF Inputs
  <2> QED BY <2>2, <2>3
<1>8. ServerInv'
  <2>1. \A c \in Conn, s \in Session : Controls(c, s)' <=> Controls(c, s)
    BY DEF Controls
  <2>2. \A c \in Conn : \A i \in 1 .. Len(up'[c]) : up'[c][i].type = "attach" =>
          i = 1 /\ handler'[c] = Idle /\ (up'[c][i].session = None => ~up'[c][i].watch)
    <3> SUFFICES ASSUME NEW c \in Conn, NEW i \in 1 .. Len(up'[c]), up'[c][i].type = "attach"
                 PROVE  i \in 1 .. Len(up[c]) /\ up'[c][i] = up[c][i]
      BY DEF ConnInv, ServerInv
    <3>1. CASE c # cur
      BY <1>2, <3>1
    <3>2. CASE c = cur
      BY <1>3, <3>2 DEF Batch
    <3> QED BY <3>1, <3>2
  <2> QED BY <2>1, <2>2 DEF ConnInv, ServerInv
<1> HIDE DEF N
<1>9. WireInv'
  <2>1. \A c \in Conn : \A i, j \in Inputs(c)' : i < j => up'[c][i].n < up'[c][j].n
    <3> SUFFICES ASSUME NEW c \in Conn, NEW i \in Inputs(c)', NEW j \in Inputs(c)', i < j
                 PROVE  up'[c][i].n < up'[c][j].n
      OBVIOUS
    <3>1. CASE i \in Inputs(c) /\ up'[c][i] = up[c][i]
      BY <1>7, <3>1 DEF ConnInv, WireInv, Batch
    <3>2. CASE c = cur /\ i > N /\ i - N \in 1 .. Len(q) /\ i \in Nat
               /\ up'[c][i] = q[i - N] /\ q[i - N].type = "input"
      <4>1. j \notin Inputs(c)
        <5>1. Inputs(c) \subseteq 1 .. N
          BY <3>2 DEF Inputs, N
        <5> QED BY <1>1, <3>2, <5>1
      <4>2. /\ j > N /\ j - N \in 1 .. Len(q) /\ j \in Nat
            /\ up'[c][j] = q[j - N] /\ q[j - N].type = "input"
        BY <1>7, <4>1
      <4>3. i - N < j - N
        BY <1>1, <3>2, <4>2
      <4> QED BY <3>2, <4>2, <4>3 DEF Batch
    <3> QED BY <1>7, <3>1, <3>2
  <2>2. \A c, d \in Conn : \A i \in Inputs(c)', j \in Inputs(d)' :
          c # d => up'[c][i].n # up'[d][j].n
    <3> SUFFICES ASSUME NEW c \in Conn, NEW d \in Conn, NEW i \in Inputs(c)',
                        NEW j \in Inputs(d)', c # d
                 PROVE  up'[c][i].n # up'[d][j].n
      OBVIOUS
    <3>1. CASE c # cur /\ d # cur
      BY <1>7, <3>1 DEF ConnInv, WireInv
    <3>2. CASE c = cur
      <4>1. j \in Inputs(d) /\ up'[d][j] = up[d][j]
        BY <1>7, <3>2
      <4>2. CASE i \in Inputs(c) /\ up'[c][i] = up[c][i]
        BY <4>1, <4>2 DEF ConnInv, WireInv
      <4>3. CASE i - N \in 1 .. Len(q) /\ up'[c][i] = q[i - N] /\ q[i - N].type = "input"
        <5>1. up[d][j].n < q[i - N].n
          BY <4>1, <4>3 DEF Batch
        <5>2. up[d][j].n \in Nat /\ q[i - N].n \in Nat
          BY <1>4, <1>5, <4>1, <4>3
        <5> QED BY <4>1, <4>3, <5>1, <5>2
      <4> QED BY <1>7, <4>2, <4>3
    <3>3. CASE d = cur
      <4>1. i \in Inputs(c) /\ up'[c][i] = up[c][i]
        BY <1>7, <3>3
      <4>2. CASE j \in Inputs(d) /\ up'[d][j] = up[d][j]
        BY <4>1, <4>2 DEF ConnInv, WireInv
      <4>3. CASE j - N \in 1 .. Len(q) /\ up'[d][j] = q[j - N] /\ q[j - N].type = "input"
        <5>1. up[c][i].n < q[j - N].n
          BY <4>1, <4>3 DEF Batch
        <5>2. up[c][i].n \in Nat /\ q[j - N].n \in Nat
          BY <1>4, <1>5, <4>1, <4>3
        <5> QED BY <4>1, <4>3, <5>1, <5>2
      <4> QED BY <1>7, <4>2, <4>3
    <3> QED BY <3>1, <3>2, <3>3
  <2>3. \A c \in Conn : \A i \in Inputs(c)' : handler'[c] = Idle => up'[c][i].early
    BY <1>7 DEF ConnInv, WireInv, Batch
  <2> QED BY <2>1, <2>2, <2>3 DEF WireInv
<1>10. WriteInv' /\ InputInOrder'
  <2>1. ASSUME NEW c \in Conn, NEW s \in Session, handler[c] = Idle \/ Controls(c, s),
               NEW i \in Inputs(c)', NEW k \in 1 .. Len(got[s])
        PROVE  \/ got[s][k].n < up'[c][i].n
               \/ got[s][k].n > up'[c][i].n /\ up'[c][i].early
    <3>1. CASE i \in Inputs(c) /\ up'[c][i] = up[c][i]
      BY <2>1, <3>1 DEF ConnInv, WriteInv
    <3>2. CASE i - N \in 1 .. Len(q) /\ up'[c][i] = q[i - N] /\ q[i - N].type = "input"
      BY <3>2 DEF Batch
    <3> QED BY <1>7, <3>1, <3>2
  <2>2. WriteInv'
    BY <2>1 DEF ConnInv, WriteInv, Controls
  <2> QED BY <2>2 DEF ConnInv, InputInOrder
<1>11. \A c \in Conn : \A i \in Inputs(c)' :
          /\ up'[c][i].n <= t
          /\ \/ \E j \in Inputs(c) : up'[c][i] = up[c][j]
             \/ \E j \in 1 .. Len(q) : q[j].type = "input" /\ up'[c][i] = q[j]
  <2> SUFFICES ASSUME NEW c \in Conn, NEW i \in Inputs(c)'
               PROVE  /\ up'[c][i].n <= t
                      /\ \/ \E j \in Inputs(c) : up'[c][i] = up[c][j]
                         \/ \E j \in 1 .. Len(q) : q[j].type = "input" /\ up'[c][i] = q[j]
    OBVIOUS
  <2>1. CASE i \in Inputs(c) /\ up'[c][i] = up[c][i]
    <3>1. up[c][i].n <= typed /\ up[c][i].n \in Nat /\ typed \in Nat
      BY <1>4, <2>1 DEF ConnInv, FreshInv
    <3> QED BY <2>1, <3>1
  <2>2. CASE i - N \in 1 .. Len(q) /\ up'[c][i] = q[i - N] /\ q[i - N].type = "input"
    BY <2>2 DEF Batch
  <2> QED BY <1>7, <2>1, <2>2
<1> QED BY <1>8, <1>9, <1>10, <1>11

\* After a batch the size of the last fit is still on its way or given, or the batch ends
\* with it; and only a page that was controlling is.
LEMMA SentSync ==
    ASSUME ConnInv, link = "open", NEW t, NEW q, Batch(q, t), Sent(q), handler[cur] # None,
           Controlling(cur) => SizeUnderway(up[cur]) \/ SizeGiven(cur),
           UNCHANGED <<link, cur, handler, sess, size>>,
           \/ fitSize' = fitSize /\ \A i \in 1 .. Len(q) : q[i].type = "input"
           \/ Len(q) > 0 /\ q[Len(q)].type = "resize" /\ q[Len(q)].size = Normalize(fitSize)'
    PROVE  /\ AttachPending(cur)' => AttachPending(cur) /\ up'[cur][1] = up[cur][1]
           /\ Controlling(cur)' =>
                 Controlling(cur) /\ (SizeUnderway(up[cur])' \/ SizeGiven(cur)')
<1> DEFINE N == Len(up[cur])
<1>1. /\ q \in Seq(Wire(era)) /\ cur \in Conn /\ up[cur] \in Seq(Wire(era))
      /\ N \in Nat /\ Len(q) \in Nat
  BY ConnectionConstants DEF Batch, ConnInv, LinkInv, EraInv
<1>2. /\ Len(up'[cur]) = N + Len(q)
      /\ \A i \in 1 .. Len(up'[cur]) : up'[cur][i] = IF i <= N THEN up[cur][i] ELSE q[i - N]
      /\ up'[cur] \in Seq(Wire(eraOf[cur]))
  BY <1>1, SentFrom
<1>3. up[cur] # <<>> <=> N > 0
  BY <1>1
<1>4. up'[cur] # <<>> <=> N + Len(q) > 0
  BY <1>1, <1>2
<1>5. AttachPending(cur)' => AttachPending(cur) /\ up'[cur][1] = up[cur][1]
  <2> SUFFICES ASSUME up'[cur] # <<>>, up'[cur][1].type = "attach"
               PROVE  AttachPending(cur) /\ up'[cur][1] = up[cur][1]
    BY DEF AttachPending
  <2>1. 1 \in 1 .. Len(up'[cur])
    BY <1>1, <1>2, <1>4
  <2>2. CASE N = 0
    BY <1>1, <1>2, <2>1, <2>2 DEF Batch
  <2>3. CASE N > 0
    <3>1. 1 <= N
      BY <1>1, <2>3
    <3>2. up'[cur][1] = up[cur][1]
      BY <1>2, <2>1, <3>1
    <3> QED BY <1>3, <2>3, <3>2 DEF AttachPending
  <2> QED BY <1>1, <2>2, <2>3
<1>6. Controlling(cur)' => Controlling(cur)
  BY <1>5 DEF Controlling
<1> HIDE DEF N
<1>7. ASSUME Controlling(cur) PROVE SizeUnderway(up[cur])' \/ SizeGiven(cur)'
  <2>1. CASE Len(q) > 0 /\ q[Len(q)].type = "resize" /\ q[Len(q)].size = Normalize(fitSize)'
    <3>1. /\ N + Len(q) \in 1 .. Len(up'[cur])
          /\ up'[cur][N + Len(q)] = q[Len(q)]
          /\ \A j \in N + Len(q) + 1 .. Len(up'[cur]) : FALSE
      BY <1>1, <1>2, <2>1
    <3> QED BY <2>1, <3>1 DEF SizeUnderway
  <2>2. CASE fitSize' = fitSize /\ \A i \in 1 .. Len(q) : q[i].type = "input"
    <3>1. Normalize(fitSize)' = Normalize(fitSize)
      BY <2>2 DEF Normalize
    <3>2. CASE SizeUnderway(up[cur])
      <4>1. PICK k \in 1 .. N :
              /\ up[cur][k].type \in {"attach", "resize"}
              /\ up[cur][k].size = Normalize(fitSize)
              /\ \A j \in k + 1 .. N : up[cur][j].type = "input"
        BY <3>2 DEF SizeUnderway, N
      <4>2. k \in 1 .. Len(up'[cur]) /\ up'[cur][k] = up[cur][k]
        BY <1>1, <1>2, <4>1
      <4>3. \A j \in k + 1 .. Len(up'[cur]) : up'[cur][j].type = "input"
        <5> SUFFICES ASSUME NEW j \in k + 1 .. Len(up'[cur]) PROVE up'[cur][j].type = "input"
          OBVIOUS
        <5>1. CASE j <= N
          BY <1>1, <1>2, <4>1, <5>1
        <5>2. CASE j > N
          <6>1. j - N \in 1 .. Len(q) /\ up'[cur][j] = q[j - N]
            BY <1>1, <1>2, <5>2
          <6> QED BY <2>2, <6>1
        <5> QED BY <1>1, <5>1, <5>2
      <4> QED BY <3>1, <4>1, <4>2, <4>3 DEF SizeUnderway
    <3>3. CASE SizeGiven(cur)
      <4>1. \A j \in 1 .. Len(up'[cur]) : up'[cur][j].type = "input"
        <5> SUFFICES ASSUME NEW j \in 1 .. Len(up'[cur]) PROVE up'[cur][j].type = "input"
          OBVIOUS
        <5>1. CASE j <= N
          <6>1. \A i \in 1 .. N : up[cur][i].type = "input"
            BY <3>3 DEF SizeGiven, N
          <6> QED BY <1>1, <1>2, <5>1, <6>1
        <5>2. CASE j > N
          <6>1. j - N \in 1 .. Len(q) /\ up'[cur][j] = q[j - N]
            BY <1>1, <1>2, <5>2
          <6> QED BY <2>2, <6>1
        <5> QED BY <1>1, <5>1, <5>2
      <4> QED BY <3>1, <3>3, <4>1 DEF SizeGiven
    <3> QED BY <1>7, <3>2, <3>3
  <2> QED BY <2>1, <2>2
<1> QED BY <1>5, <1>6, <1>7

\* Chunks that may be sent or queued while t have been typed.
Newer(chunks, t) ==
    /\ chunks \in Seq(Chunk(era))
    /\ \A k \in 1 .. Len(chunks) :
          /\ chunks[k].n <= t
          /\ \A j \in 1 .. k - 1 : chunks[j].n < chunks[k].n
          /\ \A c \in Conn : \A i \in Inputs(c) : up[c][i].n < chunks[k].n
          /\ \A s \in Session : \A i \in 1 .. Len(got[s]) : got[s][i].n < chunks[k].n

\* Their messages are a batch of input.
LEMMA InputBatch ==
    ASSUME ConnInv, link = "open", NEW t, NEW chunks, Newer(chunks, t)
    PROVE  /\ Batch(InputMessages(chunks), t)
           /\ Len(InputMessages(chunks)) = Len(chunks)
           /\ \A i \in 1 .. Len(chunks) : InputMessages(chunks)[i].type = "input"
<1> DEFINE q == InputMessages(chunks)
           N == Len(chunks)
<1>1. chunks \in Seq(Chunk(era)) /\ N \in Nat
  BY DEF Newer
<1>2. \A i \in 1 .. N : chunks[i] \in Chunk(era)
  BY <1>1, ElementOfSeq
<1>3. \A i \in 1 .. N : q[i] = InputMessage(chunks[i])
  BY DEF InputMessages
<1>4. \A i \in 1 .. N : /\ InputMessage(chunks[i]) \in Wire(era)
                        /\ InputMessage(chunks[i]).type = "input"
                        /\ InputMessage(chunks[i]).n = chunks[i].n
                        /\ handler[cur] = Idle => InputMessage(chunks[i]).early
  <2> SUFFICES ASSUME NEW i \in 1 .. N
               PROVE  /\ InputMessage(chunks[i]) \in Wire(era)
                      /\ InputMessage(chunks[i]).type = "input"
                      /\ InputMessage(chunks[i]).n = chunks[i].n
                      /\ handler[cur] = Idle => InputMessage(chunks[i]).early
    OBVIOUS
  <2>1. chunks[i].n \in Nat /\ chunks[i].era = era
    BY <1>2 DEF Chunk
  <2>2. (handler[cur] = Idle) \in BOOLEAN
    BY Zenon
  <2>3. InputMessage(chunks[i]) \in Wire(era)
    BY <2>1, <2>2 DEF InputMessage, Wire
  <2> QED BY <2>3 DEF InputMessage
<1>5. q \in [1 .. N -> Wire(era)]
  BY <1>4 DEF InputMessages
<1>6. q \in Seq(Wire(era)) /\ Len(q) = N
  BY <1>1, <1>5, SeqDef
<1> HIDE DEF q, N
<1>7. \A i \in 1 .. N : /\ q[i].type = "input" /\ q[i].n = chunks[i].n
                        /\ handler[cur] = Idle => q[i].early
  BY <1>3, <1>4
<1>8. \A i, j \in 1 .. N : i < j => q[i].n < q[j].n
  <2> SUFFICES ASSUME NEW i \in 1 .. N, NEW j \in 1 .. N, i < j PROVE q[i].n < q[j].n
    OBVIOUS
  <2>1. i \in 1 .. j - 1
    BY <1>1
  <2> QED BY <1>7, <2>1 DEF Newer, N
<1>9. Batch(q, t)
  BY <1>6, <1>7, <1>8 DEF Batch, Newer, N
<1> QED BY <1>6, <1>7, <1>9 DEF q, N

\* A resize alone is a batch.
LEMMA ResizeBatch ==
    ASSUME ConnInv, NEW d \in Nat, NEW t
    PROVE  /\ ResizeMessage(d) \in Wire(era)
           /\ Batch(<<ResizeMessage(d)>>, t) /\ Batch(<<>>, t)
           /\ ResizeMessage(d).type = "resize" /\ ResizeMessage(d).size = Normalize(d)
<1>1. ResizeMessage(d) \in Wire(era)
  <2>1. Normalize(d) \in Nat
    BY ConnectionConstants DEF Normalize
  <2> QED BY <2>1 DEF ResizeMessage, Wire
<1>2. ResizeMessage(d).type = "resize" /\ ResizeMessage(d).size = Normalize(d)
  BY DEF ResizeMessage
<1>3. <<ResizeMessage(d)>> \in Seq(Wire(era)) /\ Len(<<ResizeMessage(d)>>) = 1
      /\ <<ResizeMessage(d)>>[1] = ResizeMessage(d) /\ <<>> \in Seq(Wire(era))
  BY <1>1
<1>4. Batch(<<ResizeMessage(d)>>, t)
  BY <1>2, <1>3 DEF Batch
<1>5. Batch(<<>>, t)
  BY <1>3 DEF Batch
<1> QED BY <1>1, <1>2, <1>4, <1>5

-----------------------------------------------------------------------------
(* Typing and resizing.                                                     *)

\* What is queued, and a chunk that is typed after it, may be sent.
LEMMA QueueNewer ==
    ASSUME ConnInv, NEW bytes \in Nat
    PROVE  LET chunk == [n |-> typed + 1, bytes |-> bytes, era |-> era]
           IN  /\ Newer(outbox, typed) /\ Newer(Append(outbox, chunk), typed + 1)
               /\ chunk \in Chunk(era) /\ typed \in Nat
<1> DEFINE chunk == [n |-> typed + 1, bytes |-> bytes, era |-> era]
           all == Append(outbox, chunk)
           N == Len(outbox)
<1>1. outbox \in Seq(Chunk(era)) /\ era \in Nat /\ typed \in Nat /\ N \in Nat
  BY DEF ConnInv, EraInv, FreshInv
<1>2. Newer(outbox, typed)
  BY <1>1 DEF ConnInv, FreshInv, Newer
<1>3. chunk \in Chunk(era) /\ chunk.n = typed + 1
  BY <1>1 DEF Chunk
<1> HIDE DEF chunk
<1>4. /\ all \in Seq(Chunk(era)) /\ Len(all) = N + 1
      /\ \A i \in 1 .. N : all[i] = outbox[i]
      /\ all[N + 1] = chunk
  BY <1>1, <1>3, AppendProperties
<1> HIDE DEF all
<1>5. \A k \in 1 .. N : outbox[k].n \in Nat /\ outbox[k].n <= typed
  <2> SUFFICES ASSUME NEW k \in 1 .. N PROVE outbox[k].n \in Nat /\ outbox[k].n <= typed
    OBVIOUS
  <2>1. outbox[k] \in Chunk(era)
    BY <1>1, ElementOfSeq
  <2> QED BY <2>1 DEF Chunk, ConnInv, FreshInv
<1>6. \A c \in Conn : \A i \in Inputs(c) : up[c][i].n < typed + 1
  <2> SUFFICES ASSUME NEW c \in Conn, NEW i \in Inputs(c) PROVE up[c][i].n < typed + 1
    OBVIOUS
  <2>1. up[c] \in Seq(Wire(eraOf[c])) /\ i \in 1 .. Len(up[c]) /\ up[c][i].type = "input"
    BY DEF ConnInv, EraInv, Inputs
  <2>2. up[c][i] \in Wire(eraOf[c])
    BY <2>1, ElementOfSeq
  <2>3. up[c][i].n \in Nat
    BY <2>1, <2>2, WireType
  <2>4. up[c][i].n <= typed
    BY DEF ConnInv, FreshInv
  <2> QED BY <1>1, <2>3, <2>4
<1>7. \A s \in Session : \A i \in 1 .. Len(got[s]) : got[s][i].n < typed + 1
  <2> SUFFICES ASSUME NEW s \in Session, NEW i \in 1 .. Len(got[s])
               PROVE  got[s][i].n < typed + 1
    OBVIOUS
  <2>1. got[s] \in Seq([n : Nat, early : BOOLEAN])
    BY DEF ConnInv, WriteInv
  <2>2. got[s][i] \in [n : Nat, early : BOOLEAN]
    BY <2>1, ElementOfSeq
  <2>3. got[s][i].n <= typed
    BY DEF ConnInv, FreshInv
  <2> QED BY <1>1, <2>2, <2>3
<1>8. Newer(all, typed + 1)
  <2> SUFFICES ASSUME NEW k \in 1 .. Len(all)
               PROVE  /\ all[k].n <= typed + 1
                      /\ \A j \in 1 .. k - 1 : all[j].n < all[k].n
                      /\ \A c \in Conn : \A i \in Inputs(c) : up[c][i].n < all[k].n
                      /\ \A s \in Session : \A i \in 1 .. Len(got[s]) : got[s][i].n < all[k].n
    BY <1>4 DEF Newer
  <2>1. CASE k \in 1 .. N
    <3>1. all[k] = outbox[k] /\ \A j \in 1 .. k - 1 : j \in 1 .. N /\ all[j] = outbox[j]
      BY <1>1, <1>4, <2>1
    <3>2. outbox[k].n <= typed + 1
      BY <1>1, <1>5, <2>1
    <3> QED BY <1>2, <2>1, <3>1, <3>2 DEF Newer
  <2>2. CASE k = N + 1
    <3>1. all[k].n = typed + 1
      BY <1>3, <1>4, <2>2
    <3>2. \A j \in 1 .. k - 1 : all[j].n < typed + 1
      BY <1>1, <1>4, <1>5, <2>2
    <3> QED BY <1>1, <1>6, <1>7, <3>1, <3>2
  <2> QED BY <1>1, <1>4, <2>1, <2>2
<1> QED BY <1>1, <1>2, <1>3, <1>8 DEF all, chunk

\* A suffix of what may be sent may be sent.
LEMMA SuffixNewer ==
    ASSUME NEW all, NEW t, Newer(all, t), NEW first \in 1 .. Len(all)
    PROVE  Newer(SubSeq(all, first, Len(all)), t)
<1> DEFINE rest == SubSeq(all, first, Len(all))
<1>1. all \in Seq(Chunk(era)) /\ Len(all) \in Nat
  BY DEF Newer
<1>2. \A i \in first .. Len(all) : all[i] \in Chunk(era)
  BY <1>1, ElementOfSeq
<1>3. /\ rest \in Seq(Chunk(era)) /\ Len(rest) = Len(all) - first + 1
      /\ \A i \in 1 .. Len(all) - first + 1 : rest[i] = all[first + i - 1]
  BY <1>1, <1>2, SubSeqProperties
<1> HIDE DEF rest
<1>4. \A k \in 1 .. Len(rest) : /\ first + k - 1 \in 1 .. Len(all) /\ rest[k] = all[first + k - 1]
                                /\ \A j \in 1 .. k - 1 : /\ first + j - 1 \in 1 .. first + k - 1 - 1
                                                         /\ rest[j] = all[first + j - 1]
  BY <1>1, <1>3
<1>5. Newer(rest, t)
  <2> SUFFICES ASSUME NEW k \in 1 .. Len(rest)
               PROVE  /\ rest[k].n <= t
                      /\ \A j \in 1 .. k - 1 : rest[j].n < rest[k].n
                      /\ \A c \in Conn : \A i \in Inputs(c) : up[c][i].n < rest[k].n
                      /\ \A s \in Session : \A i \in 1 .. Len(got[s]) : got[s][i].n < rest[k].n
    BY <1>3 DEF Newer
  <2>1. PICK m \in 1 .. Len(all) : m = first + k - 1
    BY <1>4
  <2>2. /\ all[m].n <= t
        /\ \A j \in 1 .. m - 1 : all[j].n < all[m].n
        /\ \A c \in Conn : \A i \in Inputs(c) : up[c][i].n < all[m].n
        /\ \A s \in Session : \A i \in 1 .. Len(got[s]) : got[s][i].n < all[m].n
    BY DEF Newer
  <2>3. rest[k] = all[m] /\ \A j \in 1 .. k - 1 : /\ first + j - 1 \in 1 .. m - 1
                                                /\ rest[j] = all[first + j - 1]
    BY <1>4, <2>1
  <2> QED BY <2>2, <2>3
<1> QED BY <1>5 DEF rest

\* Chunks are numbered.
LEMMA Numbered ==
    ASSUME ConnInv
    PROVE  /\ typed \in Nat
           /\ \A c \in Conn : \A i \in Inputs(c) :
                 i \in 1 .. Len(up[c]) /\ up[c][i].type = "input" /\ up[c][i].n \in Nat
           /\ \A s \in Session : \A i \in 1 .. Len(got[s]) : got[s][i].n \in Nat
<1>1. ASSUME NEW c \in Conn, NEW i \in Inputs(c)
      PROVE  i \in 1 .. Len(up[c]) /\ up[c][i].type = "input" /\ up[c][i].n \in Nat
  <2>1. up[c] \in Seq(Wire(eraOf[c])) /\ i \in 1 .. Len(up[c]) /\ up[c][i].type = "input"
    BY DEF ConnInv, EraInv, Inputs
  <2>2. up[c][i] \in Wire(eraOf[c])
    BY <2>1, ElementOfSeq
  <2> QED BY <2>1, <2>2, WireType
<1>2. ASSUME NEW s \in Session, NEW i \in 1 .. Len(got[s]) PROVE got[s][i].n \in Nat
  <2>1. got[s] \in Seq([n : Nat, early : BOOLEAN])
    BY DEF ConnInv, WriteInv
  <2>2. got[s][i] \in [n : Nat, early : BOOLEAN]
    BY <2>1, ElementOfSeq
  <2> QED BY <2>2
<1> QED BY <1>1, <1>2 DEF ConnInv, FreshInv

\* A step that sends a batch on the open link, as far as the input and the server go.
LEMMA SendStep ==
    ASSUME ConnInv, link = "open", NEW q, Batch(q, typed'), Sent(q),
           typed' \in Nat, typed <= typed',
           UNCHANGED <<cur, link, handler, got, era, eraOf, sess, size>>,
           \/ outbox' = <<>>
           \/ UNCHANGED <<outbox, typed>> /\ \A i \in 1 .. Len(q) : q[i].type # "input"
    PROVE  EraInv' /\ ServerInv' /\ FreshInv' /\ WireInv' /\ WriteInv' /\ InputInOrder'
<1>1. q \in Seq(Wire(era))
  BY DEF Batch
<1>2. EraInv'
  <2>1. outbox' \in Seq(Chunk(era))
    BY EmptySeq DEF ConnInv, EraInv
  <2>2. DOMAIN up' = Conn /\ \A c \in Conn : up'[c] \in Seq(Wire(eraOf[c]))
    BY <1>1, SentFrom
  <2> QED BY <2>1, <2>2 DEF ConnInv, EraInv
<1>3. /\ ServerInv' /\ WireInv' /\ WriteInv' /\ InputInOrder'
      /\ \A c \in Conn : \A i \in Inputs(c)' :
            /\ up'[c][i].n <= typed'
            /\ \/ \E j \in Inputs(c) : up'[c][i] = up[c][j]
               \/ \E j \in 1 .. Len(q) : q[j].type = "input" /\ up'[c][i] = q[j]
  BY SentKeeps
<1>4. FreshInv'
  <2>1. \A s \in Session : \A i \in 1 .. Len(got[s]) : got[s][i].n <= typed'
    <3> SUFFICES ASSUME NEW s \in Session, NEW i \in 1 .. Len(got[s])
                 PROVE  got[s][i].n <= typed'
      OBVIOUS
    <3>1. got[s][i].n <= typed /\ got[s][i].n \in Nat /\ typed \in Nat
      BY Numbered DEF ConnInv, FreshInv
    <3> QED BY <3>1
  <2>2. CASE outbox' = <<>>
    BY <1>3, <2>1, <2>2 DEF FreshInv
  <2>3. CASE UNCHANGED <<outbox, typed>> /\ \A i \in 1 .. Len(q) : q[i].type # "input"
    BY <1>3, <2>1, <2>3 DEF ConnInv, FreshInv
  <2> QED BY <2>2, <2>3
<1> QED BY <1>2, <1>3, <1>4

\* The user types: the chunk is sent after what is queued, or queued.
LEMMA TypeStep == ASSUME ConnInv, NEW bytes \in ChunkBytes, Type(bytes) PROVE ConnInv'
<1> DEFINE chunk == [n |-> typed + 1, bytes |-> bytes, era |-> era]
           all == Append(outbox, chunk)
<1>1. /\ typed' = typed + 1
      /\ HandleRuntimeInput(chunk)
      /\ UNCHANGED <<transportVars, serverVars, choiceVars, pendingResize, sizeVars, viewVars,
                      eraVars, runtime, screen>>
  BY DEF Type
<1>2. /\ UNCHANGED <<link, status, page, cur, handler, down, sess, size, got>>
      /\ UNCHANGED <<sessionId, attachMode, pendingResize, fitSize, dims, fitDue>>
      /\ UNCHANGED <<seen, shown, verdict, era, eraOf, runtime, screen>>
  BY <1>1 DEF transportVars, serverVars, choiceVars, sizeVars, viewVars, eraVars
<1>3. bytes \in Nat
  BY ConnectionConstants
<1>4. /\ Newer(outbox, typed) /\ Newer(all, typed + 1)
      /\ chunk \in Chunk(era) /\ typed \in Nat
  BY <1>3, QueueNewer
<1>5. \/ CanSend /\ Sent(InputMessages(all)) /\ outbox' = <<>>
      \/ ~CanSend /\ EnqueueOutbox(chunk) /\ UNCHANGED up
  BY <1>1 DEF HandleRuntimeInput
<1>6. LinkInv' /\ ChoiceInv' /\ VerdictInv' /\ FitInv'
  BY <1>2 DEF ConnInv, LinkInv, ChoiceInv, VerdictInv, FitInv
<1>7. DownInv'
  BY <1>2 DEF ConnInv, DownInv, Announced
<1>8. CASE CanSend /\ Sent(InputMessages(all)) /\ outbox' = <<>>
  <2> HIDE DEF chunk, all
  <2> DEFINE q == InputMessages(all)
  <2>1. link = "open"
    BY <1>8 DEF CanSend
  <2>2. Batch(q, typed') /\ \A i \in 1 .. Len(q) : q[i].type = "input"
    BY <1>1, <1>4, <2>1, InputBatch
  <2> HIDE DEF q
  <2>3. typed' \in Nat /\ typed <= typed' /\ Sent(q)
    BY <1>1, <1>4, <1>8 DEF q
  <2>4. EraInv' /\ ServerInv' /\ FreshInv' /\ WireInv' /\ WriteInv' /\ InputInOrder'
    BY <1>2, <1>8, <2>1, <2>2, <2>3, SendStep
  <2>5. ReadyInv'
    BY <1>2, <1>8 DEF ConnInv, ReadyInv
  <2>6. SyncInv'
    <3> SUFFICES ASSUME handler[cur] # None PROVE SyncInv'
      BY <1>2 DEF SyncInv
    <3>1. /\ AttachPending(cur)' => AttachPending(cur) /\ up'[cur][1] = up[cur][1]
          /\ Controlling(cur)' =>
                Controlling(cur) /\ (SizeUnderway(up[cur])' \/ SizeGiven(cur)')
      BY <1>2, <2>1, <2>2, <2>3, SentSync DEF ConnInv, SyncInv
    <3> QED BY <1>2, <2>1, <3>1 DEF ConnInv, SyncInv
  <2> QED BY <1>6, <1>7, <2>4, <2>5, <2>6 DEF ConnInv
<1>9. CASE ~CanSend /\ EnqueueOutbox(chunk) /\ UNCHANGED up
  <2>1. Newer(outbox', typed + 1)
    <3>1. CASE outbox' = outbox
      <4>1. \A k \in 1 .. Len(outbox) : outbox[k].n \in Nat
        <5>1. outbox \in Seq(Chunk(era))
          BY <1>4 DEF Newer
        <5>2. \A k \in 1 .. Len(outbox) : outbox[k] \in Chunk(era)
          BY <5>1, ElementOfSeq
        <5> QED BY <5>2 DEF Chunk
      <4>2. \A k \in 1 .. Len(outbox) : outbox[k].n <= typed + 1
        BY <1>4, <4>1 DEF Newer
      <4> QED BY <1>4, <3>1, <4>2 DEF Newer
    <3>2. CASE \E first \in 1 .. Len(all) : outbox' = SubSeq(all, first, Len(all))
      BY <1>4, <3>2, SuffixNewer
    <3> QED BY <1>9, <3>1, <3>2 DEF EnqueueOutbox
  <2> HIDE DEF chunk, all
  <2>2. EraInv'
    <3>1. outbox' \in Seq(Chunk(era))
      BY <2>1 DEF Newer
    <3> QED BY <1>2, <1>9, <3>1 DEF ConnInv, EraInv
  <2>3. FreshInv'
    <3>1. \A c \in Conn : Inputs(c)' = Inputs(c)
      BY <1>9 DEF Inputs
    <3>2. \A c \in Conn : \A i \in Inputs(c) : up[c][i].n <= typed + 1
      <4> SUFFICES ASSUME NEW c \in Conn, NEW i \in Inputs(c) PROVE up[c][i].n <= typed + 1
        OBVIOUS
      <4>1. up[c][i].n <= typed /\ up[c][i].n \in Nat
        BY Numbered DEF ConnInv, FreshInv
      <4> QED BY <1>4, <4>1
    <3>3. \A s \in Session : \A i \in 1 .. Len(got[s]) : got[s][i].n <= typed + 1
      <4> SUFFICES ASSUME NEW s \in Session, NEW i \in 1 .. Len(got[s])
                   PROVE  got[s][i].n <= typed + 1
        OBVIOUS
      <4>1. got[s][i].n <= typed /\ got[s][i].n \in Nat
        BY Numbered DEF ConnInv, FreshInv
      <4> QED BY <1>4, <4>1
    <3>4. typed' \in Nat
      BY <1>1, <1>4
    <3> QED BY <1>1, <1>2, <1>9, <2>1, <3>1, <3>2, <3>3, <3>4 DEF FreshInv, Newer
  <2>4. ServerInv' /\ WireInv' /\ WriteInv' /\ InputInOrder'
    BY <1>2, <1>9, ServerSame, InputSame DEF ConnInv
  <2>5. ReadyInv' /\ SyncInv'
    BY <1>2, <1>9 DEF ReadyInv, SyncInv, CanSend
  <2> QED BY <1>6, <1>7, <2>2, <2>3, <2>4, <2>5 DEF ConnInv
<1> QED BY <1>5, <1>8, <1>9

\* The terminal is fitted: a controlling page sends its size, or keeps it.
LEMMA FitStep == ASSUME ConnInv, FitAndSyncSize PROVE ConnInv'
<1>1. /\ fitDue' = FALSE /\ fitSize' = dims
      /\ SendResize(dims)
      /\ UNCHANGED <<transportVars, serverVars, choiceVars, outbox, typed, dims, viewVars,
                      eraVars, runtime, screen, acts>>
  BY DEF FitAndSyncSize
<1>2. /\ UNCHANGED <<link, status, page, cur, handler, down, sess, size, got>>
      /\ UNCHANGED <<sessionId, attachMode, outbox, typed, dims>>
      /\ UNCHANGED <<seen, shown, verdict, era, eraOf, runtime, screen>>
  BY <1>1 DEF transportVars, serverVars, choiceVars, viewVars, eraVars
<1>3. LinkInv' /\ ChoiceInv' /\ VerdictInv'
  BY <1>2 DEF ConnInv, LinkInv, ChoiceInv, VerdictInv
<1>4. DownInv'
  BY <1>2 DEF ConnInv, DownInv, Announced
<1>5. FitInv'
  <2>1. fitDue' \in BOOLEAN
    BY <1>1, Zenon
  <2>2. pendingResize' \in {None, dims}
    BY <1>1 DEF SendResize
  <2> QED BY <1>1, <1>2, <2>1, <2>2 DEF ConnInv, FitInv
<1>6. ReadyInv'
  <2>1. link = "open" => pendingResize' = None
    BY <1>1 DEF SendResize, CanSend
  <2> QED BY <1>2, <2>1 DEF ConnInv, ReadyInv
<1>7. dims \in Nat /\ typed \in Nat
  BY DEF ConnInv, FitInv, FreshInv
<1>8. CASE seen.mode = "control" /\ CanSend /\ Sent(<<ResizeMessage(dims)>>)
  <2> DEFINE q == <<ResizeMessage(dims)>>
  <2>1. link = "open"
    BY <1>8 DEF CanSend
  <2>2. /\ Batch(q, typed) /\ Len(q) = 1 /\ q[1] = ResizeMessage(dims)
        /\ q[1].type = "resize" /\ q[1].size = Normalize(dims)
    BY <1>7, ResizeBatch
  <2>3. Sent(q)
    BY <1>8
  <2> HIDE DEF q
  <2>4. EraInv' /\ ServerInv' /\ FreshInv' /\ WireInv' /\ WriteInv' /\ InputInOrder'
    <3>1. \A i \in 1 .. Len(q) : q[i].type # "input"
      BY <2>2
    <3>2. Batch(q, typed') /\ typed' \in Nat /\ typed <= typed'
      BY <1>2, <1>7, <2>2
    <3> QED BY <1>2, <2>1, <2>3, <3>1, <3>2, SendStep
  <2>5. SyncInv'
    <3> SUFFICES ASSUME handler[cur] # None PROVE SyncInv'
      BY <1>2 DEF SyncInv
    <3>1. q[Len(q)].size = Normalize(fitSize)' /\ Len(q) > 0 /\ q[Len(q)].type = "resize"
      BY <1>1, <2>2 DEF Normalize
    <3>2. /\ AttachPending(cur)' => AttachPending(cur) /\ up'[cur][1] = up[cur][1]
          /\ Controlling(cur)' =>
                Controlling(cur) /\ (SizeUnderway(up[cur])' \/ SizeGiven(cur)')
      <4>1. Controlling(cur) => SizeUnderway(up[cur]) \/ SizeGiven(cur)
        BY <2>1 DEF ConnInv, SyncInv
      <4> QED BY <1>2, <2>1, <2>2, <2>3, <3>1, <4>1, SentSync
    <3> QED BY <1>2, <2>1, <3>2 DEF ConnInv, SyncInv
  <2> QED BY <1>3, <1>4, <1>5, <1>6, <2>4, <2>5 DEF ConnInv
<1>9. CASE UNCHANGED up /\ (seen.mode = "watch" \/ ~CanSend)
  <2>1. EraInv'
    BY <1>2, <1>9 DEF ConnInv, EraInv
  <2>2. ServerInv' /\ FreshInv' /\ WireInv' /\ WriteInv' /\ InputInOrder'
    BY <1>2, <1>9, ServerSame, FreshSame, InputSame DEF ConnInv
  <2>3. SyncInv'
    <3>1. CASE ~CanSend
      BY <1>2, <3>1 DEF SyncInv, CanSend
    <3>2. CASE seen.mode = "watch"
      <4>1. /\ AttachPending(cur)' <=> AttachPending(cur)
            /\ Controlling(cur)' <=> Controlling(cur)
        BY <1>2, <1>9 DEF AttachPending, Controlling
      <4>2. link = "open" /\ handler[cur] # None => ~Controlling(cur)
        BY <3>2 DEF ConnInv, SyncInv
      <4> QED BY <1>2, <1>9, <4>1, <4>2 DEF ConnInv, SyncInv
    <3> QED BY <1>9, <3>1, <3>2
  <2> QED BY <1>3, <1>4, <1>5, <1>6, <2>1, <2>2, <2>3 DEF ConnInv
<1> QED BY <1>1, <1>8, <1>9 DEF SendResize

-----------------------------------------------------------------------------
(* Receiving.                                                               *)

\* The first frame is taken from the socket.
Pop == down' = [down EXCEPT ![cur] = Tail(@)]

\* What is left on the socket after that.
LEMMA PopKeeps ==
    ASSUME ConnInv, link = "open", down[cur] # <<>>, Pop
    PROVE  /\ cur \in Conn /\ Head(down[cur]) = down[cur][1] /\ down[cur][1] \in Frame
           /\ 1 \in 1 .. Len(down[cur])
           /\ down' \in [Conn -> Seq(Frame)]
           /\ \A c \in Conn \ {cur} : down'[c] = down[c]
           /\ \A i \in 1 .. Len(down'[cur]) :
                 i \in Nat /\ i >= 1 /\ i + 1 \in 1 .. Len(down[cur]) /\ down'[cur][i] = down[cur][i + 1]
           /\ \A i \in 2 .. Len(down[cur]) :
                 i - 1 \in 1 .. Len(down'[cur]) /\ down'[cur][i - 1] = down[cur][i]
<1>1. cur \in Conn /\ down \in [Conn -> Seq(Frame)] /\ down[cur] \in Seq(Frame)
  BY ConnectionConstants DEF ConnInv, LinkInv, DownInv
<1>2. /\ Len(down[cur]) \in Nat /\ Len(down[cur]) > 0
      /\ Head(down[cur]) = down[cur][1]
  BY <1>1
<1>3. /\ Tail(down[cur]) \in Seq(Frame) /\ Len(Tail(down[cur])) = Len(down[cur]) - 1
      /\ \A i \in 1 .. Len(Tail(down[cur])) : Tail(down[cur])[i] = down[cur][i + 1]
  BY <1>1, HeadTailProperties
<1>4. /\ down'[cur] = Tail(down[cur]) /\ down' \in [Conn -> Seq(Frame)]
      /\ \A c \in Conn \ {cur} : down'[c] = down[c]
  BY <1>1, <1>3 DEF Pop
<1>5. down[cur][1] \in Frame /\ 1 \in 1 .. Len(down[cur])
  BY <1>1, <1>2, ElementOfSeq
<1>6. Len(down'[cur]) = Len(down[cur]) - 1
  BY <1>3, <1>4
<1>7. \A i \in 1 .. Len(down'[cur]) :
          i \in Nat /\ i >= 1 /\ i + 1 \in 1 .. Len(down[cur]) /\ down'[cur][i] = down[cur][i + 1]
  BY <1>2, <1>3, <1>4, <1>6
<1>8. \A i \in 2 .. Len(down[cur]) :
          i - 1 \in 1 .. Len(down'[cur]) /\ down'[cur][i - 1] = down[cur][i]
  <2> SUFFICES ASSUME NEW i \in 2 .. Len(down[cur])
               PROVE  i - 1 \in 1 .. Len(down'[cur]) /\ down'[cur][i - 1] = down[cur][i]
    OBVIOUS
  <2>1. i - 1 \in 1 .. Len(down'[cur]) /\ i = (i - 1) + 1
    BY <1>2, <1>6
  <2> QED BY <1>7, <2>1
<1> QED BY <1>1, <1>2, <1>4, <1>5, <1>7, <1>8

\* Output that is next belongs to the session of the page: to the one it was in, or to
\* that of the ready message that has just been taken.
LEMMA PopDown ==
    ASSUME ConnInv, link = "open", down[cur] # <<>>, Pop, UNCHANGED <<link, cur>>,
           down[cur][1].type = "ready" => sessionId' = down[cur][1].session,
           screen' \subseteq Session, sessionId' # None => screen' \subseteq {sessionId'}
    PROVE  DownInv'
<1> USE PopKeeps
<1>1. \A c \in Conn : c # cur' \/ link' # "open" => down'[c] = <<>>
  BY DEF ConnInv, DownInv
<1>2. Announced(down[cur], sessionId)'
  <2> SUFFICES ASSUME NEW i \in 1 .. Len(down'[cur]), down'[cur][i].type = "output"
               PROVE  \/ i = 1 /\ down'[cur][i].data = sessionId'
                      \/ /\ i > 1 /\ down'[cur][i - 1].type = "ready"
                         /\ down'[cur][i - 1].session = down'[cur][i].data
    BY DEF Announced
  <2>1. /\ i \in Nat /\ i >= 1 /\ i + 1 \in 1 .. Len(down[cur])
        /\ down'[cur][i] = down[cur][i + 1]
    OBVIOUS
  <2>2. down[cur][i].type = "ready" /\ down[cur][i].session = down[cur][i + 1].data
    <3>1. /\ i + 1 > 1 /\ down[cur][(i + 1) - 1].type = "ready"
          /\ down[cur][(i + 1) - 1].session = down[cur][i + 1].data
      BY <2>1 DEF ConnInv, DownInv, Announced
    <3>2. (i + 1) - 1 = i
      BY <2>1
    <3> QED BY <3>1, <3>2
  <2>3. CASE i = 1
    BY <2>1, <2>2, <2>3
  <2>4. CASE i > 1
    <3>1. i \in 2 .. Len(down[cur])
      BY <2>1, <2>4
    <3> QED BY <2>1, <2>2, <2>4, <3>1
  <2> QED BY <2>1, <2>3, <2>4
<1>3. \A i \in 1 .. Len(down'[cur]) :
          ~(down'[cur][i].type = "error" /\ down'[cur][i].code = "attach_forbidden")
  <2> SUFFICES ASSUME NEW i \in 1 .. Len(down'[cur]), down'[cur][i].type = "error",
                      down'[cur][i].code = "attach_forbidden"
               PROVE  FALSE
    OBVIOUS
  <2>1. i \in Nat /\ i >= 1 /\ i + 1 \in 1 .. Len(down[cur]) /\ down'[cur][i] = down[cur][i + 1]
    OBVIOUS
  <2>2. i + 1 = 1
    BY <2>1 DEF ConnInv, DownInv
  <2> QED BY <2>1, <2>2
<1> QED BY <1>1, <1>2, <1>3 DEF DownInv

\* A frame that is no ready message, as far as the rest of the page goes.
LEMMA ReceiveQuiet ==
    ASSUME ConnInv, link = "open", down[cur] # <<>>, Pop,
           down[cur][1].type # "ready", VerdictInv', ChoiceInv',
           screen' \subseteq Session, sessionId' # None => screen' \subseteq {sessionId'},
           down[cur][1].type # "error" => UNCHANGED <<sessionId, attachMode>>,
           UNCHANGED <<transportVars, remoteVars, typed, sizeVars, seen, eraVars, runtime,
                       outbox, pendingResize, up>>
    PROVE  ConnInv'
<1>1. /\ UNCHANGED <<link, status, page, cur, handler, sess, size, got, typed, fitSize, dims>>
      /\ UNCHANGED <<fitDue, seen, era, eraOf, runtime, outbox, pendingResize, up>>
  BY DEF transportVars, remoteVars, sizeVars, eraVars
<1>2. LinkInv' /\ FitInv'
  BY <1>1 DEF ConnInv, LinkInv, FitInv
<1>3. EraInv'
  BY <1>1 DEF ConnInv, EraInv
<1>4. DownInv'
  BY <1>1, PopDown
<1>5. ServerInv' /\ FreshInv' /\ WireInv' /\ WriteInv' /\ InputInOrder'
  BY <1>1, ServerSame, FreshSame, InputSame DEF ConnInv
<1>6. ReadyInv'
  <2>1. CASE \E i \in 1 .. Len(down[cur]) : down[cur][i].type = "ready"
    <3>1. PICK i \in 1 .. Len(down[cur]) : down[cur][i].type = "ready"
      BY <2>1
    <3>2. Len(down[cur]) \in Nat
      BY PopKeeps, LenProperties DEF ConnInv, DownInv
    <3>3. i \in 2 .. Len(down[cur])
      BY <3>1, <3>2
    <3> QED BY <1>1, <3>1, <3>3, PopKeeps DEF ReadyInv
  <2>2. CASE ~\E i \in 1 .. Len(down[cur]) : down[cur][i].type = "ready"
    BY <1>1, <2>2 DEF ConnInv, ReadyInv
  <2> QED BY <2>1, <2>2
<1>7. SyncInv'
  <2> SUFFICES ASSUME handler[cur] # None PROVE SyncInv'
    BY <1>1 DEF SyncInv
  <2>1. ~AttachPending(cur)
    BY DEF ConnInv, SyncInv
  <2>2. ~AttachPending(cur)' /\ (Controlling(cur)' <=> Controlling(cur))
    BY <1>1, <2>1 DEF AttachPending, Controlling
  <2>3. ASSUME Controlling(cur)
        PROVE  /\ attachMode' = "control" /\ seen'.mode = "control"
               /\ \A i \in 1 .. Len(down'[cur]) :
                     /\ down'[cur][i].type # "error"
                     /\ down'[cur][i].type = "ready" => ~down'[cur][i].readOnly
               /\ SizeUnderway(up[cur])' \/ SizeGiven(cur)'
    <3>1. /\ attachMode = "control" /\ seen.mode = "control"
          /\ \A i \in 1 .. Len(down[cur]) :
                /\ down[cur][i].type # "error"
                /\ down[cur][i].type = "ready" => ~down[cur][i].readOnly
          /\ SizeUnderway(up[cur]) \/ SizeGiven(cur)
      BY <2>3 DEF ConnInv, SyncInv
    <3>2. down[cur][1].type # "error"
      BY <3>1, PopKeeps
    <3>3. SizeUnderway(up[cur])' \/ SizeGiven(cur)'
      BY <1>1, <3>1 DEF SizeUnderway, SizeGiven, Normalize
    <3> QED BY <1>1, <3>1, <3>2, <3>3, PopKeeps, SMTT(60)
  <2> QED BY <1>1, <2>2, <2>3 DEF SyncInv
<1> QED BY <1>2, <1>3, <1>4, <1>5, <1>6, <1>7 DEF ConnInv

\* A flag that is told leaves the verdict and the flag in agreement.
LEMMA TellKeeps ==
    ASSUME VerdictInv, LinkInv, link = "open", link' = link,
           NEW flag \in Flag \cup {None}, Tell(flag)
    PROVE  VerdictInv'
<1>1. status = "connected"
  BY DEF LinkInv
<1>2. CASE flag = None
  BY <1>2 DEF Tell, VerdictInv
<1>3. CASE flag # None
  <2>1. /\ shown' = [shown EXCEPT !.flag = flag]
        /\ verdict' = [flag |-> flag, early |-> shown.transport # status]
    BY <1>3 DEF Tell
  <2>2. /\ shown' \in [transport : Status, flag : Flag \cup {None}]
        /\ shown'.transport = shown.transport /\ shown'.flag = flag
    BY <2>1 DEF VerdictInv
  <2>3. ~verdict'.early => shown.transport = "connected"
    BY <1>1, <2>1
  <2> QED BY <1>3, <2>2, <2>3 DEF VerdictInv
<1> QED BY <1>2, <1>3

\* A frame that leaves the choice, the queues and the screen alone.
Quiet(flag) == Tell(flag) /\ UNCHANGED <<choiceVars, outbox, pendingResize, up, screen>>

\* A frame of another version is told of, or ignored.
LEMMA ForeignQuiet ==
    ASSUME NEW frame \in ForeignFrame, HandleMessage(frame)
    PROVE  \E flag \in Flag \cup {None} : Quiet(flag)
<1>1. ASSUME NEW failure, HandleProtocolFailure(failure)
      PROVE  \E flag \in Flag \cup {None} : Quiet(flag)
  <2>1. CASE failure = "incompatible_version"
    BY <1>1, <2>1 DEF HandleProtocolFailure, Quiet, Flag
  <2>2. CASE failure # "incompatible_version"
    BY <1>1, <2>2 DEF HandleProtocolFailure, Quiet
  <2> QED BY <2>1, <2>2
<1>2. ASSUME ParseFailure(frame) \in {"malformed_payload", "incompatible_version",
                                     "unsupported_type"}
      PROVE  \E flag \in Flag \cup {None} : Quiet(flag)
  <2>1. ParseFailure(frame) # None
    BY <1>2, NoneIsNothing
  <2> QED BY <1>1, <2>1 DEF HandleMessage
<1>3. ASSUME NEW code \in {"incompatible_version", "banned"}, frame = Error(code)
      PROVE  \E flag \in Flag \cup {None} : Quiet(flag)
  <2>1. frame.type = "error" /\ frame.code = code
    BY <1>3 DEF Error
  <2>2. ParseFailure(frame) = None
    BY <2>1 DEF ParseFailure
  <2>3. HandleError(code)
    BY <2>1, <2>2, <1>1 DEF HandleMessage
  <2>4. /\ ErrorPolicy(code).flag \in {"protocol_incompatible", None}
        /\ ErrorPolicy(code).watch = FALSE
    BY DEF ErrorPolicy
  <2>5. code # "session_not_found"
    OBVIOUS
  <2>6. Quiet(ErrorPolicy(code).flag)
    BY <2>3, <2>4, <2>5 DEF HandleError, Quiet, choiceVars
  <2> QED BY <2>4, <2>6 DEF Flag
<1>4. ASSUME NEW s \in {None, Kept},
             frame = [type |-> "ready", session |-> s, readOnly |-> FALSE, version |-> 2]
      PROVE  ParseFailure(frame) \in {"malformed_payload", "incompatible_version"}
  BY <1>4 DEF ParseFailure
<1>5. ASSUME frame = [type |-> "exit", code |-> 0, signal |-> -1]
      PROVE  ParseFailure(frame) = "malformed_payload"
  BY <1>5 DEF ParseFailure
<1>6. ASSUME frame = [type |-> "no object"] PROVE ParseFailure(frame) = "malformed_payload"
  BY <1>6 DEF ParseFailure
<1>7. ASSUME frame = [type |-> "banner"] PROVE ParseFailure(frame) = "unsupported_type"
  BY <1>7 DEF ParseFailure
<1> QED BY <1>2, <1>3, <1>4, <1>5, <1>6, <1>7 DEF ForeignFrame

\* What the server sends.
LEMMA FrameType ==
    ASSUME NEW f \in Frame
    PROVE  \/ /\ f.type = "ready" /\ f.session \in Session /\ f.readOnly \in BOOLEAN
              /\ f.version = 1
           \/ f.type = "output" /\ f.data \in Session
           \/ f.type = "error" /\ f.code \in {None, "attach_forbidden", "session_not_found"}
           \/ f = Exit /\ f.type = "exit"
           \/ f = Foreign /\ f.type = "foreign"
<1>1. CASE f \in [type : {"ready"}, session : Session, readOnly : BOOLEAN, version : {1}]
  BY <1>1
<1>2. CASE f \in [type : {"output"}, data : Session]
  BY <1>2
<1>3. CASE f \in [type : {"error"}, message : {"text"},
                  code : {None, "attach_forbidden", "session_not_found"}]
  BY <1>3
<1>4. CASE f \in {Exit, Foreign}
  BY <1>4 DEF Exit, Foreign
<1> QED BY <1>1, <1>2, <1>3, <1>4 DEF Frame

\* What a ready message makes the page send is a batch, and ends with the size that was
\* kept.
LEMMA FlushBatch ==
    ASSUME ConnInv, link = "open"
    PROVE  LET q == FlushQueuedInput \o FlushPendingResize
           IN  /\ Batch(q, typed)
               /\ pendingResize = None => \A i \in 1 .. Len(q) : q[i].type = "input"
               /\ pendingResize # None =>
                     /\ Len(q) > 0 /\ q[Len(q)].type = "resize"
                     /\ q[Len(q)].size = Normalize(fitSize)
<1> DEFINE p == FlushQueuedInput
           r == FlushPendingResize
           q == p \o r
<1>1. Newer(outbox, typed) /\ 1 \in Nat
  BY QueueNewer
<1>2. Batch(p, typed) /\ \A i \in 1 .. Len(p) : p[i].type = "input"
  <2>1. CASE seen.mode = "watch"
    <3>1. p = <<>>
      BY <2>1 DEF FlushQueuedInput
    <3>2. Batch(<<>>, typed) /\ Len(<<>>) = 0
      BY <1>1, ResizeBatch
    <3> QED BY <3>1, <3>2
  <2>2. CASE seen.mode # "watch"
    <3>1. p = InputMessages(outbox)
      BY <2>2 DEF FlushQueuedInput
    <3> QED BY <1>1, <3>1, InputBatch
  <2> QED BY <2>1, <2>2
<1> HIDE DEF p
<1>3. p \in Seq(Wire(era)) /\ Len(p) \in Nat
  BY <1>2 DEF Batch
<1>4. CASE pendingResize = None
  <2>1. r = <<>>
    BY <1>4 DEF FlushPendingResize
  <2>2. q = p
    BY <1>3, <2>1, ConcatEmptySeq
  <2> QED BY <1>2, <1>4, <2>2 DEF p
<1>5. CASE pendingResize # None
  <2> DEFINE m == ResizeMessage(pendingResize)
  <2>1. pendingResize = fitSize /\ fitSize \in Nat
    BY <1>5 DEF ConnInv, FitInv
  <2>2. m \in Wire(era) /\ m.type = "resize" /\ m.size = Normalize(fitSize)
    BY <2>1, ResizeBatch
  <2> HIDE DEF m
  <2>3. r = <<m>>
    BY <1>5 DEF FlushPendingResize, m
  <2> HIDE DEF r
  <2>4. /\ q \in Seq(Wire(era)) /\ Len(q) = Len(p) + 1
        /\ \A i \in 1 .. Len(p) : q[i] = p[i]
        /\ q[Len(p) + 1] = m
    <3>1. r \in Seq(Wire(era)) /\ Len(r) = 1 /\ r[1] = m
      BY <2>2, <2>3
    <3>2. /\ q \in Seq(Wire(era)) /\ Len(q) = Len(p) + 1
          /\ \A i \in 1 .. Len(p) + 1 : q[i] = IF i <= Len(p) THEN p[i] ELSE r[i - Len(p)]
      <4>1. /\ q \in Seq(Wire(era)) /\ Len(q) = Len(p) + Len(r)
            /\ \A i \in 1 .. Len(p) + Len(r) : q[i] = IF i <= Len(p) THEN p[i] ELSE r[i - Len(p)]
        BY <1>3, <3>1, ConcatProperties
      <4> HIDE DEF q
      <4> QED BY <3>1, <4>1
    <3> HIDE DEF q
    <3>3. \A i \in 1 .. Len(p) : q[i] = p[i]
      BY <1>3, <3>2
    <3>4. q[Len(p) + 1] = r[1]
      BY <1>3, <3>2
    <3> QED BY <3>1, <3>2, <3>3, <3>4
  <2> HIDE DEF q
  <2>5. \A i \in 1 .. Len(q) : (i \in 1 .. Len(p) /\ q[i] = p[i]) \/ (i = Len(p) + 1 /\ q[i] = m)
    <3>1. \A i \in 1 .. Len(q) : i \in 1 .. Len(p) \/ i = Len(p) + 1
      BY <1>3, <2>4
    <3> SUFFICES ASSUME NEW i \in 1 .. Len(q)
                 PROVE  (i \in 1 .. Len(p) /\ q[i] = p[i]) \/ (i = Len(p) + 1 /\ q[i] = m)
      OBVIOUS
    <3>2. CASE i \in 1 .. Len(p)
      BY <2>4, <3>2
    <3>3. CASE i = Len(p) + 1
      BY <2>4, <3>3
    <3> QED BY <3>1, <3>2, <3>3
  <2>6. Batch(q, typed)
    <3>1. \A i \in 1 .. Len(q) : q[i].type = "input" => i \in 1 .. Len(p) /\ q[i] = p[i]
      BY <2>2, <2>5
    <3>2. \A i \in 1 .. Len(q) : q[i].type \in {"input", "resize"}
      BY <1>2, <2>2, <2>5
    <3> QED BY <1>2, <2>4, <3>1, <3>2 DEF Batch
  <2>7. Len(q) > 0 /\ q[Len(q)] = m
    BY <1>3, <2>4
  <2> QED BY <1>5, <2>2, <2>6, <2>7 DEF q, p, r
<1> QED BY <1>4, <1>5

\* A ready message: the page takes its session over, resets its screen, and drops or
\* sends what was queued.
LEMMA ReadyStep ==
    ASSUME ConnInv, link = "open", down[cur] # <<>>, Pop,
           down[cur][1].type = "ready", HandleReady(down[cur][1]),
           UNCHANGED <<transportVars, remoteVars, typed, sizeVars, seen, eraVars, runtime>>
    PROVE  ConnInv'
<1> DEFINE f == down[cur][1]
           q == FlushQueuedInput \o FlushPendingResize
<1>1. /\ UNCHANGED <<link, status, page, cur, handler, sess, size, got, typed, fitSize, dims>>
      /\ UNCHANGED <<fitDue, seen, era, eraOf, runtime>>
  BY DEF transportVars, remoteVars, sizeVars, eraVars
<1>2. f \in Frame /\ cur \in Conn /\ 1 \in 1 .. Len(down[cur])
  BY PopKeeps
<1>3. f.session \in Session /\ f.readOnly \in BOOLEAN
  BY <1>2, FrameType DEF Exit, Foreign
<1>4. /\ sessionId' = f.session
      /\ attachMode' = IF f.readOnly THEN "watch" ELSE "control"
      /\ shown' = [shown EXCEPT !.flag = None] /\ verdict' = None
      /\ FlushAfterReady(f.readOnly)
  BY DEF HandleReady
<1>5. screen' = {} /\ outbox' = <<>> /\ pendingResize' = None
  BY <1>4 DEF FlushAfterReady, ResetRuntimeBuffers, ResetQueuedBuffers
<1>6. LinkInv' /\ FitInv'
  BY <1>1, <1>5 DEF ConnInv, LinkInv, FitInv
<1>7. sessionId' \in Session /\ sessionId' # None /\ attachMode' \in Mode
  BY <1>3, <1>4, ConnectionConstants DEF Mode
<1>8. ChoiceInv' /\ VerdictInv'
  BY <1>1, <1>4, <1>7 DEF ConnInv, ChoiceInv, VerdictInv
<1>9. DownInv'
  BY <1>1, <1>4, <1>5, PopDown
<1>10. ReadyInv'
  BY <1>5 DEF ReadyInv
<1>11. handler[cur] # None => ~AttachPending(cur)
  BY DEF ConnInv, SyncInv
<1>12. typed \in Nat /\ era \in Nat
  BY DEF ConnInv, FreshInv, EraInv
<1>13. CASE f.readOnly
  <2>1. up' = up
    BY <1>4, <1>13 DEF FlushAfterReady
  <2>2. EraInv'
    BY <1>1, <1>5, <2>1, EmptySeq DEF ConnInv, EraInv
  <2>3. ServerInv' /\ FreshInv' /\ WireInv' /\ WriteInv' /\ InputInOrder'
    BY <1>1, <1>5, <2>1, ServerSame, FreshSame, InputSame DEF ConnInv
  <2>4. SyncInv'
    <3> SUFFICES ASSUME handler[cur] # None PROVE SyncInv'
      BY <1>1 DEF SyncInv
    <3>1. ~Controlling(cur)
      BY <1>2, <1>13 DEF ConnInv, SyncInv
    <3>2. ~AttachPending(cur)' /\ ~Controlling(cur)'
      BY <1>1, <1>11, <2>1, <3>1 DEF AttachPending, Controlling
    <3> QED BY <1>1, <3>2 DEF SyncInv
  <2> QED BY <1>6, <1>8, <1>9, <1>10, <2>2, <2>3, <2>4 DEF ConnInv
<1>14. CASE ~f.readOnly
  <2>1. Sent(q) /\ attachMode' = "control"
    BY <1>4, <1>14 DEF FlushAfterReady
  <2>2. /\ Batch(q, typed)
        /\ \/ fitSize' = fitSize /\ \A i \in 1 .. Len(q) : q[i].type = "input"
           \/ Len(q) > 0 /\ q[Len(q)].type = "resize" /\ q[Len(q)].size = Normalize(fitSize)'
    <3>1. Normalize(fitSize)' = Normalize(fitSize)
      BY <1>1 DEF Normalize
    <3> QED BY <1>1, <3>1, FlushBatch
  <2> HIDE DEF q
  <2>3. Batch(q, typed') /\ typed' \in Nat /\ typed <= typed'
    BY <1>1, <1>12, <2>2
  <2>4. EraInv' /\ ServerInv' /\ FreshInv' /\ WireInv' /\ WriteInv' /\ InputInOrder'
    BY <1>1, <1>5, <2>1, <2>3, SendStep
  <2>5. SyncInv'
    <3> SUFFICES ASSUME handler[cur] # None PROVE SyncInv'
      BY <1>1 DEF SyncInv
    <3>1. Controlling(cur) =>
            /\ seen.mode = "control"
            /\ \A i \in 1 .. Len(down[cur]) :
                  /\ down[cur][i].type # "error"
                  /\ down[cur][i].type = "ready" => ~down[cur][i].readOnly
            /\ SizeUnderway(up[cur]) \/ SizeGiven(cur)
      BY DEF ConnInv, SyncInv
    <3>2. /\ AttachPending(cur)' => AttachPending(cur) /\ up'[cur][1] = up[cur][1]
          /\ Controlling(cur)' =>
                Controlling(cur) /\ (SizeUnderway(up[cur])' \/ SizeGiven(cur)')
      BY <1>1, <2>1, <2>2, <3>1, SentSync
    <3>3. \A i \in 1 .. Len(down'[cur]) :
            i + 1 \in 1 .. Len(down[cur]) /\ down'[cur][i] = down[cur][i + 1]
      BY PopKeeps
    <3> QED BY <1>1, <1>11, <2>1, <3>1, <3>2, <3>3 DEF SyncInv
  <2> QED BY <1>6, <1>8, <1>9, <1>10, <2>4, <2>5 DEF ConnInv
<1> QED BY <1>3, <1>13, <1>14

\* A message is taken and handled.
LEMMA ReceiveStep == ASSUME ConnInv, Receive PROVE ConnInv'
<1> DEFINE f == down[cur][1]
<1>1. /\ link = "open" /\ down[cur] # <<>> /\ Pop
      /\ UNCHANGED <<transportVars, remoteVars, typed, sizeVars, seen, eraVars, runtime>>
  BY DEF Receive, Pop
<1>2. /\ f \in Frame /\ Head(down[cur]) = f /\ cur \in Conn /\ 1 \in 1 .. Len(down[cur])
      /\ link' = link
  BY <1>1, PopKeeps DEF transportVars
<1>3. PICK frame \in IF f = Foreign THEN ForeignFrame ELSE {f} : HandleMessage(frame)
  BY <1>2 DEF Receive
<1>4. /\ screen \subseteq Session /\ (sessionId # None => screen \subseteq {sessionId})
      /\ ChoiceInv /\ VerdictInv /\ LinkInv
  BY DEF ConnInv, DownInv
<1>5. ASSUME NEW flag \in Flag \cup {None}, Quiet(flag), f.type # "ready" PROVE ConnInv'
  <2>1. UNCHANGED <<sessionId, attachMode, outbox, pendingResize, up, screen>>
    BY <1>5 DEF Quiet, choiceVars
  <2>2. VerdictInv'
    BY <1>1, <1>2, <1>4, <1>5, TellKeeps DEF Quiet
  <2>3. ChoiceInv'
    BY <1>1, <1>4, <2>1 DEF ChoiceInv
  <2> QED BY <1>1, <1>4, <1>5, <2>1, <2>2, <2>3, ReceiveQuiet
<1>6. CASE f = Foreign
  <2>1. \E flag \in Flag \cup {None} : Quiet(flag)
    BY <1>3, <1>6, ForeignQuiet
  <2>2. f.type # "ready"
    BY <1>6 DEF Foreign
  <2> QED BY <1>5, <2>1, <2>2
<1>7. CASE f # Foreign /\ f.type = "ready"
  <2>1. f.session \in Session /\ f.readOnly \in BOOLEAN /\ f.version = 1
    BY <1>2, <1>7, FrameType DEF Exit
  <2>2. ParseFailure(f) = None
    <3>1. ~(f.readOnly \notin BOOLEAN) /\ f.session # None
      BY <2>1, ConnectionConstants
    <3> QED BY <1>7, <2>1, <3>1 DEF ParseFailure
  <2>3. HandleMessage(f)
    BY <1>3, <1>7
  <2>4. HandleReady(f)
    BY <1>7, <2>2, <2>3 DEF HandleMessage
  <2> HIDE DEF f
  <2> QED BY <1>1, <1>7, <2>4, ReadyStep DEF f
<1>8. CASE f # Foreign /\ f.type = "output"
  <2>1. f.data \in Session
    BY <1>2, <1>8, FrameType DEF Exit
  <2>2. ParseFailure(f) = None
    BY <1>8 DEF ParseFailure
  <2>3. HandleOutput(f)
    BY <1>3, <1>8, <2>2 DEF HandleMessage
  <2>4. /\ screen' = screen \cup {f.data}
        /\ UNCHANGED <<sessionId, attachMode, outbox, pendingResize, up, shown, verdict>>
    BY <2>3 DEF HandleOutput, choiceVars
  <2>5. f.data = sessionId
    BY <1>1, <1>2, <1>8 DEF ConnInv, DownInv, Announced
  <2>6. ChoiceInv' /\ VerdictInv'
    BY <1>1, <1>2, <1>4, <2>4 DEF ChoiceInv, VerdictInv
  <2> QED BY <1>1, <1>4, <1>8, <2>1, <2>4, <2>5, <2>6, ReceiveQuiet
<1>9. CASE f # Foreign /\ f.type = "exit"
  <2>1. f = Exit
    BY <1>2, <1>9, FrameType
  <2>2. ParseFailure(f) = None
    BY <2>1 DEF ParseFailure, Exit
  <2>3. HandleExit
    BY <1>3, <1>9, <2>2 DEF HandleMessage
  <2>4. Quiet("remote_exit") /\ "remote_exit" \in Flag
    BY <2>3 DEF HandleExit, Quiet, Flag
  <2> QED BY <1>5, <1>9, <2>4
<1>10. CASE f # Foreign /\ f.type = "error"
  <2>1. f.code \in {None, "attach_forbidden", "session_not_found"}
    BY <1>2, <1>10, FrameType DEF Exit
  <2>2. ParseFailure(f) = None
    BY <1>10 DEF ParseFailure
  <2>3. HandleError(f.code)
    BY <1>3, <1>10, <2>2 DEF HandleMessage
  <2>4. UNCHANGED <<outbox, pendingResize, up, screen>>
    BY <2>3 DEF HandleError
  <2>5. f.code = "attach_forbidden" => sessionId # None
    BY <1>1, <1>2, <1>10 DEF ConnInv, DownInv
  <2>6. /\ Tell(ErrorPolicy(f.code).flag)
        /\ sessionId' = IF f.code = "session_not_found" THEN None ELSE sessionId
        /\ attachMode' = IF f.code = "session_not_found" THEN "control"
                         ELSE IF ErrorPolicy(f.code).watch THEN "watch" ELSE attachMode
    BY <2>3 DEF HandleError
  <2>7. /\ ErrorPolicy(f.code).flag \in {"session_not_found", None}
        /\ ErrorPolicy(f.code).watch => f.code = "attach_forbidden"
    <3>1. CASE f.code = "session_not_found"
      BY <3>1 DEF ErrorPolicy
    <3>2. CASE f.code = "attach_forbidden"
      BY <3>2 DEF ErrorPolicy
    <3>3. CASE f.code = None
      BY <3>3, NoneIsNothing DEF ErrorPolicy, Flag
    <3> QED BY <2>1, <3>1, <3>2, <3>3
  <2>8. VerdictInv'
    <3>1. ErrorPolicy(f.code).flag \in Flag \cup {None}
      BY <2>7 DEF Flag
    <3> QED BY <1>1, <1>2, <1>4, <2>6, <3>1, TellKeeps
  <2>9. ChoiceInv' /\ (sessionId' # None => sessionId' = sessionId)
    BY <1>1, <1>4, <2>5, <2>6, <2>7 DEF ChoiceInv, Mode
  <2> QED BY <1>1, <1>4, <1>10, <2>4, <2>8, <2>9, ReceiveQuiet
<1> QED BY <1>2, <1>6, <1>7, <1>8, <1>9, <1>10, FrameType

-----------------------------------------------------------------------------
(* The server.                                                              *)

\* A step of the server leaves the page alone.
LEMMA PageSame ==
    ASSUME ConnInv, UNCHANGED <<transportVars, clientVars, viewVars>>
    PROVE  /\ UNCHANGED <<link, status, page, cur, sessionId, attachMode, outbox, pendingResize>>
           /\ UNCHANGED <<typed, fitSize, dims, fitDue, era, eraOf, runtime, screen>>
           /\ UNCHANGED <<seen, shown, verdict>>
           /\ LinkInv' /\ ChoiceInv' /\ VerdictInv' /\ FitInv'
<1>1. /\ UNCHANGED <<link, status, page, cur, sessionId, attachMode, outbox, pendingResize>>
      /\ UNCHANGED <<typed, fitSize, dims, fitDue, era, eraOf, runtime, screen>>
      /\ UNCHANGED <<seen, shown, verdict>>
  BY DEF transportVars, clientVars, viewVars, choiceVars, inputVars, sizeVars, eraVars
<1>2. LinkInv' /\ ChoiceInv' /\ VerdictInv' /\ FitInv'
  BY <1>1 DEF ConnInv, LinkInv, ChoiceInv, VerdictInv, FitInv
<1> QED BY <1>1, <1>2

\* A handler that has a session and is not read-only controls it.
LEMMA Controller ==
    ASSUME ServerInv, NEW c \in Conn, handler[c] # None, handler[c].session # None,
           ~handler[c].readOnly
    PROVE  handler[c].session \in Session /\ Controls(c, handler[c].session)
<1>1. handler[c] \in [session : Session \cup {None}, readOnly : BOOLEAN]
  BY DEF ServerInv, Handler
<1>2. handler[c].session \in Session /\ handler[c].readOnly = FALSE
  BY <1>1
<1>3. handler[c] = [session |-> handler[c].session, readOnly |-> handler[c].readOnly]
  BY <1>1
<1> QED BY <1>2, <1>3 DEF Controls

\* A controller is no handler that has not attached.
LEMMA ControlsFields ==
    ASSUME NEW c, NEW s \in Session, Controls(c, s)
    PROVE  handler[c].session = s /\ ~handler[c].readOnly /\ handler[c] # None
<1>1. [session |-> s, readOnly |-> FALSE] \in Handler
  BY DEF Handler
<1>2. None \notin Handler
  BY NoneIsNothing
<1>3. handler[c] = [session |-> s, readOnly |-> FALSE]
  BY DEF Controls
<1>4. handler[c].session = s /\ handler[c].readOnly = FALSE
  BY <1>3
<1>5. handler[c] # None
  BY <1>1, <1>2, <1>3
<1> QED BY <1>4, <1>5

\* The first message is taken from a socket.
Take(c) == up' = [up EXCEPT ![c] = Tail(@)]

\* What is left after that: no attach.
LEMMA TakeKeeps ==
    ASSUME ConnInv, NEW c \in Conn, up[c] # <<>>, Take(c)
    PROVE  /\ Head(up[c]) = up[c][1] /\ up[c][1] \in Wire(eraOf[c]) /\ 1 \in 1 .. Len(up[c])
           /\ Len(up[c]) \in Nat /\ Len(up'[c]) = Len(up[c]) - 1
           /\ DOMAIN up' = Conn /\ \A d \in Conn : up'[d] \in Seq(Wire(eraOf[d]))
           /\ \A d \in Conn \ {c} : up'[d] = up[d]
           /\ \A i \in 1 .. Len(up'[c]) :
                 /\ i \in Nat /\ i >= 1 /\ i + 1 \in 1 .. Len(up[c])
                 /\ up'[c][i] = up[c][i + 1] /\ up'[c][i].type # "attach"
<1>1. DOMAIN up = Conn /\ up[c] \in Seq(Wire(eraOf[c])) /\ Len(up[c]) \in Nat
  BY DEF ConnInv, EraInv
<1>2. Len(up[c]) > 0 /\ Head(up[c]) = up[c][1]
  BY <1>1
<1>3. up[c][1] \in Wire(eraOf[c]) /\ 1 \in 1 .. Len(up[c])
  BY <1>1, <1>2, ElementOfSeq
<1>4. /\ Tail(up[c]) \in Seq(Wire(eraOf[c])) /\ Len(Tail(up[c])) = Len(up[c]) - 1
      /\ \A i \in 1 .. Len(Tail(up[c])) : Tail(up[c])[i] = up[c][i + 1]
  BY <1>1, HeadTailProperties
<1>5. up'[c] = Tail(up[c]) /\ DOMAIN up' = Conn /\ \A d \in Conn \ {c} : up'[d] = up[d]
  BY <1>1 DEF Take
<1>6. \A d \in Conn : up'[d] \in Seq(Wire(eraOf[d]))
  BY <1>4, <1>5 DEF ConnInv, EraInv
<1>7. ASSUME NEW i \in 1 .. Len(up'[c])
      PROVE  /\ i \in Nat /\ i >= 1 /\ i + 1 \in 1 .. Len(up[c])
             /\ up'[c][i] = up[c][i + 1] /\ up'[c][i].type # "attach"
  <2>1. i \in Nat /\ i >= 1 /\ i + 1 \in 1 .. Len(up[c]) /\ up'[c][i] = up[c][i + 1]
    BY <1>1, <1>4, <1>5
  <2>2. up[c][i + 1].type # "attach"
    <3> SUFFICES ASSUME up[c][i + 1].type = "attach" PROVE FALSE
      OBVIOUS
    <3>1. i + 1 = 1
      BY <2>1 DEF ConnInv, ServerInv
    <3> QED BY <2>1, <3>1
  <2> QED BY <2>1, <2>2
<1> QED BY <1>1, <1>2, <1>3, <1>4, <1>5, <1>6, <1>7

\* What is on its way was on its way before, in the same order.
Shrink == \A d \in Conn : \E k \in Nat : \A i \in Inputs(d)' :
              i + k \in Inputs(d) /\ up'[d][i] = up[d][i + k]

\* Taking a message leaves the rest in order.
LEMMA TakeShrinks ==
    ASSUME ConnInv, NEW c \in Conn, up[c] # <<>>, Take(c) PROVE Shrink
<1> SUFFICES ASSUME NEW d \in Conn
             PROVE  \E k \in Nat : \A i \in Inputs(d)' :
                        i + k \in Inputs(d) /\ up'[d][i] = up[d][i + k]
  BY DEF Shrink
<1>1. CASE d = c
  <2>1. \A i \in Inputs(d)' : i + 1 \in Inputs(d) /\ up'[d][i] = up[d][i + 1]
    BY <1>1, TakeKeeps DEF Inputs
  <2> QED BY <2>1
<1>2. CASE d # c
  <2>1. \A i \in Inputs(d)' : i \in Inputs(d) /\ up'[d][i] = up[d][i]
    BY <1>2, TakeKeeps DEF Inputs
  <2>2. \A i \in Inputs(d) : i + 0 = i
    BY Numbered
  <2>3. \A i \in Inputs(d)' : i + 0 \in Inputs(d) /\ up'[d][i] = up[d][i + 0]
    BY <2>1, <2>2
  <2> QED BY <2>3
<1> QED BY <1>1, <1>2

\* As messages go, the order of those that are left is kept.
LEMMA ShrinkWire ==
    ASSUME ConnInv, Shrink, \A d \in Conn : up'[d] \in Seq(Wire(eraOf[d])),
           \A d \in Conn : handler'[d] = Idle => handler[d] = Idle
    PROVE  /\ WireInv'
           /\ \A d \in Conn : \A i \in Inputs(d)' : \E j \in Inputs(d) : up'[d][i] = up[d][j]
<1>1. \A d \in Conn : \A i \in Inputs(d)' : i \in 1 .. Len(up'[d]) /\ i \in Nat
  BY DEF Inputs
<1>2. \A d \in Conn : \A i \in Inputs(d)' : \E j \in Inputs(d) : up'[d][i] = up[d][j]
  BY DEF Shrink
<1>3. \A d \in Conn : \A i, j \in Inputs(d)' : i < j => up'[d][i].n < up'[d][j].n
  <2> SUFFICES ASSUME NEW d \in Conn, NEW i \in Inputs(d)', NEW j \in Inputs(d)', i < j
               PROVE  up'[d][i].n < up'[d][j].n
    OBVIOUS
  <2>1. PICK k \in Nat : \A m \in Inputs(d)' :
              m + k \in Inputs(d) /\ up'[d][m] = up[d][m + k]
    BY DEF Shrink
  <2>2. i + k < j + k
    BY <1>1, <2>1
  <2> QED BY <2>1, <2>2 DEF ConnInv, WireInv
<1>4. \A c, d \in Conn : \A i \in Inputs(c)', j \in Inputs(d)' :
          c # d => up'[c][i].n # up'[d][j].n
  BY <1>2 DEF ConnInv, WireInv
<1>5. \A d \in Conn : \A i \in Inputs(d)' : handler'[d] = Idle => up'[d][i].early
  BY <1>2 DEF ConnInv, WireInv
<1> QED BY <1>2, <1>3, <1>4, <1>5 DEF WireInv

\* Steps of the server that write nothing.
LEMMA ShrinkKeeps ==
    ASSUME ConnInv, Shrink, \A d \in Conn : up'[d] \in Seq(Wire(eraOf[d])),
           \A d \in Conn : handler'[d] = Idle => handler[d] = Idle,
           \A d \in Conn, s \in Session : Controls(d, s)' => Controls(d, s) \/ handler[d] = Idle,
           UNCHANGED <<outbox, typed>>,
           got' \in [Session -> Seq([n : Nat, early : BOOLEAN])],
           \A s \in Session : got'[s] = got[s] \/ got'[s] = <<>>
    PROVE  FreshInv' /\ WireInv' /\ WriteInv' /\ InputInOrder'
<1>1. /\ WireInv'
      /\ \A d \in Conn : \A i \in Inputs(d)' : \E j \in Inputs(d) : up'[d][i] = up[d][j]
  BY ShrinkWire
<1>2. \A s \in Session : \A i \in 1 .. Len(got'[s]) :
          i \in 1 .. Len(got[s]) /\ got'[s] = got[s]
  OBVIOUS
<1>3. FreshInv'
  BY <1>1, <1>2, SMTT(60) DEF ConnInv, FreshInv
<1>4. WriteInv'
  <2> SUFFICES ASSUME NEW c \in Conn, NEW s \in Session,
                      (handler[c] = Idle)' \/ Controls(c, s)',
                      NEW i \in Inputs(c)', NEW k \in 1 .. Len(got'[s])
               PROVE  \/ got'[s][k].n < up'[c][i].n
                      \/ got'[s][k].n > up'[c][i].n /\ up'[c][i].early
    BY DEF WriteInv
  <2>1. handler[c] = Idle \/ Controls(c, s)
    BY DEF Idle
  <2>2. PICK j \in Inputs(c) : up'[c][i] = up[c][j]
    BY <1>1
  <2>3. k \in 1 .. Len(got[s]) /\ got'[s] = got[s]
    BY <1>2
  <2> QED BY <2>1, <2>2, <2>3 DEF ConnInv, WriteInv
<1>5. InputInOrder'
  BY <1>2 DEF ConnInv, InputInOrder
<1> QED BY <1>1, <1>3, <1>4, <1>5

\* A chunk is written to the session that its socket controls: it is newer than what the
\* session was written, or early, and what other sockets may still write to the session
\* is early.
LEMMA WriteKeeps ==
    ASSUME ConnInv, NEW c \in Conn, up[c] # <<>>, Take(c), up[c][1].type = "input",
           NEW s \in Session, Controls(c, s),
           got' = [got EXCEPT ![s] = Append(@, [n |-> up[c][1].n, early |-> up[c][1].early])],
           UNCHANGED <<handler, outbox, typed>>
    PROVE  FreshInv' /\ WireInv' /\ WriteInv' /\ InputInOrder'
<1> DEFINE Entry == [n : Nat, early : BOOLEAN]
           m == up[c][1]
           e == [n |-> m.n, early |-> m.early]
           N == Len(got[s])
<1>1. /\ WireInv'
      /\ \A d \in Conn : \A i \in Inputs(d)' : \E j \in Inputs(d) : up'[d][i] = up[d][j]
  <2>1. Shrink /\ \A d \in Conn : up'[d] \in Seq(Wire(eraOf[d]))
    BY TakeShrinks, TakeKeeps
  <2> QED BY <2>1, ShrinkWire
<1>2. 1 \in Inputs(c) /\ m.n \in Nat /\ m.early \in BOOLEAN
  <2>1. m \in Wire(eraOf[c]) /\ 1 \in 1 .. Len(up[c])
    BY TakeKeeps
  <2> QED BY <2>1, WireType DEF Inputs
<1>3. e \in Entry /\ e.n = m.n /\ e.early = m.early
  BY <1>2
<1>4. got \in [Session -> Seq(Entry)]
  BY DEF ConnInv, WriteInv
<1> HIDE DEF m, e
<1>5. got' = [got EXCEPT ![s] = Append(got[s], e)]
  BY DEF m, e
<1>6. /\ Append(got[s], e) \in Seq(Entry) /\ Len(Append(got[s], e)) = N + 1 /\ N \in Nat
      /\ \A i \in 1 .. N : Append(got[s], e)[i] = got[s][i]
      /\ Append(got[s], e)[N + 1] = e
  BY <1>3, <1>4, AppendProperties
<1>7. /\ got' \in [Session -> Seq(Entry)] /\ got'[s] = Append(got[s], e)
      /\ \A r \in Session \ {s} : got'[r] = got[r]
  BY <1>4, <1>5, <1>6
<1> HIDE DEF N
<1>8. ASSUME NEW r \in Session, NEW k \in 1 .. Len(got'[r])
      PROVE  \/ k \in 1 .. Len(got[r]) /\ got'[r][k] = got[r][k] /\ (r = s => k < N + 1)
             \/ r = s /\ k = N + 1 /\ got'[r][k] = e
  <2>1. CASE r = s
    <3>1. k \in 1 .. N + 1
      BY <1>6, <1>7, <2>1
    <3>2. CASE k \in 1 .. N
      BY <1>6, <1>7, <2>1, <3>2 DEF N
    <3>3. CASE k = N + 1
      BY <1>6, <1>7, <2>1, <3>3
    <3> QED BY <1>6, <3>1, <3>2, <3>3
  <2>2. CASE r # s
    BY <1>7, <2>2
  <2> QED BY <2>1, <2>2
<1>9. FreshInv'
  <2>1. \A k \in 1 .. Len(outbox) : m.n < outbox[k].n
    BY <1>2 DEF ConnInv, FreshInv, m
  <2>2. m.n <= typed
    BY <1>2 DEF ConnInv, FreshInv, m
  <2>3. \A k \in 1 .. Len(outbox) : \A r \in Session : \A i \in 1 .. Len(got'[r]) :
          got'[r][i].n < outbox[k].n
    BY <1>3, <1>8, <2>1 DEF ConnInv, FreshInv
  <2>4. \A r \in Session : \A i \in 1 .. Len(got'[r]) : got'[r][i].n <= typed
    BY <1>3, <1>8, <2>2 DEF ConnInv, FreshInv
  <2>5. \A d \in Conn : \A i \in Inputs(d)' : up'[d][i].n <= typed
    BY <1>1 DEF ConnInv, FreshInv
  <2>6. \A k \in 1 .. Len(outbox) :
          /\ outbox[k].n <= typed
          /\ \A j \in 1 .. k - 1 : outbox[j].n < outbox[k].n
          /\ \A d \in Conn : \A i \in Inputs(d)' : up'[d][i].n < outbox[k].n
    BY <1>1 DEF ConnInv, FreshInv
  <2>7. typed \in Nat
    BY DEF ConnInv, FreshInv
  <2> QED BY <2>3, <2>4, <2>5, <2>6, <2>7 DEF FreshInv
<1>10. ASSUME NEW d \in Conn, NEW r \in Session, handler[d] = Idle \/ Controls(d, r),
              NEW i \in Inputs(d)', NEW k \in 1 .. Len(got'[r])
       PROVE  \/ got'[r][k].n < up'[d][i].n
              \/ got'[r][k].n > up'[d][i].n /\ up'[d][i].early
  <2>1. PICK j \in Inputs(d) : up'[d][i] = up[d][j]
    BY <1>1
  <2>2. CASE k \in 1 .. Len(got[r]) /\ got'[r][k] = got[r][k]
    BY <1>10, <2>1, <2>2 DEF ConnInv, WriteInv
  <2>3. CASE r = s /\ k = N + 1 /\ got'[r][k] = e
    <3>1. CASE d = c
      <4>1. i \in 1 .. Len(up'[c]) /\ up'[c][i].type = "input"
        BY <3>1 DEF Inputs
      <4>2. i >= 1 /\ i \in Nat /\ i + 1 \in 1 .. Len(up[c]) /\ up'[c][i] = up[c][i + 1]
        BY <4>1, TakeKeeps
      <4>3. i + 1 \in Inputs(c) /\ 1 < i + 1
        BY <4>1, <4>2 DEF Inputs
      <4>4. m.n < up[c][i + 1].n
        BY <1>2, <4>3 DEF ConnInv, WireInv, m
      <4> QED BY <1>3, <2>3, <3>1, <4>2, <4>4
    <3>2. CASE d # c
      <4>1. handler[d] = Idle
        BY <1>10, <2>3, <3>2 DEF ConnInv, ServerInv
      <4>2. up[d][j].early /\ up[d][j].n # m.n
        BY <1>2, <3>2, <4>1 DEF ConnInv, WireInv, m
      <4>3. up[d][j].n \in Nat
        BY Numbered
      <4>4. m.n < up[d][j].n \/ m.n > up[d][j].n
        BY <1>2, <4>2, <4>3
      <4> QED BY <1>3, <2>1, <2>3, <4>2, <4>4
    <3> QED BY <3>1, <3>2
  <2> QED BY <1>8, <2>2, <2>3
<1>11. WriteInv'
  <2>1. \A d \in Conn, r \in Session : Controls(d, r)' <=> Controls(d, r)
    BY DEF Controls
  <2>2. got' \in [Session -> Seq([n : Nat, early : BOOLEAN])]
    BY <1>7
  <2> QED BY <1>10, <2>1, <2>2 DEF WriteInv
<1>12. InputInOrder'
  <2> SUFFICES ASSUME NEW r \in Session, NEW i \in 1 .. Len(got'[r]), NEW j \in 1 .. Len(got'[r]),
                      i < j
               PROVE  \/ got'[r][i].n < got'[r][j].n
                      \/ got'[r][i].n > got'[r][j].n /\ got'[r][j].early
    BY DEF InputInOrder
  <2>1. CASE j \in 1 .. Len(got[r]) /\ got'[r][j] = got[r][j] /\ (r = s => j < N + 1)
    <3>1. i \in 1 .. Len(got[r]) /\ got'[r][i] = got[r][i]
      BY <1>6, <1>8, <2>1
    <3> QED BY <2>1, <3>1 DEF ConnInv, InputInOrder
  <2>2. CASE r = s /\ j = N + 1 /\ got'[r][j] = e
    <3>1. i # N + 1
      BY <1>6, <2>2
    <3>2. i \in 1 .. Len(got[s]) /\ got'[r][i] = got[s][i]
      BY <1>8, <2>2, <3>1
    <3>3. \/ got[s][i].n < m.n
          \/ got[s][i].n > m.n /\ m.early
      BY <1>2, <3>2 DEF ConnInv, WriteInv, m
    <3> QED BY <1>3, <2>2, <3>2, <3>3
  <2> QED BY <1>8, <2>1, <2>2
<1> QED BY <1>1, <1>9, <1>11, <1>12

\* The page is ready and in step if nothing that concerns its own socket changes, but
\* that it may be told that its session has ended.
LEMMA OtherKeeps ==
    ASSUME ConnInv,
           UNCHANGED <<link, cur, sessionId, attachMode, seen, fitSize, outbox, pendingResize>>,
           link = "open" =>
              /\ up'[cur] = up[cur] /\ handler'[cur] = handler[cur]
              /\ \/ down'[cur] = down[cur]
                 \/ handler[cur].session # None /\ down'[cur] = Append(down[cur], Exit),
           \A s \in Session : Controls(cur, s) /\ sess'[s] = "running" =>
              sess[s] = "running" /\ size'[s] = size[s]
    PROVE  ReadyInv' /\ SyncInv'
<1> SUFFICES ASSUME link = "open" PROVE ReadyInv' /\ SyncInv'
  BY DEF ReadyInv, SyncInv
<1> SUFFICES ASSUME handler[cur] # None PROVE ReadyInv' /\ SyncInv'
  BY DEF ReadyInv, SyncInv
<1>1. cur \in Conn /\ down[cur] \in Seq(Frame) /\ Len(down[cur]) \in Nat
  BY ConnectionConstants DEF ConnInv, LinkInv, DownInv
<1>2. /\ Len(Append(down[cur], Exit)) = Len(down[cur]) + 1
      /\ \A i \in 1 .. Len(down[cur]) : Append(down[cur], Exit)[i] = down[cur][i]
      /\ Append(down[cur], Exit)[Len(down[cur]) + 1] = Exit
  <2>1. Exit \in Frame
    BY DEF Frame
  <2> QED BY <1>1, <2>1, AppendProperties
<1>3. \A i \in 1 .. Len(down[cur]) : i \in 1 .. Len(down'[cur]) /\ down'[cur][i] = down[cur][i]
  BY <1>1, <1>2
<1>4. \A i \in 1 .. Len(down'[cur]) :
          \/ i \in 1 .. Len(down[cur]) /\ down'[cur][i] = down[cur][i]
          \/ down'[cur][i] = Exit
  BY <1>1, <1>2, SMTT(60)
<1>5. Exit.type = "exit"
  BY DEF Exit
<1>6. ReadyInv'
  BY <1>3 DEF ConnInv, ReadyInv
<1>7. (AttachPending(cur)' <=> AttachPending(cur)) /\ (Controlling(cur)' <=> Controlling(cur))
  BY DEF AttachPending, Controlling
<1>8. AttachPending(cur) => down'[cur] = <<>>
  <2> SUFFICES ASSUME AttachPending(cur) PROVE down'[cur] = <<>>
    OBVIOUS
  <2>1. down[cur] = <<>>
    BY DEF ConnInv, SyncInv
  <2>2. handler[cur] = Idle
    <3>1. 1 \in 1 .. Len(up[cur]) /\ up[cur][1].type = "attach"
      <4>1. up[cur] \in Seq(Wire(eraOf[cur]))
        BY <1>1 DEF ConnInv, EraInv
      <4> QED BY <4>1 DEF AttachPending
    <3> QED BY <1>1, <3>1 DEF ConnInv, ServerInv
  <2> QED BY <2>1, <2>2, IdleIsHandler
<1>9. ASSUME Controlling(cur)
      PROVE  /\ attachMode' = "control" /\ seen'.mode = "control"
             /\ \A i \in 1 .. Len(down'[cur]) :
                   /\ down'[cur][i].type # "error"
                   /\ down'[cur][i].type = "ready" => ~down'[cur][i].readOnly
             /\ SizeUnderway(up[cur])' \/ SizeGiven(cur)'
  <2>1. /\ attachMode = "control" /\ seen.mode = "control"
        /\ \A i \in 1 .. Len(down[cur]) :
              /\ down[cur][i].type # "error"
              /\ down[cur][i].type = "ready" => ~down[cur][i].readOnly
        /\ SizeUnderway(up[cur]) \/ SizeGiven(cur)
    BY <1>9 DEF ConnInv, SyncInv
  <2>2. CASE SizeUnderway(up[cur])
    <3>1. SizeUnderway(up[cur])'
      BY <2>2 DEF SizeUnderway, Normalize
    <3> QED BY <1>4, <1>5, <2>1, <3>1
  <2>3. CASE SizeGiven(cur)
    <3>1. ~AttachPending(cur)
      <4>1. up[cur] \in Seq(Wire(eraOf[cur]))
        BY <1>1 DEF ConnInv, EraInv
      <4>2. up[cur] # <<>> => 1 \in 1 .. Len(up[cur])
        BY <4>1
      <4> QED BY <2>3, <4>2 DEF SizeGiven, AttachPending
    <3>2. handler[cur].session # None /\ ~handler[cur].readOnly
      BY <1>9, <3>1 DEF Controlling
    <3>3. handler[cur].session \in Session /\ Controls(cur, handler[cur].session)
      BY <1>1, <3>2, Controller DEF ConnInv
    <3>4. SizeGiven(cur)'
      BY <2>3, <3>3 DEF SizeGiven, Normalize
    <3> QED BY <1>4, <1>5, <2>1, <3>4
  <2> QED BY <2>1, <2>2, <2>3
<1>10. SyncInv'
  <2>1. AttachPending(cur) => up[cur][1].session = sessionId
    BY DEF ConnInv, SyncInv
  <2> QED BY <1>7, <1>8, <1>9, <2>1 DEF SyncInv
<1> QED BY <1>6, <1>10

\* A controller's handler, in any state.
LEMMA ControllerIsHandler ==
    \A s \in Session : /\ [session |-> s, readOnly |-> FALSE] \in Handler
                       /\ [session |-> s, readOnly |-> FALSE] # None
                       /\ [session |-> s, readOnly |-> FALSE] # Idle
<1>1. \A s \in Session : [session |-> s, readOnly |-> FALSE] \in Handler
  BY DEF Handler
<1>2. None \notin Handler
  BY NoneIsNothing
<1> QED BY <1>1, <1>2, IdleIsHandler

\* The handler of a socket ends: what was on its way is lost.
LEMMA HandlerEndsStep == ASSUME ConnInv, NEW c \in Conn, HandlerEnds(c) PROVE ConnInv'
<1>1. /\ handler' = [handler EXCEPT ![c] = None] /\ up' = [up EXCEPT ![c] = <<>>]
      /\ UNCHANGED <<transportVars, down, sess, size, got, clientVars, viewVars>>
  BY DEF HandlerEnds
<1>2. /\ UNCHANGED <<link, status, page, cur, sessionId, attachMode, outbox, pendingResize>>
      /\ UNCHANGED <<typed, fitSize, dims, fitDue, era, eraOf, runtime, screen>>
      /\ UNCHANGED <<seen, shown, verdict>>
      /\ LinkInv' /\ ChoiceInv' /\ VerdictInv' /\ FitInv'
  BY <1>1, PageSame
<1>3. /\ handler \in [Conn -> Handler \cup {None}] /\ DOMAIN up = Conn
      /\ \A d \in Conn : up[d] \in Seq(Wire(eraOf[d]))
  BY DEF ConnInv, ServerInv, EraInv
<1>4. /\ handler' \in [Conn -> Handler \cup {None}] /\ handler'[c] = None
      /\ DOMAIN up' = Conn /\ up'[c] = <<>>
      /\ \A d \in Conn \ {c} : up'[d] = up[d] /\ handler'[d] = handler[d]
  BY <1>1, <1>3
<1>5. \A d \in Conn : up'[d] \in Seq(Wire(eraOf[d]))
  BY <1>3, <1>4, EmptySeq
<1>6. EraInv'
  BY <1>2, <1>4, <1>5 DEF ConnInv, EraInv
<1>7. DownInv'
  BY <1>1, <1>2 DEF ConnInv, DownInv, Announced
<1>8. \A d \in Conn, s \in Session : Controls(d, s)' => Controls(d, s)
  BY <1>4, ControllerIsHandler DEF Controls
<1>9. ServerInv'
  <2>1. \A d \in Conn : \A i \in 1 .. Len(up'[d]) : d # c
    BY <1>4
  <2> QED BY <1>1, <1>4, <1>8, <2>1 DEF ConnInv, ServerInv
<1>10. Shrink
  <2> SUFFICES ASSUME NEW d \in Conn
               PROVE  \A i \in Inputs(d)' : i + 0 \in Inputs(d) /\ up'[d][i] = up[d][i + 0]
    BY DEF Shrink
  <2>1. \A i \in Inputs(d)' : i \in Inputs(d) /\ up'[d][i] = up[d][i]
    BY <1>4 DEF Inputs
  <2>2. \A i \in Inputs(d) : i + 0 = i
    BY Numbered
  <2> QED BY <2>1, <2>2
<1>11. FreshInv' /\ WireInv' /\ WriteInv' /\ InputInOrder'
  <2>1. \A d \in Conn : handler'[d] = Idle => handler[d] = Idle
    BY <1>4, IdleIsHandler
  <2>2. got' \in [Session -> Seq([n : Nat, early : BOOLEAN])] /\ got' = got
    BY <1>1 DEF ConnInv, WriteInv
  <2> QED BY <1>2, <1>5, <1>8, <1>10, <2>1, <2>2, ShrinkKeeps
<1>12. ReadyInv' /\ SyncInv'
  <2>1. CASE c = cur
    BY <1>2, <1>4, <2>1 DEF ReadyInv, SyncInv
  <2>2. CASE c # cur
    <3>1. link = "open" => /\ up'[cur] = up[cur] /\ handler'[cur] = handler[cur]
                           /\ down'[cur] = down[cur]
      BY <1>1, <1>4, <2>2, ConnectionConstants DEF ConnInv, LinkInv
    <3> QED BY <1>1, <1>2, <3>1, OtherKeeps
  <2> QED BY <2>1, <2>2
<1> QED BY <1>2, <1>6, <1>7, <1>9, <1>11, <1>12 DEF ConnInv

\* Nothing is on its way that was not.
LEMMA SameShrinks == ASSUME ConnInv, UNCHANGED up PROVE Shrink
<1> SUFFICES ASSUME NEW d \in Conn
             PROVE  \A i \in Inputs(d)' : i + 0 \in Inputs(d) /\ up'[d][i] = up[d][i + 0]
  BY DEF Shrink
<1>1. \A i \in Inputs(d)' : i \in Inputs(d) /\ up'[d][i] = up[d][i]
  BY DEF Inputs
<1>2. \A i \in Inputs(d) : i + 0 = i
  BY Numbered
<1> QED BY <1>1, <1>2

\* A session is removed, with its process.
LEMMA SessionGoesStep == ASSUME ConnInv, NEW s \in Session, SessionGoes(s) PROVE ConnInv'
<1>1. /\ sess' = [sess EXCEPT ![s] = "gone"] /\ size' = [size EXCEPT ![s] = 0]
      /\ got' = [got EXCEPT ![s] = <<>>]
      /\ UNCHANGED <<transportVars, handler, up, down, clientVars, viewVars>>
  BY DEF SessionGoes
<1>2. /\ UNCHANGED <<link, status, page, cur, sessionId, attachMode, outbox, pendingResize>>
      /\ UNCHANGED <<typed, fitSize, dims, fitDue, era, eraOf, runtime, screen>>
      /\ UNCHANGED <<seen, shown, verdict>>
      /\ LinkInv' /\ ChoiceInv' /\ VerdictInv' /\ FitInv'
  BY <1>1, PageSame
<1>3. /\ DOMAIN sess = Session /\ DOMAIN size = Session
      /\ got \in [Session -> Seq([n : Nat, early : BOOLEAN])]
      /\ \A d \in Conn : up[d] \in Seq(Wire(eraOf[d]))
  BY DEF ConnInv, ServerInv, WriteInv, EraInv
<1>4. /\ DOMAIN sess' = Session /\ DOMAIN size' = Session /\ sess'[s] = "gone"
      /\ \A r \in Session \ {s} : sess'[r] = sess[r] /\ size'[r] = size[r]
  BY <1>1, <1>3
<1>5. /\ got' \in [Session -> Seq([n : Nat, early : BOOLEAN])]
      /\ \A r \in Session : got'[r] = got[r] \/ got'[r] = <<>>
  BY <1>1, <1>3, EmptySeq
<1>6. EraInv'
  BY <1>1, <1>2 DEF ConnInv, EraInv
<1>7. DownInv'
  BY <1>1, <1>2 DEF ConnInv, DownInv, Announced
<1>8. \A d \in Conn, r \in Session : Controls(d, r)' <=> Controls(d, r)
  BY <1>1 DEF Controls
<1>9. ServerInv'
  <2>1. \A d \in Conn : handler'[d] # None /\ handler'[d].session # None =>
          sess'[handler'[d].session] # "unused"
    <3> SUFFICES ASSUME NEW d \in Conn, handler[d] # None, handler[d].session # None
                 PROVE  sess'[handler[d].session] # "unused"
      BY <1>1
    <3>1. handler[d].session \in Session /\ sess[handler[d].session] # "unused"
      BY DEF ConnInv, ServerInv, Handler
    <3> QED BY <1>4, <3>1
  <2> QED BY <1>1, <1>4, <1>8, <2>1 DEF ConnInv, ServerInv
<1>10. FreshInv' /\ WireInv' /\ WriteInv' /\ InputInOrder'
  BY <1>1, <1>2, <1>3, <1>5, <1>8, SameShrinks, ShrinkKeeps
<1>11. ReadyInv' /\ SyncInv'
  <2>1. \A r \in Session : sess'[r] = "running" => sess[r] = "running" /\ size'[r] = size[r]
    BY <1>4
  <2> QED BY <1>1, <1>2, <2>1, OtherKeeps
<1> QED BY <1>2, <1>6, <1>7, <1>9, <1>10, <1>11 DEF ConnInv

\* The process of a session ends, and the page is told if it is attached.
LEMMA SessionEndsStep == ASSUME ConnInv, NEW s \in Session, SessionEnds(s) PROVE ConnInv'
<1>1. /\ sess' = [sess EXCEPT ![s] = "ended"]
      /\ down' = [c \in Conn |-> IF c \in Attached(s) /\ c = cur /\ link = "open"
                                 THEN Append(down[c], Exit) ELSE down[c]]
      /\ UNCHANGED <<transportVars, handler, up, size, got, clientVars, viewVars>>
  BY DEF SessionEnds
<1>2. /\ UNCHANGED <<link, status, page, cur, sessionId, attachMode, outbox, pendingResize>>
      /\ UNCHANGED <<typed, fitSize, dims, fitDue, era, eraOf, runtime, screen>>
      /\ UNCHANGED <<seen, shown, verdict>>
      /\ LinkInv' /\ ChoiceInv' /\ VerdictInv' /\ FitInv'
  BY <1>1, PageSame
<1>3. /\ DOMAIN sess = Session /\ DOMAIN size = Session /\ down \in [Conn -> Seq(Frame)]
      /\ got \in [Session -> Seq([n : Nat, early : BOOLEAN])]
      /\ \A d \in Conn : up[d] \in Seq(Wire(eraOf[d]))
  BY DEF ConnInv, ServerInv, WriteInv, EraInv, DownInv
<1>4. /\ DOMAIN sess' = Session /\ sess'[s] = "ended"
      /\ \A r \in Session \ {s} : sess'[r] = sess[r]
  BY <1>1, <1>3
<1>5. EraInv'
  BY <1>1, <1>2 DEF ConnInv, EraInv
<1>6. \A c \in Conn :
        /\ \/ down'[c] = down[c]
           \/ /\ c = cur /\ link = "open" /\ handler[c] # None /\ handler[c].session = s
              /\ down'[c] = Append(down[c], Exit)
        /\ down'[c] \in Seq(Frame)
  <2> SUFFICES ASSUME NEW c \in Conn
               PROVE  /\ \/ down'[c] = down[c]
                         \/ /\ c = cur /\ link = "open" /\ handler[c] # None
                            /\ handler[c].session = s /\ down'[c] = Append(down[c], Exit)
                      /\ down'[c] \in Seq(Frame)
    OBVIOUS
  <2>1. Append(down[c], Exit) \in Seq(Frame)
    <3>1. Exit \in Frame
      BY DEF Frame
    <3> QED BY <1>3, <3>1, AppendProperties
  <2>2. CASE c \in Attached(s) /\ c = cur /\ link = "open"
    <3>1. down'[c] = Append(down[c], Exit)
      BY <1>1, <2>2
    <3> QED BY <2>1, <2>2, <3>1 DEF Attached
  <2>3. CASE ~(c \in Attached(s) /\ c = cur /\ link = "open")
    <3>1. down'[c] = down[c]
      BY <1>1, <2>3
    <3> QED BY <1>3, <3>1
  <2> QED BY <2>2, <2>3
<1>7. DownInv'
  <2>1. down' \in [Conn -> Seq(Frame)]
    BY <1>1, <1>6
  <2>2. \A c \in Conn : c # cur' \/ link' # "open" => down'[c] = <<>>
    BY <1>2, <1>6 DEF ConnInv, DownInv
  <2> SUFFICES ASSUME link = "open"
               PROVE  /\ Announced(down[cur], sessionId)'
                      /\ \A i \in 1 .. Len(down'[cur]) :
                            /\ down'[cur][i].type = "error"
                            /\ down'[cur][i].code = "attach_forbidden"
                            => i = 1 /\ sessionId # None
    BY <1>2, <2>1, <2>2 DEF ConnInv, DownInv
  <2>3. /\ Announced(down[cur], sessionId)
        /\ \A i \in 1 .. Len(down[cur]) :
              down[cur][i].type = "error" /\ down[cur][i].code = "attach_forbidden"
              => i = 1 /\ sessionId # None
    BY DEF ConnInv, DownInv
  <2>4. CASE down'[cur] = down[cur]
    BY <1>2, <2>3, <2>4 DEF Announced
  <2>5. CASE down'[cur] = Append(down[cur], Exit)
    <3> DEFINE q == down[cur]
               N == Len(q)
    <3>1. q \in Seq(Frame) /\ N \in Nat /\ Exit \in Frame
      BY <1>3, ConnectionConstants DEF ConnInv, LinkInv, Frame
    <3>2. /\ Len(down'[cur]) = N + 1
          /\ \A i \in 1 .. N : down'[cur][i] = q[i]
          /\ down'[cur][N + 1] = Exit
      BY <2>5, <3>1, AppendProperties
    <3>3. Exit.type = "exit"
      BY DEF Exit
    <3>4. \A i \in 1 .. Len(down'[cur]) : down'[cur][i].type # "exit" =>
            /\ i \in 1 .. N /\ down'[cur][i] = q[i]
            /\ i > 1 => i - 1 \in 1 .. N /\ down'[cur][i - 1] = q[i - 1]
      BY <3>1, <3>2, <3>3
    <3>5. Announced(down[cur], sessionId)'
      <4> SUFFICES ASSUME NEW i \in 1 .. Len(down'[cur]), down'[cur][i].type = "output"
                   PROVE  \/ i = 1 /\ down'[cur][i].data = sessionId
                          \/ /\ i > 1 /\ down'[cur][i - 1].type = "ready"
                             /\ down'[cur][i - 1].session = down'[cur][i].data
        BY <1>2 DEF Announced
      <4>1. /\ i \in 1 .. N /\ down'[cur][i] = q[i]
            /\ i > 1 => i - 1 \in 1 .. N /\ down'[cur][i - 1] = q[i - 1]
        BY <3>4
      <4> QED BY <2>3, <4>1 DEF Announced
    <3>6. \A i \in 1 .. Len(down'[cur]) :
            down'[cur][i].type = "error" /\ down'[cur][i].code = "attach_forbidden"
            => i = 1 /\ sessionId # None
      BY <2>3, <3>4
    <3> QED BY <3>5, <3>6
  <2> QED BY <1>6, <2>4, <2>5, ConnectionConstants DEF ConnInv, LinkInv
<1>8. \A d \in Conn, r \in Session : Controls(d, r)' <=> Controls(d, r)
  BY <1>1 DEF Controls
<1>9. ServerInv'
  <2>1. \A d \in Conn : handler'[d] # None /\ handler'[d].session # None =>
          sess'[handler'[d].session] # "unused"
    <3> SUFFICES ASSUME NEW d \in Conn, handler[d] # None, handler[d].session # None
                 PROVE  sess'[handler[d].session] # "unused"
      BY <1>1
    <3>1. handler[d].session \in Session /\ sess[handler[d].session] # "unused"
      BY DEF ConnInv, ServerInv, Handler
    <3> QED BY <1>4, <3>1
  <2> QED BY <1>1, <1>4, <1>8, <2>1 DEF ConnInv, ServerInv
<1>10. FreshInv' /\ WireInv' /\ WriteInv' /\ InputInOrder'
  BY <1>1, <1>2, <1>3, <1>8, SameShrinks, ShrinkKeeps
<1>11. ReadyInv' /\ SyncInv'
  <2>1. \A r \in Session : sess'[r] = "running" => sess[r] = "running" /\ size'[r] = size[r]
    BY <1>1, <1>4
  <2>2. link = "open" => \/ down'[cur] = down[cur]
                         \/ handler[cur].session # None /\ down'[cur] = Append(down[cur], Exit)
    BY <1>6, ConnectionConstants DEF ConnInv, LinkInv
  <2> QED BY <1>1, <1>2, <2>1, <2>2, OtherKeeps
<1> QED BY <1>2, <1>5, <1>7, <1>9, <1>10, <1>11 DEF ConnInv

\* The server takes a message of a page that asks for control or has it: a size becomes
\* that of the session, and another one that is on its way is so still.
LEMMA TakeSync ==
    ASSUME ConnInv, link = "open", handler[cur] # None, up[cur] # <<>>, Take(cur),
           UNCHANGED <<cur, fitSize>>, Controlling(cur), handler'[cur].session # None,
           up[cur][1].type \in {"attach", "resize"} =>
              (sess'[handler'[cur].session] = "running" =>
                  size'[handler'[cur].session] = up[cur][1].size),
           up[cur][1].type = "input" =>
              /\ handler'[cur] = handler[cur]
              /\ sess'[handler[cur].session] = "running" =>
                    /\ sess[handler[cur].session] = "running"
                    /\ size'[handler[cur].session] = size[handler[cur].session]
    PROVE  SizeUnderway(up[cur])' \/ SizeGiven(cur)'
<1> DEFINE N == Len(up[cur])
<1>1. cur \in Conn
  BY ConnectionConstants DEF ConnInv, LinkInv
<1>2. /\ up[cur][1] \in Wire(eraOf[cur]) /\ 1 \in 1 .. N /\ N \in Nat /\ Len(up'[cur]) = N - 1
      /\ \A i \in 1 .. Len(up'[cur]) :
            i \in Nat /\ i >= 1 /\ i + 1 \in 1 .. N /\ up'[cur][i] = up[cur][i + 1]
  BY <1>1, TakeKeeps
<1>3. Normalize(fitSize)' = Normalize(fitSize)
  BY DEF Normalize
<1>4. SizeUnderway(up[cur]) \/ SizeGiven(cur)
  BY DEF ConnInv, SyncInv
<1>5. CASE SizeUnderway(up[cur])
  <2>1. PICK k \in 1 .. N :
          /\ up[cur][k].type \in {"attach", "resize"} /\ up[cur][k].size = Normalize(fitSize)
          /\ \A j \in k + 1 .. N : up[cur][j].type = "input"
    BY <1>5 DEF SizeUnderway
  <2> HIDE DEF N
  <2>2. CASE k = 1
    <3>1. \A j \in 1 .. Len(up'[cur]) : up'[cur][j].type = "input"
      <4> SUFFICES ASSUME NEW j \in 1 .. Len(up'[cur]) PROVE up'[cur][j].type = "input"
        OBVIOUS
      <4>1. j + 1 \in k + 1 .. N /\ up'[cur][j] = up[cur][j + 1]
        BY <1>2, <2>2
      <4> QED BY <2>1, <4>1
    <3> QED BY <1>3, <2>1, <2>2, <3>1 DEF SizeGiven
  <2>3. CASE k > 1
    <3>1. k - 1 \in 1 .. Len(up'[cur]) /\ (k - 1) + 1 = k
      BY <1>2, <2>1, <2>3
    <3>2. up'[cur][k - 1] = up[cur][k]
      BY <1>2, <3>1
    <3>3. \A j \in (k - 1) + 1 .. Len(up'[cur]) : up'[cur][j].type = "input"
      <4> SUFFICES ASSUME NEW j \in (k - 1) + 1 .. Len(up'[cur]) PROVE up'[cur][j].type = "input"
        OBVIOUS
      <4>1. j \in 1 .. Len(up'[cur]) /\ j + 1 \in k + 1 .. N
        BY <1>2, <2>1, <2>3
      <4>2. up'[cur][j] = up[cur][j + 1]
        BY <1>2, <4>1
      <4> QED BY <2>1, <4>1, <4>2
    <3>4. up'[cur][k - 1].type \in {"attach", "resize"}
          /\ up'[cur][k - 1].size = Normalize(fitSize)'
      BY <1>3, <2>1, <3>2
    <3> QED BY <3>1, <3>3, <3>4 DEF SizeUnderway
  <2> QED BY <1>2, <2>1, <2>2, <2>3
<1>6. CASE SizeGiven(cur)
  <2>1. up[cur][1].type = "input"
    BY <1>2, <1>6 DEF SizeGiven
  <2>2. \A j \in 1 .. Len(up'[cur]) : up'[cur][j].type = "input"
    BY <1>2, <1>6 DEF SizeGiven
  <2> QED BY <1>3, <1>6, <2>1, <2>2 DEF SizeGiven
<1> QED BY <1>4, <1>5, <1>6

\* What a reply to an attach leaves on its way to the page.
LEMMA ReplyKeeps ==
    ASSUME ConnInv, NEW c \in Conn, handler[c] # None, AttachPending(c),
           NEW frames \in Seq(Frame), Reply(c, frames),
           \A i \in 1 .. Len(frames) : frames[i].type = "output" =>
              i > 1 /\ frames[i - 1].type = "ready" /\ frames[i - 1].session = frames[i].data,
           \A i \in 1 .. Len(frames) :
              frames[i].type = "error" /\ frames[i].code = "attach_forbidden" =>
                 i = 1 /\ up[c][1].session # None,
           UNCHANGED <<link, cur, sessionId, screen>>
    PROVE  /\ DownInv'
           /\ link = "open" => down'[cur] = IF c = cur THEN frames ELSE down[cur]
<1>1. down \in [Conn -> Seq(Frame)]
  BY DEF ConnInv, DownInv
<1>2. CASE c = cur /\ link = "open"
  <2>1. down[cur] = <<>> /\ up[cur][1].session = sessionId
    BY <1>2 DEF ConnInv, SyncInv
  <2>2. down' = [down EXCEPT ![c] = down[c] \o frames]
    BY <1>2 DEF Reply
  <2>3. down[c] \o frames = frames
    BY <1>2, <2>1, ConcatEmptySeq
  <2>4. /\ down' \in [Conn -> Seq(Frame)] /\ down'[cur] = frames
        /\ \A d \in Conn : d # cur => down'[d] = <<>>
    BY <1>1, <1>2, <2>2, <2>3 DEF ConnInv, DownInv
  <2>5. Announced(down[cur], sessionId)'
    BY <2>4 DEF Announced
  <2> QED BY <1>2, <2>1, <2>4, <2>5 DEF ConnInv, DownInv
<1>3. CASE ~(c = cur /\ link = "open")
  <2>1. down' = down
    BY <1>3 DEF Reply
  <2> QED BY <1>3, <2>1 DEF ConnInv, DownInv, Announced
<1> QED BY <1>2, <1>3

\* Short sequences put together.
LEMMA Join ==
    ASSUME NEW S, NEW a \in S, NEW b \in S, NEW c \in S
    PROVE  <<a>> \o <<b>> = <<a, b>> /\ <<a>> \o <<b, c>> = <<a, b, c>>
<1>1. /\ <<a>> \in Seq(S) /\ <<b>> \in Seq(S) /\ <<b, c>> \in Seq(S)
      /\ <<a, b>> \in Seq(S) /\ <<a, b, c>> \in Seq(S)
  OBVIOUS
<1>2. <<a>> \o <<b>> = <<a, b>>
  <2> DEFINE q == <<a>> \o <<b>>
             t == <<a, b>>
  <2>1. q \in Seq(S) /\ Len(q) = 2 /\ q[1] = a /\ q[2] = b
    BY <1>1, ConcatProperties
  <2>2. t \in Seq(S) /\ Len(t) = 2 /\ t[1] = a /\ t[2] = b
    BY <1>1
  <2> HIDE DEF q, t
  <2>3. \A i \in 1 .. Len(q) : q[i] = t[i]
    BY <2>1, <2>2
  <2>4. q = t
    BY <2>1, <2>2, <2>3, SeqEqual
  <2> QED BY <2>4 DEF q, t
<1>3. <<a>> \o <<b, c>> = <<a, b, c>>
  <2> DEFINE q == <<a>> \o <<b, c>>
             t == <<a, b, c>>
  <2>1. q \in Seq(S) /\ Len(q) = 3 /\ q[1] = a /\ q[2] = b /\ q[3] = c
    BY <1>1, ConcatProperties
  <2>2. t \in Seq(S) /\ Len(t) = 3 /\ t[1] = a /\ t[2] = b /\ t[3] = c
    BY <1>1
  <2> HIDE DEF q, t
  <2>3. \A i \in 1 .. Len(q) : q[i] = t[i]
    BY <2>1, <2>2
  <2>4. q = t
    BY <2>1, <2>2, <2>3, SeqEqual
  <2> QED BY <2>4 DEF q, t
<1> QED BY <1>2, <1>3

\* The frames of an attached page.
LEMMA ReadyFrames ==
    ASSUME NEW s \in Session, NEW readOnly \in BOOLEAN,
           NEW frames,
           \/ frames = <<Ready(s, readOnly)>>
           \/ frames = <<Ready(s, readOnly)>> \o Replay(s)
    PROVE  /\ frames \in Seq(Frame) /\ Len(frames) \in 1 .. 3
           /\ frames[1] = Ready(s, readOnly)
           /\ frames[1].type = "ready" /\ frames[1].session = s
           /\ frames[1].readOnly = readOnly
           /\ \A i \in 2 .. Len(frames) : frames[i].type \in {"output", "exit"}
           /\ \A i \in 2 .. Len(frames) : frames[i].type = "output" => i = 2 /\ frames[i].data = s
<1>1. Ready(s, readOnly) \in Frame /\ Output(s) \in Frame /\ Exit \in Frame
  BY DEF Frame, Ready, Output
<1>2. /\ Ready(s, readOnly).type = "ready" /\ Ready(s, readOnly).session = s
      /\ Ready(s, readOnly).readOnly = readOnly
      /\ Output(s).type = "output" /\ Output(s).data = s /\ Exit.type = "exit"
  BY DEF Ready, Output, Exit
<1>3. \/ frames = <<Ready(s, readOnly)>>
      \/ frames = <<Ready(s, readOnly), Output(s)>>
      \/ frames = <<Ready(s, readOnly), Output(s), Exit>>
  <2>1. Replay(s) \in {<<Output(s)>>, <<Output(s), Exit>>}
    BY DEF Replay
  <2>2. <<Ready(s, readOnly)>> \o <<Output(s)>> = <<Ready(s, readOnly), Output(s)>>
    BY <1>1, Join
  <2>3. <<Ready(s, readOnly)>> \o <<Output(s), Exit>> = <<Ready(s, readOnly), Output(s), Exit>>
    BY <1>1, Join
  <2> QED BY <2>1, <2>2, <2>3
<1>4. CASE frames = <<Ready(s, readOnly)>>
  BY <1>1, <1>2, <1>4
<1>5. CASE frames = <<Ready(s, readOnly), Output(s)>>
  BY <1>1, <1>2, <1>5
<1>6. CASE frames = <<Ready(s, readOnly), Output(s), Exit>>
  BY <1>1, <1>2, <1>6
<1> QED BY <1>3, <1>4, <1>5, <1>6

\* An attach is answered: the handler of its socket becomes h.
LEMMA AttachKeeps ==
    ASSUME ConnInv, NEW c \in Conn, handler[c] # None, up[c] # <<>>, up[c][1].type = "attach",
           Take(c), UNCHANGED <<transportVars, clientVars, viewVars, got>>,
           NEW h \in Handler, handler' = [handler EXCEPT ![c] = h],
           NEW frames \in Seq(Frame), Reply(c, frames),
           \A i \in 1 .. Len(frames) : frames[i].type = "output" =>
              i > 1 /\ frames[i - 1].type = "ready" /\ frames[i - 1].session = frames[i].data,
           \A i \in 1 .. Len(frames) :
              frames[i].type = "error" /\ frames[i].code = "attach_forbidden" =>
                 i = 1 /\ up[c][1].session # None,
           h.session # None => /\ sess'[h.session] # "unused"
                               /\ 1 \in 1 .. Len(frames) /\ frames[1].type = "ready",
           h.session # None /\ ~h.readOnly =>
              /\ \A d \in Conn : ~Controls(d, h.session)
              /\ ~up[c][1].watch /\ size'[h.session] = up[c][1].size
              /\ \A i \in 1 .. Len(frames) :
                    /\ frames[i].type # "error"
                    /\ frames[i].type = "ready" => ~frames[i].readOnly,
           DOMAIN sess' = Session, DOMAIN size' = Session,
           \A r \in Session : sess[r] # "unused" => sess'[r] # "unused",
           \A r \in Session : (\E d \in Conn : Controls(d, r)) =>
              sess'[r] = sess[r] /\ size'[r] = size[r]
    PROVE  ConnInv'
<1>1. /\ UNCHANGED <<link, status, page, cur, sessionId, attachMode, outbox, pendingResize>>
      /\ UNCHANGED <<typed, fitSize, dims, fitDue, era, eraOf, runtime, screen>>
      /\ UNCHANGED <<seen, shown, verdict>>
      /\ LinkInv' /\ ChoiceInv' /\ VerdictInv' /\ FitInv'
  BY PageSame
<1>2. /\ 1 \in 1 .. Len(up[c]) /\ DOMAIN up' = Conn
      /\ \A d \in Conn : up'[d] \in Seq(Wire(eraOf[d]))
      /\ \A d \in Conn \ {c} : up'[d] = up[d]
      /\ \A i \in 1 .. Len(up'[c]) : up'[c][i].type # "attach"
  BY TakeKeeps
<1>3. handler[c] = Idle /\ AttachPending(c)
  BY <1>2 DEF ConnInv, ServerInv, AttachPending
<1>4. /\ handler' \in [Conn -> Handler \cup {None}] /\ handler'[c] = h
      /\ \A d \in Conn \ {c} : handler'[d] = handler[d]
  BY DEF ConnInv, ServerInv
<1>5. h \in [session : Session \cup {None}, readOnly : BOOLEAN]
  BY DEF Handler
<1>6. EraInv'
  BY <1>1, <1>2 DEF ConnInv, EraInv
<1>7. /\ DownInv'
      /\ link = "open" => down'[cur] = IF c = cur THEN frames ELSE down[cur]
  BY <1>1, <1>3, ReplyKeeps
<1>8. \A d \in Conn, s \in Session : Controls(d, s)' <=>
          IF d = c THEN h = [session |-> s, readOnly |-> FALSE] ELSE Controls(d, s)
  BY <1>4 DEF Controls
<1>9. \A s \in Session : h = [session |-> s, readOnly |-> FALSE] =>
          \A d \in Conn : ~Controls(d, s)
  <2> SUFFICES ASSUME NEW s \in Session, h = [session |-> s, readOnly |-> FALSE]
               PROVE  \A d \in Conn : ~Controls(d, s)
    OBVIOUS
  <2>1. h.session = s /\ h.readOnly = FALSE /\ s # None
    BY ConnectionConstants
  <2> QED BY <2>1
<1>10. ServerInv'
  <2>1. \A d, e \in Conn : \A s \in Session : Controls(d, s)' /\ Controls(e, s)' => d = e
    BY <1>8, <1>9 DEF ConnInv, ServerInv
  <2>2. \A d \in Conn : handler'[d] # None /\ handler'[d].session # None =>
          sess'[handler'[d].session] # "unused"
    <3> SUFFICES ASSUME NEW d \in Conn, handler'[d] # None, handler'[d].session # None
                 PROVE  sess'[handler'[d].session] # "unused"
      OBVIOUS
    <3>1. CASE d = c
      BY <1>4, <3>1
    <3>2. CASE d # c
      <4>1. handler'[d] = handler[d]
        BY <1>4, <3>2
      <4>2. handler[d].session \in Session /\ sess[handler[d].session] # "unused"
        BY <4>1 DEF ConnInv, ServerInv, Handler
      <4> QED BY <4>1, <4>2
    <3> QED BY <3>1, <3>2
  <2>3. \A d \in Conn : \A i \in 1 .. Len(up'[d]) : up'[d][i].type = "attach" =>
          i = 1 /\ handler'[d] = Idle /\ (up'[d][i].session = None => ~up'[d][i].watch)
    BY <1>2, <1>4 DEF ConnInv, ServerInv
  <2> QED BY <1>4, <2>1, <2>2, <2>3 DEF ServerInv
<1>11. FreshInv' /\ WireInv' /\ WriteInv' /\ InputInOrder'
  <2>1. \A d \in Conn : handler'[d] = Idle => handler[d] = Idle
    BY <1>3, <1>4
  <2>2. \A d \in Conn, s \in Session : Controls(d, s)' => Controls(d, s) \/ handler[d] = Idle
    BY <1>3, <1>8
  <2>3. got' \in [Session -> Seq([n : Nat, early : BOOLEAN])] /\ got' = got
    BY DEF ConnInv, WriteInv
  <2> QED BY <1>1, <1>2, <2>1, <2>2, <2>3, TakeShrinks, ShrinkKeeps
<1>12. ReadyInv' /\ SyncInv'
  <2>1. CASE link # "open"
    BY <1>1, <2>1 DEF ReadyInv, SyncInv
  <2>2. CASE link = "open" /\ c # cur
    <3>1. cur \in Conn
      BY <2>2, ConnectionConstants DEF ConnInv, LinkInv
    <3>2. up'[cur] = up[cur] /\ handler'[cur] = handler[cur] /\ down'[cur] = down[cur]
      BY <1>2, <1>4, <1>7, <2>2, <3>1
    <3>3. \A r \in Session : Controls(cur, r) => sess'[r] = sess[r] /\ size'[r] = size[r]
      BY <3>1
    <3> QED BY <1>1, <3>2, <3>3, OtherKeeps
  <2>3. CASE link = "open" /\ c = cur
    <3>1. down'[cur] = frames /\ handler'[cur] = h
      BY <1>4, <1>7, <2>3
    <3>2. ReadyInv'
      BY <1>1, <3>1 DEF ReadyInv
    <3>3. ~AttachPending(cur)'
      <4>1. up'[cur] # <<>> => 1 \in 1 .. Len(up'[cur])
        BY <1>2, <2>3
      <4> QED BY <1>1, <1>2, <2>3, <4>1 DEF AttachPending
    <3>4. ASSUME h.session # None, ~h.readOnly
          PROVE  /\ attachMode' = "control" /\ seen'.mode = "control"
                 /\ \A i \in 1 .. Len(down'[cur]) :
                       /\ down'[cur][i].type # "error"
                       /\ down'[cur][i].type = "ready" => ~down'[cur][i].readOnly
                 /\ SizeUnderway(up[cur])' \/ SizeGiven(cur)'
      <4>1. Controlling(cur)
        BY <1>3, <2>3, <3>4 DEF Controlling
      <4>2. attachMode = "control" /\ seen.mode = "control"
        BY <2>3, <4>1 DEF ConnInv, SyncInv
      <4>3. SizeUnderway(up[cur])' \/ SizeGiven(cur)'
        BY <1>1, <2>3, <3>1, <3>4, <4>1, TakeSync
      <4> QED BY <1>1, <3>1, <3>4, <4>2, <4>3
    <3>5. Controlling(cur)' => h.session # None /\ ~h.readOnly
      BY <1>1, <3>1, <3>3 DEF Controlling
    <3> QED BY <1>1, <3>2, <3>3, <3>4, <3>5 DEF SyncInv
  <2> QED BY <2>1, <2>2, <2>3
<1> QED BY <1>1, <1>6, <1>7, <1>10, <1>11, <1>12 DEF ConnInv

\* The session of a reply is announced before its output, and there is no error in it.
LEMMA ReadyReply ==
    ASSUME NEW s \in Session, NEW readOnly \in BOOLEAN,
           NEW frames,
           \/ frames = <<Ready(s, readOnly)>>
           \/ frames = <<Ready(s, readOnly)>> \o Replay(s)
    PROVE  /\ frames \in Seq(Frame) /\ 1 \in 1 .. Len(frames) /\ frames[1].type = "ready"
           /\ \A i \in 1 .. Len(frames) : frames[i].type = "output" =>
                 i > 1 /\ frames[i - 1].type = "ready" /\ frames[i - 1].session = frames[i].data
           /\ \A i \in 1 .. Len(frames) : /\ frames[i].type # "error"
                                          /\ frames[i].type = "ready" => frames[i].readOnly = readOnly
<1>1. /\ frames \in Seq(Frame) /\ Len(frames) \in 1 .. 3
      /\ frames[1].type = "ready" /\ frames[1].session = s /\ frames[1].readOnly = readOnly
      /\ \A i \in 2 .. Len(frames) : frames[i].type \in {"output", "exit"}
      /\ \A i \in 2 .. Len(frames) : frames[i].type = "output" => i = 2 /\ frames[i].data = s
  BY ReadyFrames
<1>2. \A i \in 1 .. Len(frames) : i = 1 \/ i \in 2 .. Len(frames)
  BY <1>1
<1>3. \A i \in 1 .. Len(frames) : frames[i].type = "output" =>
          i > 1 /\ frames[i - 1].type = "ready" /\ frames[i - 1].session = frames[i].data
  <2> SUFFICES ASSUME NEW i \in 1 .. Len(frames), frames[i].type = "output"
               PROVE  /\ i > 1 /\ frames[i - 1].type = "ready"
                      /\ frames[i - 1].session = frames[i].data
    OBVIOUS
  <2>1. i \in 2 .. Len(frames)
    BY <1>1, <1>2
  <2>2. i = 2 /\ frames[i].data = s
    BY <1>1, <2>1
  <2>3. i - 1 = 1
    BY <2>2
  <2> QED BY <1>1, <2>2, <2>3
<1> QED BY <1>1, <1>2, <1>3

\* A reply without a session.
LEMMA RefusalReply ==
    ASSUME NEW f \in {Error(None), Error("attach_forbidden"), Error("session_not_found"), Foreign}
    PROVE  /\ <<f>> \in Seq(Frame) /\ f.type \in {"error", "foreign"}
           /\ \A i \in 1 .. Len(<<f>>) : i = 1 /\ <<f>>[i] = f
           /\ f.type = "error" /\ f.code = "attach_forbidden" => f = Error("attach_forbidden")
<1>1. f \in Frame /\ f.type \in {"error", "foreign"}
  BY DEF Frame, Error, Foreign
<1>2. f.type = "error" /\ f.code = "attach_forbidden" => f = Error("attach_forbidden")
  <2>1. None # "attach_forbidden"
    BY NoneIsNothing
  <2> QED BY <2>1 DEF Error, Foreign
<1> QED BY <1>1, <1>2

\* An attach is answered, or fails.
LEMMA ServeAttachStep ==
    ASSUME ConnInv, NEW c \in Conn, handler[c] # None, up[c] # <<>>, up[c][1].type = "attach",
           Take(c), UNCHANGED <<transportVars, clientVars, viewVars, got>>,
           \/ ServeAttach(c, up[c][1])
           \/ ServeTrouble(c, up[c][1]) /\ UNCHANGED <<handler, sess, size>>
    PROVE  ConnInv'
<1> DEFINE m == up[c][1]
           s == m.session
<1>1. /\ m \in Wire(eraOf[c]) /\ 1 \in 1 .. Len(up[c])
      /\ handler \in [Conn -> Handler \cup {None}]
      /\ DOMAIN sess = Session /\ DOMAIN size = Session
  BY TakeKeeps DEF ConnInv, ServerInv
<1>2. s \in Session \cup {None} /\ m.watch \in BOOLEAN
  BY <1>1, WireType
<1>3. handler[c] = Idle /\ (s = None => ~m.watch)
  BY <1>1 DEF ConnInv, ServerInv
<1> HIDE DEF m
<1>4. ASSUME NEW f \in {Error(None), Error("attach_forbidden"), Error("session_not_found"), Foreign},
             Reply(c, <<f>>), f = Error("attach_forbidden") => s # None,
             UNCHANGED <<handler, sess, size>>
      PROVE  ConnInv'
  <2> DEFINE frames == <<f>>
  <2>1. /\ frames \in Seq(Frame) /\ f.type \in {"error", "foreign"}
        /\ \A i \in 1 .. Len(frames) : i = 1 /\ frames[i] = f
        /\ f.type = "error" /\ f.code = "attach_forbidden" => f = Error("attach_forbidden")
    BY RefusalReply
  <2> HIDE DEF frames
  <2>2. \A i \in 1 .. Len(frames) : frames[i].type # "output"
    BY <2>1
  <2>3. \A i \in 1 .. Len(frames) :
          frames[i].type = "error" /\ frames[i].code = "attach_forbidden" => i = 1 /\ s # None
    BY <1>4, <2>1
  <2>4. Idle \in Handler /\ Idle.session = None /\ handler' = [handler EXCEPT ![c] = Idle]
    BY <1>1, <1>3, <1>4, IdleIsHandler
  <2>5. Reply(c, frames)
    BY <1>4 DEF frames
  <2> QED BY <1>1, <1>4, <2>1, <2>2, <2>3, <2>4, <2>5, AttachKeeps DEF m
<1>5. ASSUME NEW r \in Session, NEW readOnly \in BOOLEAN,
             NEW frames,
             \/ frames = <<Ready(r, readOnly)>>
             \/ frames = <<Ready(r, readOnly)>> \o Replay(r),
             Reply(c, frames),
             handler' = [handler EXCEPT ![c] = [session |-> r, readOnly |-> readOnly]],
             sess'[r] # "unused", DOMAIN sess' = Session, DOMAIN size' = Session,
             ~readOnly => ~m.watch /\ size'[r] = m.size /\ \A d \in Conn : ~Controls(d, r),
             \A q \in Session : q # r \/ readOnly => sess'[q] = sess[q] /\ size'[q] = size[q]
      PROVE  ConnInv'
  <2> DEFINE h == [session |-> r, readOnly |-> readOnly]
  <2>1. h \in Handler /\ h.session = r /\ h.readOnly = readOnly
    BY DEF Handler
  <2>2. handler' = [handler EXCEPT ![c] = h]
    BY <1>5
  <2> HIDE DEF h
  <2>3. /\ frames \in Seq(Frame) /\ 1 \in 1 .. Len(frames) /\ frames[1].type = "ready"
        /\ \A i \in 1 .. Len(frames) : frames[i].type = "output" =>
              i > 1 /\ frames[i - 1].type = "ready" /\ frames[i - 1].session = frames[i].data
        /\ \A i \in 1 .. Len(frames) : /\ frames[i].type # "error"
                                       /\ frames[i].type = "ready" => frames[i].readOnly = readOnly
    BY <1>5, ReadyReply
  <2>4. \A q \in Session : sess[q] # "unused" => sess'[q] # "unused"
    BY <1>5
  <2>5. \A q \in Session : (\E d \in Conn : Controls(d, q)) =>
          sess'[q] = sess[q] /\ size'[q] = size[q]
    BY <1>5
  <2>6. h.session # None => /\ sess'[h.session] # "unused"
                            /\ 1 \in 1 .. Len(frames) /\ frames[1].type = "ready"
    BY <1>5, <2>1, <2>3
  <2>7. h.session # None /\ ~h.readOnly =>
          /\ \A d \in Conn : ~Controls(d, h.session)
          /\ ~m.watch /\ size'[h.session] = m.size
          /\ \A i \in 1 .. Len(frames) :
                /\ frames[i].type # "error"
                /\ frames[i].type = "ready" => ~frames[i].readOnly
    BY <1>5, <2>1, <2>3
  <2> QED BY <1>5, <2>1, <2>2, <2>3, <2>4, <2>5, <2>6, <2>7, AttachKeeps, ZenonT(60) DEF m
<1>6. CASE ServeTrouble(c, m) /\ UNCHANGED <<handler, sess, size>>
  <2>1. PICK f \in {Error(None), Foreign} : Reply(c, <<f>>)
    BY <1>6 DEF ServeTrouble
  <2>2. f # Error("attach_forbidden")
    BY NoneIsNothing DEF Error, Foreign
  <2> QED BY <1>4, <1>6, <2>1, <2>2
<1>7. CASE /\ s # None /\ sess[s] \in {"running", "ended"} /\ m.watch
           /\ handler' = [handler EXCEPT ![c] = [session |-> s, readOnly |-> TRUE]]
           /\ Reply(c, <<Ready(s, TRUE)>> \o Replay(s))
           /\ UNCHANGED <<sess, size>>
  <2>1. s \in Session /\ sess'[s] # "unused" /\ DOMAIN sess' = Session /\ DOMAIN size' = Session
    BY <1>1, <1>2, <1>7
  <2> QED BY <1>5, <1>7, <2>1
<1>8. CASE /\ s # None /\ sess[s] \in {"running", "ended"} /\ ~m.watch
           /\ \A d \in Conn : ~Controls(d, s)
           /\ handler' = [handler EXCEPT ![c] = [session |-> s, readOnly |-> FALSE]]
           /\ size' = [size EXCEPT ![s] = m.size]
           /\ Reply(c, <<Ready(s, FALSE)>> \o Replay(s))
           /\ UNCHANGED sess
  <2>1. /\ s \in Session /\ sess'[s] # "unused" /\ DOMAIN sess' = Session
        /\ DOMAIN size' = Session /\ size'[s] = m.size
        /\ \A q \in Session : q # s => sess'[q] = sess[q] /\ size'[q] = size[q]
    BY <1>1, <1>2, <1>8
  <2>2. FALSE \in BOOLEAN /\ ~FALSE
    OBVIOUS
  <2> QED BY <1>5, <1>8, <2>1, <2>2
<1>9. CASE /\ s # None /\ Reply(c, <<Error("attach_forbidden")>>)
           /\ UNCHANGED <<handler, sess, size>>
  BY <1>4, <1>9
<1>10. CASE /\ s # None /\ Reply(c, <<Error("session_not_found")>>)
            /\ UNCHANGED <<handler, sess, size>>
  BY <1>4, <1>10
<1>11. ASSUME NEW new \in Session, s = None, sess[new] = "unused",
              sess' = [sess EXCEPT ![new] = "running"],
              size' = [size EXCEPT ![new] = m.size],
              handler' = [handler EXCEPT ![c] = [session |-> new, readOnly |-> FALSE]],
              Reply(c, <<Ready(new, FALSE)>>)
       PROVE  ConnInv'
  <2>1. /\ sess'[new] # "unused" /\ DOMAIN sess' = Session
        /\ DOMAIN size' = Session /\ size'[new] = m.size
        /\ \A q \in Session : q # new => sess'[q] = sess[q] /\ size'[q] = size[q]
    BY <1>1, <1>11
  <2>2. \A d \in Conn : ~Controls(d, new)
    <3> SUFFICES ASSUME NEW d \in Conn, Controls(d, new) PROVE FALSE
      OBVIOUS
    <3>1. handler[d].session = new /\ handler[d] # None /\ new # None
      BY ControlsFields, ConnectionConstants
    <3> QED BY <1>11, <3>1 DEF ConnInv, ServerInv
  <2>3. FALSE \in BOOLEAN /\ ~FALSE /\ ~m.watch
    BY <1>3, <1>11 DEF m
  <2> QED BY <1>5, <1>11, <2>1, <2>2, <2>3
<1>12. ServeAttach(c, m) \/ (ServeTrouble(c, m) /\ UNCHANGED <<handler, sess, size>>)
  BY DEF m
<1> QED BY <1>6, <1>7, <1>8, <1>9, <1>10, <1>11, <1>12 DEF ServeAttach

\* Input is written and a size is set, if the socket controls a session that runs.
LEMMA SteeringStep ==
    ASSUME ConnInv, NEW c \in Conn, handler[c] # None, up[c] # <<>>, up[c][1].type # "attach",
           Take(c), ServeSteering(c, up[c][1]), UNCHANGED <<handler, down, sess>>,
           UNCHANGED <<transportVars, clientVars, viewVars>>
    PROVE  ConnInv'
<1> DEFINE m == up[c][1]
           s == handler[c].session
           Steers == s # None /\ ~handler[c].readOnly /\ sess[s] = "running"
<1>1. /\ UNCHANGED <<link, status, page, cur, sessionId, attachMode, outbox, pendingResize>>
      /\ UNCHANGED <<typed, fitSize, dims, fitDue, era, eraOf, runtime, screen>>
      /\ UNCHANGED <<seen, shown, verdict>>
      /\ LinkInv' /\ ChoiceInv' /\ VerdictInv' /\ FitInv'
  BY PageSame
<1>2. /\ m \in Wire(eraOf[c]) /\ 1 \in 1 .. Len(up[c]) /\ DOMAIN up' = Conn
      /\ \A d \in Conn : up'[d] \in Seq(Wire(eraOf[d]))
      /\ \A d \in Conn \ {c} : up'[d] = up[d]
      /\ \A i \in 1 .. Len(up'[c]) : up'[c][i].type # "attach"
  BY TakeKeeps
<1>3. m.type \in {"input", "resize"}
  BY <1>2, WireType
<1>4. \/ /\ Steers /\ m.type = "input" /\ UNCHANGED size
         /\ got' = [got EXCEPT ![s] = Append(@, [n |-> m.n, early |-> m.early])]
      \/ /\ Steers /\ m.type = "resize" /\ UNCHANGED got
         /\ size' = [size EXCEPT ![s] = m.size]
      \/ ~Steers /\ UNCHANGED <<got, size>>
  BY DEF ServeSteering
<1>5. Steers => s \in Session /\ Controls(c, s)
  BY Controller DEF ConnInv
<1>6. EraInv' /\ DownInv'
  BY <1>1, <1>2 DEF ConnInv, EraInv, DownInv, Announced
<1>7. \A d \in Conn, r \in Session : Controls(d, r)' <=> Controls(d, r)
  BY DEF Controls
<1>8. ServerInv'
  <2>1. \A d \in Conn : \A i \in 1 .. Len(up'[d]) : up'[d][i].type = "attach" =>
          i = 1 /\ handler'[d] = Idle /\ (up'[d][i].session = None => ~up'[d][i].watch)
    <3> SUFFICES ASSUME NEW d \in Conn, NEW i \in 1 .. Len(up'[d]), up'[d][i].type = "attach"
                 PROVE  i = 1 /\ handler[d] = Idle /\ (up'[d][i].session = None => ~up'[d][i].watch)
      OBVIOUS
    <3>1. d # c
      BY <1>2
    <3>2. up'[d] = up[d]
      BY <1>2, <3>1
    <3> QED BY <3>2 DEF ConnInv, ServerInv
  <2>2. DOMAIN size' = Session
    BY <1>4 DEF ConnInv, ServerInv
  <2> QED BY <1>7, <2>1, <2>2 DEF ConnInv, ServerInv
<1>9. FreshInv' /\ WireInv' /\ WriteInv' /\ InputInOrder'
  <2>1. CASE UNCHANGED got
    <3>1. got' \in [Session -> Seq([n : Nat, early : BOOLEAN])]
      BY <2>1 DEF ConnInv, WriteInv
    <3> QED BY <1>1, <1>2, <1>7, <2>1, <3>1, TakeShrinks, ShrinkKeeps
  <2>2. CASE /\ Steers /\ m.type = "input"
             /\ got' = [got EXCEPT ![s] = Append(@, [n |-> m.n, early |-> m.early])]
    BY <1>1, <1>5, <2>2, WriteKeeps
  <2> QED BY <1>4, <2>1, <2>2
<1>10. \A r \in Session : r # s \/ ~Steers \/ m.type = "input" => size'[r] = size[r]
  BY <1>4 DEF ConnInv, ServerInv
<1>11. Steers /\ m.type = "resize" => size'[s] = m.size
  BY <1>4, <1>5 DEF ConnInv, ServerInv
<1>12. ReadyInv' /\ SyncInv'
  <2>1. CASE link # "open"
    BY <1>1, <2>1 DEF ReadyInv, SyncInv
  <2>2. CASE link = "open" /\ c # cur
    <3>1. cur \in Conn
      BY <2>2, ConnectionConstants DEF ConnInv, LinkInv
    <3>2. up'[cur] = up[cur]
      BY <1>2, <2>2, <3>1
    <3>3. \A r \in Session : Controls(cur, r) => size'[r] = size[r]
      <4> SUFFICES ASSUME NEW r \in Session, Controls(cur, r) PROVE size'[r] = size[r]
        OBVIOUS
      <4>1. Steers => r # s
        BY <1>5, <2>2, <3>1 DEF ConnInv, ServerInv
      <4> QED BY <1>10, <4>1
    <3> HIDE DEF Steers
    <3> QED BY <1>1, <3>2, <3>3, OtherKeeps
  <2>3. CASE link = "open" /\ c = cur
    <3>1. ReadyInv'
      BY <1>1 DEF ConnInv, ReadyInv
    <3>2. ~AttachPending(cur)'
      <4>1. up'[cur] # <<>> => 1 \in 1 .. Len(up'[cur])
        BY <1>2, <2>3
      <4> QED BY <1>1, <1>2, <2>3, <4>1 DEF AttachPending
    <3>3. Controlling(cur)' => s # None /\ ~handler[c].readOnly
      BY <1>1, <2>3, <3>2 DEF Controlling
    <3>4. ASSUME s # None, ~handler[c].readOnly
          PROVE  /\ attachMode' = "control" /\ seen'.mode = "control"
                 /\ \A i \in 1 .. Len(down'[cur]) :
                       /\ down'[cur][i].type # "error"
                       /\ down'[cur][i].type = "ready" => ~down'[cur][i].readOnly
                 /\ SizeUnderway(up[cur])' \/ SizeGiven(cur)'
      <4>1. Controlling(cur)
        BY <2>3, <3>4 DEF Controlling
      <4>2. /\ attachMode = "control" /\ seen.mode = "control"
            /\ \A i \in 1 .. Len(down[cur]) :
                  /\ down[cur][i].type # "error"
                  /\ down[cur][i].type = "ready" => ~down[cur][i].readOnly
        BY <2>3, <4>1 DEF ConnInv, SyncInv
      <4>3. s \in Session
        BY <3>4, Controller DEF ConnInv
      <4>4. m.type = "resize" => (sess[s] = "running" => size'[s] = m.size)
        BY <1>11, <3>4
      <4>5. m.type = "input" => size'[s] = size[s]
        BY <1>10, <4>3
      <4>6. SizeUnderway(up[cur])' \/ SizeGiven(cur)'
        BY <1>1, <1>3, <2>3, <3>4, <4>1, <4>4, <4>5, TakeSync
      <4> QED BY <1>1, <4>2, <4>6
    <3> QED BY <1>1, <3>1, <3>2, <3>3, <3>4 DEF SyncInv
  <2> QED BY <2>1, <2>2, <2>3
<1> QED BY <1>1, <1>6, <1>8, <1>9, <1>12 DEF ConnInv

\* A handler takes a message.
LEMMA ServeStep == ASSUME ConnInv, NEW c \in Conn, Serve(c) PROVE ConnInv'
<1>1. /\ handler[c] # None /\ up[c] # <<>> /\ Take(c)
      /\ UNCHANGED <<transportVars, clientVars, viewVars>>
  BY DEF Serve, Take
<1>2. Head(up[c]) = up[c][1]
  BY <1>1, TakeKeeps
<1>3. \/ up[c][1].type = "attach" /\ ServeAttach(c, up[c][1]) /\ UNCHANGED got
      \/ /\ up[c][1].type = "attach" /\ ServeTrouble(c, up[c][1])
         /\ UNCHANGED <<handler, sess, size, got>>
      \/ /\ up[c][1].type # "attach" /\ ServeSteering(c, up[c][1])
         /\ UNCHANGED <<handler, down, sess>>
  BY <1>2 DEF Serve
<1>4. CASE /\ up[c][1].type # "attach" /\ ServeSteering(c, up[c][1])
           /\ UNCHANGED <<handler, down, sess>>
  BY <1>1, <1>4, SteeringStep
<1>5. CASE /\ up[c][1].type = "attach" /\ UNCHANGED got
           /\ \/ ServeAttach(c, up[c][1])
              \/ ServeTrouble(c, up[c][1]) /\ UNCHANGED <<handler, sess, size>>
  BY <1>1, <1>5, ServeAttachStep
<1> QED BY <1>3, <1>4, <1>5

-----------------------------------------------------------------------------
(* The theorems.                                                            *)

\* The invariant is kept by a stutter.
LEMMA StutterStep == ASSUME ConnInv, UNCHANGED vars PROVE ConnInv'
<1>1. /\ UNCHANGED <<link, cur, serverVars, up, choiceVars, inputVars, eraVars, screen>>
      /\ UNCHANGED <<transportVars, sizeVars, viewVars, runtime>>
  BY DEF vars, transportVars
<1>2. LinkInv' /\ VerdictInv' /\ FitInv'
  BY <1>1 DEF ConnInv, LinkInv, VerdictInv, FitInv, transportVars, sizeVars, viewVars, inputVars
<1> QED BY <1>1, <1>2, LocalKeeps DEF sizeVars, viewVars

\* The invariant is kept by every step.
LEMMA ConnStep == ASSUME ConnInv, [Next]_vars PROVE ConnInv'
<1>1. CASE Page
  <2>1. CASE Boot \/ BootFails \/ Render \/ FitAndSyncSize \/ Reconnect \/ Receive
    BY <2>1, BootStep, BootFailsStep, RenderStep, FitStep, ReconnectStep, ReceiveStep
  <2>2. CASE \E bytes \in ChunkBytes : Type(bytes)
    BY <2>2, TypeStep
  <2>3. CASE \E d \in Dimension \ {dims} : Layout(d)
    BY <2>3, LayoutStep
  <2>4. CASE \E s \in Session \cup {None}, m \in {"control", "watch"} : Choose(s, m)
    BY <2>4, ChooseStep DEF Mode
  <2> QED BY <1>1, <2>1, <2>2, <2>3, <2>4 DEF Page
<1>2. CASE Transport
  BY <1>2, LinkDownStep, OpenedStep DEF Transport
<1>3. CASE Server
  BY <1>3, ServeStep, HandlerEndsStep, SessionEndsStep, SessionGoesStep DEF Server
<1>4. CASE UNCHANGED vars
  BY <1>4, StutterStep
<1> QED BY <1>1, <1>2, <1>3, <1>4 DEF Next

\* The invariant holds in every reachable state.
THEOREM ConnInvariant == Spec => []ConnInv
<1>1. Init => ConnInv
  BY ConnInit
<1>2. ConnInv /\ [Next]_vars => ConnInv'
  BY ConnStep
<1> QED BY <1>1, <1>2, PTL DEF Spec

\* Whatever is typed, queued, evicted, flushed and reconnected, a process is written no
\* chunk twice and the chunks in the order in which they were typed, but for those that
\* were sent before their socket was attached.
THEOREM InputInOrderHolds == Spec => []InputInOrder
<1>1. ConnInv => InputInOrder
  BY DEF ConnInv
<1> QED BY <1>1, ConnInvariant, PTL

\* Input is sent only on a socket of the era it was typed in, and the screen shows the
\* page's own session only.
THEOREM NoCrossTalkHolds == Spec => []NoCrossTalk
<1>1. ConnInv => NoCrossTalk
  <2> SUFFICES ASSUME ConnInv PROVE NoCrossTalk
    OBVIOUS
  <2>1. ASSUME NEW c \in Conn, NEW i \in 1 .. Len(up[c]), up[c][i].type = "input"
        PROVE  up[c][i].era = eraOf[c]
    <3>1. up[c] \in Seq(Wire(eraOf[c]))
      BY DEF ConnInv, EraInv
    <3>2. up[c][i] \in Wire(eraOf[c])
      BY <3>1, ElementOfSeq
    <3> QED BY <2>1, <3>2, WireType
  <2>2. sessionId # None => screen \subseteq {sessionId}
    BY DEF ConnInv, DownInv
  <2> QED BY <2>1, <2>2 DEF NoCrossTalk
<1> QED BY <1>1, ConnInvariant, PTL

\* When nothing is on its way, a page that controls a running session has nothing queued,
\* and the process has the size of the terminal.
THEOREM ReadyIsSyncedHolds == Spec => []ReadyIsSynced
<1>1. ConnInv => ReadyIsSynced
  <2> SUFFICES ASSUME ConnInv, Settled
               PROVE  /\ outbox = <<>> /\ pendingResize = None
                      /\ size[handler[cur].session] = Normalize(dims)
    BY DEF ReadyIsSynced
  <2>1. /\ link = "open" /\ up[cur] = <<>> /\ down[cur] = <<>>
        /\ handler[cur] # None /\ handler[cur].session # None /\ ~handler[cur].readOnly
        /\ sess[handler[cur].session] = "running" /\ ~fitDue
    BY DEF Settled
  <2>2. outbox = <<>> /\ pendingResize = None
    BY <2>1 DEF ConnInv, ReadyInv
  <2>3. SizeGiven(cur)
    <3>1. Controlling(cur)
      BY <2>1 DEF Controlling
    <3>2. ~SizeUnderway(up[cur])
      BY <2>1 DEF SizeUnderway
    <3> QED BY <2>1, <3>1, <3>2 DEF ConnInv, SyncInv
  <2>4. fitSize = dims
    BY <2>1 DEF ConnInv, LinkInv, FitInv
  <2> QED BY <2>1, <2>2, <2>3, <2>4 DEF SizeGiven
<1> QED BY <1>1, ConnInvariant, PTL

\* What the user has been told of the session is shown until the connection changes,
\* if it was told after the effect of the status "connected".
THEOREM VerdictShownHolds == Spec => []VerdictShown
<1>1. ConnInv => VerdictShown
  <2> SUFFICES ASSUME ConnInv, verdict # None, ~verdict.early PROVE ProjectStatus(shown) # "connected"
    BY DEF VerdictShown
  <2>1. shown.transport = "connected" /\ shown.flag \in Flag
    BY DEF ConnInv, VerdictInv
  <2> QED BY <2>1 DEF ProjectStatus, Flag
<1> QED BY <1>1, ConnInvariant, PTL
=============================================================================
