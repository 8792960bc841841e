------------------------ MODULE SessionManagerProofs ------------------------
(***************************************************************************)
(* Proofs about SessionManager, for any number of connections, sessions,   *)
(* messages and chunks.                                                    *)
(***************************************************************************)
EXTENDS SessionManager, TLAPS

\* The forwarding goroutine: it is started once, by the attach that created the
\* session, and what it is delivering is in the history.
PumpInv ==
    /\ \A s \in Session : process[s] = "none" => pump[s] = "off"
    /\ \A s \in Session : targets[s] # {} => pump[s] \in {"forward", "exit"}
    /\ \A s \in Session : pump[s] = "forward" /\ targets[s] # {} => history[s].to > 0
    /\ \A c \in Conn : result[c].created =>
          /\ result[c].session \in Session
          /\ pump[result[c].session] = "off"
          /\ process[result[c].session] # "none"
    /\ \A c, d \in Conn :
          result[c].created /\ result[d].created /\ result[c].session = result[d].session
              => c = d

TypeInv == TypeOK /\ PumpInv

\* What finishAttachLocked writes is a sequence of frames.
LEMMA ReplayType ==
    ASSUME NEW r \in AttachResult
    PROVE  Replay(r) \in Seq(Frame)
<1> USE DEF AttachResult, Frame, Position
<1>1. <<[kind |-> "ready", from |-> r.from, to |-> r.from]>> \in Seq(Frame)
  OBVIOUS
<1>2. (IF r.from < r.to THEN <<[kind |-> "output", from |-> r.from, to |-> r.to]>> ELSE <<>>)
         \in Seq(Frame)
  <2>1. <<[kind |-> "output", from |-> r.from, to |-> r.to]>> \in Seq(Frame)
    OBVIOUS
  <2>2. <<>> \in Seq(Frame)
    OBVIOUS
  <2> QED BY <2>1, <2>2, Zenon
<1>3. (IF r.exit THEN <<[kind |-> "exit", from |-> r.to, to |-> r.to]>> ELSE <<>>)
         \in Seq(Frame)
  <2>1. <<[kind |-> "exit", from |-> r.to, to |-> r.to]>> \in Seq(Frame)
    OBVIOUS
  <2>2. <<>> \in Seq(Frame)
    OBVIOUS
  <2> QED BY <2>1, <2>2, Zenon
<1>4. ASSUME NEW u \in Seq(Frame), NEW v \in Seq(Frame), NEW w \in Seq(Frame)
      PROVE  u \o v \o w \in Seq(Frame)
  OBVIOUS
<1> HIDE DEF AttachResult, Frame, Position
<1> QED BY <1>1, <1>2, <1>3, <1>4 DEF Replay

\* The connections of a session are connections.
LEMMA ConnectionsType ==
    ASSUME TypeOK, NEW s \in Session
    PROVE  Connections(s) \in SUBSET Conn
BY DEF Connections, TypeOK

\* Scheduling a cleanup keeps generations and timers natural numbers.
LEMMA ScheduleCleanupType ==
    ASSUME TypeOK, NEW s \in Session, NEW h, ScheduleCleanup(s, h)
    PROVE  /\ cleanupGeneration' \in [Session -> Nat]
           /\ reconnectTimer' \in [Session -> Nat]
BY DEF ScheduleCleanup, TypeOK

\* Detach in closed form, for a listed and for an unlisted session.
LEMMA DetachListed ==
    ASSUME NEW s \in sessions, NEW c, Detach(s, c)
    PROVE  /\ controller' = [controller EXCEPT ![s] = IF controller[s] = c THEN NoConn
                                                      ELSE controller[s]]
           /\ watchers' = [watchers EXCEPT ![s] = watchers[s] \ {c}]
           /\ \/ (exitInfo[s] \/ DetachedTTL)
                 /\ ScheduleCleanup(s, \/ (IF controller[s] = c THEN NoConn
                                           ELSE controller[s]) # NoConn
                                       \/ watchers[s] \ {c} # {})
              \/ /\ ~exitInfo[s] /\ ~DetachedTTL
                 /\ reconnectTimer' = [reconnectTimer EXCEPT ![s] = 0]
                 /\ UNCHANGED cleanupGeneration
BY Zenon DEF Detach

\* Detach of a session that is not in the map changes nothing.
LEMMA DetachUnlisted ==
    ASSUME NEW s, s \notin sessions, NEW c, Detach(s, c)
    PROVE  UNCHANGED <<controller, watchers, cleanupGeneration, reconnectTimer>>
BY DEF Detach

\* Detach keeps the variables of the session it detaches from in their types.
LEMMA DetachType ==
    ASSUME TypeOK, NEW s, NEW c, Detach(s, c)
    PROVE  /\ controller' \in [Session -> Conn \cup {NoConn}]
           /\ watchers' \in [Session -> SUBSET Conn]
           /\ cleanupGeneration' \in [Session -> Nat]
           /\ reconnectTimer' \in [Session -> Nat]
<1>1. CASE s \notin sessions
  BY <1>1, DetachUnlisted DEF TypeOK
<1>2. CASE s \in sessions
  <2>1. s \in Session
    BY <1>2 DEF TypeOK
  <2>2. controller' \in [Session -> Conn \cup {NoConn}] /\ watchers' \in [Session -> SUBSET Conn]
    <3>1. /\ controller' = [controller EXCEPT ![s] = IF controller[s] = c THEN NoConn
                                                     ELSE controller[s]]
          /\ watchers' = [watchers EXCEPT ![s] = watchers[s] \ {c}]
      BY <1>2, DetachListed
    <3> QED BY <3>1, <2>1 DEF TypeOK
  <2>3. cleanupGeneration' \in [Session -> Nat] /\ reconnectTimer' \in [Session -> Nat]
    <3>1. CASE \E h : ScheduleCleanup(s, h)
      BY <3>1, <2>1, ScheduleCleanupType
    <3>2. CASE reconnectTimer' = [reconnectTimer EXCEPT ![s] = 0] /\ UNCHANGED cleanupGeneration
      BY <3>2, <2>1 DEF TypeOK
    <3> QED BY <1>2, <3>1, <3>2, DetachListed
  <2> QED BY <2>2, <2>3
<1> QED BY <1>1, <1>2

\* Init satisfies the type invariant.
LEMMA InitType == Init => TypeInv
BY ConstantsOK DEF Init, TypeInv, TypeOK, PumpInv, NoResult, AttachResult, Position, Frame

\* Every step of a handler keeps the variables in their types.
LEMMA HandlerTypeOK ==
    ASSUME TypeOK, NEW c \in Conn, Handler(c)
    PROVE  TypeOK'
<1> USE DEF TypeOK, managerVars, processVars, handlerVars, Receive
<1>1. CASE Upgrade(c)
  BY <1>1, ZenonT(60) DEF Upgrade
<1>2. CASE Reply(c)
  BY <1>2 DEF Reply, SendReply
<1>3. ASSUME NEW s \in Session, AttachCreate(c, s) PROVE TypeOK'
  <2>1. [NoResult EXCEPT !.session = s, !.created = TRUE] \in AttachResult
    BY DEF NoResult, AttachResult, Position
  <2> QED BY <2>1, <1>3 DEF AttachCreate
<1>4. ASSUME NEW s \in Session, AttachWatch(c, s) PROVE TypeOK'
  BY <1>4, SMTT(60) DEF AttachWatch, DisarmCleanup, Grant, AttachResult, Position
<1>5. ASSUME NEW s \in Session, AttachControl(c, s) PROVE TypeOK'
  BY <1>5 DEF AttachControl, DisarmCleanup, Grant, AttachResult, Position
<1>6. ASSUME NEW s \in Session, AttachRefused(c, s) PROVE TypeOK'
  BY <1>6 DEF AttachRefused, DisarmCleanup, MayControl
<1>7. CASE HandshakeOk(c)
  <2>1. wire' \in [Conn -> Seq(Frame)]
    BY <1>7, ReplayType DEF HandshakeOk
  <2>2. pump' \in [Session -> {"off", "forward", "wait", "exit", "done"}]
    BY <1>7 DEF HandshakeOk, StartPump
  <2> QED BY <2>1, <2>2, <1>7 DEF HandshakeOk, NoResult, AttachResult, Position
<1>8. CASE HandshakeFail(c)
  <2>1. wire' \in [Conn -> Seq(Frame)]
    BY <1>8, ReplayType DEF HandshakeFail
  <2> QED BY <2>1, <1>8 DEF HandshakeFail
<1>9. CASE UndoAttach(c)
  <2>1. pump' \in [Session -> {"off", "forward", "wait", "exit", "done"}]
    BY <1>9 DEF UndoAttach, StartPump
  <2>2. Detach(result[c].session, c)
    BY <1>9 DEF UndoAttach
  <2> QED BY <1>9, <2>1, <2>2, DetachType DEF UndoAttach, NoResult, AttachResult, Position
<1>10. ASSUME NEW op \in {"input", "resize"}, BeginCall(c, op) PROVE TypeOK'
  BY <1>10 DEF BeginCall
<1>11. ASSUME NEW op \in {"input", "resize"}, CallOk(c, op) PROVE TypeOK'
  BY <1>11 DEF CallOk
<1>12. CASE CallError(c)
  BY <1>12 DEF CallError, SendReply
<1>13. CASE Rename(c)
  BY <1>13 DEF Rename
<1>14. CASE PeerDrop(c)
  BY <1>14 DEF PeerDrop
<1>15. CASE Leave(c)
  BY <1>15, DetachType DEF Leave
<1> QED
  BY <1>1, <1>2, <1>3, <1>4, <1>5, <1>6, <1>7, <1>8, <1>9, <1>10, <1>11, <1>12, <1>13,
     <1>14, <1>15 DEF Handler

\* ... and so does every step of a process, its pump or its cleanup.
LEMMA SessionTypeOK ==
    ASSUME TypeInv, NEW s \in Session, SessionStep(s)
    PROVE  TypeOK'
<1> USE DEF TypeInv, TypeOK, managerVars, processVars, handlerVars
<1>1. CASE ProcessEnd(s)
  BY <1>1 DEF ProcessEnd
<1>2. CASE ForwardChunk(s)
  <2>1. Connections(s) \in SUBSET Conn
    BY ConnectionsType
  <2>2. targets' \in [Session -> SUBSET Conn]
    <3>1. targets' = targets \/ targets' = [targets EXCEPT ![s] = Connections(s)]
      BY <1>2, Zenon DEF ForwardChunk
    <3> QED BY <2>1, <3>1
  <2>3. history' \in [Session -> [from : Position, to : Position]]
    <3>1. \/ history' = history
          \/ \E lo \in history[s].from .. history[s].to + 1 :
                history' = [history EXCEPT ![s] = [from |-> lo, to |-> history[s].to + 1]]
      BY <1>2 DEF ForwardChunk
    <3>2. history[s].from \in Nat /\ history[s].to \in Nat
      BY DEF Position
    <3>3. ASSUME NEW lo \in history[s].from .. history[s].to + 1
          PROVE  [from |-> lo, to |-> history[s].to + 1] \in [from : Position, to : Position]
      BY <3>2 DEF Position
    <3> DEFINE Window == [from : Position, to : Position]
               next(lo) == [from |-> lo, to |-> history[s].to + 1]
    <3>4. history \in [Session -> Window] /\ \A lo \in history[s].from .. history[s].to + 1 : next(lo) \in Window
      BY <3>3
    <3>5. \/ history' = history
          \/ \E lo \in history[s].from .. history[s].to + 1 : history' = [history EXCEPT ![s] = next(lo)]
      BY <3>1
    <3> HIDE DEF Window, next
    <3>6. history' \in [Session -> Window]
      BY ONLY s \in Session, <3>4, <3>5
    <3> QED BY <3>6 DEF Window
  <2> QED BY <1>2, <2>2, <2>3 DEF ForwardChunk
<1>3. ASSUME NEW c \in Conn, Deliver(s, c) PROVE TypeOK'
  <2>1. PumpFrame(s) \in Frame
    <3>1. targets[s] # {} /\ history[s].to \in Nat
      BY <1>3 DEF Deliver, Position
    <3>2. CASE pump[s] = "forward"
      <4>1. history[s].to - 1 \in Nat
        <5>1. history[s].to > 0
          BY <3>1, <3>2 DEF PumpInv
        <5> QED BY <3>1, <5>1
      <4> QED BY <3>1, <3>2, <4>1 DEF PumpFrame, Frame, Position
    <3>3. CASE pump[s] # "forward"
      BY <3>1, <3>3 DEF PumpFrame, Frame, Position
    <3> QED BY <3>2, <3>3
  <2>2. wire' \in [Conn -> Seq(Frame)]
    <3>1. wire' = wire \/ wire' = [wire EXCEPT ![c] = Append(wire[c], PumpFrame(s))]
      BY <1>3 DEF Deliver
    <3>2. Append(wire[c], PumpFrame(s)) \in Seq(Frame)
      BY <2>1
    <3> QED BY <3>1, <3>2
  <2> QED BY <2>2, <1>3 DEF Deliver
<1>4. CASE WatchExit(s)
  <2>1. Connections(s) \in SUBSET Conn
    BY ConnectionsType
  <2>2. targets' = targets \/ targets' = [targets EXCEPT ![s] = Connections(s)]
    BY <1>4, Zenon DEF WatchExit
  <2>3. targets' \in [Session -> SUBSET Conn]
    BY <2>1, <2>2
  <2> QED BY <1>4, <2>3 DEF WatchExit
<1>5. CASE ExitCleanup(s)
  BY <1>5, ScheduleCleanupType DEF ExitCleanup
<1>6. CASE TimerFire(s)
  BY <1>6 DEF TimerFire
<1>7. ASSUME NEW g \in cleanups[s], Cleanup(s, g) PROVE TypeOK'
  BY <1>7 DEF Cleanup, Remove
<1>8. CASE Reap(s)
  BY <1>8 DEF Reap, CloseSockets
<1> QED BY <1>1, <1>2, <1>3, <1>4, <1>5, <1>6, <1>7, <1>8 DEF SessionStep

\* ... and every step of a shutdown.
LEMMA ShutdownTypeOK ==
    ASSUME TypeOK, Shutdown
    PROVE  TypeOK'
BY DEF TypeOK, Shutdown, CloseConnections, CloseManager, MainReturns, CloseSockets,
       managerVars, processVars, handlerVars

\* Every step keeps the pump's invariant.
LEMMA PumpStep ==
    ASSUME TypeInv, [Next]_vars
    PROVE  PumpInv'
<1> USE DEF TypeInv, TypeOK, managerVars, processVars, handlerVars
<1>1. ASSUME UNCHANGED <<process, pump, targets, history, result>>
      PROVE  PumpInv'
  BY <1>1 DEF PumpInv
<1>2. ASSUME NEW c \in Conn, Handler(c)
      PROVE  PumpInv'
  <2>1. ASSUME NEW s \in Session, AttachCreate(c, s) PROVE PumpInv'
    <3>1. result'[c].session = s /\ result'[c].created
      BY <2>1 DEF AttachCreate, NoResult
    <3>2. \A d \in Conn : d # c => result'[d] = result[d]
      BY <2>1 DEF AttachCreate
    <3>3. /\ process[s] = "none"
          /\ process' = [process EXCEPT ![s] = "running"]
          /\ UNCHANGED <<pump, targets, history>>
      BY <2>1 DEF AttachCreate
    <3>4. pump[s] = "off" /\ \A d \in Conn : result[d].created => result[d].session # s
      BY <3>3 DEF PumpInv
    <3>5. \A t \in Session : process'[t] = "none" => process[t] = "none"
      BY <3>3
    <3>6. \A d \in Conn : result'[d].created =>
              /\ result'[d].session \in Session
              /\ pump'[result'[d].session] = "off"
              /\ process'[result'[d].session] # "none"
      <4> TAKE d \in Conn
      <4>1. CASE d = c
        BY <4>1, <3>1, <3>3, <3>4
      <4>2. CASE d # c
        BY <4>2, <3>2, <3>3 DEF PumpInv
      <4> QED BY <4>1, <4>2
    <3>7. \A d, e \in Conn : result'[d].created /\ result'[e].created
                              /\ result'[d].session = result'[e].session => d = e
      <4> SUFFICES ASSUME NEW d \in Conn, NEW e \in Conn, result'[d].created, result'[e].created,
                          result'[d].session = result'[e].session
                   PROVE  d = e
        OBVIOUS
      <4>1. CASE d # c /\ e # c
        BY <4>1, <3>2 DEF PumpInv
      <4>2. CASE d = c /\ e # c
        BY <4>2, <3>1, <3>2, <3>4
      <4>3. CASE d # c /\ e = c
        BY <4>3, <3>1, <3>2, <3>4
      <4> QED BY <4>1, <4>2, <4>3
    <3> QED BY <3>3, <3>5, <3>6, <3>7 DEF PumpInv
  <2>2. ASSUME NEW s \in Session, AttachWatch(c, s) \/ AttachControl(c, s) PROVE PumpInv'
    <3>1. ~result'[c].created
      BY <2>2 DEF AttachWatch, AttachControl, Grant
    <3>2. \A d \in Conn : d # c => result'[d] = result[d]
      BY <2>2 DEF AttachWatch, AttachControl, Grant
    <3>3. UNCHANGED <<process, pump, targets, history>>
      BY <2>2 DEF AttachWatch, AttachControl
    <3> QED BY <3>1, <3>2, <3>3, ZenonT(60) DEF PumpInv
  <2>3. CASE HandshakeOk(c) \/ UndoAttach(c)
    <3>1. ~result'[c].created
      BY <2>3 DEF HandshakeOk, UndoAttach, NoResult
    <3>2. \A d \in Conn : d # c => result'[d] = result[d]
      BY <2>3 DEF HandshakeOk, UndoAttach
    <3>3. UNCHANGED <<process, targets, history>>
      BY <2>3 DEF HandshakeOk, UndoAttach
    <3>4. StartPump(c)
      BY <2>3 DEF HandshakeOk, UndoAttach
    <3>5. CASE result[c].created
      <4>1. /\ result[c].session \in Session
            /\ pump[result[c].session] = "off"
            /\ process[result[c].session] # "none"
            /\ \A d \in Conn : d # c /\ result[d].created
                                  => result[d].session # result[c].session
        BY <3>5 DEF PumpInv
      <4>2. targets[result[c].session] = {}
        BY <4>1 DEF PumpInv
      <4>3. pump' = [pump EXCEPT ![result[c].session] = "forward"]
        BY <3>4, <3>5 DEF StartPump
      <4>4. \A d \in Conn : result'[d].created => d # c /\ result[d].created
        BY <3>1, <3>2
      <4>5. \A d \in Conn : result'[d].created =>
                /\ result'[d].session \in Session
                /\ pump'[result'[d].session] = "off"
                /\ process'[result'[d].session] # "none"
        BY <3>2, <3>3, <4>1, <4>3, <4>4 DEF PumpInv
      <4>6. \A d, e \in Conn : result'[d].created /\ result'[e].created
                                /\ result'[d].session = result'[e].session => d = e
        BY <3>2, <4>4 DEF PumpInv
      <4>7. \A t \in Session :
              /\ process'[t] = "none" => pump'[t] = "off"
              /\ targets'[t] # {} => pump'[t] \in {"forward", "exit"}
              /\ pump'[t] = "forward" /\ targets'[t] # {} => history'[t].to > 0
        <5> TAKE t \in Session
        <5>1. CASE t = result[c].session
          BY <5>1, <3>3, <4>1, <4>2, <4>3
        <5>2. CASE t # result[c].session
          <6>1. pump'[t] = pump[t]
            BY <5>2, <4>1, <4>3
          <6> QED BY <6>1, <3>3 DEF PumpInv
        <5> QED BY <5>1, <5>2
      <4> HIDE DEF TypeInv, TypeOK
      <4> QED BY <4>5, <4>6, <4>7 DEF PumpInv
    <3>6. CASE ~result[c].created
      <4>1. pump' = pump
        BY <3>4, <3>6 DEF StartPump
      <4> QED BY <3>1, <3>2, <3>3, <4>1, ZenonT(60) DEF PumpInv
    <3> QED BY <3>5, <3>6
  <2>4. CASE \/ Upgrade(c) \/ Reply(c) \/ HandshakeFail(c) \/ CallError(c) \/ Rename(c)
             \/ PeerDrop(c) \/ Leave(c) \/ \E s \in Session : AttachRefused(c, s)
             \/ \E op \in {"input", "resize"} : BeginCall(c, op) \/ CallOk(c, op)
    BY <2>4, <1>1 DEF Upgrade, Reply, HandshakeFail, CallError, Rename, PeerDrop, Leave,
       AttachRefused, BeginCall, CallOk
  <2> QED BY <1>2, <2>1, <2>2, <2>3, <2>4 DEF Handler
<1>3. ASSUME NEW s \in Session, SessionStep(s)
      PROVE  PumpInv'
  <2>1. CASE ProcessEnd(s)
    BY <2>1 DEF ProcessEnd, PumpInv
  <2>2. CASE ForwardChunk(s)
    <3>1. CASE s \in sessions
      <4>1. history[s].to \in Nat /\ pump[s] = "forward" /\ UNCHANGED <<process, pump, result>>
        BY <2>2, <3>1 DEF ForwardChunk, Position
      <4>2. \A t \in Session : t # s => history'[t] = history[t] /\ targets'[t] = targets[t]
        BY <2>2, <3>1 DEF ForwardChunk
      <4>3. history'[s].to > 0
        BY <2>2, <3>1, <4>1 DEF ForwardChunk
      <4> QED BY <4>1, <4>2, <4>3 DEF PumpInv
    <3>2. CASE s \notin sessions
      <4>1. /\ UNCHANGED <<process, targets, history, result>>
            /\ pump' = [pump EXCEPT ![s] = "wait"]
            /\ pump[s] = "forward"
            /\ targets[s] = {}
        BY <2>2, <3>2 DEF ForwardChunk
      <4> QED BY <4>1 DEF PumpInv
    <3> QED BY <3>1, <3>2
  <2>3. ASSUME NEW c \in Conn, Deliver(s, c) PROVE PumpInv'
    BY <2>3 DEF Deliver, PumpInv
  <2>4. CASE WatchExit(s)
    <3>1. /\ UNCHANGED <<process, history, result>>
          /\ pump[s] # "off"
          /\ pump'[s] \in {"exit", "done"}
          /\ pump' \in {[pump EXCEPT ![s] = "exit"], [pump EXCEPT ![s] = "done"]}
          /\ pump'[s] = "done" => targets'[s] = {}
          /\ \A t \in Session : t # s => targets'[t] = targets[t]
      <4>1. CASE s \in sessions
        <5>1. targets' = [targets EXCEPT ![s] = Connections(s)]
          BY <2>4, <4>1 DEF WatchExit
        <5>2. \A t \in Session : t # s => targets'[t] = targets[t]
          BY <5>1
        <5> QED BY <2>4, <4>1, <5>2 DEF WatchExit
      <4>2. CASE s \notin sessions
        BY <2>4, <4>2 DEF WatchExit
      <4> QED BY <4>1, <4>2
    <3>2. \A t \in Session : t # s => pump'[t] = pump[t]
      BY <3>1
    <3>3. \A t \in Session :
              /\ process'[t] = "none" => pump'[t] = "off"
              /\ targets'[t] # {} => pump'[t] \in {"forward", "exit"}
              /\ pump'[t] = "forward" /\ targets'[t] # {} => history'[t].to > 0
      <4> TAKE t \in Session
      <4>1. CASE t = s
        BY <4>1, <3>1 DEF PumpInv
      <4>2. CASE t # s
        BY <4>2, <3>1, <3>2 DEF PumpInv
      <4> QED BY <4>1, <4>2
    <3>4. \A d \in Conn : result'[d].created =>
              /\ result'[d].session \in Session
              /\ pump'[result'[d].session] = "off"
              /\ process'[result'[d].session] # "none"
      BY <3>1, <3>2 DEF PumpInv
    <3>5. \A d, e \in Conn : result'[d].created /\ result'[e].created
                              /\ result'[d].session = result'[e].session => d = e
      BY <3>1 DEF PumpInv
    <3> HIDE DEF TypeInv, TypeOK
    <3> QED BY <3>3, <3>4, <3>5 DEF PumpInv
  <2>5. CASE ExitCleanup(s)
    BY <2>5 DEF ExitCleanup, PumpInv
  <2>6. CASE TimerFire(s) \/ (\E g \in cleanups[s] : Cleanup(s, g)) \/ Reap(s)
    BY <2>6, <1>1 DEF TimerFire, Cleanup, Reap
  <2> QED BY <1>3, <2>1, <2>2, <2>3, <2>4, <2>5, <2>6 DEF SessionStep
<1>4. CASE Shutdown \/ UNCHANGED vars
  BY <1>1, <1>4 DEF Shutdown, CloseConnections, CloseManager, MainReturns, vars
<1>5. CASE Next
  BY <1>2, <1>3, <1>4, <1>5 DEF Next, Terminated
<1> QED BY <1>4, <1>5

\* Every step keeps the type invariant.
LEMMA TypeStep ==
    ASSUME TypeInv, [Next]_vars
    PROVE  TypeInv'
<1>1. CASE UNCHANGED vars
  BY <1>1 DEF TypeInv, TypeOK, PumpInv, vars, managerVars, processVars, handlerVars
<1>2. CASE Next
  <2>1. TypeOK'
    BY <1>1, <1>2, HandlerTypeOK, SessionTypeOK, ShutdownTypeOK DEF Next, Terminated, TypeInv
  <2> QED BY <2>1, <1>2, PumpStep DEF TypeInv
<1> QED BY <1>1, <1>2

\* The variables of the session core keep their types in every execution.
THEOREM TypeCorrect == Spec => []TypeOK
<1>1. Init => TypeInv
  BY InitType
<1>2. TypeInv /\ [Next]_vars => TypeInv'
  BY TypeStep
<1>3. TypeInv => TypeOK
  BY DEF TypeInv
<1> QED BY <1>1, <1>2, <1>3, PTL DEF Spec

-----------------------------------------------------------------------------
(* Roles.  RoleAgreement is made inductive by what is known of sessions that  *)
(* do not exist yet and of the locals of a handler at each program counter.   *)

\* A session id that was never handed out is known to nobody.
UnbornUnused ==
    \A s \in Session : process[s] = "none" =>
        /\ s \notin sessions
        /\ controller[s] = NoConn
        /\ watchers[s] = {}
        /\ \A c \in Conn : active[c] # s /\ result[c].session # s

\* The locals of a handler at each program counter.
HandlerLocals ==
    \A c \in Conn :
        /\ pc[c] \in {"new", "handshake", "undo"} => active[c] = NoSession
        /\ pc[c] \in {"handshake", "undo"} => result[c].session \in Session
        /\ pc[c] \in {"input", "resize"} => active[c] \in Session /\ ~readOnly[c]

RoleInv == RoleAgreement /\ UnbornUnused /\ HandlerLocals

\* What a handler believes depends on its own locals only.
LEMMA BelievesFrame ==
    ASSUME NEW c \in Conn, UNCHANGED <<pc[c], active[c], readOnly[c], result[c]>>,
           NEW s, NEW ro
    PROVE  Believes(c, s, ro)' <=> Believes(c, s, ro)
BY DEF Believes

\* A step that leaves roles and beliefs alone keeps RoleAgreement; the map of
\* sessions may shrink.
LEMMA RoleFrame ==
    ASSUME RoleAgreement,
           sessions' \subseteq sessions,
           UNCHANGED <<controller, watchers>>,
           \A c \in Conn, s \in sessions, ro \in BOOLEAN :
               Believes(c, s, ro)' <=> Believes(c, s, ro)
    PROVE  RoleAgreement'
BY DEF RoleAgreement

\* Every step keeps HandlerLocals.
LEMMA HandlerLocalsStep ==
    ASSUME TypeInv, HandlerLocals, [Next]_vars
    PROVE  HandlerLocals'
<1> USE DEF TypeInv, TypeOK, managerVars, processVars, handlerVars
<1>1. ASSUME UNCHANGED <<pc, active, readOnly, result>>
      PROVE  HandlerLocals'
  BY <1>1 DEF HandlerLocals
<1>2. ASSUME NEW c \in Conn, Handler(c)
      PROVE  HandlerLocals'
  <2>0. ASSUME \A d \in Conn \ {c} : UNCHANGED <<pc[d], active[d], readOnly[d], result[d]>>,
               /\ pc'[c] \in {"new", "handshake", "undo"} => active'[c] = NoSession
               /\ pc'[c] \in {"handshake", "undo"} => result'[c].session \in Session
               /\ pc'[c] \in {"input", "resize"} => active'[c] \in Session /\ ~readOnly'[c]
        PROVE  HandlerLocals'
    BY <2>0 DEF HandlerLocals
  <2>1. CASE Reply(c) \/ Rename(c) \/ PeerDrop(c) \/ \E s \in Session : AttachRefused(c, s)
    BY <2>1, <1>1 DEF Reply, Rename, PeerDrop, AttachRefused
  <2>2. CASE Upgrade(c) \/ Leave(c) \/ CallError(c)
             \/ \E op \in {"input", "resize"} : CallOk(c, op)
    BY <2>2, <2>0 DEF Upgrade, Leave, CallError, CallOk
  <2>3. ASSUME NEW s \in Session, AttachCreate(c, s) PROVE HandlerLocals'
    BY <2>3, <2>0 DEF AttachCreate, MayAttach, NoResult
  <2>4. ASSUME NEW s \in Session, AttachWatch(c, s) \/ AttachControl(c, s) PROVE HandlerLocals'
    BY <2>4, <2>0 DEF AttachWatch, AttachControl, MayAttach, Grant
  <2>5. CASE HandshakeOk(c)
    BY <2>5, <2>0 DEF HandshakeOk
  <2>6. CASE HandshakeFail(c)
    BY <2>6, <2>0 DEF HandshakeFail, HandlerLocals
  <2>7. CASE UndoAttach(c)
    BY <2>7, <2>0 DEF UndoAttach
  <2>8. ASSUME NEW op \in {"input", "resize"}, BeginCall(c, op) PROVE HandlerLocals'
    BY <2>8, <2>0 DEF BeginCall, MaySteer
  <2> QED BY <1>2, <2>1, <2>2, <2>3, <2>4, <2>5, <2>6, <2>7, <2>8 DEF Handler
<1>3. ASSUME NEW s \in Session, SessionStep(s)
      PROVE  HandlerLocals'
  BY <1>1, <1>3 DEF SessionStep, ProcessEnd, ForwardChunk, Deliver, WatchExit, ExitCleanup,
     TimerFire, Cleanup, Reap
<1>4. CASE Shutdown \/ UNCHANGED vars
  BY <1>1, <1>4 DEF Shutdown, CloseConnections, CloseManager, MainReturns, vars
<1>5. CASE Next
  BY <1>2, <1>3, <1>4, <1>5 DEF Next, Terminated
<1> QED BY <1>4, <1>5

\* Detach changes the roles of c in s only, and of nobody if s is not listed.
LEMMA DetachRoles ==
    ASSUME TypeOK, NEW s, NEW c \in Conn, Detach(s, c)
    PROVE  /\ \A t \in Session : t # s \/ s \notin sessions =>
                 UNCHANGED <<controller[t], watchers[t]>>
           /\ s \in sessions =>
                 /\ controller'[s] = IF controller[s] = c THEN NoConn ELSE controller[s]
                 /\ watchers'[s] = watchers[s] \ {c}
<1>1. CASE s \notin sessions
  BY <1>1, DetachUnlisted
<1>2. CASE s \in sessions
  <2>1. /\ controller' = [controller EXCEPT ![s] = IF controller[s] = c THEN NoConn
                                                   ELSE controller[s]]
        /\ watchers' = [watchers EXCEPT ![s] = watchers[s] \ {c}]
    BY <1>2, DetachListed
  <2> QED BY <1>2, <2>1 DEF TypeOK
<1> QED BY <1>1, <1>2

\* A step that changes nothing about unborn sessions keeps UnbornUnused.
LEMMA UnbornFrame ==
    ASSUME UnbornUnused,
           \A t \in Session : process'[t] = "none" =>
               /\ process[t] = "none"
               /\ t \in sessions' => t \in sessions
               /\ controller'[t] = controller[t] /\ watchers'[t] = watchers[t]
               /\ \A d \in Conn : active'[d] = t => active[d] = t \/ result[d].session = t
               /\ \A d \in Conn : result'[d].session = t => result[d].session = t
    PROVE  UnbornUnused'
BY DEF UnbornUnused

\* Every step keeps UnbornUnused.
LEMMA UnbornUnusedStep ==
    ASSUME TypeInv, UnbornUnused, [Next]_vars
    PROVE  UnbornUnused'
<1> USE DEF TypeInv, TypeOK, managerVars, processVars, handlerVars
<1>1. ASSUME UNCHANGED <<process, controller, watchers, active, result>>, sessions' \subseteq sessions
      PROVE  UnbornUnused'
  BY <1>1, UnbornFrame
<1>2. ASSUME NEW c \in Conn, Handler(c)
      PROVE  UnbornUnused'
  <2>1. CASE Reply(c) \/ Rename(c) \/ PeerDrop(c) \/ (\E s \in Session : AttachRefused(c, s))
             \/ Upgrade(c) \/ HandshakeFail(c) \/ CallError(c)
             \/ \E op \in {"input", "resize"} : BeginCall(c, op) \/ CallOk(c, op)
    BY <2>1, <1>1 DEF Reply, Rename, PeerDrop, AttachRefused, Upgrade, HandshakeFail, CallError,
       BeginCall, CallOk
  <2>2. ASSUME NEW s \in Session, AttachCreate(c, s) PROVE UnbornUnused'
    <3>1. result'[c].session = s /\ \A d \in Conn : d # c => result'[d] = result[d]
      BY <2>2 DEF AttachCreate, NoResult
    <3> QED BY <2>2, <3>1, UnbornFrame DEF AttachCreate
  <2>3. ASSUME NEW s \in Session, AttachWatch(c, s) \/ AttachControl(c, s) PROVE UnbornUnused'
    <3>1. process[s] # "none" /\ UNCHANGED <<process, sessions, active>>
      BY <2>3 DEF AttachWatch, AttachControl, UnbornUnused
    <3>2. result'[c].session = s /\ \A d \in Conn : d # c => result'[d] = result[d]
      BY <2>3 DEF AttachWatch, AttachControl, Grant
    <3>3. \A t \in Session : t # s => UNCHANGED <<controller[t], watchers[t]>>
      BY <2>3 DEF AttachWatch, AttachControl
    <3> QED BY <3>1, <3>2, <3>3, UnbornFrame
  <2>4. CASE HandshakeOk(c)
    <3>1. result'[c].session = NoSession /\ \A d \in Conn : d # c => result'[d] = result[d]
      BY <2>4 DEF HandshakeOk, NoResult
    <3>2. active'[c] = result[c].session /\ \A d \in Conn : d # c => active'[d] = active[d]
      BY <2>4 DEF HandshakeOk
    <3>3. UNCHANGED <<process, sessions, controller, watchers>>
      BY <2>4 DEF HandshakeOk
    <3>4. \A t \in Session, d \in Conn :
              /\ active'[d] = t => active[d] = t \/ result[d].session = t
              /\ result'[d].session = t => result[d].session = t
      <4> TAKE t \in Session, d \in Conn
      <4>1. t # NoSession
        BY ConstantsOK
      <4> HIDE DEF TypeInv, TypeOK
      <4> QED BY <3>1, <3>2, <4>1
    <3> QED BY <3>3, <3>4, UnbornFrame
  <2>5. CASE UndoAttach(c)
    <3>1. result'[c].session = NoSession /\ \A d \in Conn : d # c => result'[d] = result[d]
      BY <2>5 DEF UndoAttach, NoResult
    <3>2. UNCHANGED <<process, sessions, active>> /\ Detach(result[c].session, c)
      BY <2>5 DEF UndoAttach
    <3>3. \A t \in Session : process[t] = "none" => UNCHANGED <<controller[t], watchers[t]>>
      BY <3>2, DetachRoles DEF UnbornUnused
    <3>4. \A t \in Session, d \in Conn : result'[d].session = t => result[d].session = t
      <4> TAKE t \in Session, d \in Conn
      <4>1. t # NoSession
        BY ConstantsOK
      <4> HIDE DEF TypeInv, TypeOK
      <4> QED BY <3>1, <4>1
    <3> QED BY <3>2, <3>3, <3>4, UnbornFrame
  <2>6. CASE Leave(c)
    <3>1. UNCHANGED <<process, sessions, active, result>> /\ Detach(active[c], c)
      BY <2>6 DEF Leave
    <3>2. \A t \in Session : process[t] = "none" => UNCHANGED <<controller[t], watchers[t]>>
      BY <3>1, DetachRoles DEF UnbornUnused
    <3> QED BY <3>1, <3>2, UnbornFrame
  <2> QED BY <1>2, <2>1, <2>2, <2>3, <2>4, <2>5, <2>6 DEF Handler
<1>3. ASSUME NEW s \in Session, SessionStep(s)
      PROVE  UnbornUnused'
  <2>1. CASE ProcessEnd(s)
    BY <2>1, UnbornFrame DEF ProcessEnd
  <2> QED BY <2>1, <1>1, <1>3 DEF SessionStep, ForwardChunk, Deliver, WatchExit, ExitCleanup,
          TimerFire, Cleanup, Remove, Reap
<1>4. CASE Shutdown \/ UNCHANGED vars
  BY <1>1, <1>4 DEF Shutdown, CloseConnections, CloseManager, MainReturns, vars
<1>5. CASE Next
  BY <1>2, <1>3, <1>4, <1>5 DEF Next, Terminated
<1> QED BY <1>4, <1>5

\* RoleAgreement, one session and one connection at a time.
Agrees(s, c) ==
    /\ controller[s] = c <=> Believes(c, s, FALSE)
    /\ c \in watchers[s] <=> Believes(c, s, TRUE)

\* RoleAgreement, one session and one connection at a time.
LEMMA AgreesAll == RoleAgreement <=> \A s \in sessions, c \in Conn : Agrees(s, c)
BY DEF RoleAgreement, Agrees

\* Every step keeps RoleAgreement.
LEMMA RoleAgreementStep ==
    ASSUME TypeInv, RoleInv, [Next]_vars
    PROVE  RoleAgreement'
<1> USE DEF TypeInv, RoleInv, TypeOK, managerVars, processVars, handlerVars
<1>1. ASSUME UNCHANGED <<pc, active, readOnly, result, controller, watchers>>,
             sessions' \subseteq sessions
      PROVE  RoleAgreement'
  BY <1>1, RoleFrame, BelievesFrame
<1>2. ASSUME NEW c \in Conn, Handler(c)
      PROVE  RoleAgreement'
  <2>0. ASSUME \A d \in Conn \ {c} : UNCHANGED <<pc[d], active[d], readOnly[d], result[d]>>
        PROVE  \A d \in Conn \ {c}, s \in Session, ro \in BOOLEAN :
                   Believes(d, s, ro)' <=> Believes(d, s, ro)
    BY <2>0, BelievesFrame
  <2>1. ASSUME \A d \in Conn \ {c} : UNCHANGED <<pc[d], active[d], readOnly[d], result[d]>>,
               UNCHANGED <<sessions, controller, watchers>>,
               \A s \in Session, ro \in BOOLEAN : Believes(c, s, ro)' <=> Believes(c, s, ro)
        PROVE  RoleAgreement'
    <3>1. \A d \in Conn, s \in sessions, ro \in BOOLEAN : Believes(d, s, ro)' <=> Believes(d, s, ro)
      BY <2>0, <2>1, ZenonT(60)
    <3> QED BY <2>1, <3>1, RoleFrame
  <2>2. CASE Reply(c) \/ Rename(c) \/ PeerDrop(c) \/ (\E s \in Session : AttachRefused(c, s))
    BY <2>2, <1>1 DEF Reply, Rename, PeerDrop, AttachRefused
  <2>3. CASE Upgrade(c)
    BY <2>3, <2>1, ConstantsOK DEF Upgrade, Believes, HandlerLocals
  <2>4. CASE HandshakeFail(c)
    BY <2>4, <2>1 DEF HandshakeFail, Believes
  <2>5. CASE CallError(c) \/ \E op \in {"input", "resize"} : BeginCall(c, op) \/ CallOk(c, op)
    BY <2>5, <2>1 DEF CallError, BeginCall, CallOk, Receive, Believes
  <2>6. CASE HandshakeOk(c)
    BY <2>6, <2>1 DEF HandshakeOk, Believes
  \* The attaches.
  <2>7. ASSUME NEW s \in Session, AttachCreate(c, s)
        PROVE  RoleAgreement'
    <3>1. /\ pc[c] = "loop" /\ pc'[c] = "handshake" /\ active[c] = NoSession
          /\ result'[c].session = s /\ ~result'[c].readOnly
      BY <2>7 DEF AttachCreate, Receive, MayAttach, NoResult
    <3>2. \A d \in Conn \ {c} : UNCHANGED <<pc[d], active[d], readOnly[d], result[d]>>
      BY <2>7 DEF AttachCreate
    <3>3. /\ process[s] = "none" /\ sessions' = sessions \cup {s}
          /\ controller'[s] = c /\ watchers' = watchers
          /\ \A t \in Session \ {s} : controller'[t] = controller[t]
      BY <2>7 DEF AttachCreate
    <3>4. \A d \in Conn, ro \in BOOLEAN : ~Believes(d, s, ro)
      BY <3>3 DEF UnbornUnused, Believes
    <3>5. \A t \in Session \ {s}, ro \in BOOLEAN : ~Believes(c, t, ro) /\ ~Believes(c, t, ro)'
      BY <3>1, ConstantsOK DEF Believes
    <3>6. Believes(c, s, FALSE)' /\ ~Believes(c, s, TRUE)'
      BY <3>1 DEF Believes
    <3>7. watchers[s] = {}
      BY <3>3 DEF UnbornUnused
    <3>8. controller[s] = NoConn
      BY <3>3 DEF UnbornUnused
    <3>9. \A d \in Conn \ {c}, t \in Session, ro \in BOOLEAN :
              Believes(d, t, ro)' <=> Believes(d, t, ro)
      BY <2>0, <3>2
    <3> SUFFICES ASSUME NEW t \in sessions', NEW d \in Conn PROVE Agrees(t, d)'
      BY DEF RoleAgreement, Agrees
    <3>0. t \in Session /\ sessions \subseteq Session /\ sessions' \subseteq Session
      BY TypeStep
    <3> HIDE DEF TypeInv, TypeOK
    <3>10. CASE t = s /\ d = c
      BY <3>10, <3>3, <3>6, <3>7, <3>0 DEF Agrees
    <3>11. CASE t = s /\ d # c
      BY <3>11, <3>3, <3>4, <3>7, <3>9, <3>0 DEF Agrees
    <3>12. CASE t # s
      <4>1. t \in sessions /\ Agrees(t, d)
        BY <3>3, <3>12, AgreesAll
      <4> QED BY <4>1, <3>3, <3>5, <3>9, <3>12, <3>0 DEF Agrees
    <3> QED BY <3>10, <3>11, <3>12
  <2>8. ASSUME NEW s \in Session, AttachWatch(c, s)
        PROVE  RoleAgreement'
    <3>1. /\ pc[c] = "loop" /\ pc'[c] = "handshake" /\ active[c] = NoSession
          /\ result'[c].session = s /\ result'[c].readOnly
      BY <2>8 DEF AttachWatch, Receive, MayAttach, Grant
    <3>2. \A d \in Conn \ {c} : UNCHANGED <<pc[d], active[d], readOnly[d], result[d]>>
      BY <2>8 DEF AttachWatch, Grant
    <3>3. /\ s \in sessions /\ UNCHANGED <<sessions, controller>>
          /\ watchers'[s] = watchers[s] \cup {c}
          /\ \A t \in Session \ {s} : watchers'[t] = watchers[t]
      BY <2>8 DEF AttachWatch
    <3>4. \A t \in Session, ro \in BOOLEAN : ~Believes(c, t, ro)
      BY <3>1, ConstantsOK DEF Believes
    <3>5. \A t \in Session, ro \in BOOLEAN : Believes(c, t, ro)' <=> t = s /\ ro = result'[c].readOnly
      BY <3>1, ConstantsOK DEF Believes
    <3>6. result'[c].readOnly = TRUE
      BY <2>8 DEF AttachWatch, Grant
    <3>7. \A d \in Conn \ {c}, t \in Session, ro \in BOOLEAN :
              Believes(d, t, ro)' <=> Believes(d, t, ro)
      BY <2>0, <3>2
    <3> SUFFICES ASSUME NEW t \in sessions', NEW d \in Conn PROVE Agrees(t, d)'
      BY DEF RoleAgreement, Agrees
    <3>0. t \in Session /\ sessions \subseteq Session /\ sessions' \subseteq Session
      BY TypeStep
    <3> HIDE DEF TypeInv, TypeOK
    <3>8. t \in sessions /\ Agrees(t, d)
      BY <3>3, AgreesAll
    <3>9. CASE d = c
      BY <3>8, <3>9, <3>3, <3>4, <3>5, <3>6, <3>0 DEF Agrees
    <3>10. CASE d # c
      BY <3>8, <3>10, <3>3, <3>7, <3>0 DEF Agrees
    <3> QED BY <3>9, <3>10
  <2>9. ASSUME NEW s \in Session, AttachControl(c, s)
        PROVE  RoleAgreement'
    <3>1. /\ pc[c] = "loop" /\ pc'[c] = "handshake" /\ active[c] = NoSession
          /\ result'[c].session = s /\ result'[c].readOnly = FALSE
      BY <2>9 DEF AttachControl, Receive, MayAttach, Grant
    <3>2. \A d \in Conn \ {c} : UNCHANGED <<pc[d], active[d], readOnly[d], result[d]>>
      BY <2>9 DEF AttachControl, Grant
    <3>3. /\ s \in sessions /\ UNCHANGED <<sessions, watchers>>
          /\ controller[s] \in {NoConn, c}
          /\ controller'[s] = c
          /\ \A t \in Session \ {s} : controller'[t] = controller[t]
      BY <2>9 DEF AttachControl, MayControl
    <3>4. \A t \in Session, ro \in BOOLEAN : ~Believes(c, t, ro)
      BY <3>1, ConstantsOK DEF Believes
    <3>5. \A t \in Session, ro \in BOOLEAN : Believes(c, t, ro)' <=> t = s /\ ro = FALSE
      BY <3>1, ConstantsOK DEF Believes
    <3>6. \A d \in Conn : d # c => ~Believes(d, s, FALSE)
      <4>1. \A d \in Conn : d # c => controller[s] # d
        BY <3>3, ConstantsOK
      <4> QED BY <4>1, <3>3 DEF RoleAgreement
    <3>7. \A d \in Conn \ {c}, t \in Session, ro \in BOOLEAN :
              Believes(d, t, ro)' <=> Believes(d, t, ro)
      BY <2>0, <3>2
    <3> SUFFICES ASSUME NEW t \in sessions', NEW d \in Conn PROVE Agrees(t, d)'
      BY DEF RoleAgreement, Agrees
    <3>0. t \in Session /\ sessions \subseteq Session /\ sessions' \subseteq Session
      BY TypeStep
    <3> HIDE DEF TypeInv, TypeOK
    <3>8. t \in sessions /\ Agrees(t, d)
      BY <3>3, AgreesAll
    <3>9. CASE d = c
      <4>1. CASE t = s
        BY <3>8, <3>9, <4>1, <3>3, <3>4, <3>5, <3>0 DEF Agrees
      <4>2. CASE t # s
        BY <3>8, <3>9, <4>2, <3>3, <3>4, <3>5, <3>0 DEF Agrees
      <4> QED BY <4>1, <4>2
    <3>10. CASE d # c /\ t = s
      BY <3>8, <3>10, <3>3, <3>6, <3>7, <3>0 DEF Agrees
    <3>11. CASE d # c /\ t # s
      BY <3>8, <3>11, <3>3, <3>7, <3>0 DEF Agrees
    <3> QED BY <3>9, <3>10, <3>11
  \* The detaches.
  <2>10. ASSUME NEW s, Detach(s, c), sessions' = sessions,
                \A d \in Conn \ {c} : UNCHANGED <<pc[d], active[d], readOnly[d], result[d]>>,
                pc'[c] = "done",
                \A t \in Session, ro \in BOOLEAN : Believes(c, t, ro) => t = s
         PROVE  RoleAgreement'
    <3>1. \A t \in Session, ro \in BOOLEAN : ~Believes(c, t, ro)'
      BY <2>10 DEF Believes
    <3>2. /\ \A t \in Session : t # s \/ s \notin sessions =>
                controller'[t] = controller[t] /\ watchers'[t] = watchers[t]
          /\ s \in sessions =>
                /\ controller'[s] = IF controller[s] = c THEN NoConn ELSE controller[s]
                /\ watchers'[s] = watchers[s] \ {c}
      BY <2>10, DetachRoles
    <3>3. \A d \in Conn \ {c}, t \in Session, ro \in BOOLEAN :
              Believes(d, t, ro)' <=> Believes(d, t, ro)
      BY <2>0, <2>10
    <3> SUFFICES ASSUME NEW t \in sessions', NEW d \in Conn PROVE Agrees(t, d)'
      BY DEF RoleAgreement, Agrees
    <3>0. t \in Session /\ sessions \subseteq Session /\ sessions' \subseteq Session
      BY TypeStep
    <3> HIDE DEF TypeInv, TypeOK
    <3>4. t \in sessions /\ Agrees(t, d)
      BY <2>10, AgreesAll
    <3>5. CASE d = c /\ t = s
      BY <3>1, <3>2, <3>4, <3>5, ConstantsOK, <3>0 DEF Agrees
    <3>6. CASE d = c /\ t # s
      <4>1. \A ro \in BOOLEAN : ~Believes(c, t, ro)
        BY <2>10, <3>4, <3>6, <3>0
      <4> QED BY <3>1, <3>2, <3>4, <3>6, <4>1, <3>0 DEF Agrees
    <3>7. CASE d # c /\ t = s
      BY <3>2, <3>3, <3>4, <3>7, ConstantsOK, <3>0 DEF Agrees
    <3>8. CASE d # c /\ t # s
      BY <3>2, <3>3, <3>4, <3>8, <3>0 DEF Agrees
    <3> QED BY <3>5, <3>6, <3>7, <3>8
  <2>11. CASE UndoAttach(c)
    BY <2>10, <2>11 DEF UndoAttach, Believes
  <2>12. CASE Leave(c)
    BY <2>10, <2>12 DEF Leave, Believes
  <2> QED BY <1>2, <2>2, <2>3, <2>4, <2>5, <2>6, <2>7, <2>8, <2>9, <2>11, <2>12 DEF Handler
<1>3. ASSUME NEW s \in Session, SessionStep(s)
      PROVE  RoleAgreement'
  BY <1>1, <1>3 DEF SessionStep, ProcessEnd, ForwardChunk, Deliver, WatchExit, ExitCleanup,
     TimerFire, Cleanup, Remove, Reap
<1>4. CASE Shutdown \/ UNCHANGED vars
  BY <1>1, <1>4 DEF Shutdown, CloseConnections, CloseManager, MainReturns, vars
<1>5. CASE Next
  BY <1>2, <1>3, <1>4, <1>5 DEF Next, Terminated
<1> QED BY <1>4, <1>5

\* The role a handler caches is always the role the manager has on record.
THEOREM RolesAgree == Spec => []RoleAgreement
<1>1. Init => TypeInv /\ RoleInv
  <2> SUFFICES ASSUME Init PROVE RoleInv
    BY InitType
  <2>1. UnbornUnused /\ HandlerLocals
    BY ConstantsOK DEF Init, UnbornUnused, HandlerLocals, NoResult
  <2> QED BY <2>1 DEF Init, RoleInv, RoleAgreement
<1>2. TypeInv /\ RoleInv /\ [Next]_vars => TypeInv' /\ RoleInv'
  BY TypeStep, RoleAgreementStep, UnbornUnusedStep, HandlerLocalsStep DEF RoleInv
<1>3. TypeInv /\ RoleInv => RoleAgreement
  BY DEF RoleInv
<1> QED BY <1>1, <1>2, <1>3, PTL DEF Spec

-----------------------------------------------------------------------------
(* The end of sessions: cleanup (generations, timers and callbacks in       *)
(* flight), the exit of a process, the shutdown of the server; and the      *)
(* whole life of a session, as SessionLifecycle tells it.                   *)


\* Cleanup goroutines carry old generations or the current one; a pending timer
\* carries the current one, and then no goroutine does.
Generations(s) ==
    /\ \A g \in cleanups[s] : g <= cleanupGeneration[s]
    /\ reconnectTimer[s] # 0 =>
          reconnectTimer[s] = cleanupGeneration[s] /\ cleanupGeneration[s] \notin cleanups[s]

GenerationInv == \A s \in Session : Generations(s)

\* CleanupArmed, one session at a time.
Armed(s) ==
    s \in sessions /\ Connections(s) = {} =>
        \/ reconnectTimer[s] # 0 /\ reconnectTimer[s] = cleanupGeneration[s]
        \/ cleanupGeneration[s] \in cleanups[s]
        \/ pump[s] = "exit"
        \/ ~exitInfo[s] /\ ~DetachedTTL

ArmedInv == \A s \in Session : Armed(s)

\* A process that is closed, or about to be, has been started.
ClosedInv ==
    \A s \in Session :
        closed[s] \/ reaper[s] # "none" => s \notin sessions /\ process[s] # "none"

CleanupInv == GenerationInv /\ ArmedInv /\ ClosedInv

\* ArmedInv is CleanupArmed with its quantifier over all session ids.
LEMMA ArmedAll == TypeOK => (ArmedInv <=> CleanupArmed)
BY DEF ArmedInv, Armed, CleanupArmed, TypeOK

\* A connection is one of those of the session it controls or watches.
LEMMA ConnectionsEmpty ==
    ASSUME TypeOK, NEW s \in Session
    PROVE  Connections(s) = {} <=> controller[s] = NoConn /\ watchers[s] = {}
BY DEF Connections

\* scheduleCleanupLocked arms a timer that the generation check will accept.
LEMMA ScheduleEffect ==
    ASSUME TypeOK, NEW s \in Session, NEW h \in BOOLEAN, ScheduleCleanup(s, h), Generations(s),
           UNCHANGED cleanups[s]
    PROVE  /\ Generations(s)'
           /\ exitInfo[s] \/ ~h => reconnectTimer'[s] # 0
                                   /\ reconnectTimer'[s] = cleanupGeneration'[s]
           /\ \A t \in Session \ {s} : /\ reconnectTimer'[t] = reconnectTimer[t]
                                       /\ cleanupGeneration'[t] = cleanupGeneration[t]
<1>1. cleanupGeneration[s] \in Nat /\ cleanups[s] \subseteq Nat
  BY DEF TypeOK
<1>2. \A t \in Session \ {s} : /\ reconnectTimer'[t] = reconnectTimer[t]
                               /\ cleanupGeneration'[t] = cleanupGeneration[t]
  BY DEF ScheduleCleanup, TypeOK
<1>3. CASE exitInfo[s] \/ ~h
  <2>1. /\ cleanupGeneration'[s] = cleanupGeneration[s] + 1
        /\ reconnectTimer'[s] = cleanupGeneration[s] + 1
    BY <1>3 DEF ScheduleCleanup, TypeOK
  <2> QED BY <1>1, <1>2, <1>3, <2>1 DEF Generations
<1>4. CASE ~(exitInfo[s] \/ ~h)
  <2>1. cleanupGeneration'[s] = cleanupGeneration[s] /\ reconnectTimer'[s] = 0
    BY <1>4 DEF ScheduleCleanup, TypeOK
  <2> QED BY <1>2, <1>4, <2>1 DEF Generations
<1> QED BY <1>3, <1>4

\* Detach leaves a session that nobody is connected to with a cleanup armed.
LEMMA DetachEffect ==
    ASSUME TypeOK, NEW s, NEW c \in Conn, Detach(s, c), GenerationInv, ArmedInv,
           UNCHANGED <<sessions, exitInfo, cleanups>>,
           \A t \in Session : pump[t] = "exit" => pump'[t] = "exit"
    PROVE  GenerationInv' /\ ArmedInv'
<1>1. CASE s \notin sessions
  <2>1. UNCHANGED <<controller, watchers, cleanupGeneration, reconnectTimer>>
    BY <1>1, DetachUnlisted
  <2> QED BY <2>1 DEF GenerationInv, Generations, ArmedInv, Armed, Connections
<1>2. CASE s \in sessions
  <2>0. s \in Session
    BY <1>2 DEF TypeOK
  <2>1. /\ \A t \in Session : t # s => controller'[t] = controller[t] /\ watchers'[t] = watchers[t]
        /\ controller'[s] = IF controller[s] = c THEN NoConn ELSE controller[s]
        /\ watchers'[s] = watchers[s] \ {c}
    BY <1>2, DetachRoles
  <2> DEFINE h == controller'[s] # NoConn \/ watchers'[s] # {}
  <2>2. Connections(s)' = {} => ~h
    BY <2>1 DEF Connections
  <2>3. CASE exitInfo[s] \/ DetachedTTL
    <3>1. ScheduleCleanup(s, h)
      <4>1. ScheduleCleanup(s, \/ (IF controller[s] = c THEN NoConn ELSE controller[s]) # NoConn
                               \/ watchers[s] \ {c} # {})
        BY <1>2, <2>3, DetachListed
      <4> QED BY <4>1, <2>1
    <3> HIDE DEF h
    <3>2. /\ Generations(s)'
          /\ exitInfo[s] \/ ~h => reconnectTimer'[s] # 0
                                  /\ reconnectTimer'[s] = cleanupGeneration'[s]
          /\ \A t \in Session \ {s} : /\ reconnectTimer'[t] = reconnectTimer[t]
                                      /\ cleanupGeneration'[t] = cleanupGeneration[t]
      <4>1. h \in BOOLEAN
        BY DEF h
      <4> QED BY <2>0, <3>1, <4>1, ScheduleEffect DEF GenerationInv
    <3>3. ASSUME NEW t \in Session PROVE Generations(t)' /\ Armed(t)'
      <4>1. CASE t = s
        BY <4>1, <2>2, <3>2 DEF Armed
      <4>2. CASE t # s
        <5>1. Connections(t)' = Connections(t)
          BY <2>1, <4>2 DEF Connections
        <5> QED BY <4>2, <5>1, <3>2 DEF GenerationInv, Generations, ArmedInv, Armed
      <4> QED BY <4>1, <4>2
    <3> QED BY <3>3 DEF GenerationInv, ArmedInv
  <2>4. CASE ~(exitInfo[s] \/ DetachedTTL)
    <3>1. reconnectTimer' = [reconnectTimer EXCEPT ![s] = 0] /\ UNCHANGED cleanupGeneration
      BY <1>2, <2>4, DetachListed
    <3>2. /\ reconnectTimer'[s] = 0
          /\ \A t \in Session \ {s} : reconnectTimer'[t] = reconnectTimer[t]
      BY <2>0, <3>1 DEF TypeOK
    <3>3. ASSUME NEW t \in Session PROVE Generations(t)' /\ Armed(t)'
      <4>1. CASE t = s
        BY <4>1, <2>4, <3>1, <3>2 DEF Armed, GenerationInv, Generations
      <4>2. CASE t # s
        <5>1. Connections(t)' = Connections(t)
          BY <2>1, <4>2 DEF Connections
        <5> QED BY <4>2, <5>1, <3>1, <3>2 DEF GenerationInv, Generations, ArmedInv, Armed
      <4> QED BY <4>1, <4>2
    <3> QED BY <3>3 DEF GenerationInv, ArmedInv
  <2> QED BY <2>3, <2>4
<1> QED BY <1>1, <1>2

\* A step that leaves one session's timers, roles and exit alone keeps its part.
LEMMA CleanupFrame ==
    ASSUME NEW t \in Session, Generations(t), Armed(t),
           UNCHANGED <<cleanups[t], cleanupGeneration[t], reconnectTimer[t], exitInfo[t],
                       controller[t], watchers[t]>>,
           t \in sessions' => t \in sessions,
           pump[t] = "exit" => pump'[t] = "exit"
    PROVE  Generations(t)' /\ Armed(t)'
BY DEF Generations, Armed, Connections

\* A step that leaves a session connected, and invalidates its cleanup or leaves
\* it alone, keeps its part.
LEMMA CleanupConnected ==
    ASSUME TypeOK, NEW s \in Session, Generations(s), Connections(s)' # {},
           cleanups'[s] = cleanups[s],
           \/ cleanupGeneration'[s] = cleanupGeneration[s] + 1 /\ reconnectTimer'[s] = 0
           \/ UNCHANGED <<cleanupGeneration[s], reconnectTimer[s]>>
    PROVE  Generations(s)' /\ Armed(s)'
<1>1. cleanupGeneration[s] \in Nat /\ cleanups[s] \subseteq Nat
  BY DEF TypeOK
<1> QED BY <1>1 DEF Generations, Armed

\* Starting the forwarding goroutine of a session does not disturb another that
\* is about to schedule a cleanup.
LEMMA StartPumpExit ==
    ASSUME TypeInv, NEW c \in Conn, StartPump(c)
    PROVE  \A t \in Session : pump[t] = "exit" => pump'[t] = "exit"
BY DEF TypeInv, TypeOK, PumpInv, StartPump

\* Every step keeps the generations in order and the detached sessions armed.
LEMMA ArmedStep ==
    ASSUME TypeInv, GenerationInv, ArmedInv, ClosedInv, [Next]_vars
    PROVE  GenerationInv' /\ ArmedInv'
<1> USE DEF managerVars, processVars, handlerVars
<1>0. TypeOK
  BY DEF TypeInv
<1>f. ASSUME UNCHANGED <<cleanups, cleanupGeneration, reconnectTimer, exitInfo, controller, watchers>>,
             sessions' \subseteq sessions,
             \A t \in Session : pump[t] = "exit" => pump'[t] = "exit"
      PROVE  GenerationInv' /\ ArmedInv'
  BY <1>f, CleanupFrame DEF GenerationInv, ArmedInv
<1>s. ASSUME NEW s \in Session, Generations(s)' /\ Armed(s)',
             \A t \in Session \ {s} :
                 /\ UNCHANGED <<cleanups[t], cleanupGeneration[t], reconnectTimer[t], exitInfo[t],
                                controller[t], watchers[t], pump[t]>>
                 /\ t \in sessions' => t \in sessions
      PROVE  GenerationInv' /\ ArmedInv'
  BY <1>s, CleanupFrame DEF GenerationInv, ArmedInv
<1>2. ASSUME NEW c \in Conn, Handler(c)
      PROVE  GenerationInv' /\ ArmedInv'
  <2>1. CASE Reply(c) \/ Rename(c) \/ PeerDrop(c) \/ Upgrade(c) \/ HandshakeFail(c) \/ CallError(c)
             \/ \E op \in {"input", "resize"} : BeginCall(c, op) \/ CallOk(c, op)
    BY <2>1, <1>f DEF Reply, Rename, PeerDrop, Upgrade, HandshakeFail, CallError, BeginCall, CallOk
  <2>2. CASE HandshakeOk(c)
    BY <2>2, <1>f, StartPumpExit DEF HandshakeOk
  <2>3. ASSUME NEW s \in Session, AttachCreate(c, s) PROVE GenerationInv' /\ ArmedInv'
    <3>1. /\ Connections(s)' # {}
          /\ UNCHANGED <<cleanups, cleanupGeneration, reconnectTimer, exitInfo, watchers, pump>>
          /\ \A t \in Session \ {s} : controller'[t] = controller[t]
          /\ sessions' = sessions \cup {s}
      BY <1>0, <2>3, ConstantsOK DEF AttachCreate, Connections, TypeOK
    <3>2. Generations(s)' /\ Armed(s)'
      BY <1>0, <3>1, CleanupConnected DEF GenerationInv
    <3> QED BY <3>1, <3>2, <1>s
  <2>4. ASSUME NEW s \in Session, AttachWatch(c, s) \/ AttachControl(c, s) \/ AttachRefused(c, s)
        PROVE  GenerationInv' /\ ArmedInv'
    <3>1. /\ UNCHANGED <<sessions, cleanups, exitInfo, pump>>
          /\ DisarmCleanup(s)
      BY <2>4 DEF AttachWatch, AttachControl, AttachRefused
    <3>2. \A t \in Session \ {s} : UNCHANGED <<controller[t], watchers[t]>>
      BY <1>0, <2>4 DEF AttachWatch, AttachControl, AttachRefused, TypeOK
    <3>3. /\ cleanupGeneration'[s] = cleanupGeneration[s] + 1 /\ reconnectTimer'[s] = 0
          /\ \A t \in Session \ {s} : UNCHANGED <<cleanupGeneration[t], reconnectTimer[t]>>
      BY <1>0, <3>1 DEF DisarmCleanup, TypeOK
    <3>4. Connections(s)' # {}
      <4>1. CASE AttachWatch(c, s)
        <5>1. c \in watchers'[s]
          BY <1>0, <4>1 DEF AttachWatch, TypeOK
        <5> QED BY <5>1 DEF Connections
      <4>2. CASE AttachControl(c, s)
        <5>1. controller'[s] = c
          BY <1>0, <4>2 DEF AttachControl, TypeOK
        <5> QED BY <5>1, ConstantsOK DEF Connections
      <4>3. CASE AttachRefused(c, s)
        <5>1. controller'[s] # NoConn
          BY <4>3 DEF AttachRefused, MayControl
        <5> QED BY <5>1 DEF Connections
      <4> QED BY <2>4, <4>1, <4>2, <4>3
    <3>5. Generations(s)' /\ Armed(s)'
      BY <1>0, <3>1, <3>3, <3>4, CleanupConnected DEF GenerationInv
    <3> QED BY <3>1, <3>2, <3>3, <3>5, <1>s
  <2>5. CASE UndoAttach(c)
    <3>1. /\ Detach(result[c].session, c)
          /\ UNCHANGED <<sessions, exitInfo, cleanups>>
          /\ StartPump(c)
      BY <2>5 DEF UndoAttach
    <3> QED BY <1>0, <3>1, StartPumpExit, DetachEffect
  <2>6. CASE Leave(c)
    <3>1. Detach(active[c], c) /\ UNCHANGED <<sessions, exitInfo, cleanups, pump>>
      BY <2>6 DEF Leave
    <3> QED BY <1>0, <3>1, DetachEffect
  <2> QED BY <1>2, <2>1, <2>2, <2>3, <2>4, <2>5, <2>6 DEF Handler
<1>3. ASSUME NEW s \in Session, SessionStep(s)
      PROVE  GenerationInv' /\ ArmedInv'
  <2>1. CASE ProcessEnd(s) \/ (\E c \in Conn : Deliver(s, c))
    BY <2>1, <1>f DEF ProcessEnd, Deliver
  <2>2. CASE ForwardChunk(s)
    <3>1. \A t \in Session : pump[t] = "exit" => pump'[t] = "exit"
      BY <1>0, <2>2 DEF ForwardChunk, TypeOK
    <3> QED BY <2>2, <3>1, <1>f DEF ForwardChunk
  <2>3. CASE WatchExit(s)
    <3>1. CASE s \in sessions
      <4>1. /\ pump'[s] = "exit"
            /\ UNCHANGED <<sessions, cleanups, cleanupGeneration, reconnectTimer, controller, watchers>>
            /\ \A t \in Session \ {s} : UNCHANGED <<exitInfo[t], pump[t]>>
        BY <1>0, <2>3, <3>1 DEF WatchExit, TypeOK
      <4>2. Generations(s)' /\ Armed(s)'
        BY <4>1 DEF GenerationInv, Generations, Armed
      <4> QED BY <4>1, <4>2, <1>s
    <3>2. CASE s \notin sessions
      <4>1. /\ UNCHANGED <<sessions, cleanups, cleanupGeneration, reconnectTimer, controller, watchers, exitInfo>>
            /\ \A t \in Session \ {s} : UNCHANGED pump[t]
        BY <1>0, <2>3, <3>2 DEF WatchExit, TypeOK
      <4>2. Generations(s)' /\ Armed(s)'
        BY <3>2, <4>1 DEF GenerationInv, Generations, Armed
      <4> QED BY <4>1, <4>2, <1>s
    <3> QED BY <3>1, <3>2
  <2>4. CASE ExitCleanup(s)
    <3>1. /\ UNCHANGED <<sessions, cleanups, controller, watchers, exitInfo>>
          /\ \A t \in Session \ {s} : UNCHANGED pump[t]
      BY <1>0, <2>4 DEF ExitCleanup, TypeOK
    <3>2. CASE s \in sessions
      <4> DEFINE h == Connections(s) # {}
      <4>1. ScheduleCleanup(s, h) /\ h \in BOOLEAN
        BY <2>4, <3>2 DEF ExitCleanup
      <4> HIDE DEF h
      <4>2. /\ Generations(s)'
            /\ exitInfo[s] \/ ~h => reconnectTimer'[s] # 0
                                    /\ reconnectTimer'[s] = cleanupGeneration'[s]
            /\ \A t \in Session \ {s} : /\ reconnectTimer'[t] = reconnectTimer[t]
                                        /\ cleanupGeneration'[t] = cleanupGeneration[t]
        BY <1>0, <3>1, <4>1, ScheduleEffect DEF GenerationInv
      <4>3. Armed(s)'
        BY <3>1, <4>2 DEF Armed, Connections, h
      <4> QED BY <3>1, <4>2, <4>3, <1>s
    <3>3. CASE s \notin sessions
      <4>1. UNCHANGED <<cleanupGeneration, reconnectTimer>>
        BY <2>4, <3>3 DEF ExitCleanup
      <4>2. Generations(s)' /\ Armed(s)'
        BY <3>1, <3>3, <4>1 DEF GenerationInv, Generations, Armed
      <4> QED BY <3>1, <4>1, <4>2, <1>s
    <3> QED BY <3>2, <3>3
  <2>5. CASE TimerFire(s)
    <3>1. /\ reconnectTimer[s] # 0
          /\ cleanups'[s] = cleanups[s] \cup {reconnectTimer[s]}
          /\ reconnectTimer'[s] = 0
          /\ \A t \in Session \ {s} : UNCHANGED <<cleanups[t], reconnectTimer[t]>>
          /\ UNCHANGED <<sessions, cleanupGeneration, exitInfo, controller, watchers, pump>>
      BY <1>0, <2>5 DEF TimerFire, TypeOK
    <3>2. reconnectTimer[s] = cleanupGeneration[s] /\ cleanupGeneration[s] \in Nat
      BY <1>0, <3>1 DEF GenerationInv, Generations, TypeOK
    <3>3. Generations(s)'
      BY <3>1, <3>2 DEF GenerationInv, Generations
    <3>4. Armed(s)'
      BY <3>1, <3>2 DEF Armed
    <3> QED BY <3>1, <3>3, <3>4, <1>s
  <2>6. ASSUME NEW g \in cleanups[s], Cleanup(s, g) PROVE GenerationInv' /\ ArmedInv'
    <3>1. /\ cleanups'[s] = cleanups[s] \ {g}
          /\ \A t \in Session \ {s} : UNCHANGED cleanups[t]
          /\ UNCHANGED <<cleanupGeneration, reconnectTimer, exitInfo, controller, watchers, pump>>
          /\ sessions' \subseteq sessions
          /\ s \in sessions' => s \in sessions /\ ~MayRemove(s, g)
      BY <1>0, <2>6 DEF Cleanup, Remove, TypeOK
    <3>2. Generations(s)'
      BY <3>1 DEF GenerationInv, Generations
    <3>3. Armed(s)'
      BY <3>1 DEF ArmedInv, Armed, Connections, MayRemove
    <3> QED BY <3>1, <3>2, <3>3, <1>s
  <2>7. CASE Reap(s)
    <3>1. /\ s \notin sessions
          /\ UNCHANGED <<sessions, cleanups, cleanupGeneration, exitInfo, controller, watchers, pump>>
          /\ \A t \in Session \ {s} : UNCHANGED reconnectTimer[t]
          /\ reconnectTimer'[s] \in {0, reconnectTimer[s]}
      BY <1>0, <2>7 DEF Reap, ClosedInv, TypeOK
    <3>2. Generations(s)' /\ Armed(s)'
      BY <3>1 DEF GenerationInv, Generations, Armed
    <3> QED BY <3>1, <3>2, <1>s
  <2> QED BY <1>3, <2>1, <2>2, <2>3, <2>4, <2>5, <2>6, <2>7 DEF SessionStep
<1>4. CASE Shutdown \/ UNCHANGED vars
  BY <1>4, <1>f DEF Shutdown, CloseConnections, CloseManager, MainReturns, vars
<1>5. CASE Next
  BY <1>2, <1>3, <1>4, <1>5 DEF Next, Terminated
<1> QED BY <1>4, <1>5

\* Every step keeps the sessions of closed processes out of the map.
LEMMA ClosedStep ==
    ASSUME TypeInv, UnbornUnused, ClosedInv, [Next]_vars
    PROVE  ClosedInv'
<1> USE DEF managerVars, processVars, handlerVars
<1>0. TypeOK
  BY DEF TypeInv
<1>f. ASSUME UNCHANGED <<closed, reaper>>, sessions' \subseteq sessions,
             \A t \in Session : process[t] # "none" => process'[t] # "none"
      PROVE  ClosedInv'
  BY <1>f DEF ClosedInv
<1>2. ASSUME NEW c \in Conn, Handler(c)
      PROVE  ClosedInv'
  <2>1. ASSUME NEW s \in Session, AttachCreate(c, s) PROVE ClosedInv'
    <3>1. /\ process[s] = "none" /\ UNCHANGED <<closed, reaper>>
          /\ sessions' = sessions \cup {s}
          /\ \A t \in Session \ {s} : process'[t] = process[t]
      BY <1>0, <2>1 DEF AttachCreate, TypeOK
    <3> QED BY <3>1 DEF ClosedInv
  <2> QED BY <1>2, <1>f, <2>1 DEF Handler, Reply, Rename, PeerDrop, Upgrade, HandshakeFail, CallError,
          BeginCall, CallOk, HandshakeOk, AttachWatch, AttachControl, AttachRefused, UndoAttach, Leave
<1>3. ASSUME NEW s \in Session, SessionStep(s)
      PROVE  ClosedInv'
  <2>1. CASE ProcessEnd(s)
    <3>1. \A t \in Session : process[t] # "none" => process'[t] # "none"
      BY <1>0, <2>1 DEF ProcessEnd, TypeOK
    <3> QED BY <2>1, <3>1, <1>f DEF ProcessEnd
  <2>2. ASSUME NEW g \in cleanups[s], Cleanup(s, g) PROVE ClosedInv'
    <3>1. CASE MayRemove(s, g)
      <4>1. /\ s \in sessions /\ sessions' = sessions \ {s}
            /\ UNCHANGED <<closed, process>>
            /\ \A t \in Session \ {s} : reaper'[t] = reaper[t]
        BY <1>0, <2>2, <3>1 DEF Cleanup, MayRemove, Remove, TypeOK
      <4> QED BY <4>1 DEF ClosedInv, UnbornUnused
    <3>2. CASE ~MayRemove(s, g)
      BY <2>2, <3>2, <1>f DEF Cleanup
    <3> QED BY <3>1, <3>2
  <2>3. CASE Reap(s)
    <3>1. /\ reaper[s] # "none" /\ UNCHANGED <<sessions, process>>
          /\ reaper'[s] = "none"
          /\ \A t \in Session \ {s} : UNCHANGED <<closed[t], reaper[t]>>
      BY <1>0, <2>3 DEF Reap, TypeOK
    <3> QED BY <3>1 DEF ClosedInv
  <2> QED BY <1>3, <1>f, <2>1, <2>2, <2>3 DEF SessionStep, ForwardChunk, Deliver, WatchExit,
          ExitCleanup, TimerFire
<1>4. CASE Shutdown \/ UNCHANGED vars
  <2>1. CASE CloseManager
    <3>1. /\ sessions' = {} /\ UNCHANGED <<closed, process>>
          /\ \A t \in Session : t \notin sessions => reaper'[t] = reaper[t]
      BY <1>0, <2>1 DEF CloseManager, TypeOK
    <3> QED BY <3>1 DEF ClosedInv, UnbornUnused
  <2> QED BY <1>4, <1>f, <2>1 DEF Shutdown, CloseConnections, MainReturns, vars
<1>5. CASE Next
  BY <1>2, <1>3, <1>4, <1>5 DEF Next, Terminated
<1> QED BY <1>4, <1>5

\* The inductive invariant of the cleanup proofs.
FullInv == TypeInv /\ RoleInv /\ CleanupInv

\* It holds initially and every step keeps it.
LEMMA FullInvInductive == (Init => FullInv) /\ (FullInv /\ [Next]_vars => FullInv')
<1>1. ASSUME Init PROVE FullInv
  <2>1. TypeInv
    BY <1>1, InitType
  <2>2. UnbornUnused /\ HandlerLocals /\ RoleAgreement
    BY <1>1, ConstantsOK DEF Init, UnbornUnused, HandlerLocals, NoResult, RoleAgreement
  <2>3. GenerationInv /\ ArmedInv /\ ClosedInv
    BY <1>1 DEF Init, GenerationInv, Generations, ArmedInv, Armed, ClosedInv
  <2> QED BY <2>1, <2>2, <2>3 DEF FullInv, RoleInv, CleanupInv
<1>2. ASSUME FullInv, [Next]_vars PROVE FullInv'
  BY <1>2, TypeStep, RoleAgreementStep, UnbornUnusedStep, HandlerLocalsStep, ArmedStep, ClosedStep
     DEF FullInv, RoleInv, CleanupInv
<1> QED BY <1>1, <1>2

\* Every listed session that nobody is connected to has a cleanup under way that
\* the generation check of cleanup will accept.
THEOREM DetachedIsArmed == Spec => []CleanupArmed
<1>1. FullInv => CleanupArmed
  BY ArmedAll DEF FullInv, CleanupInv, TypeInv
<1> QED BY <1>1, FullInvInductive, PTL DEF Spec

\* A session whose process is closed, or about to be, is in nobody's reach.
THEOREM ClosedOnlyRemoved == Spec => []ClosedIsRemoved
<1>1. FullInv => ClosedIsRemoved
  BY DEF FullInv, CleanupInv, ClosedInv, ClosedIsRemoved
<1> QED BY <1>1, FullInvInductive, PTL DEF Spec

\* A stale cleanup callback removes nothing.
THEOREM RemovalNotPremature == Spec => NoPrematureRemoval
<1> DEFINE A == \A s \in sessions :
                    s \notin sessions' /\ server' # "managerClosed" =>
                        /\ exitInfo[s] \/ Connections(s) = {}
                        /\ reconnectTimer[s] = 0
<1>1. ASSUME FullInv, [Next]_vars PROVE [A]_vars
  <2> SUFFICES ASSUME NEW r \in sessions, r \notin sessions', server' # "managerClosed"
               PROVE  (exitInfo[r] \/ Connections(r) = {}) /\ reconnectTimer[r] = 0
    OBVIOUS
  <2>0. TypeOK /\ GenerationInv
    BY <1>1, SMTT(60) DEF FullInv, TypeInv, CleanupInv
  <2>1. ASSUME NEW c \in Conn, Handler(c) PROVE FALSE
    BY <2>1 DEF Handler, Reply, Rename, PeerDrop, Upgrade, HandshakeFail, CallError, BeginCall, CallOk,
       HandshakeOk, AttachCreate, AttachWatch, AttachControl, AttachRefused, UndoAttach, Leave, managerVars
  <2>2. ASSUME NEW s \in Session, SessionStep(s)
        PROVE  (exitInfo[r] \/ Connections(r) = {}) /\ reconnectTimer[r] = 0
    <3>1. PICK g \in cleanups[s] : Cleanup(s, g)
      BY <2>2 DEF SessionStep, ProcessEnd, ForwardChunk, Deliver, WatchExit, ExitCleanup, TimerFire,
         Reap, managerVars
    <3>2. r = s /\ MayRemove(s, g)
      BY <3>1 DEF Cleanup, Remove
    <3> QED BY <2>0, <3>1, <3>2 DEF MayRemove, GenerationInv, Generations
  <2>3. CASE Shutdown \/ UNCHANGED vars
    BY <2>3 DEF Shutdown, CloseConnections, CloseManager, MainReturns, vars, managerVars
  <2>4. CASE Next
    BY <2>1, <2>2, <2>3, <2>4 DEF Next, Terminated
  <2> QED BY <1>1, <2>3, <2>4
<1>2. FullInv /\ FullInv' /\ [Next]_vars => [A]_vars
  BY <1>1
<1> QED BY <1>2, FullInvInductive, PTL DEF Spec, NoPrematureRemoval

-----------------------------------------------------------------------------
(* The exit of a process, the shutdown of the server, and the life cycle.   *)

\* watchExit runs once: an exit is on record only when it has, and a session has a
\* timer or a callback only if it has exited or there is a TTL.
Exits(s) ==
    /\ exitInfo[s] => pump[s] \in {"exit", "done"}
    /\ pump[s] = "exit" => exitInfo[s]
    /\ reconnectTimer[s] # 0 \/ cleanups[s] # {} => exitInfo[s] \/ DetachedTTL

ExitInv == \A s \in Session : Exits(s)

\* A process that was started is listed, or closed, or about to be closed; a manager
\* that is closed lists nothing, and main waits for the processes it took out.
ReapInv ==
    /\ \A s \in Session : process[s] # "none" => s \in sessions \/ closed[s] \/ reaper[s] # "none"
    /\ server \in {"managerClosed", "down"} => sessions = {}
    /\ server = "down" => \A s \in Session : reaper[s] # "shutdown"

\* Detach arms a timer only for a session that has exited, or when there is a TTL.
LEMMA DetachExits ==
    ASSUME TypeOK, NEW s, NEW c \in Conn, Detach(s, c), ExitInv,
           UNCHANGED <<exitInfo, cleanups>>,
           \A t \in Session : pump[t] # "off" => pump'[t] = pump[t],
           \A t \in Session : pump'[t] = "exit" => pump[t] = "exit"
    PROVE  ExitInv'
<1>1. \A t \in Session : exitInfo'[t] => pump'[t] \in {"exit", "done"}
  BY DEF ExitInv, Exits
<1>2. \A t \in Session : reconnectTimer'[t] # 0 => reconnectTimer[t] # 0 \/ exitInfo[t] \/ DetachedTTL
  <2>1. CASE s \notin sessions
    BY <2>1, DetachUnlisted
  <2>2. CASE s \in sessions
    <3>1. s \in Session
      BY <2>2 DEF TypeOK
    <3>2. \/ exitInfo[s] \/ DetachedTTL
          \/ reconnectTimer' = [reconnectTimer EXCEPT ![s] = 0]
      BY <2>2, DetachListed
    <3>3. \A t \in Session \ {s} : reconnectTimer'[t] = reconnectTimer[t]
      <4>1. ASSUME NEW h, ScheduleCleanup(s, h)
            PROVE  \A t \in Session \ {s} : reconnectTimer'[t] = reconnectTimer[t]
        BY <3>1, <4>1 DEF ScheduleCleanup, TypeOK
      <4>2. CASE reconnectTimer' = [reconnectTimer EXCEPT ![s] = 0]
        BY <3>1, <4>2 DEF TypeOK
      <4> QED BY <2>2, <4>1, <4>2, DetachListed
    <3> QED BY <3>1, <3>2, <3>3 DEF TypeOK
  <2> QED BY <2>1, <2>2
<1> QED BY <1>1, <1>2 DEF ExitInv, Exits

\* Starting a forwarding goroutine: it was off.
LEMMA StartPumpOff ==
    ASSUME TypeInv, NEW c \in Conn, StartPump(c)
    PROVE  /\ \A t \in Session : pump[t] # "off" => pump'[t] = pump[t]
           /\ \A t \in Session : pump'[t] \in {pump[t], "forward"}
BY DEF TypeInv, TypeOK, PumpInv, StartPump

\* Every step keeps ExitInv.
LEMMA ExitStep ==
    ASSUME TypeInv, ExitInv, [Next]_vars
    PROVE  ExitInv'
<1> USE DEF managerVars, processVars, handlerVars
<1>0. TypeOK
  BY DEF TypeInv
<1>f. ASSUME UNCHANGED <<exitInfo, pump, cleanups>>,
             \A t \in Session : reconnectTimer'[t] \in {0, reconnectTimer[t]}
      PROVE  ExitInv'
  BY <1>f DEF ExitInv, Exits
<1>s. ASSUME NEW s \in Session, Exits(s)',
             \A t \in Session \ {s} :
                 UNCHANGED <<exitInfo[t], pump[t], reconnectTimer[t], cleanups[t]>>
      PROVE  ExitInv'
  BY <1>s DEF ExitInv, Exits
<1>2. ASSUME NEW c \in Conn, Handler(c)
      PROVE  ExitInv'
  <2>1. CASE Reply(c) \/ Rename(c) \/ PeerDrop(c) \/ Upgrade(c) \/ HandshakeFail(c) \/ CallError(c)
             \/ (\E op \in {"input", "resize"} : BeginCall(c, op) \/ CallOk(c, op))
             \/ (\E s \in Session : AttachCreate(c, s))
    BY <2>1, <1>f DEF Reply, Rename, PeerDrop, Upgrade, HandshakeFail, CallError, BeginCall, CallOk,
       AttachCreate
  <2>2. CASE HandshakeOk(c)
    BY <2>2, StartPumpOff DEF HandshakeOk, ExitInv, Exits
  <2>3. ASSUME NEW s \in Session, AttachWatch(c, s) \/ AttachControl(c, s) \/ AttachRefused(c, s)
        PROVE  ExitInv'
    BY <1>0, <2>3, <1>f DEF AttachWatch, AttachControl, AttachRefused, DisarmCleanup, TypeOK
  <2>4. CASE UndoAttach(c)
    <3>1. Detach(result[c].session, c) /\ UNCHANGED <<exitInfo, cleanups>> /\ StartPump(c)
      BY <2>4 DEF UndoAttach
    <3> QED BY <1>0, <3>1, StartPumpOff, DetachExits
  <2>5. CASE Leave(c)
    <3>1. Detach(active[c], c) /\ UNCHANGED <<exitInfo, cleanups, pump>>
      BY <2>5 DEF Leave
    <3> QED BY <1>0, <3>1, DetachExits
  <2> QED BY <1>2, <2>1, <2>2, <2>3, <2>4, <2>5, SMTT(60) DEF Handler
<1>3. ASSUME NEW s \in Session, SessionStep(s)
      PROVE  ExitInv'
  <2>1. CASE ProcessEnd(s) \/ (\E c \in Conn : Deliver(s, c))
    BY <2>1, <1>f DEF ProcessEnd, Deliver
  <2>2. CASE ForwardChunk(s)
    <3>1. /\ UNCHANGED <<exitInfo, reconnectTimer, cleanups>>
          /\ pump[s] = "forward" /\ pump'[s] \in {"forward", "wait"}
          /\ \A t \in Session \ {s} : pump'[t] = pump[t]
      BY <1>0, <2>2 DEF ForwardChunk, TypeOK
    <3> QED BY <3>1 DEF ExitInv, Exits
  <2>3. CASE WatchExit(s)
    <3>1. /\ UNCHANGED <<reconnectTimer, cleanups>>
          /\ pump[s] \in {"forward", "wait"}
          /\ \/ exitInfo'[s] /\ pump'[s] = "exit"
             \/ exitInfo'[s] = exitInfo[s] /\ pump'[s] = "done"
          /\ \A t \in Session \ {s} : UNCHANGED <<pump[t], exitInfo[t]>>
      BY <1>0, <2>3 DEF WatchExit, TypeOK
    <3> QED BY <3>1 DEF ExitInv, Exits
  <2>4. CASE ExitCleanup(s)
    <3>1. /\ UNCHANGED <<exitInfo, cleanups>>
          /\ pump[s] = "exit" /\ pump'[s] = "done"
          /\ \A t \in Session \ {s} : UNCHANGED <<pump[t], reconnectTimer[t]>>
      BY <1>0, <2>4 DEF ExitCleanup, ScheduleCleanup, TypeOK
    <3> QED BY <3>1 DEF ExitInv, Exits
  <2>5. CASE TimerFire(s)
    <3>1. /\ UNCHANGED <<exitInfo, pump>> /\ reconnectTimer[s] # 0
          /\ \A t \in Session \ {s} : UNCHANGED <<cleanups[t], reconnectTimer[t]>>
      BY <1>0, <2>5 DEF TimerFire, TypeOK
    <3> QED BY <3>1 DEF ExitInv, Exits
  <2>6. ASSUME NEW g \in cleanups[s], Cleanup(s, g) PROVE ExitInv'
    <3>1. /\ UNCHANGED <<exitInfo, pump, reconnectTimer>>
          /\ \A t \in Session : cleanups'[t] \subseteq cleanups[t]
      BY <1>0, <2>6 DEF Cleanup, TypeOK
    <3> QED BY <3>1 DEF ExitInv, Exits
  <2>7. CASE Reap(s)
    BY <1>0, <2>7, <1>f DEF Reap, TypeOK
  <2> QED BY <1>3, <2>1, <2>2, <2>3, <2>4, <2>5, <2>6, <2>7 DEF SessionStep
<1>4. CASE Shutdown \/ UNCHANGED vars
  BY <1>4, <1>f DEF Shutdown, CloseConnections, CloseManager, MainReturns, vars
<1>5. CASE Next
  BY <1>2, <1>3, <1>4, <1>5 DEF Next, Terminated
<1> QED BY <1>4, <1>5

\* Every step keeps ReapInv.
LEMMA ReapStep ==
    ASSUME TypeInv, ClosedInv, ReapInv, [Next]_vars
    PROVE  ReapInv'
<1> USE DEF managerVars, processVars, handlerVars
<1>0. TypeOK
  BY DEF TypeInv
<1>f. ASSUME UNCHANGED <<sessions, reaper, closed, server>>,
             \A t \in Session : process'[t] # "none" => process[t] # "none"
      PROVE  ReapInv'
  BY <1>f DEF ReapInv
<1>1. ASSUME NEW c \in Conn, Handler(c), server # "down"
      PROVE  ReapInv'
  <2>1. ASSUME NEW s \in Session, AttachCreate(c, s) PROVE ReapInv'
    <3>1. /\ server \in {"up", "connsClosed"} /\ UNCHANGED <<reaper, closed, server>>
          /\ sessions' = sessions \cup {s}
          /\ \A t \in Session \ {s} : process'[t] = process[t]
      BY <1>0, <2>1 DEF AttachCreate, Accepts, TypeOK
    <3> QED BY <3>1 DEF ReapInv
  <2> QED BY <1>1, <1>f, <2>1 DEF Handler, Reply, Rename, PeerDrop, Upgrade, HandshakeFail, CallError,
          BeginCall, CallOk, HandshakeOk, AttachWatch, AttachControl, AttachRefused, UndoAttach, Leave
<1>2. ASSUME NEW s \in Session, SessionStep(s), server # "down"
      PROVE  ReapInv'
  <2>1. CASE ProcessEnd(s)
    <3>1. \A t \in Session : process'[t] # "none" => process[t] # "none"
      BY <1>0, <2>1 DEF ProcessEnd, TypeOK
    <3> QED BY <2>1, <3>1, <1>f DEF ProcessEnd
  <2>2. ASSUME NEW g \in cleanups[s], Cleanup(s, g) PROVE ReapInv'
    <3>1. CASE MayRemove(s, g)
      <4>1. /\ sessions' = sessions \ {s} /\ reaper'[s] = "cleanup"
            /\ UNCHANGED <<closed, process, server>>
            /\ \A t \in Session \ {s} : reaper'[t] = reaper[t]
        BY <1>0, <2>2, <3>1 DEF Cleanup, Remove, TypeOK
      <4> QED BY <1>2, <4>1 DEF ReapInv
    <3>2. CASE ~MayRemove(s, g)
      BY <2>2, <3>2, <1>f DEF Cleanup
    <3> QED BY <3>1, <3>2
  <2>3. CASE Reap(s)
    <3>1. /\ UNCHANGED <<sessions, process, server>>
          /\ closed'[s] /\ reaper'[s] = "none"
          /\ \A t \in Session \ {s} : UNCHANGED <<closed[t], reaper[t]>>
      BY <1>0, <2>3 DEF Reap, TypeOK
    <3> QED BY <1>2, <3>1 DEF ReapInv
  <2> QED BY <1>2, <1>f, <2>1, <2>2, <2>3 DEF SessionStep, ForwardChunk, Deliver, WatchExit,
          ExitCleanup, TimerFire
<1>3. CASE Shutdown
  <2>1. CASE CloseConnections
    BY <2>1 DEF CloseConnections, ReapInv
  <2>2. CASE CloseManager
    <3>1. /\ sessions' = {} /\ UNCHANGED <<closed, process>> /\ server' = "managerClosed"
          /\ \A t \in Session : reaper'[t] = IF t \in sessions THEN "shutdown" ELSE reaper[t]
      BY <2>2 DEF CloseManager
    <3> QED BY <3>1 DEF ReapInv
  <2>3. CASE MainReturns
    BY <2>3 DEF MainReturns, ReapInv
  <2> QED BY <1>3, <2>1, <2>2, <2>3 DEF Shutdown
<1>4. CASE UNCHANGED vars
  BY <1>4, <1>f DEF vars
<1>5. CASE Next
  BY <1>1, <1>2, <1>3, <1>4, <1>5 DEF Next, Terminated
<1> QED BY <1>4, <1>5

\* The inductive invariant of the life cycle.
LifeInv == FullInv /\ ExitInv /\ ReapInv

\* It holds initially and every step keeps it.
LEMMA LifeInvInductive == (Init => LifeInv) /\ (LifeInv /\ [Next]_vars => LifeInv')
<1>1. ASSUME Init PROVE LifeInv
  <2>1. ExitInv /\ ReapInv
    BY <1>1 DEF Init, ExitInv, Exits, ReapInv
  <2> QED BY <1>1, <2>1, FullInvInductive DEF LifeInv
<1>2. ASSUME LifeInv, [Next]_vars PROVE LifeInv'
  BY <1>2, FullInvInductive, ExitStep, ReapStep DEF LifeInv, FullInv, CleanupInv
<1> QED BY <1>1, <1>2

\* When main returns no process is left behind, except one that a cleanup is closing
\* (Manager.Shutdown).
THEOREM ShutdownClosesAll == Spec => []ShutdownCloses
<1>1. LifeInv => ShutdownCloses
  <2> SUFFICES ASSUME LifeInv, server = "down", NEW s \in Session, process[s] # "none"
               PROVE  closed[s] \/ reaper[s] = "cleanup"
    BY DEF ShutdownCloses
  <2> QED BY DEF LifeInv, ReapInv, FullInv, TypeInv, TypeOK
<1> QED BY <1>1, LifeInvInductive, PTL DEF Spec

\* Only the controller on record steers a listed session: the role that a handler
\* checks without the lock has not been given away since (terminal.go).
THEOREM ControllerSteers == Spec => OnlyControllerSteers
<1> DEFINE A == \A s \in sessions : steer'[s] # steer[s] => controller'[s] = steer'[s]
<1>1. ASSUME FullInv, [Next]_vars PROVE A
  <2> SUFFICES ASSUME NEW r \in sessions, steer'[r] # steer[r] PROVE controller'[r] = steer'[r]
    OBVIOUS
  <2> USE DEF managerVars, processVars, handlerVars
  <2>0. TypeOK /\ RoleAgreement /\ HandlerLocals /\ r \in Session
    BY <1>1 DEF FullInv, TypeInv, RoleInv, TypeOK
  <2>1. ASSUME NEW c \in Conn, Handler(c) PROVE controller'[r] = steer'[r]
    <3>1. ASSUME NEW s \in Session, AttachCreate(c, s) \/ AttachControl(c, s)
          PROVE  controller'[r] = steer'[r]
      <4>1. controller' = [controller EXCEPT ![s] = c] /\ steer' = [steer EXCEPT ![s] = c]
        BY <3>1 DEF AttachCreate, AttachControl
      <4>2. r = s
        BY <2>0, <4>1 DEF TypeOK
      <4> QED BY <2>0, <4>1, <4>2 DEF TypeOK
    <3>2. ASSUME MaySteer(c), pc[c] \in {"loop", "input", "resize"}, controller' = controller,
                 steer' = [steer EXCEPT ![active[c]] = c]
          PROVE  controller'[r] = steer'[r]
      <4>1. r = active[c] /\ steer'[r] = c
        BY <2>0, <3>2 DEF TypeOK
      <4>2. Believes(c, r, FALSE)
        <5>1. readOnly[c] = FALSE
          <6>1. ~readOnly[c] /\ readOnly[c] \in BOOLEAN
            BY <2>0, <3>2 DEF MaySteer, TypeOK
          <6> QED BY <6>1, Zenon
        <5> QED BY <3>2, <4>1, <5>1 DEF Believes
      <4> QED BY <2>0, <3>2, <4>1, <4>2 DEF RoleAgreement
    <3>3. CASE Rename(c)
      BY <2>0, <3>2, <3>3 DEF Rename, Receive
    <3>4. ASSUME NEW op \in {"input", "resize"}, CallOk(c, op) PROVE controller'[r] = steer'[r]
      BY <2>0, <3>2, <3>4, ConstantsOK DEF CallOk, HandlerLocals, MaySteer
    <3> QED BY <2>1, <3>1, <3>3, <3>4 DEF Handler, Reply, PeerDrop, Upgrade, HandshakeFail, CallError,
            BeginCall, HandshakeOk, AttachWatch, AttachRefused, UndoAttach, Leave
  <2>2. ASSUME NEW s \in Session, SessionStep(s) PROVE FALSE
    BY <2>2 DEF SessionStep, ProcessEnd, ForwardChunk, Deliver, WatchExit, ExitCleanup, TimerFire,
       Cleanup, Reap
  <2>3. CASE Shutdown \/ UNCHANGED vars
    BY <2>3 DEF Shutdown, CloseConnections, CloseManager, MainReturns, vars
  <2>4. CASE Next
    BY <2>1, <2>2, <2>3, <2>4 DEF Next, Terminated
  <2> QED BY <1>1, <2>3, <2>4
<1>2. FullInv /\ FullInv' /\ [Next]_vars => [A]_vars
  BY <1>1
<1> QED BY <1>2, FullInvInductive, PTL DEF Spec, OnlyControllerSteers

-----------------------------------------------------------------------------
(* The refinement of SessionLifecycle.                                      *)

\* The mapped holder and viewers of one session, and the mapped server.
Holder(s) == IF s \in sessions THEN controller[s] ELSE NoConn
Viewers(s) == IF s \in sessions THEN watchers[s] ELSE {}
Open == server \in {"up", "connsClosed"}

\* A step does not show in the life of session s.
Same(s) == Phase(s)' = Phase(s) /\ Holder(s)' = Holder(s) /\ Viewers(s)' = Viewers(s)

\* The phase of a session, by what the manager and the process know of it.
LEMMA PhaseCases ==
    ASSUME NEW s \in Session, UnbornUnused
    PROVE  /\ process[s] = "none" => Phase(s) = "unborn"
           /\ process[s] # "none" /\ s \notin sessions => Phase(s) = "gone"
           /\ process[s] # "none" /\ s \in sessions /\ ~exitInfo[s] => Phase(s) = "running"
           /\ process[s] # "none" /\ s \in sessions /\ exitInfo[s] => Phase(s) = "exited"
<1>1. process[s] = "none" => Phase(s) = "unborn"
  BY DEF Phase, UnbornUnused
<1>2. process[s] # "none" /\ s \notin sessions => Phase(s) = "gone"
  BY DEF Phase
<1>3. process[s] # "none" /\ s \in sessions /\ ~exitInfo[s] => Phase(s) = "running"
  BY DEF Phase
<1>4. process[s] # "none" /\ s \in sessions /\ exitInfo[s] => Phase(s) = "exited"
  BY DEF Phase
<1> QED BY <1>1, <1>2, <1>3, <1>4

\* A session that keeps its place, its exit and its roles.
LEMMA SameFrame ==
    ASSUME NEW s \in Session,
           process'[s] = "none" <=> process[s] = "none",
           exitInfo'[s] = exitInfo[s],
           s \in sessions' <=> s \in sessions,
           s \in sessions => controller'[s] = controller[s] /\ watchers'[s] = watchers[s]
    PROVE  Same(s)
<1>1. Phase(s)' = Phase(s)
  BY DEF Phase
<1> QED BY <1>1 DEF Same, Holder, Viewers

\* A step of the handler of c frees nobody, and may seat c.
LEMMA UnseatedFrame ==
    ASSUME NEW c \in Conn, \A d \in Conn \ {c} : pc'[d] = pc[d] /\ active'[d] = active[d]
    PROVE  /\ (c \in Unseated' <=> c \in Unseated) => Unseated' = Unseated
           /\ c \in Unseated /\ c \notin Unseated' => Unseated' = Unseated \ {c}
BY DEF Unseated

\* A step that shows in no session, no seat and not in the server.
LEMMA LifeStutter ==
    ASSUME \A s \in Session : Same(s), Unseated' = Unseated, Open' = Open
    PROVE  UNCHANGED Lifecycle!vars
BY DEF Lifecycle!vars, Same, Holder, Viewers, Open

\* c takes a seat and nothing else shows.
LEMMA LifeRetire ==
    ASSUME \A s \in Session : Same(s), NEW c \in Unseated, Unseated' = Unseated \ {c}, Open' = Open
    PROVE  Lifecycle!Retire(c)
BY DEF Lifecycle!Retire, Lifecycle!Take, Same, Holder, Viewers, Open

\* c creates s.
LEMMA LifeCreate ==
    ASSUME NEW s \in Session, NEW c \in Unseated, Unseated' = Unseated \ {c}, Open, Open' = Open,
           \A t \in Session \ {s} : Same(t),
           Phase(s) = "unborn", Phase(s)' = "running",
           Holder(s)' = c, Viewers(s)' = Viewers(s)
    PROVE  Lifecycle!Create(s, c)
BY DEF Lifecycle!Create, Lifecycle!Take, Same, Holder, Viewers, Open

\* c takes the control of s.
LEMMA LifeControl ==
    ASSUME NEW s \in Session, NEW c \in Unseated, Unseated' = Unseated \ {c}, Open' = Open,
           \A t \in Session \ {s} : Same(t),
           Phase(s) \in {"running", "exited"}, Phase(s)' = Phase(s),
           Holder(s) = NoConn, Holder(s)' = c, Viewers(s)' = Viewers(s)
    PROVE  Lifecycle!Control(s, c)
BY DEF Lifecycle!Control, Lifecycle!Listed, Lifecycle!Take, Same, Holder, Viewers, Open

\* c watches s.
LEMMA LifeWatch ==
    ASSUME NEW s \in Session, NEW c \in Unseated, Unseated' = Unseated \ {c}, Open' = Open,
           \A t \in Session \ {s} : Same(t),
           Phase(s) \in {"running", "exited"}, Phase(s)' = Phase(s),
           Holder(s)' = Holder(s), Viewers(s)' = Viewers(s) \cup {c}
    PROVE  Lifecycle!Watch(s, c)
BY DEF Lifecycle!Watch, Lifecycle!Listed, Lifecycle!Take, Same, Holder, Viewers, Open

\* c gives up its role in s.
LEMMA LifePart ==
    ASSUME NEW s \in Session, NEW c \in Conn \ Unseated, Unseated' = Unseated, Open' = Open,
           \A t \in Session \ {s} : Same(t),
           Phase(s) \in {"running", "exited"}, Phase(s)' = Phase(s),
           Holder(s) = c \/ c \in Viewers(s),
           Holder(s)' = IF Holder(s) = c THEN NoConn ELSE Holder(s),
           Viewers(s)' = Viewers(s) \ {c}
    PROVE  Lifecycle!Part(s, c)
BY DEF Lifecycle!Part, Lifecycle!Listed, Same, Holder, Viewers, Open

\* The process of s exits.
LEMMA LifeExit ==
    ASSUME NEW s \in Session, Unseated' = Unseated, Open' = Open,
           \A t \in Session \ {s} : Same(t),
           Phase(s) = "running", Phase(s)' = "exited",
           Holder(s)' = Holder(s), Viewers(s)' = Viewers(s)
    PROVE  Lifecycle!Exit(s)
BY DEF Lifecycle!Exit, Same, Holder, Viewers, Open

\* s is removed.
LEMMA LifeRemove ==
    ASSUME NEW s \in Session, Unseated' = Unseated, Open' = Open,
           \A t \in Session \ {s} : Same(t),
           \/ Phase(s) = "exited"
           \/ Phase(s) = "running" /\ DetachedTTL /\ Holder(s) = NoConn /\ Viewers(s) = {},
           Phase(s)' = "gone", Holder(s)' = NoConn, Viewers(s)' = {}
    PROVE  Lifecycle!Remove(s)
BY DEF Lifecycle!Remove, Same, Holder, Viewers, Open

\* The server shuts down.
LEMMA LifeClose ==
    ASSUME Unseated' = Unseated, Open, ~Open',
           \A s \in Session :
               /\ Phase(s)' = IF Phase(s) \in {"running", "exited"} THEN "gone" ELSE Phase(s)
               /\ Holder(s)' = NoConn /\ Viewers(s)' = {}
    PROVE  Lifecycle!Close
<1>1. (server' \in {"up", "connsClosed"}) = FALSE
  BY DEF Open
<1> QED BY <1>1 DEF Lifecycle!Close, Lifecycle!Listed, Holder, Viewers, Open

\* Detaching c from the session its handler believes in, when the handler ends.
LEMMA LifeDetach ==
    ASSUME FullInv, NEW s, NEW c \in Conn, Detach(s, c), c \notin Unseated, c \notin Unseated',
           s \in sessions => \E ro \in BOOLEAN : Believes(c, s, ro),
           \A d \in Conn \ {c} : pc'[d] = pc[d] /\ active'[d] = active[d],
           UNCHANGED <<sessions, process, exitInfo, server>>
    PROVE  [Lifecycle!Next]_(Lifecycle!vars)
<1>0. TypeOK /\ RoleAgreement /\ UnbornUnused
  BY DEF FullInv, TypeInv, RoleInv
<1>1. Unseated' = Unseated /\ Open' = Open
  BY UnseatedFrame DEF Open
<1>2. /\ \A t \in Session : t # s \/ s \notin sessions =>
             controller'[t] = controller[t] /\ watchers'[t] = watchers[t]
      /\ s \in sessions =>
             /\ controller'[s] = IF controller[s] = c THEN NoConn ELSE controller[s]
             /\ watchers'[s] = watchers[s] \ {c}
  BY <1>0, DetachRoles
<1>3. \A t \in Session : t # s \/ s \notin sessions => Same(t)
  BY <1>2, SameFrame
<1>4. CASE s \notin sessions
  BY <1>1, <1>3, <1>4, LifeStutter
<1>5. CASE s \in sessions
  <2>1. s \in Session
    BY <1>0, <1>5 DEF TypeOK
  <2>2. controller[s] = c \/ c \in watchers[s]
    BY <1>0, <1>5 DEF RoleAgreement
  <2>3. Phase(s)' = Phase(s) /\ Phase(s) \in {"running", "exited"}
    <3>1. process[s] # "none"
      BY <1>0, <1>5, <2>1 DEF UnbornUnused
    <3>2. Phase(s)' = Phase(s)
      BY DEF Phase
    <3> QED BY <1>0, <1>5, <2>1, <3>1, <3>2, PhaseCases
  <2>4. /\ Holder(s) = controller[s] /\ Viewers(s) = watchers[s]
        /\ Holder(s)' = controller'[s] /\ Viewers(s)' = watchers'[s]
    BY <1>5 DEF Holder, Viewers
  <2>5. Lifecycle!Part(s, c)
    BY <1>1, <1>2, <1>3, <1>5, <2>1, <2>2, <2>3, <2>4, LifePart
  <2> QED BY <2>1, <2>5 DEF Lifecycle!Next
<1> QED BY <1>4, <1>5

\* Every step of a handler is a step of the life cycle or does not show in it.
LEMMA HandlerLife ==
    ASSUME LifeInv, NEW c \in Conn, Handler(c)
    PROVE  [Lifecycle!Next]_(Lifecycle!vars)
<1> USE DEF managerVars, processVars, handlerVars
<1>0. TypeOK /\ RoleAgreement /\ UnbornUnused /\ HandlerLocals /\ FullInv
  BY DEF LifeInv, FullInv, TypeInv, RoleInv
<1>f. ASSUME UNCHANGED <<sessions, controller, watchers, process, exitInfo, server>>,
             \A d \in Conn \ {c} : pc'[d] = pc[d] /\ active'[d] = active[d],
             c \in Unseated' <=> c \in Unseated
      PROVE  UNCHANGED Lifecycle!vars
  <2>1. \A t \in Session : Same(t)
    BY <1>f, SameFrame
  <2>2. Unseated' = Unseated /\ Open' = Open
    BY <1>f, UnseatedFrame DEF Open
  <2> QED BY <2>1, <2>2, LifeStutter
<1>1. CASE Reply(c) \/ Rename(c) \/ PeerDrop(c) \/ (\E s \in Session : AttachRefused(c, s))
  BY <1>1, <1>f DEF Reply, Rename, PeerDrop, AttachRefused, Unseated
<1>2. CASE HandshakeFail(c) \/ HandshakeOk(c)
  <2>1. c \notin Unseated /\ c \notin Unseated'
    <3>1. pc[c] = "handshake" /\ result[c].session \in Session /\ NoSession \notin Session
      BY <1>0, <1>2, ConstantsOK DEF HandshakeFail, HandshakeOk, HandlerLocals
    <3>2. pc'[c] = "undo" \/ active'[c] = result[c].session
      BY <1>0, <1>2 DEF HandshakeFail, HandshakeOk, TypeOK
    <3> QED BY <3>1, <3>2 DEF Unseated
  <2>2. \A d \in Conn \ {c} : pc'[d] = pc[d] /\ active'[d] = active[d]
    BY <1>0, <1>2 DEF HandshakeFail, HandshakeOk, TypeOK
  <2> QED BY <1>2, <1>f, <2>1, <2>2 DEF HandshakeFail, HandshakeOk
<1>3. CASE CallError(c) \/ \E op \in {"input", "resize"} : BeginCall(c, op) \/ CallOk(c, op)
  <2>1. active[c] # NoSession /\ active' = active
    <3>1. CASE CallError(c) \/ \E op \in {"input", "resize"} : CallOk(c, op)
      BY <1>0, <3>1, ConstantsOK DEF CallError, CallOk, HandlerLocals
    <3>2. CASE \E op \in {"input", "resize"} : BeginCall(c, op)
      BY <3>2 DEF BeginCall, MaySteer
    <3> QED BY <1>3, <3>1, <3>2
  <2>2. c \notin Unseated /\ c \notin Unseated'
    BY <2>1 DEF Unseated
  <2>3. \A d \in Conn \ {c} : pc'[d] = pc[d] /\ active'[d] = active[d]
    BY <1>0, <1>3, <2>1 DEF CallError, BeginCall, CallOk, TypeOK
  <2> QED BY <1>3, <1>f, <2>2, <2>3 DEF CallError, BeginCall, CallOk
<1>4. CASE Upgrade(c)
  <2>1. /\ UNCHANGED <<sessions, controller, watchers, process, exitInfo, server, active>>
        /\ pc[c] = "new" /\ pc'[c] \in {"loop", "done"}
        /\ \A d \in Conn \ {c} : pc'[d] = pc[d] /\ active'[d] = active[d]
    BY <1>0, <1>4 DEF Upgrade, TypeOK
  <2>2. CASE pc'[c] = "loop"
    BY <1>f, <2>1, <2>2 DEF Unseated
  <2>3. CASE pc'[c] = "done"
    <3>1. c \in Unseated /\ c \notin Unseated'
      BY <1>0, <2>1, <2>3 DEF Unseated, HandlerLocals
    <3>2. (\A t \in Session : Same(t)) /\ Unseated' = Unseated \ {c} /\ Open' = Open
      BY <2>1, <3>1, SameFrame, UnseatedFrame DEF Open
    <3>3. Lifecycle!Retire(c)
      BY <3>1, <3>2, LifeRetire
    <3> QED BY <3>3 DEF Lifecycle!Next
  <2> QED BY <2>1, <2>2, <2>3
<1>5. ASSUME NEW s \in Session, AttachCreate(c, s) PROVE [Lifecycle!Next]_(Lifecycle!vars)
  <2>1. /\ pc[c] = "loop" /\ pc'[c] = "handshake" /\ active[c] = NoSession
        /\ \A d \in Conn \ {c} : pc'[d] = pc[d] /\ active'[d] = active[d]
        /\ process[s] = "none" /\ process'[s] = "running"
        /\ \A t \in Session \ {s} : process'[t] = process[t] /\ controller'[t] = controller[t]
        /\ controller'[s] = c /\ sessions' = sessions \cup {s}
        /\ UNCHANGED <<watchers, exitInfo, server>> /\ server \in {"up", "connsClosed"}
    BY <1>0, <1>5 DEF AttachCreate, Receive, MayAttach, Accepts, TypeOK
  <2>2. c \in Unseated /\ Unseated' = Unseated \ {c} /\ Open /\ Open' = Open
    <3>1. c \in Unseated /\ c \notin Unseated'
      BY <2>1 DEF Unseated
    <3> QED BY <2>1, <3>1, UnseatedFrame DEF Open
  <2>3. \A t \in Session \ {s} : Same(t)
    BY <2>1, SameFrame
  <2>4. ~exitInfo[s]
    BY <2>1 DEF LifeInv, ExitInv, Exits, FullInv, TypeInv, PumpInv
  <2>5. Phase(s) = "unborn" /\ Phase(s)' = "running"
    <3>1. Phase(s) = "unborn"
      BY <1>0, <2>1, PhaseCases
    <3>2. Phase(s)' = "running"
      BY <2>1, <2>4 DEF Phase
    <3> QED BY <3>1, <3>2
  <2>6. Holder(s)' = c /\ Viewers(s)' = Viewers(s)
    BY <1>0, <2>1 DEF Holder, Viewers, UnbornUnused
  <2>7. Lifecycle!Create(s, c)
    BY <2>2, <2>3, <2>5, <2>6, LifeCreate
  <2> QED BY <2>7 DEF Lifecycle!Next
<1>6. ASSUME NEW s \in Session, AttachWatch(c, s) \/ AttachControl(c, s)
      PROVE  [Lifecycle!Next]_(Lifecycle!vars)
  <2>1. /\ pc[c] = "loop" /\ pc'[c] = "handshake" /\ active[c] = NoSession
        /\ \A d \in Conn \ {c} : pc'[d] = pc[d] /\ active'[d] = active[d]
        /\ s \in sessions
        /\ \A t \in Session \ {s} : watchers'[t] = watchers[t] /\ controller'[t] = controller[t]
        /\ UNCHANGED <<sessions, process, exitInfo, server>>
    BY <1>0, <1>6 DEF AttachWatch, AttachControl, Receive, MayAttach, Grant, TypeOK
  <2>2. c \in Unseated /\ Unseated' = Unseated \ {c} /\ Open' = Open
    <3>1. c \in Unseated /\ c \notin Unseated'
      BY <2>1 DEF Unseated
    <3> QED BY <2>1, <3>1, UnseatedFrame DEF Open
  <2>3. \A t \in Session \ {s} : Same(t)
    BY <2>1, SameFrame
  <2>4. Phase(s)' = Phase(s) /\ Phase(s) \in {"running", "exited"}
    <3>1. process[s] # "none"
      BY <1>0, <2>1 DEF UnbornUnused
    <3>2. Phase(s)' = Phase(s)
      BY <2>1 DEF Phase
    <3> QED BY <1>0, <2>1, <3>1, <3>2, PhaseCases
  <2>5. /\ Holder(s) = controller[s] /\ Viewers(s) = watchers[s]
        /\ Holder(s)' = controller'[s] /\ Viewers(s)' = watchers'[s]
    BY <2>1 DEF Holder, Viewers
  <2>6. CASE AttachWatch(c, s)
    <3>1. controller'[s] = controller[s] /\ watchers'[s] = watchers[s] \cup {c}
      BY <1>0, <2>6 DEF AttachWatch, TypeOK
    <3>2. Lifecycle!Watch(s, c)
      BY <2>2, <2>3, <2>4, <2>5, <3>1, LifeWatch
    <3> QED BY <3>2 DEF Lifecycle!Next
  <2>7. CASE AttachControl(c, s)
    <3>1. controller'[s] = c /\ watchers'[s] = watchers[s] /\ controller[s] \in {NoConn, c}
      BY <1>0, <2>7 DEF AttachControl, MayControl, TypeOK
    <3>2. controller[s] # c
      <4>1. ~Believes(c, s, FALSE)
        BY <2>1, ConstantsOK DEF Believes
      <4> QED BY <1>0, <2>1, <4>1 DEF RoleAgreement
    <3>3. Lifecycle!Control(s, c)
      BY <2>2, <2>3, <2>4, <2>5, <3>1, <3>2, LifeControl
    <3> QED BY <3>3 DEF Lifecycle!Next
  <2> QED BY <1>6, <2>6, <2>7
<1>7. CASE UndoAttach(c)
  <2>1. /\ Detach(result[c].session, c) /\ pc[c] = "undo" /\ pc'[c] = "done"
        /\ \A d \in Conn \ {c} : pc'[d] = pc[d] /\ active'[d] = active[d]
        /\ UNCHANGED <<sessions, process, exitInfo, server>>
    BY <1>0, <1>7 DEF UndoAttach, TypeOK
  <2>2. c \notin Unseated /\ c \notin Unseated'
    BY <2>1 DEF Unseated
  <2>3. result[c].readOnly \in BOOLEAN /\ Believes(c, result[c].session, result[c].readOnly)
    BY <1>0, <2>1 DEF Believes, TypeOK, AttachResult
  <2> QED BY <1>0, <2>1, <2>2, <2>3, LifeDetach
<1>8. CASE Leave(c)
  <2>1. /\ Detach(active[c], c) /\ pc[c] = "loop" /\ pc'[c] = "done"
        /\ \A d \in Conn \ {c} : pc'[d] = pc[d] /\ active'[d] = active[d]
        /\ UNCHANGED <<sessions, process, exitInfo, server>>
    BY <1>0, <1>8 DEF Leave, TypeOK
  <2>2. c \notin Unseated'
    BY <2>1 DEF Unseated
  <2>3. CASE active[c] = NoSession
    <3>1. UNCHANGED <<controller, watchers>>
      BY <1>0, <2>1, <2>3, ConstantsOK, DetachUnlisted DEF TypeOK
    <3>2. c \in Unseated
      BY <2>1, <2>3 DEF Unseated
    <3>3. (\A t \in Session : Same(t)) /\ Unseated' = Unseated \ {c} /\ Open' = Open
      BY <2>1, <2>2, <3>1, <3>2, SameFrame, UnseatedFrame DEF Open
    <3>4. Lifecycle!Retire(c)
      BY <3>2, <3>3, LifeRetire
    <3> QED BY <3>4 DEF Lifecycle!Next
  <2>4. CASE active[c] # NoSession
    <3>1. c \notin Unseated
      BY <2>4 DEF Unseated
    <3>2. readOnly[c] \in BOOLEAN /\ Believes(c, active[c], readOnly[c])
      BY <1>0, <2>1 DEF Believes, TypeOK
    <3> QED BY <1>0, <2>1, <2>2, <3>1, <3>2, LifeDetach
  <2> QED BY <2>3, <2>4
<1> QED BY <1>1, <1>2, <1>3, <1>4, <1>5, <1>6, <1>7, <1>8 DEF Handler

\* ... and so is every step of a process, its pump or its cleanup.
LEMMA SessionLife ==
    ASSUME LifeInv, NEW s \in Session, SessionStep(s)
    PROVE  [Lifecycle!Next]_(Lifecycle!vars)
<1> USE DEF managerVars, processVars, handlerVars
<1>0. TypeOK /\ UnbornUnused /\ ExitInv
  BY DEF LifeInv, FullInv, TypeInv, RoleInv
<1>u. /\ UNCHANGED <<pc, active, server, controller, watchers>>
      /\ Unseated' = Unseated /\ Open' = Open
  <2>1. UNCHANGED <<pc, active, server, controller, watchers>>
    BY DEF SessionStep, ProcessEnd, ForwardChunk, Deliver, WatchExit, ExitCleanup, TimerFire,
       Cleanup, Reap
  <2> QED BY <2>1 DEF Unseated, Open
<1>1. CASE ProcessEnd(s)
  <2>1. \A t \in Session : process'[t] = "none" <=> process[t] = "none"
    BY <1>0, <1>1 DEF ProcessEnd, TypeOK
  <2>2. \A t \in Session : Same(t)
    BY <1>1, <2>1, SameFrame DEF ProcessEnd
  <2> QED BY <1>u, <2>2, LifeStutter
<1>2. CASE ForwardChunk(s) \/ (\E c \in Conn : Deliver(s, c)) \/ ExitCleanup(s) \/ TimerFire(s) \/ Reap(s)
  <2>1. UNCHANGED <<sessions, process, exitInfo>>
    BY <1>2 DEF ForwardChunk, Deliver, ExitCleanup, TimerFire, Reap
  <2>2. \A t \in Session : Same(t)
    BY <1>u, <2>1, SameFrame
  <2> QED BY <1>u, <2>2, LifeStutter
<1>3. CASE WatchExit(s)
  <2>1. CASE s \notin sessions
    <3>1. UNCHANGED <<sessions, process, exitInfo>>
      BY <1>3, <2>1 DEF WatchExit
    <3>2. \A t \in Session : Same(t)
      BY <1>u, <3>1, SameFrame
    <3> QED BY <1>u, <3>2, LifeStutter
  <2>2. CASE s \in sessions
    <3>1. /\ UNCHANGED <<sessions, process>> /\ pump[s] \in {"forward", "wait"}
          /\ exitInfo'[s] /\ \A t \in Session \ {s} : exitInfo'[t] = exitInfo[t]
          /\ process[s] # "none"
      BY <1>0, <1>3, <2>2 DEF WatchExit, TypeOK
    <3>2. ~exitInfo[s]
      BY <1>0, <3>1 DEF ExitInv, Exits
    <3>3. Phase(s) = "running" /\ Phase(s)' = "exited"
      BY <2>2, <3>1, <3>2 DEF Phase
    <3>4. \A t \in Session \ {s} : Same(t)
      BY <1>u, <3>1, SameFrame
    <3>5. Holder(s)' = Holder(s) /\ Viewers(s)' = Viewers(s)
      BY <1>u, <3>1 DEF Holder, Viewers
    <3>6. Lifecycle!Exit(s)
      BY <1>u, <3>3, <3>4, <3>5, LifeExit
    <3> QED BY <3>6 DEF Lifecycle!Next
  <2> QED BY <2>1, <2>2
<1>4. ASSUME NEW g \in cleanups[s], Cleanup(s, g) PROVE [Lifecycle!Next]_(Lifecycle!vars)
  <2>1. UNCHANGED <<process, exitInfo>>
    BY <1>4 DEF Cleanup
  <2>2. CASE ~MayRemove(s, g)
    <3>1. \A t \in Session : Same(t)
      BY <1>u, <1>4, <2>1, <2>2, SameFrame DEF Cleanup
    <3> QED BY <1>u, <3>1, LifeStutter
  <2>3. CASE MayRemove(s, g)
    <3>1. s \in sessions /\ sessions' = sessions \ {s} /\ process[s] # "none"
      BY <1>0, <1>4, <2>3 DEF Cleanup, Remove, MayRemove, UnbornUnused
    <3>2. \A t \in Session \ {s} : Same(t)
      BY <1>u, <2>1, <3>1, SameFrame
    <3>3. exitInfo[s] \/ (DetachedTTL /\ controller[s] = NoConn /\ watchers[s] = {})
      <4>1. exitInfo[s] \/ DetachedTTL
        BY <1>0, <1>4 DEF ExitInv, Exits
      <4>2. exitInfo[s] \/ (controller[s] = NoConn /\ watchers[s] = {})
        BY <1>0, <2>3, ConnectionsEmpty DEF MayRemove
      <4> QED BY <4>1, <4>2
    <3>4. /\ exitInfo[s] => Phase(s) = "exited"
          /\ ~exitInfo[s] => Phase(s) = "running"
          /\ Phase(s)' = "gone"
      BY <2>1, <3>1 DEF Phase
    <3>5. /\ Holder(s) = controller[s] /\ Viewers(s) = watchers[s]
          /\ Holder(s)' = NoConn /\ Viewers(s)' = {}
      BY <3>1 DEF Holder, Viewers
    <3>6. Lifecycle!Remove(s)
      BY <1>u, <3>2, <3>3, <3>4, <3>5, LifeRemove
    <3> QED BY <3>6 DEF Lifecycle!Next
  <2> QED BY <2>2, <2>3
<1> QED BY <1>1, <1>2, <1>3, <1>4 DEF SessionStep

\* ... and of a shutdown.
LEMMA ShutdownLife ==
    ASSUME LifeInv, Shutdown
    PROVE  [Lifecycle!Next]_(Lifecycle!vars)
<1> USE DEF managerVars, processVars, handlerVars
<1>0. TypeOK /\ UnbornUnused
  BY DEF LifeInv, FullInv, TypeInv, RoleInv
<1>1. CASE CloseConnections \/ MainReturns
  <2>1. UNCHANGED <<sessions, controller, watchers, process, exitInfo, pc, active>> /\ Open' = Open
    BY <1>1 DEF CloseConnections, MainReturns, Open
  <2>2. (\A t \in Session : Same(t)) /\ Unseated' = Unseated
    BY <2>1, SameFrame DEF Unseated
  <2> QED BY <2>1, <2>2, LifeStutter
<1>2. CASE CloseManager
  <2>1. /\ sessions' = {} /\ UNCHANGED <<process, exitInfo, pc, active>>
        /\ server = "connsClosed" /\ server' = "managerClosed"
    BY <1>2 DEF CloseManager
  <2>2. Unseated' = Unseated /\ Open /\ ~Open'
    BY <2>1 DEF Unseated, Open
  <2>3. ASSUME NEW s \in Session
        PROVE  /\ Phase(s)' = IF Phase(s) \in {"running", "exited"} THEN "gone" ELSE Phase(s)
               /\ Holder(s)' = NoConn /\ Viewers(s)' = {}
    <3>1. Holder(s)' = NoConn /\ Viewers(s)' = {}
      BY <2>1 DEF Holder, Viewers
    <3>2. process[s] = "none" => Phase(s)' = "unborn"
      BY <2>1 DEF Phase
    <3>3. process[s] # "none" => Phase(s)' = "gone"
      BY <2>1 DEF Phase
    <3> QED BY <1>0, <3>1, <3>2, <3>3, PhaseCases
  <2>4. Lifecycle!Close
    BY <2>2, <2>3, LifeClose
  <2> QED BY <2>4 DEF Lifecycle!Next
<1> QED BY <1>1, <1>2 DEF Shutdown

\* The session core implements the abstract life cycle.
THEOREM ManagerImplementsLifecycle == Spec => ImplementsLifecycle
<1>1. Init => Lifecycle!Init
  <2> SUFFICES ASSUME Init PROVE Lifecycle!Init
    OBVIOUS
  <2>1. \A s \in Session : Phase(s) = "unborn"
    BY DEF Init, Phase
  <2>2. Unseated = Conn
    BY DEF Init, Unseated
  <2>3. (server \in {"up", "connsClosed"}) = TRUE
    BY DEF Init
  <2> QED BY <2>1, <2>2, <2>3 DEF Init, Lifecycle!Init
<1>2. LifeInv /\ [Next]_vars => [Lifecycle!Next]_(Lifecycle!vars)
  <2> SUFFICES ASSUME LifeInv, [Next]_vars PROVE [Lifecycle!Next]_(Lifecycle!vars)
    OBVIOUS
  <2>1. CASE UNCHANGED vars
    <3>1. /\ UNCHANGED <<sessions, controller, watchers, process, exitInfo>>
          /\ Unseated' = Unseated /\ Open' = Open
      BY <2>1 DEF vars, managerVars, processVars, handlerVars, Unseated, Open
    <3>2. \A t \in Session : Same(t)
      BY <3>1, SameFrame
    <3> QED BY <3>1, <3>2, LifeStutter
  <2>2. CASE Next
    BY <2>1, <2>2, HandlerLife, SessionLife, ShutdownLife DEF Next, Terminated
  <2> QED BY <2>1, <2>2
<1> QED BY <1>1, <1>2, LifeInvInductive, PTL DEF Spec, ImplementsLifecycle, Lifecycle!Spec

-----------------------------------------------------------------------------
(* What a connection is sent: by one pump only, in order and completely.   *)

\* The handler of c is attached to s, or has ended.
Seated(c, s) ==
    \/ pc[c] = "done"
    \/ pc[c] \in {"handshake", "undo"} /\ result[c].session = s
    \/ pc[c] \in {"loop", "input", "resize"} /\ active[c] = s

\* The connections that the pump of s writes to, or will.
Reach(s) == targets[s] \cup Connections(s)

\* A session reaches only the connections attached to it, and a connection is reached
\* by one session only, also after its handler has ended.
SeatInv == \A s \in Session, c \in Conn : c \in Reach(s) => Seated(c, s)
OneSeat == \A s, t \in Session, c \in Conn : c \in Reach(s) /\ c \in Reach(t) => s = t

\* The history is a window of the stream; a handshake replays a window of it.
HistoryInv ==
    /\ \A s \in Session :
          /\ history[s].from <= history[s].to
          /\ process[s] = "none" => history[s].to = 0
    /\ \A c \in Conn : pc[c] = "handshake" => result[c].from <= result[c].to

\* Nothing is sent before the handshake ends, and nothing after the socket is closed.
QuietInv ==
    \A c \in Conn :
        /\ pc[c] \in {"new", "handshake"} \/ (pc[c] = "loop" /\ active[c] = NoSession)
              => wire[c] = <<>>
        /\ pc[c] \in {"undo", "done"} => sock[c] = "closed"

\* A client that has seen the stream of s up to position to, and the exit or not
\* (ex), has seen all but the frame that the pump still owes it.
Sees(c, s, to, ex) ==
    /\ c \notin targets[s] => to = history[s].to /\ (ex <=> exitInfo[s])
    /\ c \in targets[s] =>
          /\ ~ex
          /\ to = IF pump[s] = "forward" THEN history[s].to - 1 ELSE history[s].to

LastOf(c) == wire[c][Len(wire[c])]

Attached(c) == pc[c] \in {"loop", "input", "resize"} /\ active[c] # NoSession /\ sock[c] # "closed"

\* The snapshot of a handshake in progress, and the frames that an attached connection
\* has been sent, are such views; what it has been sent is in order.
ViewOf(c) ==
    /\ pc[c] = "handshake" => Sees(c, result[c].session, result[c].to, result[c].exit)
    /\ Attached(c) => wire[c] # <<>> /\ Sees(c, active[c], LastOf(c).to, LastOf(c).kind = "exit")
    /\ WellFormed(wire[c])

ViewInv == \A c \in Conn : ViewOf(c)

StreamInv == LifeInv /\ SeatInv /\ OneSeat /\ HistoryInv /\ QuietInv /\ ViewInv

-----------------------------------------------------------------------------
(* Seats.                                                                   *)

\* Both seat invariants survive a step after which every session reaches at most
\* whom it did, and no connection it reaches has moved.
LEMMA SeatFrame ==
    ASSUME SeatInv, OneSeat,
           \A s \in Session : Reach(s)' \subseteq Reach(s),
           \A s \in Session, c \in Conn : c \in Reach(s) /\ Seated(c, s) => Seated(c, s)'
    PROVE  SeatInv' /\ OneSeat'
BY DEF SeatInv, OneSeat

\* Seats depend on the locals of the handler only.
LEMMA SeatedFrame ==
    ASSUME NEW c \in Conn, NEW s, UNCHANGED <<pc[c], active[c], result[c]>>
    PROVE  Seated(c, s)' <=> Seated(c, s)
BY DEF Seated

\* An attach seats a connection that no session has reached before.
LEMMA SeatTaken ==
    ASSUME SeatInv, OneSeat, NEW s \in Session, NEW c \in Conn,
           pc[c] = "loop", active[c] = NoSession,
           pc'[c] = "handshake", result'[c].session = s,
           \A d \in Conn \ {c} : UNCHANGED <<pc[d], active[d], result[d]>>,
           \A t \in Session : Reach(t)' \subseteq Reach(t) \cup {c},
           \A t \in Session \ {s} : Reach(t)' \subseteq Reach(t)
    PROVE  SeatInv' /\ OneSeat'
<1>1. \A t \in Session : c \notin Reach(t)
  BY ConstantsOK DEF SeatInv, Seated
<1>2. \A t \in Session : c \in Reach(t)' => t = s
  BY <1>1
<1>3. Seated(c, s)'
  BY DEF Seated
<1>4. \A d \in Conn \ {c}, t \in Session : Seated(d, t)' <=> Seated(d, t)
  BY SeatedFrame
<1>5. SeatInv'
  <2> SUFFICES ASSUME NEW t \in Session, NEW d \in Conn, d \in Reach(t)' PROVE Seated(d, t)'
    BY DEF SeatInv
  <2>1. CASE d = c
    BY <1>2, <1>3, <2>1
  <2>2. CASE d # c
    BY <1>4, <2>2 DEF SeatInv
  <2> QED BY <2>1, <2>2
<1>6. OneSeat'
  <2> SUFFICES ASSUME NEW t \in Session, NEW u \in Session, NEW d \in Conn,
                      d \in Reach(t)', d \in Reach(u)'
               PROVE  t = u
    BY DEF OneSeat
  <2>1. CASE d = c
    BY <1>2, <2>1
  <2>2. CASE d # c
    BY <2>2 DEF OneSeat
  <2> QED BY <2>1, <2>2
<1> QED BY <1>5, <1>6

\* Detaching takes connections away.
LEMMA DetachReach ==
    ASSUME TypeOK, NEW s, NEW c \in Conn, Detach(s, c), targets' = targets
    PROVE  \A t \in Session : Reach(t)' \subseteq Reach(t)
<1> SUFFICES ASSUME NEW t \in Session PROVE Reach(t)' \subseteq Reach(t)
  OBVIOUS
<1>1. \/ controller'[t] = controller[t] /\ watchers'[t] = watchers[t]
      \/ controller'[t] \in {controller[t], NoConn} /\ watchers'[t] = watchers[t] \ {c}
  BY DetachRoles
<1> QED BY <1>1 DEF Reach, Connections

\* Every step keeps the seats.
LEMMA SeatStep ==
    ASSUME TypeInv, RoleInv, SeatInv, OneSeat, [Next]_vars
    PROVE  SeatInv' /\ OneSeat'
<1> USE DEF managerVars, processVars, handlerVars
<1>0. TypeOK /\ HandlerLocals
  BY DEF TypeInv, RoleInv
<1>f. ASSUME UNCHANGED <<pc, active, result>>, \A s \in Session : Reach(s)' \subseteq Reach(s)
      PROVE  SeatInv' /\ OneSeat'
  <2>1. \A c \in Conn, s \in Session : Seated(c, s)' <=> Seated(c, s)
    BY <1>f, SeatedFrame
  <2> QED BY <1>f, <2>1, SeatFrame
<1>r. ASSUME UNCHANGED <<controller, watchers, targets>>
      PROVE  \A s \in Session : Reach(s)' \subseteq Reach(s)
  BY <1>r DEF Reach, Connections
<1>1. ASSUME NEW c \in Conn, Handler(c)
      PROVE  SeatInv' /\ OneSeat'
  <2>f. ASSUME \A d \in Conn \ {c} : UNCHANGED <<pc[d], active[d], result[d]>>,
               \A s \in Session : Reach(s)' \subseteq Reach(s),
               \A s \in Session : Seated(c, s) => Seated(c, s)'
        PROVE  SeatInv' /\ OneSeat'
    <3>1. \A d \in Conn, s \in Session : Seated(d, s) => Seated(d, s)'
      BY <2>f, SeatedFrame
    <3> QED BY <2>f, <3>1, SeatFrame
  <2>1. CASE Reply(c) \/ Rename(c) \/ PeerDrop(c) \/ (\E s \in Session : AttachRefused(c, s))
    BY <2>1, <1>f, <1>r DEF Reply, Rename, PeerDrop, AttachRefused
  <2>2. CASE Upgrade(c)
    <3>1. pc[c] = "new" /\ \A s \in Session : ~Seated(c, s)
      BY <2>2 DEF Upgrade, Seated
    <3> QED BY <1>0, <2>2, <2>f, <1>r, <3>1 DEF Upgrade, TypeOK
  <2>3. CASE HandshakeFail(c) \/ HandshakeOk(c)
    <3>1. \A d \in Conn \ {c} : UNCHANGED <<pc[d], active[d], result[d]>>
      BY <1>0, <2>3 DEF HandshakeFail, HandshakeOk, TypeOK
    <3>2. \A s \in Session : Seated(c, s) => Seated(c, s)'
      BY <1>0, <2>3 DEF HandshakeFail, HandshakeOk, Seated, TypeOK
    <3> QED BY <2>3, <2>f, <1>r, <3>1, <3>2 DEF HandshakeFail, HandshakeOk
  <2>4. CASE CallError(c) \/ \E op \in {"input", "resize"} : BeginCall(c, op) \/ CallOk(c, op)
    <3>1. \A d \in Conn \ {c} : UNCHANGED <<pc[d], active[d], result[d]>>
      BY <1>0, <2>4 DEF CallError, BeginCall, CallOk, TypeOK
    <3>2. \A s \in Session : Seated(c, s) => Seated(c, s)'
      BY <1>0, <2>4 DEF CallError, BeginCall, CallOk, Receive, Seated, TypeOK
    <3> QED BY <2>4, <2>f, <1>r, <3>1, <3>2 DEF CallError, BeginCall, CallOk
  <2>5. ASSUME NEW s \in Session, AttachCreate(c, s) \/ AttachWatch(c, s) \/ AttachControl(c, s)
        PROVE  SeatInv' /\ OneSeat'
    <3>1. /\ pc[c] = "loop" /\ active[c] = NoSession /\ pc'[c] = "handshake"
          /\ result'[c].session = s
          /\ \A d \in Conn \ {c} : UNCHANGED <<pc[d], active[d], result[d]>>
      <4>1. CASE AttachCreate(c, s)
        BY <1>0, <4>1 DEF AttachCreate, Receive, MayAttach, NoResult, TypeOK
      <4>2. CASE AttachWatch(c, s) \/ AttachControl(c, s)
        BY <1>0, <4>2 DEF AttachWatch, AttachControl, Receive, MayAttach, Grant, TypeOK
      <4> QED BY <2>5, <4>1, <4>2
    <3>2. /\ targets' = targets
          /\ \A t \in Session \ {s} : controller'[t] = controller[t] /\ watchers'[t] = watchers[t]
          /\ controller'[s] \in {controller[s], c} /\ watchers'[s] \subseteq watchers[s] \cup {c}
      BY <1>0, <2>5 DEF AttachCreate, AttachWatch, AttachControl, TypeOK
    <3>3. \A t \in Session \ {s} : Reach(t)' \subseteq Reach(t)
      BY <3>2 DEF Reach, Connections
    <3>4. Reach(s)' \subseteq Reach(s) \cup {c}
      BY <3>2 DEF Reach, Connections
    <3> QED BY <3>1, <3>3, <3>4, SeatTaken
  <2>6. CASE UndoAttach(c) \/ Leave(c)
    <3>1. /\ targets' = targets /\ \E s : Detach(s, c)
          /\ \A d \in Conn \ {c} : UNCHANGED <<pc[d], active[d], result[d]>>
          /\ pc'[c] = "done"
      BY <1>0, <2>6 DEF UndoAttach, Leave, TypeOK
    <3>2. \A s \in Session : Seated(c, s)'
      BY <3>1 DEF Seated
    <3> QED BY <1>0, <2>f, <3>1, <3>2, DetachReach
  <2> QED BY <1>1, <2>1, <2>2, <2>3, <2>4, <2>5, <2>6 DEF Handler
<1>2. ASSUME NEW s \in Session, SessionStep(s)
      PROVE  SeatInv' /\ OneSeat'
  <2>1. UNCHANGED <<pc, active, result, controller, watchers>>
    BY <1>2 DEF SessionStep, ProcessEnd, ForwardChunk, Deliver, WatchExit, ExitCleanup, TimerFire,
       Cleanup, Reap
  <2>2. \A t \in Session : targets'[t] \subseteq targets[t] \cup Connections(t)
    <3>1. CASE targets' = targets
      BY <3>1
    <3>2. CASE targets' = [targets EXCEPT ![s] = Connections(s)]
      BY <1>0, <3>2 DEF TypeOK
    <3>3. ASSUME NEW c \in Conn, Deliver(s, c)
          PROVE  \A t \in Session : targets'[t] \subseteq targets[t] \cup Connections(t)
      BY <1>0, <3>3 DEF Deliver, TypeOK
    <3> QED BY <1>2, <3>1, <3>2, <3>3 DEF SessionStep, ProcessEnd, ForwardChunk, WatchExit, ExitCleanup,
            TimerFire, Cleanup, Reap
  <2>3. \A t \in Session : Reach(t)' \subseteq Reach(t)
    BY <2>1, <2>2 DEF Reach, Connections
  <2> QED BY <1>f, <2>1, <2>3
<1>3. CASE Shutdown \/ UNCHANGED vars
  BY <1>3, <1>f, <1>r DEF Shutdown, CloseConnections, CloseManager, MainReturns, vars
<1>4. CASE Next
  BY <1>1, <1>2, <1>3, <1>4 DEF Next, Terminated
<1> QED BY <1>3, <1>4

\* A handler that is not attached is alone with its connection, and no connection is
\* written to by two pumps (finishAttachLocked, forwardOutput, sendJSON).
THEOREM WritersExclude == Spec => []WriterExclusion
<1> DEFINE I == LifeInv /\ SeatInv /\ OneSeat
<1>1. ASSUME Init PROVE I
  <2>1. SeatInv /\ OneSeat
    BY <1>1 DEF Init, SeatInv, OneSeat, Reach, Connections
  <2> QED BY <1>1, <2>1, LifeInvInductive
<1>2. ASSUME I, [Next]_vars PROVE I'
  BY <1>2, LifeInvInductive, SeatStep DEF LifeInv, FullInv
<1>3. ASSUME I PROVE WriterExclusion
  <2>1. ASSUME NEW c \in Conn, pc[c] = "loop", active[c] = NoSession, NEW s \in Session
        PROVE  c \notin Reach(s)
    BY <1>3, <2>1, ConstantsOK DEF SeatInv, Seated
  <2>2. ASSUME NEW c \in Conn, NEW s \in Session, NEW t \in Session, c \in targets[s] \cap targets[t]
        PROVE  s = t
    BY <1>3, <2>2 DEF OneSeat, Reach
  <2> QED BY <2>1, <2>2 DEF WriterExclusion, Reach
<1>4. (Init => I) /\ (I /\ [Next]_vars => I') /\ (I => WriterExclusion)
  BY <1>1, <1>2, <1>3
<1> HIDE DEF I
<1> QED BY <1>4, PTL DEF Spec

-----------------------------------------------------------------------------
(* Sequences of frames.                                                     *)

\* A frame that continues the last one keeps a stream well formed.
LEMMA AppendWellFormed ==
    ASSUME NEW w \in Seq(Frame), WellFormed(w), w # <<>>, w[Len(w)].kind # "exit",
           NEW f \in Frame, f.kind # "ready", f.from = w[Len(w)].to
    PROVE  /\ WellFormed(Append(w, f))
           /\ Append(w, f) # <<>>
           /\ Append(w, f)[Len(Append(w, f))] = f
<1> DEFINE v == Append(w, f)
<1>1. /\ Len(v) = Len(w) + 1 /\ Len(w) \in Nat /\ Len(w) > 0
      /\ v[Len(v)] = f
      /\ \A i \in 1 .. Len(w) : v[i] = w[i]
  OBVIOUS
<1>2. \A i \in 1 .. Len(v) : i \in 1 .. Len(w) \/ i = Len(v)
  BY <1>1
<1>3. \A i \in 1 .. Len(v) : (v[i].kind = "ready") <=> (i = 1)
  BY <1>1, <1>2 DEF WellFormed
<1>4. \A i \in 1 .. Len(v) : (v[i].kind = "exit") => (i = Len(v))
  <2>1. \A i \in 1 .. Len(w) : w[i].kind # "exit"
    BY DEF WellFormed
  <2> QED BY <1>1, <1>2, <2>1
<1>5. \A i \in 1 .. Len(v) - 1 : v[i + 1].from = v[i].to
  <2> SUFFICES ASSUME NEW i \in 1 .. Len(w) PROVE v[i + 1].from = v[i].to
    BY <1>1
  <2>1. CASE i = Len(w)
    BY <1>1, <2>1
  <2>2. CASE i # Len(w)
    <3>1. i \in 1 .. Len(w) - 1 /\ i + 1 \in 1 .. Len(w)
      BY <1>1, <2>2
    <3> QED BY <1>1, <3>1 DEF WellFormed
  <2> QED BY <2>1, <2>2
<1>6. v # <<>>
  BY <1>1
<1> HIDE DEF v
<1>7. WellFormed(v)
  BY <1>3, <1>4, <1>5 DEF WellFormed
<1> QED BY <1>1, <1>6, <1>7 DEF v

\* What has been written of a well-formed stream is well formed.
LEMMA PrefixWellFormed ==
    ASSUME NEW w \in Seq(Frame), WellFormed(w), NEW k \in 0 .. Len(w)
    PROVE  WellFormed(SubSeq(w, 1, k))
<1> DEFINE v == SubSeq(w, 1, k)
<1>1. Len(v) = k /\ k \in Nat /\ k <= Len(w) /\ Len(w) \in Nat
  OBVIOUS
<1>2. \A i \in 1 .. k : v[i] = w[i]
  OBVIOUS
<1> HIDE DEF v
<1>3. \A i \in 1 .. Len(v) : (v[i].kind = "ready") <=> (i = 1)
  BY <1>1, <1>2 DEF WellFormed
<1>4. \A i \in 1 .. Len(v) : (v[i].kind = "exit") => (i = Len(v))
  BY <1>1, <1>2 DEF WellFormed
<1>5. \A i \in 1 .. Len(v) - 1 : v[i + 1].from = v[i].to
  <2> SUFFICES ASSUME NEW i \in 1 .. k - 1 PROVE v[i + 1].from = v[i].to
    BY <1>1
  <2>1. i \in 1 .. k /\ i + 1 \in 1 .. k /\ i \in 1 .. Len(w) - 1
    BY <1>1
  <2> QED BY <1>2, <2>1 DEF WellFormed
<1>6. WellFormed(v)
  BY <1>3, <1>4, <1>5 DEF WellFormed
<1> QED BY <1>6 DEF v

\* The replay of a snapshot is well formed and leads to the snapshot's end.
LEMMA ReplayWellFormed ==
    ASSUME NEW r \in AttachResult, r.from <= r.to
    PROVE  /\ WellFormed(Replay(r))
           /\ Replay(r) # <<>>
           /\ Replay(r)[Len(Replay(r))].to = r.to
           /\ Replay(r)[Len(Replay(r))].kind = "exit" <=> r.exit
<1> DEFINE a == [kind |-> "ready", from |-> r.from, to |-> r.from]
           b == [kind |-> "output", from |-> r.from, to |-> r.to]
           e == [kind |-> "exit", from |-> r.to, to |-> r.to]
<1>0. r.from \in Nat /\ r.to \in Nat /\ r.exit \in BOOLEAN
  BY DEF AttachResult, Position
<1>1. a \in Frame /\ b \in Frame /\ e \in Frame
  BY <1>0 DEF Frame, Position
<1>2. Replay(r) = <<a>> \o (IF r.from < r.to THEN <<b>> ELSE <<>>) \o (IF r.exit THEN <<e>> ELSE <<>>)
  BY DEF Replay
<1>3. /\ a.kind = "ready" /\ a.to = r.from
      /\ b.kind = "output" /\ b.from = r.from /\ b.to = r.to
      /\ e.kind = "exit" /\ e.from = r.to /\ e.to = r.to
  OBVIOUS
<1> HIDE DEF a, b, e
<1>c. ASSUME NEW u \in Seq(Frame), NEW f \in Frame
      PROVE  u \o <<>> = u /\ u \o <<f>> = Append(u, f) /\ Append(u, f) \in Seq(Frame)
  OBVIOUS
<1>4. /\ <<a>> \in Seq(Frame) /\ <<a>> # <<>> /\ <<a>>[Len(<<a>>)] = a
      /\ WellFormed(<<a>>)
  BY <1>1, <1>3 DEF WellFormed
<1> DEFINE u == <<a>> \o (IF r.from < r.to THEN <<b>> ELSE <<>>)
<1>5. /\ u \in Seq(Frame) /\ u # <<>> /\ WellFormed(u)
      /\ u[Len(u)].to = r.to /\ u[Len(u)].kind # "exit"
  <2>1. CASE r.from < r.to
    <3>1. u = Append(<<a>>, b) /\ Append(<<a>>, b) \in Seq(Frame)
      BY <1>1, <1>4, <1>c, <2>1
    <3>2. /\ WellFormed(Append(<<a>>, b)) /\ Append(<<a>>, b) # <<>>
          /\ Append(<<a>>, b)[Len(Append(<<a>>, b))] = b
      BY <1>1, <1>3, <1>4, AppendWellFormed
    <3> HIDE DEF u
    <3> QED BY <1>3, <3>1, <3>2
  <2>2. CASE ~(r.from < r.to)
    <3>1. u = <<a>> /\ r.from = r.to
      BY <1>0, <1>4, <1>c, <2>2
    <3> HIDE DEF u
    <3> QED BY <1>3, <1>4, <3>1
  <2> QED BY <2>1, <2>2
<1>6. Replay(r) = u \o (IF r.exit THEN <<e>> ELSE <<>>)
  BY <1>2
<1> HIDE DEF u
<1>7. CASE r.exit
  <2>1. Replay(r) = Append(u, e)
    BY <1>1, <1>5, <1>6, <1>7, <1>c
  <2>2. /\ WellFormed(Append(u, e)) /\ Append(u, e) # <<>>
        /\ Append(u, e)[Len(Append(u, e))] = e
    BY <1>1, <1>3, <1>5, AppendWellFormed
  <2> QED BY <1>3, <1>7, <2>1, <2>2
<1>8. CASE ~r.exit
  <2>1. Replay(r) = u
    BY <1>5, <1>6, <1>8, <1>c
  <2> QED BY <1>5, <1>8, <2>1
<1> QED BY <1>7, <1>8

\* A connection that has been sent nothing.
LEMMA EmptyWellFormed ==
    /\ WellFormed(<<>>)
    /\ \A w \in Seq(Frame) : <<>> \o w = w
BY DEF WellFormed

-----------------------------------------------------------------------------
(* Streams.                                                                 *)

\* Every step keeps the history and the snapshots of it windows.
LEMMA HistoryStep ==
    ASSUME TypeInv, HistoryInv, [Next]_vars
    PROVE  HistoryInv'
<1> USE DEF managerVars, processVars, handlerVars
<1>0. TypeOK
  BY DEF TypeInv
<1>f. ASSUME UNCHANGED history,
             \A s \in Session : process'[s] = "none" => process[s] = "none",
             \A c \in Conn : pc'[c] = "handshake" => pc[c] = "handshake" /\ result'[c] = result[c]
      PROVE  HistoryInv'
  BY <1>f DEF HistoryInv
<1>1. ASSUME NEW c \in Conn, Handler(c)
      PROVE  HistoryInv'
  <2>1. ASSUME NEW s \in Session, AttachCreate(c, s) PROVE HistoryInv'
    <3>1. /\ result'[c].from = 0 /\ result'[c].to = 0
          /\ UNCHANGED history
          /\ \A t \in Session : process'[t] = "none" => process[t] = "none"
          /\ \A d \in Conn \ {c} : pc'[d] = pc[d] /\ result'[d] = result[d]
      BY <1>0, <2>1 DEF AttachCreate, NoResult, TypeOK
    <3> QED BY <3>1 DEF HistoryInv
  <2>2. ASSUME NEW s \in Session, AttachWatch(c, s) \/ AttachControl(c, s) PROVE HistoryInv'
    <3>1. /\ result'[c].from = history[s].from /\ result'[c].to = history[s].to
          /\ UNCHANGED <<history, process>>
          /\ \A d \in Conn \ {c} : pc'[d] = pc[d] /\ result'[d] = result[d]
      BY <1>0, <2>2 DEF AttachWatch, AttachControl, Grant, TypeOK
    <3> QED BY <3>1 DEF HistoryInv
  <2>3. CASE HandshakeOk(c) \/ UndoAttach(c)
    <3>1. /\ pc'[c] # "handshake" /\ UNCHANGED <<history, process>>
          /\ \A d \in Conn \ {c} : pc'[d] = pc[d] /\ result'[d] = result[d]
      BY <1>0, <2>3 DEF HandshakeOk, UndoAttach, TypeOK
    <3> QED BY <3>1, <1>f
  <2>4. CASE Reply(c) \/ Rename(c) \/ PeerDrop(c) \/ (\E s \in Session : AttachRefused(c, s))
    BY <2>4, <1>f DEF Reply, Rename, PeerDrop, AttachRefused
  <2>5. CASE Upgrade(c) \/ HandshakeFail(c) \/ CallError(c) \/ Leave(c)
             \/ \E op \in {"input", "resize"} : BeginCall(c, op) \/ CallOk(c, op)
    <3>1. /\ pc'[c] # "handshake" /\ UNCHANGED <<history, process, result>>
          /\ \A d \in Conn \ {c} : pc'[d] = pc[d]
      BY <1>0, <2>5 DEF Upgrade, HandshakeFail, CallError, Leave, BeginCall, CallOk, TypeOK
    <3> QED BY <3>1, <1>f
  <2> QED BY <1>1, <2>1, <2>2, <2>3, <2>4, <2>5 DEF Handler
<1>2. ASSUME NEW s \in Session, SessionStep(s)
      PROVE  HistoryInv'
  <2>1. UNCHANGED <<pc, result>>
    BY <1>2 DEF SessionStep, ProcessEnd, ForwardChunk, Deliver, WatchExit, ExitCleanup, TimerFire,
       Cleanup, Reap
  <2>2. CASE history' = history
    <3>1. \A t \in Session : process'[t] = "none" => process[t] = "none"
      BY <1>0, <1>2 DEF SessionStep, ProcessEnd, ForwardChunk, Deliver, WatchExit, ExitCleanup,
         TimerFire, Cleanup, Reap, TypeOK
    <3> QED BY <2>1, <2>2, <3>1, <1>f
  <2>3. CASE ForwardChunk(s) /\ s \in sessions
    <3>1. PICK lo \in history[s].from .. history[s].to + 1 :
              history' = [history EXCEPT ![s] = [from |-> lo, to |-> history[s].to + 1]]
      BY <2>3 DEF ForwardChunk
    <3>2. /\ process'= process /\ process[s] # "none"
          /\ history'[s].from = lo /\ history'[s].to = history[s].to + 1
          /\ \A t \in Session \ {s} : history'[t] = history[t]
          /\ history[s].from \in Nat /\ history[s].to \in Nat
      BY <1>0, <2>3, <3>1 DEF ForwardChunk, TypeOK, Position
    <3>3. history'[s].from <= history'[s].to
      BY <3>2
    <3> QED BY <2>1, <3>2, <3>3 DEF HistoryInv
  <2> QED BY <1>2, <2>2, <2>3 DEF SessionStep, ProcessEnd, ForwardChunk, Deliver, WatchExit, ExitCleanup,
          TimerFire, Cleanup, Reap
<1>3. CASE Shutdown \/ UNCHANGED vars
  BY <1>3, <1>f DEF Shutdown, CloseConnections, CloseManager, MainReturns, vars
<1>4. CASE Next
  BY <1>1, <1>2, <1>3, <1>4 DEF Next, Terminated
<1> QED BY <1>3, <1>4

\* A frame is delivered only to a connection that is attached to the pump's session.
LEMMA DeliverAttached ==
    ASSUME TypeInv, RoleInv, SeatInv, QuietInv, NEW s \in Session, NEW c \in Conn, Deliver(s, c),
           sock[c] # "closed"
    PROVE  Attached(c) /\ active[c] = s
<1>1. c \in Reach(s)
  BY DEF Deliver, Reach
<1>2. Seated(c, s) /\ pc[c] # "handshake" /\ pc[c] \notin {"undo", "done"}
  BY <1>1 DEF SeatInv, Deliver, WriterFree, QuietInv
<1> QED BY <1>2, ConstantsOK DEF Seated, Attached

\* Every step keeps QuietInv.
LEMMA QuietStep ==
    ASSUME TypeInv, RoleInv, SeatInv, QuietInv, [Next]_vars
    PROVE  QuietInv'
<1> USE DEF managerVars, processVars, handlerVars
<1>0. TypeOK /\ HandlerLocals
  BY DEF TypeInv, RoleInv
<1>f. ASSUME UNCHANGED <<pc, active, wire>>, \A c \in Conn : sock[c] = "closed" => sock'[c] = "closed"
      PROVE  QuietInv'
  BY <1>f DEF QuietInv
<1>1. ASSUME NEW c \in Conn, Handler(c)
      PROVE  QuietInv'
  <2>c. ASSUME \A d \in Conn \ {c} : UNCHANGED <<pc[d], active[d], wire[d], sock[d]>>,
               /\ pc'[c] \in {"new", "handshake"} \/ (pc'[c] = "loop" /\ active'[c] = NoSession)
                     => wire'[c] = <<>>
               /\ pc'[c] \in {"undo", "done"} => sock'[c] = "closed"
        PROVE  QuietInv'
    BY <2>c DEF QuietInv
  <2>1. CASE Reply(c) \/ Rename(c) \/ (\E s \in Session : AttachRefused(c, s))
    <3>1. \A d \in Conn : sock[d] = "closed" => sock'[d] = "closed"
      BY <1>0, <2>1 DEF Reply, SendReply, Rename, AttachRefused, TypeOK
    <3> QED BY <2>1, <3>1, <1>f DEF Reply, Rename, AttachRefused
  <2>2. CASE PeerDrop(c)
    <3>1. \A d \in Conn : sock[d] = "closed" => sock'[d] = "closed"
      BY <1>0, <2>2 DEF PeerDrop, TypeOK
    <3> QED BY <2>2, <3>1, <1>f DEF PeerDrop
  <2>3. CASE Upgrade(c)
    <3>1. /\ \A d \in Conn \ {c} : UNCHANGED <<pc[d], active[d], wire[d], sock[d]>>
          /\ wire'[c] = wire[c] /\ pc[c] = "new"
          /\ pc'[c] = "loop" \/ (pc'[c] = "done" /\ sock'[c] = "closed")
      BY <1>0, <2>3 DEF Upgrade, TypeOK
    <3>2. wire'[c] = <<>>
      BY <3>1 DEF QuietInv
    <3> QED BY <3>1, <3>2, <2>c
  <2>4. ASSUME NEW s \in Session, AttachCreate(c, s) \/ AttachWatch(c, s) \/ AttachControl(c, s)
        PROVE  QuietInv'
    <3>1. /\ \A d \in Conn \ {c} : UNCHANGED <<pc[d], active[d], wire[d], sock[d]>>
          /\ wire'[c] = wire[c] /\ pc[c] = "loop" /\ active[c] = NoSession /\ pc'[c] = "handshake"
      BY <1>0, <2>4 DEF AttachCreate, AttachWatch, AttachControl, Receive, MayAttach, Grant, TypeOK
    <3>2. wire'[c] = <<>>
      BY <3>1 DEF QuietInv
    <3> QED BY <3>1, <3>2, <2>c
  <2>5. CASE HandshakeOk(c)
    <3>1. /\ \A d \in Conn \ {c} : UNCHANGED <<pc[d], active[d], wire[d], sock[d]>>
          /\ active'[c] = result[c].session /\ pc'[c] = "loop" /\ pc[c] = "handshake"
      BY <1>0, <2>5 DEF HandshakeOk, TypeOK
    <3>2. active'[c] # NoSession
      BY <1>0, <3>1, ConstantsOK DEF HandlerLocals
    <3> QED BY <3>1, <3>2, <2>c
  <2>6. CASE HandshakeFail(c) \/ UndoAttach(c) \/ Leave(c)
    <3>1. /\ \A d \in Conn \ {c} : UNCHANGED <<pc[d], active[d], wire[d], sock[d]>>
          /\ pc'[c] \in {"undo", "done"}
          /\ sock'[c] = "closed" \/ (sock'[c] = sock[c] /\ pc[c] = "undo")
      BY <1>0, <2>6 DEF HandshakeFail, UndoAttach, Leave, TypeOK
    <3>2. sock'[c] = "closed"
      BY <3>1 DEF QuietInv
    <3> QED BY <3>1, <3>2, <2>c
  <2>7. CASE CallError(c) \/ \E op \in {"input", "resize"} : BeginCall(c, op) \/ CallOk(c, op)
    <3>1. /\ \A d \in Conn \ {c} : UNCHANGED <<pc[d], active[d], wire[d], sock[d]>>
          /\ pc'[c] \in {"loop", "input", "resize"} /\ active'[c] = active[c]
      BY <1>0, <2>7 DEF CallError, SendReply, BeginCall, CallOk, TypeOK
    <3>2. active[c] # NoSession
      <4>1. CASE CallError(c) \/ \E op \in {"input", "resize"} : CallOk(c, op)
        BY <1>0, <4>1, ConstantsOK DEF CallError, CallOk, HandlerLocals
      <4>2. CASE \E op \in {"input", "resize"} : BeginCall(c, op)
        BY <4>2 DEF BeginCall, MaySteer
      <4> QED BY <2>7, <4>1, <4>2
    <3> QED BY <3>1, <3>2, <2>c
  <2> QED BY <1>1, <2>1, <2>2, <2>3, <2>4, <2>5, <2>6, <2>7 DEF Handler
<1>2. ASSUME NEW s \in Session, SessionStep(s)
      PROVE  QuietInv'
  <2>1. ASSUME NEW c \in Conn, Deliver(s, c) PROVE QuietInv'
    <3>1. /\ UNCHANGED <<pc, active>>
          /\ \A d \in Conn \ {c} : wire'[d] = wire[d] /\ sock'[d] = sock[d]
          /\ \/ sock[c] # "closed" /\ UNCHANGED sock
             \/ sock'[c] = "closed" /\ wire'[c] = wire[c]
      BY <1>0, <2>1 DEF Deliver, TypeOK
    <3>2. CASE sock[c] # "closed" /\ UNCHANGED sock
      <4>1. pc[c] \in {"loop", "input", "resize"} /\ active[c] # NoSession
        BY <2>1, <3>2, DeliverAttached DEF Attached
      <4> QED BY <3>1, <3>2, <4>1 DEF QuietInv
    <3>3. CASE sock'[c] = "closed" /\ wire'[c] = wire[c]
      BY <3>1, <3>3 DEF QuietInv
    <3> QED BY <3>1, <3>2, <3>3
  <2>2. CASE Reap(s)
    BY <2>2, <1>f DEF Reap, CloseSockets
  <2> QED BY <1>2, <1>f, <2>1, <2>2 DEF SessionStep, ProcessEnd, ForwardChunk, WatchExit, ExitCleanup,
          TimerFire, Cleanup
<1>3. CASE Shutdown \/ UNCHANGED vars
  BY <1>3, <1>f DEF Shutdown, CloseConnections, CloseManager, MainReturns, CloseSockets, vars
<1>4. CASE Next
  BY <1>1, <1>2, <1>3, <1>4 DEF Next, Terminated
<1> QED BY <1>3, <1>4

\* A step that neither sends to c nor changes what its session's pump owes it.
LEMMA ViewFrame ==
    ASSUME TypeOK, HandlerLocals, NEW c \in Conn, ViewOf(c),
           wire'[c] = wire[c], active'[c] = active[c],
           sock'[c] # "closed" => sock[c] # "closed",
           \/ pc'[c] = pc[c] /\ result'[c] = result[c]
           \/ {pc[c], pc'[c]} \subseteq {"loop", "input", "resize"}
           \/ pc'[c] \in {"undo", "done"},
           \A s \in Session :
               /\ c \in targets'[s] <=> c \in targets[s]
               /\ history'[s] = history[s] /\ exitInfo'[s] = exitInfo[s]
               /\ c \in targets[s] => pump'[s] = pump[s]
    PROVE  ViewOf(c)'
<1>1. WellFormed(wire[c])'
  BY DEF ViewOf
<1>2. (pc[c] = "handshake" => Sees(c, result[c].session, result[c].to, result[c].exit))'
  BY DEF ViewOf, Sees, HandlerLocals
<1>3. ASSUME Attached(c)'
      PROVE  (wire[c] # <<>> /\ Sees(c, active[c], LastOf(c).to, LastOf(c).kind = "exit"))'
  <2>1. Attached(c) /\ active[c] \in Session
    BY <1>3 DEF Attached, TypeOK
  <2>2. LastOf(c)' = LastOf(c)
    BY DEF LastOf
  <2> QED BY <2>1, <2>2 DEF ViewOf, Sees
<1> QED BY <1>1, <1>2, <1>3 DEF ViewOf

\* A listed session reaches everybody who views it.
LEMMA ViewersConnected ==
    ASSUME TypeOK, RoleAgreement, NEW s \in sessions, NEW c \in Conn
    PROVE  /\ pc[c] = "handshake" /\ result[c].session = s => c \in Connections(s)
           /\ Attached(c) /\ active[c] = s => c \in Connections(s)
<1>1. ASSUME NEW ro \in BOOLEAN, Believes(c, s, ro) PROVE c \in Connections(s)
  <2>1. ro = TRUE \/ ro = FALSE
    OBVIOUS
  <2>2. controller[s] = c \/ c \in watchers[s]
    BY <1>1, <2>1 DEF RoleAgreement
  <2> QED BY <2>2, ConstantsOK DEF Connections
<1>2. result[c].readOnly \in BOOLEAN /\ readOnly[c] \in BOOLEAN
  BY DEF TypeOK, AttachResult
<1> QED BY <1>1, <1>2 DEF Believes, Attached

\* The pump takes a chunk, or the exit: whoever views the session is owed a frame.
LEMMA PumpTakes ==
    ASSUME StreamInv, NEW s \in Session, ForwardChunk(s) \/ WatchExit(s), NEW c \in Conn
    PROVE  ViewOf(c)'
<1> USE DEF managerVars, processVars, handlerVars
<1>0. /\ TypeOK /\ PumpInv /\ RoleAgreement /\ HandlerLocals /\ ViewOf(c) /\ ExitInv
      /\ s \in sessions => process[s] # "none"
  BY DEF StreamInv, LifeInv, FullInv, TypeInv, RoleInv, ViewInv, UnbornUnused
<1>1. /\ UNCHANGED <<pc, active, result, wire, sock, sessions>>
      /\ targets[s] = {}
      /\ \A t \in Session \ {s} : /\ targets'[t] = targets[t] /\ history'[t] = history[t]
                                  /\ exitInfo'[t] = exitInfo[t] /\ pump'[t] = pump[t]
  BY <1>0 DEF ForwardChunk, WatchExit, TypeOK
<1>2. CASE s \notin sessions
  <2>1. UNCHANGED <<targets, history, exitInfo>>
    BY <1>2 DEF ForwardChunk, WatchExit
  <2> QED BY <1>0, <1>1, <2>1, ViewFrame
<1>3. CASE s \in sessions
  <2>1. /\ targets'[s] = Connections(s)
        /\ ~exitInfo[s]
        /\ \/ pump'[s] = "forward" /\ history'[s].to = history[s].to + 1
           \/ pump'[s] = "exit" /\ history'[s].to = history[s].to
    <3>1. CASE ForwardChunk(s)
      <4>1. /\ targets' = [targets EXCEPT ![s] = Connections(s)]
            /\ pump' = pump /\ pump[s] = "forward"
        BY <1>3, <3>1 DEF ForwardChunk
      <4>2. PICK lo \in history[s].from .. history[s].to + 1 :
                history' = [history EXCEPT ![s] = [from |-> lo, to |-> history[s].to + 1]]
        BY <1>3, <3>1 DEF ForwardChunk
      <4>3. targets'[s] = Connections(s) /\ history'[s].to = history[s].to + 1
        BY <1>0, <4>1, <4>2 DEF TypeOK
      <4> QED BY <1>0, <4>1, <4>3 DEF ExitInv, Exits
    <3>2. CASE WatchExit(s)
      BY <1>0, <1>3, <3>2, ZenonT(60) DEF WatchExit, ExitInv, Exits, TypeOK
    <3> QED BY <3>1, <3>2
  <2>2. history[s].to \in Nat
    BY <1>0 DEF TypeOK, Position
  <2>3. WellFormed(wire[c])'
    BY <1>0, <1>1 DEF ViewOf
  <2>4. (pc[c] = "handshake" => Sees(c, result[c].session, result[c].to, result[c].exit))'
    <3> SUFFICES ASSUME pc[c] = "handshake"
                 PROVE  Sees(c, result[c].session, result[c].to, result[c].exit)'
      BY <1>1
    <3>1. Sees(c, result[c].session, result[c].to, result[c].exit) /\ result[c].session \in Session
      BY <1>0 DEF ViewOf, HandlerLocals
    <3>2. CASE result[c].session = s
      BY <1>0, <1>1, <1>3, <2>1, <2>2, <3>1, <3>2, ViewersConnected DEF Sees
    <3>3. CASE result[c].session # s
      BY <1>1, <3>1, <3>3 DEF Sees
    <3> QED BY <3>2, <3>3
  <2>5. ASSUME Attached(c)'
        PROVE  (wire[c] # <<>> /\ Sees(c, active[c], LastOf(c).to, LastOf(c).kind = "exit"))'
    <3>1. Attached(c) /\ active[c] \in Session /\ LastOf(c)' = LastOf(c)
      BY <1>0, <1>1, <2>5 DEF Attached, TypeOK, LastOf
    <3>2. wire[c] # <<>> /\ Sees(c, active[c], LastOf(c).to, LastOf(c).kind = "exit")
      BY <1>0, <3>1 DEF ViewOf
    <3>3. CASE active[c] = s
      BY <1>0, <1>1, <1>3, <2>1, <2>2, <3>1, <3>2, <3>3, ViewersConnected DEF Sees
    <3>4. CASE active[c] # s
      BY <1>1, <3>1, <3>2, <3>4 DEF Sees
    <3> QED BY <3>3, <3>4
  <2> QED BY <2>3, <2>4, <2>5 DEF ViewOf
<1> QED BY <1>2, <1>3

\* The pump delivers to d: d has seen everything, or its socket is closed.
LEMMA PumpDelivers ==
    ASSUME StreamInv, NEW s \in Session, NEW d \in Conn, Deliver(s, d), NEW c \in Conn
    PROVE  ViewOf(c)'
<1> USE DEF managerVars, processVars, handlerVars
<1>0. /\ TypeOK /\ PumpInv /\ TypeInv /\ RoleInv /\ HandlerLocals /\ ViewOf(c) /\ ExitInv
      /\ SeatInv /\ QuietInv
  BY DEF StreamInv, LifeInv, FullInv, TypeInv, RoleInv, ViewInv
<1>1. /\ UNCHANGED <<pc, active, result, history, exitInfo, pump>>
      /\ d \in targets[s] /\ targets'[s] = targets[s] \ {d}
      /\ \A t \in Session \ {s} : targets'[t] = targets[t]
      /\ \A e \in Conn \ {d} : wire'[e] = wire[e] /\ sock'[e] = sock[e]
      /\ \/ /\ sock[d] # "closed" /\ UNCHANGED sock
            /\ wire'[d] = Append(wire[d], PumpFrame(s))
         \/ sock'[d] = "closed" /\ wire'[d] = wire[d]
  BY <1>0 DEF Deliver, TypeOK
<1>2. CASE c # d
  BY <1>0, <1>1, <1>2, ViewFrame
<1>3. CASE c = d /\ sock'[d] = "closed" /\ wire'[d] = wire[d]
  BY <1>0, <1>1, <1>3 DEF ViewOf, Attached, Deliver, WriterFree
<1>4. CASE c = d /\ sock[d] # "closed" /\ wire'[d] = Append(wire[d], PumpFrame(s))
  <2>1. Attached(c) /\ active[c] = s
    BY <1>0, <1>4, DeliverAttached
  <2>2. /\ wire[c] # <<>> /\ LastOf(c).kind # "exit"
        /\ LastOf(c).to = IF pump[s] = "forward" THEN history[s].to - 1 ELSE history[s].to
        /\ WellFormed(wire[c])
    BY <1>0, <1>1, <1>4, <2>1 DEF ViewOf, Sees
  <2>3. pump[s] \in {"forward", "exit"} /\ (pump[s] = "forward" => history[s].to > 0)
    BY <1>0, <1>1 DEF PumpInv
  <2>4. history[s].to \in Nat
    BY <1>0 DEF TypeOK, Position
  <2>5. /\ PumpFrame(s).from = LastOf(c).to /\ PumpFrame(s).to = history[s].to
        /\ PumpFrame(s).kind = IF pump[s] = "forward" THEN "output" ELSE "exit"
    BY <2>2, <2>3 DEF PumpFrame
  <2>6. PumpFrame(s) \in Frame
    <3>1. CASE pump[s] = "forward"
      <4>1. history[s].to - 1 \in Nat
        BY <2>3, <2>4, <3>1
      <4> QED BY <2>4, <3>1, <4>1 DEF PumpFrame, Frame, Position
    <3>2. CASE pump[s] # "forward"
      BY <2>4, <3>2 DEF PumpFrame, Frame, Position
    <3> QED BY <3>1, <3>2
  <2>7. wire[c] \in Seq(Frame)
    BY <1>0 DEF TypeOK
  <2>8. /\ WellFormed(wire'[c]) /\ wire'[c] # <<>> /\ wire'[c][Len(wire'[c])] = PumpFrame(s)
    <3>1. PumpFrame(s).kind # "ready"
      BY <2>5
    <3> QED BY <1>4, <2>2, <2>5, <2>6, <2>7, <3>1, AppendWellFormed DEF LastOf
  <2>9. exitInfo[s] <=> pump[s] = "exit"
    BY <1>0, <2>3 DEF ExitInv, Exits
  <2>10. Sees(c, active[c], LastOf(c).to, LastOf(c).kind = "exit")'
    <3>1. c \notin targets'[s] /\ active'[c] = s /\ LastOf(c)' = PumpFrame(s)
      BY <1>1, <1>4, <2>1, <2>8 DEF LastOf
    <3>2. PumpFrame(s).to = history'[s].to /\ (PumpFrame(s).kind = "exit" <=> exitInfo'[s])
      BY <1>1, <2>3, <2>5, <2>9
    <3> QED BY <3>1, <3>2 DEF Sees
  <2>11. pc'[c] # "handshake"
    BY <1>1, <2>1 DEF Attached
  <2> QED BY <2>8, <2>10, <2>11 DEF ViewOf
<1> QED BY <1>1, <1>2, <1>3, <1>4

\* A handshake ends: the snapshot has become the connection's stream.
LEMMA HandshakeDelivers ==
    ASSUME StreamInv, NEW c \in Conn, HandshakeOk(c)
    PROVE  ViewOf(c)'
<1> USE DEF managerVars, processVars, handlerVars
<1>0. /\ TypeOK /\ PumpInv /\ TypeInv /\ HandlerLocals /\ ViewOf(c) /\ QuietInv /\ HistoryInv
  BY DEF StreamInv, LifeInv, FullInv, TypeInv, RoleInv, ViewInv
<1> DEFINE r == result[c]
<1>1. /\ pc[c] = "handshake" /\ pc'[c] = "loop" /\ active'[c] = r.session
      /\ wire'[c] = wire[c] \o Replay(r) /\ StartPump(c)
      /\ UNCHANGED <<targets, history, exitInfo, sock>>
  BY <1>0 DEF HandshakeOk, TypeOK
<1>2. r \in AttachResult /\ r.from <= r.to /\ r.session \in Session /\ wire[c] = <<>>
  BY <1>0, <1>1 DEF TypeOK, HistoryInv, HandlerLocals, QuietInv
<1>3. Sees(c, r.session, r.to, r.exit)
  BY <1>0, <1>1 DEF ViewOf
<1> HIDE DEF r
<1>4. wire'[c] = Replay(r)
  BY <1>1, <1>2, ReplayType, EmptyWellFormed
<1>5. /\ WellFormed(wire'[c]) /\ wire'[c] # <<>>
      /\ LastOf(c)'.to = r.to /\ (LastOf(c)'.kind = "exit" <=> r.exit)
  BY <1>2, <1>4, ReplayWellFormed DEF LastOf
<1>6. c \in targets[r.session] => pump'[r.session] = pump[r.session]
  BY <1>0, <1>1, <1>2, StartPumpOff DEF PumpInv
<1>7. Sees(c, active[c], LastOf(c).to, LastOf(c).kind = "exit")'
  BY <1>1, <1>2, <1>3, <1>5, <1>6 DEF Sees
<1> QED BY <1>1, <1>5, <1>7 DEF ViewOf

\* A handshake fails: what was written of the snapshot is in order.
LEMMA HandshakeBreaks ==
    ASSUME StreamInv, NEW c \in Conn, HandshakeFail(c)
    PROVE  ViewOf(c)'
<1>0. /\ TypeOK /\ QuietInv /\ HistoryInv
  BY DEF StreamInv, LifeInv, FullInv, TypeInv
<1>1. pc[c] = "handshake" /\ pc'[c] = "undo"
  BY <1>0 DEF HandshakeFail, TypeOK
<1>2. PICK k \in 0 .. Len(Replay(result[c])) - 1 :
          wire' = [wire EXCEPT ![c] = wire[c] \o SubSeq(Replay(result[c]), 1, k)]
  BY DEF HandshakeFail
<1>3. /\ result[c] \in AttachResult /\ result[c].from <= result[c].to /\ wire[c] = <<>>
  BY <1>0, <1>1 DEF TypeOK, HistoryInv, QuietInv
<1>4. /\ Replay(result[c]) \in Seq(Frame) /\ WellFormed(Replay(result[c]))
  BY <1>3, ReplayType, ReplayWellFormed
<1>5. k \in 0 .. Len(Replay(result[c]))
  BY <1>4
<1>6. /\ WellFormed(SubSeq(Replay(result[c]), 1, k))
      /\ SubSeq(Replay(result[c]), 1, k) \in Seq(Frame)
  BY <1>4, <1>5, PrefixWellFormed
<1>7. wire'[c] = wire[c] \o SubSeq(Replay(result[c]), 1, k)
  BY <1>0, <1>2 DEF TypeOK
<1>8. WellFormed(wire'[c])
  BY <1>3, <1>6, <1>7, EmptyWellFormed
<1> QED BY <1>1, <1>8 DEF ViewOf, Attached

\* Every step keeps what every connection sees.
LEMMA ViewStep ==
    ASSUME StreamInv, [Next]_vars
    PROVE  ViewInv'
<1> USE DEF managerVars, processVars, handlerVars
<1> SUFFICES ASSUME NEW c \in Conn PROVE ViewOf(c)'
  BY DEF ViewInv
<1>0. /\ TypeOK /\ TypeInv /\ PumpInv /\ RoleAgreement /\ HandlerLocals /\ ViewOf(c) /\ ExitInv
      /\ SeatInv /\ QuietInv /\ UnbornUnused /\ HistoryInv
  BY DEF StreamInv, LifeInv, FullInv, TypeInv, RoleInv, ViewInv
<1>f. ASSUME UNCHANGED <<wire, active, pc, result, targets, history, exitInfo, pump>>,
             sock'[c] # "closed" => sock[c] # "closed"
      PROVE  ViewOf(c)'
  BY <1>0, <1>f, ViewFrame
<1>1. ASSUME NEW d \in Conn, Handler(d)
      PROVE  ViewOf(c)'
  <2>1. CASE Reply(d) \/ Rename(d) \/ (\E s \in Session : AttachRefused(d, s)) \/ PeerDrop(d)
    <3>1. sock'[c] # "closed" => sock[c] # "closed"
      BY <1>0, <2>1 DEF Reply, SendReply, Rename, AttachRefused, PeerDrop, TypeOK
    <3> QED BY <2>1, <3>1, <1>f DEF Reply, Rename, AttachRefused, PeerDrop
  <2>2. CASE \/ Upgrade(d) \/ CallError(d) \/ Leave(d) \/ UndoAttach(d) \/ HandshakeFail(d)
             \/ HandshakeOk(d)
             \/ \E op \in {"input", "resize"} : BeginCall(d, op) \/ CallOk(d, op)
    <3>1. /\ \A s \in Session : c \in targets[s] => pump'[s] = pump[s]
          /\ UNCHANGED <<targets, history, exitInfo>>
      <4>1. CASE UndoAttach(d) \/ HandshakeOk(d)
        BY <1>0, <4>1, StartPumpOff DEF UndoAttach, HandshakeOk, PumpInv
      <4> QED BY <2>2, <4>1 DEF Upgrade, CallError, Leave, HandshakeFail, BeginCall, CallOk
    <3>2. CASE c # d
      <4>1. UNCHANGED <<wire[c], active[c], sock[c], pc[c], result[c]>>
        <5>1. CASE Upgrade(d) \/ CallError(d) \/ Leave(d)
          BY <1>0, <3>2, <5>1 DEF Upgrade, CallError, SendReply, Leave, TypeOK
        <5>2. CASE UndoAttach(d) \/ HandshakeFail(d) \/ HandshakeOk(d)
          BY <1>0, <3>2, <5>2 DEF UndoAttach, HandshakeFail, HandshakeOk, TypeOK
        <5>3. CASE \E op \in {"input", "resize"} : BeginCall(d, op) \/ CallOk(d, op)
          BY <1>0, <3>2, <5>3 DEF BeginCall, CallOk, TypeOK
        <5> QED BY <2>2, <5>1, <5>2, <5>3
      <4> QED BY <1>0, <3>1, <4>1, ViewFrame
    <3>3. CASE c = d /\ Upgrade(d)
      <4>1. pc'[c] \in {"loop", "done"} /\ active'[c] = NoSession /\ wire'[c] = wire[c]
        BY <1>0, <3>3 DEF Upgrade, HandlerLocals, TypeOK
      <4> QED BY <1>0, <4>1 DEF ViewOf, Attached
    <3>4. CASE c = d /\ (CallError(d) \/ Leave(d) \/ UndoAttach(d)
                         \/ \E op \in {"input", "resize"} : BeginCall(d, op) \/ CallOk(d, op))
      <4>1. /\ wire'[c] = wire[c] /\ active'[c] = active[c]
            /\ sock'[c] # "closed" => sock[c] # "closed"
            /\ {pc[c], pc'[c]} \subseteq {"loop", "input", "resize"} \/ pc'[c] = "done"
        <5>1. CASE CallError(d) \/ Leave(d) \/ UndoAttach(d)
          BY <1>0, <3>4, <5>1 DEF CallError, SendReply, Leave, UndoAttach, TypeOK
        <5>2. CASE \E op \in {"input", "resize"} : BeginCall(d, op) \/ CallOk(d, op)
          BY <1>0, <3>4, <5>2 DEF BeginCall, CallOk, Receive, TypeOK
        <5> QED BY <3>4, <5>1, <5>2
      <4> QED BY <1>0, <3>1, <4>1, ViewFrame
    <3>5. CASE c = d /\ HandshakeOk(d)
      BY <3>5, HandshakeDelivers
    <3>6. CASE c = d /\ HandshakeFail(d)
      BY <3>6, HandshakeBreaks
    <3> QED BY <2>2, <3>2, <3>3, <3>4, <3>5, <3>6
  <2>3. ASSUME NEW s \in Session, AttachCreate(d, s) \/ AttachWatch(d, s) \/ AttachControl(d, s)
        PROVE  ViewOf(c)'
    <3>1. UNCHANGED <<wire, active, sock, targets, history, exitInfo, pump>>
      BY <2>3 DEF AttachCreate, AttachWatch, AttachControl
    <3>2. CASE c # d
      <4>1. pc'[c] = pc[c] /\ result'[c] = result[c]
        BY <1>0, <2>3, <3>2 DEF AttachCreate, AttachWatch, AttachControl, Grant, TypeOK
      <4> QED BY <1>0, <3>1, <4>1, ViewFrame
    <3>3. CASE c = d
      <4>1. pc[c] = "loop" /\ active[c] = NoSession /\ pc'[c] = "handshake"
        BY <1>0, <2>3, <3>3 DEF AttachCreate, AttachWatch, AttachControl, Receive, MayAttach, Grant, TypeOK
      <4>2. c \notin targets[s]
        BY <1>0, <4>1, ConstantsOK DEF SeatInv, Seated, Reach
      <4>3. /\ result'[c].session = s /\ result'[c].to = history[s].to
            /\ result'[c].exit <=> exitInfo[s]
        <5>1. CASE AttachCreate(d, s)
          <6>1. process[s] = "none"
            BY <5>1 DEF AttachCreate
          <6>2. history[s].to = 0 /\ ~exitInfo[s]
            BY <1>0, <6>1 DEF HistoryInv, PumpInv, ExitInv, Exits
          <6>3. result'[c].session = s /\ result'[c].to = 0 /\ ~result'[c].exit
            BY <1>0, <3>3, <5>1 DEF AttachCreate, NoResult, TypeOK
          <6> QED BY <6>2, <6>3
        <5>2. CASE AttachWatch(d, s) \/ AttachControl(d, s)
          BY <1>0, <3>3, <5>2 DEF AttachWatch, AttachControl, Grant, TypeOK
        <5> QED BY <2>3, <5>1, <5>2
      <4> QED BY <1>0, <3>1, <4>1, <4>2, <4>3 DEF ViewOf, Attached, Sees
    <3> QED BY <3>2, <3>3
  <2> QED BY <1>1, <2>1, <2>2, <2>3 DEF Handler
<1>2. ASSUME NEW s \in Session, SessionStep(s)
      PROVE  ViewOf(c)'
  <2>1. CASE ForwardChunk(s) \/ WatchExit(s)
    BY <2>1, PumpTakes
  <2>2. CASE \E d \in Conn : Deliver(s, d)
    BY <2>2, PumpDelivers
  <2>3. CASE ExitCleanup(s)
    <3>1. \A t \in Session : c \in targets[t] => pump'[t] = pump[t]
      BY <1>0, <2>3 DEF ExitCleanup, TypeOK
    <3> QED BY <1>0, <2>3, <3>1, ViewFrame DEF ExitCleanup
  <2>4. CASE ProcessEnd(s) \/ TimerFire(s) \/ \E g \in cleanups[s] : Cleanup(s, g)
    BY <2>4, <1>f DEF ProcessEnd, TimerFire, Cleanup
  <2>5. CASE Reap(s)
    BY <2>5, <1>f DEF Reap, CloseSockets
  <2> QED BY <1>2, <2>1, <2>2, <2>3, <2>4, <2>5 DEF SessionStep
<1>3. CASE Shutdown \/ UNCHANGED vars
  BY <1>3, <1>f DEF Shutdown, CloseConnections, CloseManager, MainReturns, CloseSockets, vars
<1>4. CASE Next
  BY <1>1, <1>2, <1>3, <1>4 DEF Next, Terminated
<1> QED BY <1>3, <1>4

\* The invariant of the streams holds initially and every step keeps it.
LEMMA StreamInvInductive == (Init => StreamInv) /\ (StreamInv /\ [Next]_vars => StreamInv')
<1>1. ASSUME Init PROVE StreamInv
  <2>1. SeatInv /\ OneSeat
    BY <1>1 DEF Init, SeatInv, OneSeat, Reach, Connections
  <2>2. HistoryInv /\ QuietInv
    BY <1>1 DEF Init, HistoryInv, QuietInv
  <2>3. ViewInv
    BY <1>1, EmptyWellFormed DEF Init, ViewInv, ViewOf, Attached
  <2> QED BY <1>1, <2>1, <2>2, <2>3, LifeInvInductive DEF StreamInv
<1>2. ASSUME StreamInv, [Next]_vars PROVE StreamInv'
  BY <1>2, LifeInvInductive, SeatStep, HistoryStep, QuietStep, ViewStep DEF StreamInv, LifeInv, FullInv
<1> QED BY <1>1, <1>2

\* What a client receives is one stream: the replay of an attach and the live frames
\* join without a gap and without a repetition (finishAttachLocked, forwardOutput).
THEOREM StreamsInOrder == Spec => []StreamOrder
<1>1. StreamInv => StreamOrder
  BY DEF StreamInv, ViewInv, ViewOf, StreamOrder
<1> QED BY <1>1, StreamInvInductive, PTL DEF Spec

\* ... and nothing is left out: an attached client that is owed nothing has it all.
THEOREM StreamsComplete == Spec => []StreamComplete
<1>1. ASSUME StreamInv PROVE StreamComplete
  <2> SUFFICES ASSUME NEW c \in Conn, NEW s \in sessions, pc[c] \in {"loop", "input", "resize"},
                      active[c] = s, sock[c] # "closed", c \notin targets[s]
               PROVE  /\ wire[c] # <<>>
                      /\ LastOf(c).to = history[s].to
                      /\ exitInfo[s] => LastOf(c).kind = "exit"
    BY DEF StreamComplete, LastOf
  <2>1. Attached(c)
    BY <1>1, ConstantsOK DEF Attached, StreamInv, LifeInv, FullInv, TypeInv, TypeOK
  <2> QED BY <1>1, <2>1 DEF StreamInv, ViewInv, ViewOf, Sees
<1>2. StreamInv => StreamComplete
  BY <1>1
<1> QED BY <1>2, StreamInvInductive, PTL DEF Spec
=============================================================================
