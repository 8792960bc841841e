------------------------- MODULE SessionListProofs --------------------------
(***************************************************************************)
(* Proofs about SessionList, for any number of requests and any failure    *)
(* limit: the list is never that of an overtaken fetch, polling goes on,   *)
(* once, and every notice has its own timer.                               *)
(***************************************************************************)
EXTENDS SessionList, TLAPS

\* Requests: the active one is the latest, its fetch is in flight and none was started
\* after it.
RequestInv ==
    /\ latest \in Request \cup {None} /\ active \in Request \cup {None}
    /\ signalled \in BOOLEAN /\ owed \in BOOLEAN
    /\ pending \in [trigger : Trigger, queuedFor : Request] \cup {None}
    /\ flight \subseteq Request /\ overtaken \subseteq flight
    /\ active # None => active = latest /\ active \in flight \ overtaken

Loop == [open : BOOLEAN, inFlight : BOOLEAN, timers : 0 .. 2, armed : BOOLEAN,
         failures : 0 .. FailureLimit, circuitOpen : BOOLEAN]

\* The loop has a timer or a poll while the menu is open, and neither when it is closed;
\* refreshTimer holds the timer, so that whoever sets one finds none that runs;
\* the circuit is open when the failures have reached their limit, and no poll is made
\* while it is open.
LoopOK(l) ==
    /\ l \in Loop
    /\ l.open => (l.timers = 1 /\ ~l.inFlight) \/ (l.timers = 0 /\ l.inFlight)
    /\ ~l.open => l.timers = 0 /\ ~l.inFlight
    /\ l.failures = FailureLimit => l.circuitOpen
    /\ l.inFlight => ~l.circuitOpen
    /\ l.armed <=> l.timers = 1

\* A poll under way is the active request, and its race carries the signal of the loop.
PollInv == loop.inFlight => active # None /\ signalled

\* Notices, and what the throttle of failures remembers.
NoticeInv ==
    /\ told \in [key : Reason, cooling : BOOLEAN] \cup {None}
    /\ notice \in Notice \cup {None}
    /\ noticeTimers \in 0 .. 1
    /\ NoticeTimed

\* Once the hooks are gone nothing is left that could run.
GoneInv ==
    ~mounted => active = None /\ ~loop.open /\ ~trailing /\ noticeTimers = 0

FlagInv == trailing \in BOOLEAN /\ recent \in BOOLEAN /\ mounted \in BOOLEAN

ListInv ==
    /\ RequestInv /\ LoopOK(loop) /\ PollInv
    /\ NoticeInv /\ GoneInv /\ FlagInv
    /\ list \in {"empty", "current"}

-----------------------------------------------------------------------------
(* Requests.                                                                *)

\* Coalescing yields a trigger, whatever was pending.
LEMMA CoalesceType == ASSUME NEW a, NEW b PROVE Coalesce(a, b) \in Trigger
BY DEF Coalesce, Trigger

\* A request is started: it is the active one, and overtakes the others.
LEMMA StartKeeps ==
    ASSUME NEW fl, fl \subseteq Request, NEW signal \in BOOLEAN, StartRefresh(fl, signal)
    PROVE  RequestInv' /\ active' # None /\ signalled' = signal
<1>1. PICK r \in Request \ (fl \cup (IF pending = None THEN {} ELSE {pending.queuedFor})) :
        /\ latest' = r /\ active' = r /\ signalled' = signal
        /\ pending' = None
        /\ flight' = fl \cup {r} /\ overtaken' = fl
        /\ owed' = FALSE
  BY DEF StartRefresh
<1>2. r \in Request /\ r \notin fl /\ r # None
  BY ListConstants
<1>3. signalled' \in BOOLEAN /\ owed' \in BOOLEAN
  BY <1>1, Zenon
<1> QED BY <1>1, <1>2, <1>3 DEF RequestInv

\* A request is remembered for the end of the one under way.
LEMMA QueueKeeps ==
    ASSUME NEW trigger \in Trigger, RequestInv, active # None, QueueRefresh(trigger)
    PROVE  RequestInv' /\ active' = active /\ signalled' = signalled
<1> DEFINE before == IF PendingFor(latest) THEN pending.trigger ELSE None
<1>1. /\ pending' = [trigger |-> Coalesce(before, trigger), queuedFor |-> latest]
      /\ owed' = TRUE
      /\ UNCHANGED <<latest, active, signalled, flight, overtaken>>
  BY DEF QueueRefresh
<1>2. Coalesce(before, trigger) \in Trigger /\ latest \in Request
  BY CoalesceType DEF RequestInv
<1> HIDE DEF before
<1>3. pending' \in [trigger : Trigger, queuedFor : Request]
  BY <1>1, <1>2
<1>4. owed' \in BOOLEAN
  BY <1>1, Zenon
<1> QED BY <1>1, <1>3, <1>4 DEF RequestInv

\* requestSessionRefresh leaves a request active: the one it started, or the one it found.
LEMMA RequestKeeps ==
    ASSUME NEW trigger \in Trigger, NEW signal \in BOOLEAN, RequestInv,
           RequestRefresh(trigger, signal)
    PROVE  /\ RequestInv' /\ active' # None
           /\ active # None => signalled' = signalled
           /\ active = None => signalled' = signal
<1>1. CASE active # None /\ QueueRefresh(trigger)
  BY <1>1, QueueKeeps
<1>2. CASE active = None /\ StartRefresh(flight, signal)
  BY <1>2, StartKeeps DEF RequestInv
<1> QED BY <1>1, <1>2 DEF RequestRefresh

\* A request ends: no poll is under way, whether another request follows or not.
LEMMA FinishKeeps ==
    ASSUME NEW r, NEW fl, fl \subseteq flight, RequestInv, Finish(r, fl)
    PROVE  RequestInv'
<1>1. CASE /\ latest = r /\ PendingFor(r)
           /\ \E q \in Request \ (fl \cup {r}) :
                 /\ latest' = q /\ active' = q /\ signalled' = FALSE
                 /\ pending' = None
                 /\ flight' = fl \cup {q} /\ overtaken' = fl
                 /\ owed' = FALSE
  <2>1. PICK q \in Request \ (fl \cup {r}) :
                 /\ latest' = q /\ active' = q /\ signalled' = FALSE
                 /\ pending' = None
                 /\ flight' = fl \cup {q} /\ overtaken' = fl
                 /\ owed' = FALSE
    BY <1>1
  <2>2. signalled' \in BOOLEAN /\ owed' \in BOOLEAN
    BY <2>1, Zenon
  <2>3. q \in Request /\ q \notin fl /\ fl \subseteq Request
    BY DEF RequestInv
  <2> QED BY <2>1, <2>2, <2>3 DEF RequestInv
<1>2. CASE /\ active' = None
           /\ flight' = fl /\ overtaken' = overtaken \cap fl
           /\ UNCHANGED <<latest, signalled, pending, owed>>
  BY <1>2 DEF RequestInv
<1> QED BY <1>1, <1>2 DEF Finish

\* Nothing changes.
LEMMA RequestSame == ASSUME RequestInv, UNCHANGED requestVars PROVE RequestInv'
BY DEF RequestInv, requestVars

-----------------------------------------------------------------------------
(* The poll loop.                                                           *)

\* A loop whose poll is under way: nothing is set.
Polling(l) ==
    /\ l \in Loop /\ l.open /\ l.timers = 0 /\ ~l.armed /\ ~l.circuitOpen
    /\ l.failures < FailureLimit

\* The fields of a loop.
LEMMA LoopFields ==
    ASSUME NEW l \in Loop
    PROVE  /\ DOMAIN l = {"open", "inFlight", "timers", "armed", "failures", "circuitOpen"}
           /\ l.open \in BOOLEAN /\ l.inFlight \in BOOLEAN /\ l.timers \in 0 .. 2
           /\ l.armed \in BOOLEAN /\ l.failures \in 0 .. FailureLimit /\ l.circuitOpen \in BOOLEAN
BY DEF Loop

\* What SetTimer leaves alone, and what it sets.
LEMMA SetTimerSets ==
    ASSUME NEW l \in Loop, l.timers = 0
    PROVE  /\ SetTimer(l) \in Loop /\ SetTimer(l).timers = 1 /\ SetTimer(l).armed
           /\ SetTimer(l).open = l.open /\ SetTimer(l).inFlight = l.inFlight
           /\ SetTimer(l).failures = l.failures /\ SetTimer(l).circuitOpen = l.circuitOpen
<1> DEFINE m == [l EXCEPT !.timers = @ + 1, !.armed = TRUE]
<1>1. /\ m.timers = 1 /\ m.armed = TRUE /\ m.open = l.open /\ m.inFlight = l.inFlight
      /\ m.failures = l.failures /\ m.circuitOpen = l.circuitOpen
  BY LoopFields
<1>2. m.timers \in 0 .. 2 /\ m.armed \in BOOLEAN
  <2> HIDE DEF m
  <2>1. m.armed \in BOOLEAN
    BY <1>1, Zenon
  <2> QED BY <1>1, <2>1
<1>3. m \in Loop
  BY <1>1, <1>2, LoopFields DEF Loop
<1>4. SetTimer(l) = m
  BY DEF SetTimer
<1> HIDE DEF m
<1> QED BY <1>1, <1>3, <1>4

\* What a reaction may leave for the finally: a timer, with the circuit open or a short
\* delay, or none.
Reacted(l) ==
    /\ l \in Loop /\ l.open
    /\ (l.timers = 0 /\ ~l.armed /\ ~l.circuitOpen) \/ (l.timers = 1 /\ l.armed)
    /\ l.failures = FailureLimit => l.circuitOpen

\* Another number of failures.
LEMMA FailuresSet ==
    ASSUME NEW l, Polling(l), NEW n \in 0 .. FailureLimit
    PROVE  LET m == [l EXCEPT !.failures = n]
           IN  /\ m \in Loop /\ m.open /\ m.timers = 0 /\ ~m.armed /\ ~m.circuitOpen
               /\ m.failures = n
<1> DEFINE m == [l EXCEPT !.failures = n]
<1>1. l \in Loop
  BY DEF Polling
<1>2. /\ m.open = l.open /\ m.inFlight = l.inFlight /\ m.timers = l.timers /\ m.armed = l.armed
      /\ m.failures = n /\ m.circuitOpen = l.circuitOpen
  BY <1>1, LoopFields
<1>3. m \in Loop
  BY <1>1, <1>2, LoopFields DEF Loop
<1> HIDE DEF m
<1>4. /\ m.open /\ m.timers = 0 /\ ~m.armed /\ ~m.circuitOpen
  BY <1>2 DEF Polling
<1> QED BY <1>2, <1>3, <1>4 DEF m

\* The breaker opens once the failures have reached the limit.
LEMMA BreakerOpens ==
    ASSUME NEW l \in Loop, l.open, l.timers = 0, ~l.circuitOpen
    PROVE  Reacted(OpenCircuitBreaker(l))
<1> DEFINE m == [l EXCEPT !.circuitOpen = TRUE]
<1>1. /\ m.open = l.open /\ m.inFlight = l.inFlight /\ m.timers = 0 /\ m.armed = l.armed
      /\ m.failures = l.failures /\ m.circuitOpen = TRUE
  BY LoopFields
<1>2. m \in Loop
  <2>1. m.circuitOpen \in BOOLEAN
    BY <1>1, Zenon
  <2> QED BY <1>1, <2>1, LoopFields DEF Loop
<1>3. OpenCircuitBreaker(l) = SetTimer(m)
  BY DEF OpenCircuitBreaker
<1> HIDE DEF m
<1>4. /\ SetTimer(m) \in Loop /\ SetTimer(m).timers = 1 /\ SetTimer(m).armed
      /\ SetTimer(m).open = m.open /\ SetTimer(m).circuitOpen = m.circuitOpen
  BY <1>1, <1>2, SetTimerSets
<1> DEFINE k == SetTimer(m)
<1> HIDE DEF k
<1>5. k \in Loop /\ k.timers = 1 /\ k.armed /\ k.open /\ k.circuitOpen
  BY <1>1, <1>4 DEF k
<1>6. Reacted(k)
  BY <1>5 DEF Reacted
<1> QED BY <1>3, <1>6 DEF k

\* A poll under way reacts to its result.
LEMMA ReactSets == ASSUME NEW l, Polling(l), NEW result PROVE Reacted(React(l, result))
<1>1. Classify(result) \in {"success", "ignored_failure", "bootstrap_retry", "counted_failure"}
  BY DEF Classify
<1>2. l \in Loop /\ l.failures \in 0 .. FailureLimit /\ l.failures + 1 \in 0 .. FailureLimit
      /\ 0 \in 0 .. FailureLimit /\ 0 # FailureLimit
  <2>1. l \in Loop /\ l.failures \in 0 .. FailureLimit /\ l.failures < FailureLimit
    BY LoopFields DEF Polling
  <2> QED BY <2>1, ListConstants
<1> DEFINE zero == [l EXCEPT !.failures = 0]
           more == [l EXCEPT !.failures = l.failures + 1]
<1>3. /\ zero \in Loop /\ zero.open /\ zero.timers = 0 /\ ~zero.armed /\ ~zero.circuitOpen
      /\ zero.failures = 0
  BY <1>2, FailuresSet
<1>4. /\ more \in Loop /\ more.open /\ more.timers = 0 /\ ~more.armed /\ ~more.circuitOpen
      /\ more.failures = l.failures + 1
  BY <1>2, FailuresSet
<1>5. /\ Classify(result) = "success" => React(l, result) = zero
      /\ Classify(result) = "ignored_failure" => React(l, result) = l
      /\ Classify(result) = "bootstrap_retry" => React(l, result) = SetTimer(zero)
      /\ Classify(result) = "counted_failure" =>
            React(l, result) = IF more.failures >= FailureLimit THEN OpenCircuitBreaker(more) ELSE more
  BY DEF React
<1> HIDE DEF zero, more
<1>6. CASE Classify(result) = "success"
  BY <1>2, <1>3, <1>5, <1>6 DEF Reacted
<1>7. CASE Classify(result) = "ignored_failure"
  BY <1>2, <1>5, <1>7 DEF Reacted, Polling
<1>8. CASE Classify(result) = "bootstrap_retry"
  <2> DEFINE k == SetTimer(zero)
  <2>1. k \in Loop /\ k.timers = 1 /\ k.armed /\ k.open = zero.open /\ k.failures = zero.failures
    BY <1>3, SetTimerSets
  <2> HIDE DEF k
  <2>2. Reacted(k)
    BY <1>2, <1>3, <2>1 DEF Reacted
  <2> QED BY <1>5, <1>8, <2>2 DEF k
<1>9. CASE Classify(result) = "counted_failure"
  <2>1. CASE more.failures >= FailureLimit
    <3>1. Reacted(OpenCircuitBreaker(more))
      BY <1>4, BreakerOpens
    <3> QED BY <1>5, <1>9, <2>1, <3>1
  <2>2. CASE ~(more.failures >= FailureLimit)
    <3>1. more.failures # FailureLimit
      BY <1>2, <1>4, <2>2, ListConstants
    <3> QED BY <1>4, <1>5, <1>9, <2>2, <3>1 DEF Reacted
  <2> QED BY <2>1, <2>2
<1> QED BY <1>1, <1>6, <1>7, <1>8, <1>9

\* The finally leaves one timer, its own or that of the reaction.
LEMMA FinallyArms ==
    ASSUME NEW l, Reacted(l)
    PROVE  LoopOK(Finally(l)) /\ Finally(l).open /\ ~Finally(l).inFlight
<1> DEFINE over == [l EXCEPT !.inFlight = FALSE]
<1>1. l \in Loop
  BY DEF Reacted
<1>2. /\ over.open = l.open /\ over.inFlight = FALSE /\ over.timers = l.timers
      /\ over.armed = l.armed /\ over.failures = l.failures /\ over.circuitOpen = l.circuitOpen
  BY <1>1, LoopFields
<1>3. over \in Loop
  <2>1. over.inFlight \in BOOLEAN
    BY <1>2, Zenon
  <2> QED BY <1>1, <1>2, <2>1, LoopFields DEF Loop
<1>4. Finally(l) = IF l.circuitOpen \/ l.armed THEN over ELSE SetTimer(over)
  BY DEF Finally
<1> HIDE DEF over
<1>5. CASE l.timers = 1 /\ l.armed
  <2>1. Finally(l) = over
    BY <1>4, <1>5
  <2>2. LoopOK(over) /\ over.open /\ ~over.inFlight
    BY <1>2, <1>3, <1>5 DEF Reacted, LoopOK
  <2> QED BY <2>1, <2>2
<1>6. CASE l.timers = 0 /\ ~l.armed /\ ~l.circuitOpen
  <2> DEFINE k == SetTimer(over)
  <2>1. /\ k \in Loop /\ k.timers = 1 /\ k.armed /\ k.open = over.open
        /\ k.inFlight = over.inFlight /\ k.failures = over.failures
        /\ k.circuitOpen = over.circuitOpen
    BY <1>2, <1>3, <1>6, SetTimerSets
  <2>2. Finally(l) = k
    BY <1>4, <1>6
  <2> HIDE DEF k
  <2>3. LoopOK(k) /\ k.open /\ ~k.inFlight
    BY <1>2, <1>6, <2>1 DEF Reacted, LoopOK
  <2> QED BY <2>2, <2>3
<1> QED BY <1>5, <1>6 DEF Reacted

\* The reaction of an open loop to a result leaves one timer.
LEMMA LoopAfterKeeps ==
    ASSUME NEW l, Polling(l), NEW result
    PROVE  /\ LoopOK(LoopAfter(l, result))
           /\ LoopAfter(l, result).open /\ ~LoopAfter(l, result).inFlight
<1> DEFINE m == React(l, result)
<1>1. Reacted(m)
  BY ReactSets
<1>2. LoopAfter(l, result) = Finally(m)
  BY DEF LoopAfter, Polling
<1> HIDE DEF m
<1> QED BY <1>1, <1>2, FinallyArms

\* A poll in flight finds its failures below the limit.
LEMMA InFlightBelow ==
    ASSUME LoopOK(loop), loop.inFlight
    PROVE  Polling(loop) /\ loop.open
<1>1. loop \in Loop /\ loop.failures \in 0 .. FailureLimit /\ loop.open
  BY LoopFields DEF LoopOK
<1>2. loop.timers = 0 /\ ~loop.armed /\ ~loop.circuitOpen /\ loop.failures # FailureLimit
  BY DEF LoopOK
<1>3. loop.failures < FailureLimit
  BY <1>1, <1>2, ListConstants
<1> QED BY <1>1, <1>2, <1>3 DEF Polling

\* The caller of a request that is decided: a poll that was under way is over.
LEMMA CallerKeeps ==
    ASSUME NEW result, LoopOK(loop), PollInv
    PROVE  /\ LoopOK(Caller(result)) /\ ~Caller(result).inFlight
           /\ Caller(result).open <=> loop.open
<1>1. CASE loop.inFlight
  <2>1. Caller(result) = LoopAfter(loop, result)
    BY <1>1 DEF Caller, PollInv
  <2> QED BY <1>1, <2>1, InFlightBelow, LoopAfterKeeps
<1>2. CASE ~loop.inFlight
  <2>1. Caller(result) = loop
    BY <1>2 DEF Caller
  <2> QED BY <1>2, <2>1
<1> QED BY <1>1, <1>2

\* A loop that makes its next poll: the poll is the active request, or it is left to the
\* one under way and the timer is armed.
LEMMA RunKeeps ==
    ASSUME NEW l, Polling(l), ~l.inFlight, RequestInv, RunRefreshLoop(l)
    PROVE  RequestInv' /\ LoopOK(loop') /\ PollInv' /\ loop'.open
<1> DEFINE m == [l EXCEPT !.inFlight = TRUE]
<1>1. /\ RequestRefresh("poll", TRUE)
      /\ loop' = IF active # None THEN LoopAfter(m, "request_superseded") ELSE m
  BY DEF RunRefreshLoop
<1>2. /\ m \in Loop /\ m.inFlight = TRUE /\ m.open = l.open /\ m.timers = l.timers
      /\ m.failures = l.failures /\ m.circuitOpen = l.circuitOpen /\ m.armed = l.armed
  <2>1. l \in Loop /\ TRUE \in BOOLEAN
    BY DEF Polling
  <2>2. /\ m.inFlight = TRUE /\ m.open = l.open /\ m.timers = l.timers
        /\ m.failures = l.failures /\ m.circuitOpen = l.circuitOpen /\ m.armed = l.armed
    BY <2>1, LoopFields
  <2>3. m \in Loop
    BY <2>1, <2>2, LoopFields DEF Loop
  <2> QED BY <2>2, <2>3
<1> HIDE DEF m
<1>6. Polling(m)
  BY <1>2 DEF Polling
<1>3. RequestInv' /\ active' # None /\ (active = None => signalled' = TRUE)
  <2>1. "poll" \in Trigger /\ TRUE \in BOOLEAN
    BY DEF Trigger
  <2> QED BY <1>1, <2>1, RequestKeeps
<1>4. CASE active # None
  BY <1>1, <1>3, <1>4, <1>6, LoopAfterKeeps DEF PollInv
<1>5. CASE active = None
  <2>1. loop' = m
    BY <1>1, <1>5
  <2>2. LoopOK(m)
    <3>1. m.failures \in 0 .. FailureLimit /\ m.failures < FailureLimit
      BY <1>6, LoopFields DEF Polling
    <3>2. m.failures # FailureLimit
      BY <3>1, ListConstants
    <3> QED BY <1>2, <1>6, <3>2 DEF LoopOK, Polling
  <2> QED BY <1>2, <1>3, <1>5, <1>6, <2>1, <2>2 DEF PollInv, Polling
<1> QED BY <1>4, <1>5

\* The clean-up leaves a closed loop without timers.
LEMMA DisposedKeeps ==
    ASSUME LoopOK(loop)
    PROVE  LET l == [ClosedLoop EXCEPT !.timers = DisposedTimers(loop)]
           IN  LoopOK(l) /\ ~l.open /\ ~l.inFlight
<1> DEFINE l == [ClosedLoop EXCEPT !.timers = DisposedTimers(loop)]
<1>1. DisposedTimers(loop) = 0
  BY DEF LoopOK, DisposedTimers
<1>2. l = ClosedLoop
  BY <1>1 DEF ClosedLoop
<1>3. ClosedLoop \in Loop
  BY ListConstants DEF ClosedLoop, Loop
<1>4. LoopOK(ClosedLoop) /\ ~ClosedLoop.open /\ ~ClosedLoop.inFlight
  BY <1>3, ListConstants DEF LoopOK, ClosedLoop
<1> QED BY <1>2, <1>4

-----------------------------------------------------------------------------
(* Notices.                                                                 *)

\* An answer is good or fails for a reason.
LEMMA OutcomeType ==
    ASSUME NEW response \in Response PROVE Outcome(response) \in Reason \cup {"ok"}
<1>1. response.kind \in {"unresolved", "unreachable", "status", "garbage", "list"}
  BY DEF Response, Plain
<1>2. ParsePolicy(response.valid, response.invalid)
          \in {"ok", "all_sessions_invalid", "too_many_invalid_sessions"}
  BY DEF ParsePolicy
<1> QED BY <1>1, <1>2 DEF Outcome, FetchSessionsFromEndpoint, ParseSessionsResponse, Reason

\* A published notice has its timer.
LEMMA PublishKeeps ==
    ASSUME NEW message \in Notice, Publish(message)
    PROVE  notice' \in Notice \cup {None} /\ noticeTimers' \in 0 .. 1 /\ NoticeTimed'
BY NoneIsNoNotice DEF Publish, PublishTimers, NoticeTimed

\* The announcement of a result.
LEMMA AnnounceKeeps ==
    ASSUME NEW result \in Reason \cup {"ok"}, NEW invalid, NEW paused,
           NoticeInv, mounted' = mounted, Announce(result, invalid, paused)
    PROVE  NoticeInv'
<1> DEFINE key == IF result = "ok" THEN None ELSE FailureKey(result)
<1>1. /\ told' = CASE result = "ok" -> None
                   [] key # None    -> Throttled(key)
                   [] OTHER         -> told
      /\ CASE paused -> Publish("refresh_paused")
           [] ~paused /\ result = "ok" /\ invalid > 0 -> Publish("invalid_entries")
           [] ~paused /\ key # None /\ ShouldNotify(key) -> Publish(key)
           [] OTHER -> UNCHANGED <<notice, noticeTimers>>
  BY DEF Announce
<1>2. (result = "ok" /\ key = None) \/ (result \in Reason /\ result # "ok" /\ key = result)
  BY DEF FailureKey, Reason
<1>3. key \in Reason => key # None
  BY NoneIsNoNotice DEF Notice
<1> HIDE DEF key
<1>4. told' \in [key : Reason, cooling : BOOLEAN] \cup {None}
  <2>1. CASE result = "ok"
    BY <1>1, <1>2, <2>1
  <2>2. CASE result # "ok"
    <3>1. key \in Reason /\ key # None /\ told' = Throttled(key)
      BY <1>1, <1>2, <1>3, <2>2
    <3>2. [key |-> key, cooling |-> TRUE] \in [key : Reason, cooling : BOOLEAN]
      BY <3>1
    <3> QED BY <3>1, <3>2 DEF Throttled, NoticeInv
  <2> QED BY <2>1, <2>2
<1>5. \/ Publish("refresh_paused") \/ Publish("invalid_entries")
      \/ key # None /\ Publish(key)
      \/ UNCHANGED <<notice, noticeTimers>>
  BY <1>1
<1>6. notice' \in Notice \cup {None} /\ noticeTimers' \in 0 .. 1 /\ NoticeTimed'
  <2>1. CASE Publish("refresh_paused") \/ Publish("invalid_entries")
    BY <2>1, PublishKeeps DEF Notice
  <2>2. CASE key # None /\ Publish(key)
    BY <1>2, <2>2, PublishKeeps DEF Notice
  <2>3. CASE UNCHANGED <<notice, noticeTimers>>
    BY <2>3 DEF NoticeInv, NoticeTimed
  <2> QED BY <1>5, <2>1, <2>2, <2>3
<1> QED BY <1>4, <1>6 DEF NoticeInv

\* Nothing changes.
LEMMA NoticeSame ==
    ASSUME NoticeInv, mounted' = mounted, UNCHANGED noticeVars PROVE NoticeInv'
BY DEF NoticeInv, NoticeTimed, noticeVars

\* The steps of the notices alone.
LEMMA NoticeSteps ==
    ASSUME ListInv, StorageFailure \/ NoticeTimeout \/ CooldownOver \/ ClearNotice
    PROVE  ListInv'
<1> USE DEF StorageFailure, NoticeTimeout, CooldownOver, ClearNotice
<1>1. RequestInv' /\ LoopOK(loop') /\ PollInv' /\ FlagInv' /\ list' \in {"empty", "current"}
  <2>1. UNCHANGED <<requestVars, trailing, recent, loop, mounted, list>>
    OBVIOUS
  <2>2. UNCHANGED <<active, signalled>>
    BY <2>1 DEF requestVars
  <2> QED BY <2>1, <2>2, RequestSame DEF ListInv, PollInv, FlagInv
<1>2. NoticeInv'
  <2>1. CASE StorageFailure
    <3>1. "storage" \in Notice
      BY DEF Notice
    <3> QED BY <2>1, <3>1, PublishKeeps DEF ListInv, NoticeInv
  <2>2. CASE NoticeTimeout
    BY <2>2 DEF ListInv, NoticeInv, NoticeTimed
  <2>3. CASE CooldownOver
    <3>1. told' \in [key : Reason, cooling : BOOLEAN]
      BY <2>3 DEF ListInv, NoticeInv
    <3> QED BY <2>3, <3>1 DEF ListInv, NoticeInv, NoticeTimed
  <2>4. CASE ClearNotice
    BY <2>4 DEF ListInv, NoticeInv, NoticeTimed
  <2> QED BY <2>1, <2>2, <2>3, <2>4
<1>3. GoneInv'
  BY DEF ListInv, GoneInv, requestVars
<1> QED BY <1>1, <1>2, <1>3 DEF ListInv

-----------------------------------------------------------------------------
(* Answers, timeouts and requests.                                          *)

\* The fetch of a request ends.
LEMMA AnswerStep == ASSUME ListInv, NEW r \in Request, Answer(r) PROVE ListInv'
<1>1. r \in flight /\ UNCHANGED <<trailing, recent, mounted>>
  BY DEF Answer
<1>2. RequestInv /\ LoopOK(loop) /\ PollInv /\ NoticeInv /\ GoneInv /\ FlagInv
  BY DEF ListInv
<1>3. FlagInv'
  BY <1>1, <1>2 DEF FlagInv
<1>4. CASE r # active
  <2>1. /\ flight' = flight \ {r} /\ overtaken' = overtaken \ {r}
        /\ UNCHANGED <<latest, active, signalled, pending, owed, loop, noticeVars, list>>
    BY <1>4 DEF Answer, Decided
  <2>2. RequestInv'
    BY <1>2, <1>4, <2>1 DEF RequestInv
  <2>3. LoopOK(loop') /\ PollInv' /\ list' \in {"empty", "current"}
    BY <2>1 DEF ListInv, PollInv
  <2>4. NoticeInv'
    BY <1>1, <1>2, <2>1, NoticeSame
  <2>5. GoneInv'
    BY <1>1, <1>2, <2>1 DEF GoneInv, noticeVars
  <2> QED BY <1>3, <2>2, <2>3, <2>4, <2>5 DEF ListInv
<1>5. CASE r = active
  <2>1. PICK response \in Response :
            /\ Finish(r, flight \ {r})
            /\ list' = IF Outcome(response) # "ok" THEN list
                       ELSE IF r \in overtaken THEN "outdated" ELSE "current"
            /\ loop' = Caller(Outcome(response))
            /\ Announce(Outcome(response), response.invalid, Paused(Outcome(response)))
    BY <1>5 DEF Answer, Decided
  <2>2. RequestInv'
    BY <1>2, <2>1, FinishKeeps
  <2>3. LoopOK(loop') /\ ~loop'.inFlight /\ PollInv'
    BY <1>2, <2>1, CallerKeeps DEF PollInv
  <2>4. NoticeInv'
    BY <1>1, <1>2, <2>1, OutcomeType, AnnounceKeeps
  <2>5. r \notin overtaken /\ active # None
    BY <1>2, <1>5, ListConstants DEF RequestInv
  <2>6. list' \in {"empty", "current"}
    BY <2>1, <2>5 DEF ListInv
  <2>7. GoneInv'
    BY <1>1, <1>2, <2>5 DEF GoneInv
  <2> QED BY <1>3, <2>2, <2>3, <2>4, <2>6, <2>7 DEF ListInv
<1> QED BY <1>4, <1>5

\* The active request times out.
LEMMA TimeoutStep == ASSUME ListInv, RequestTimeout PROVE ListInv'
<1>1. /\ active # None
      /\ Finish(active, flight)
      /\ loop' = Caller("request_timeout")
      /\ Announce("request_timeout", 0, Paused("request_timeout"))
      /\ UNCHANGED <<trailing, recent, mounted, list>>
  BY DEF RequestTimeout
<1>2. RequestInv'
  BY <1>1, FinishKeeps DEF ListInv
<1>3. LoopOK(loop') /\ PollInv'
  BY <1>1, CallerKeeps DEF ListInv, PollInv
<1>4. NoticeInv'
  <2>1. "request_timeout" \in Reason \cup {"ok"}
    BY DEF Reason
  <2> QED BY <1>1, <2>1, AnnounceKeeps DEF ListInv
<1>5. GoneInv' /\ FlagInv'
  BY <1>1 DEF ListInv, GoneInv, FlagInv
<1> QED BY <1>1, <1>2, <1>3, <1>4, <1>5 DEF ListInv

\* A manual refresh supersedes the request under way.
LEMMA ManualStep == ASSUME ListInv, ManualRefresh PROVE ListInv'
<1>1. /\ mounted
      /\ StartRefresh(flight, FALSE)
      /\ loop' = IF active # None THEN Caller("request_superseded") ELSE loop
      /\ UNCHANGED <<trailing, recent, noticeVars, mounted, list>>
  BY DEF ManualRefresh
<1>2. RequestInv'
  <2>1. FALSE \in BOOLEAN /\ flight \subseteq Request
    BY DEF ListInv, RequestInv
  <2> QED BY <1>1, <2>1, StartKeeps
<1>3. LoopOK(loop') /\ ~loop'.inFlight
  <2>1. CASE active # None
    BY <1>1, <2>1, CallerKeeps DEF ListInv
  <2>2. CASE active = None
    BY <1>1, <2>2 DEF ListInv, PollInv
  <2> QED BY <2>1, <2>2
<1>4. PollInv'
  BY <1>3 DEF PollInv
<1>5. NoticeInv'
  BY <1>1, NoticeSame DEF ListInv
<1>6. GoneInv' /\ FlagInv'
  BY <1>1 DEF ListInv, GoneInv, FlagInv
<1> QED BY <1>1, <1>2, <1>3, <1>4, <1>5, <1>6 DEF ListInv

\* A refresh on behalf of the transport keeps the poll, if it finds one under way.
LEMMA TransportRequest ==
    ASSUME ListInv, RequestRefresh("transport_event", FALSE), loop' = loop
    PROVE  RequestInv' /\ LoopOK(loop') /\ PollInv'
<1>1. "transport_event" \in Trigger /\ FALSE \in BOOLEAN
  BY DEF Trigger
<1>2. RequestInv' /\ active' # None /\ (active # None => signalled' = signalled)
  BY <1>1, RequestKeeps DEF ListInv
<1> QED BY <1>2 DEF ListInv, PollInv

\* Transport events, the trailing timer and the throttle's interval.
LEMMA TransportSteps ==
    ASSUME ListInv, TransportRefresh \/ TrailingTimer \/ IntervalOver PROVE ListInv'
<1>1. UNCHANGED <<loop, noticeVars, mounted, list>>
  BY DEF TransportRefresh, TrailingTimer, IntervalOver
<1>2. FlagInv'
  <2>1. /\ trailing' = trailing \/ trailing' = TRUE \/ trailing' = FALSE
        /\ recent' = recent \/ recent' = TRUE \/ recent' = FALSE
    BY DEF TransportRefresh, TrailingTimer, IntervalOver
  <2>2. trailing \in BOOLEAN /\ recent \in BOOLEAN /\ mounted \in BOOLEAN
    BY DEF ListInv, FlagInv
  <2> QED BY <1>1, <2>1, <2>2, Zenon DEF FlagInv
<1>3. NoticeInv'
  BY <1>1, NoticeSame DEF ListInv
<1>4. RequestInv' /\ LoopOK(loop') /\ PollInv'
  <2>1. CASE RequestRefresh("transport_event", FALSE)
    BY <1>1, <2>1, TransportRequest
  <2>2. CASE IntervalOver
    <3>1. RequestInv' /\ UNCHANGED <<active, signalled, loop>>
      BY <1>1, <2>2, RequestSame DEF ListInv, IntervalOver, requestVars
    <3> QED BY <3>1 DEF ListInv, PollInv
  <2>3. CASE TransportRefresh /\ recent
    <3>1. /\ owed' = TRUE
          /\ UNCHANGED <<latest, active, signalled, pending, flight, overtaken>>
      BY <2>3 DEF TransportRefresh
    <3>2. owed' \in BOOLEAN
      BY <3>1, Zenon
    <3>3. RequestInv'
      BY <3>1, <3>2 DEF ListInv, RequestInv
    <3> QED BY <1>1, <3>1, <3>3 DEF ListInv, PollInv
  <2> QED BY <2>1, <2>2, <2>3 DEF TransportRefresh, TrailingTimer
<1>5. GoneInv'
  <2> SUFFICES ASSUME ~mounted PROVE GoneInv'
    BY <1>1 DEF GoneInv
  <2>1. IntervalOver
    BY DEF ListInv, GoneInv, TransportRefresh, TrailingTimer
  <2> QED BY <2>1 DEF ListInv, GoneInv, IntervalOver, requestVars, noticeVars
<1> QED BY <1>1, <1>2, <1>3, <1>4, <1>5 DEF ListInv

-----------------------------------------------------------------------------
(* The menu.                                                                *)

\* The menu opens and the loop makes its first poll.
LEMMA OpenStep == ASSUME ListInv, OpenMenu PROVE ListInv'
<1> DEFINE l == [ClosedLoop EXCEPT !.open = TRUE]
<1>1. mounted /\ RunRefreshLoop(l) /\ UNCHANGED <<trailing, recent, noticeVars, mounted, list>>
  BY DEF OpenMenu
<1>2. Polling(l) /\ ~l.inFlight
  <2>1. ClosedLoop \in Loop
    BY ListConstants DEF ClosedLoop, Loop
  <2>2. /\ DOMAIN ClosedLoop = {"open", "inFlight", "timers", "armed", "failures", "circuitOpen"}
        /\ ~ClosedLoop.inFlight /\ ~ClosedLoop.circuitOpen /\ ~ClosedLoop.armed
        /\ ClosedLoop.timers = 0 /\ ClosedLoop.failures = 0
    BY DEF ClosedLoop
  <2>3. TRUE \in BOOLEAN
    OBVIOUS
  <2>4. l \in Loop
    BY <2>1, <2>2, <2>3 DEF Loop
  <2> QED BY <2>2, <2>4, ListConstants DEF Polling
<1> HIDE DEF l
<1>4. RequestInv' /\ LoopOK(loop') /\ PollInv'
  BY <1>1, <1>2, RunKeeps DEF ListInv
<1>5. NoticeInv'
  BY <1>1, NoticeSame DEF ListInv
<1>6. GoneInv' /\ FlagInv'
  BY <1>1 DEF ListInv, GoneInv, FlagInv
<1> QED BY <1>1, <1>4, <1>5, <1>6 DEF ListInv

\* The timer of the loop makes the next poll.
LEMMA PollStep == ASSUME ListInv, PollTimer PROVE ListInv'
<1> DEFINE l == [loop EXCEPT !.timers = @ - 1, !.armed = FALSE, !.circuitOpen = FALSE,
                             !.failures = IF loop.circuitOpen THEN 0 ELSE @]
<1>1. /\ loop.timers > 0
      /\ \/ ~l.inFlight /\ RunRefreshLoop(l)
         \/ l.inFlight /\ loop' = l /\ UNCHANGED requestVars
      /\ UNCHANGED <<trailing, recent, noticeVars, mounted, list>>
  BY DEF PollTimer
<1>2. LoopOK(loop) /\ loop.open /\ ~loop.inFlight /\ loop.timers = 1
  BY <1>1 DEF ListInv, LoopOK
<1>3. Polling(l) /\ ~l.inFlight
  <2>1. /\ DOMAIN loop = {"open", "inFlight", "timers", "armed", "failures", "circuitOpen"}
        /\ loop \in Loop
    BY <1>2 DEF LoopOK, Loop
  <2>2. /\ l.open = loop.open /\ l.inFlight = loop.inFlight /\ l.timers = 0
        /\ l.circuitOpen = FALSE /\ l.armed = FALSE
        /\ l.failures = IF loop.circuitOpen THEN 0 ELSE loop.failures
    <3>1. l.open = loop.open /\ l.inFlight = loop.inFlight
      BY <2>1
    <3>2. l.timers = loop.timers - 1
      BY <2>1
    <3>3. l.circuitOpen = FALSE /\ l.armed = FALSE
      BY <2>1
    <3>4. l.failures = IF loop.circuitOpen THEN 0 ELSE loop.failures
      BY <2>1
    <3> HIDE DEF l
    <3> QED BY <1>2, <3>1, <3>2, <3>3, <3>4
  <2>3. /\ loop.failures \in 0 .. FailureLimit /\ FailureLimit \in Nat \ {0}
        /\ loop.failures = FailureLimit => loop.circuitOpen
    BY <1>2, ListConstants DEF LoopOK, Loop
  <2>4. l.failures < FailureLimit /\ l.failures \in 0 .. FailureLimit
    BY <2>2, <2>3
  <2>5. l \in Loop
    <3>1. l.open \in BOOLEAN /\ l.inFlight \in BOOLEAN
      BY <2>1, <2>2 DEF Loop
    <3>2. l.circuitOpen \in BOOLEAN /\ l.armed \in BOOLEAN
      BY <2>2, Zenon
    <3>3. l.timers \in 0 .. 2
      BY <2>2
    <3> QED BY <2>1, <2>4, <3>1, <3>2, <3>3 DEF Loop
  <2> HIDE DEF l
  <2> QED BY <1>2, <2>2, <2>4, <2>5 DEF Polling
<1> HIDE DEF l
<1>4. RequestInv' /\ LoopOK(loop') /\ PollInv' /\ loop'.open
  BY <1>1, <1>3, RunKeeps DEF ListInv
<1>5. NoticeInv'
  BY <1>1, NoticeSame DEF ListInv
<1>6. GoneInv' /\ FlagInv'
  BY <1>1, <1>2 DEF ListInv, GoneInv, FlagInv
<1> QED BY <1>1, <1>4, <1>5, <1>6 DEF ListInv

\* The menu closes and the poll under way is aborted.
LEMMA CloseStep == ASSUME ListInv, CloseMenu PROVE ListInv'
<1>1. /\ loop' = [ClosedLoop EXCEPT !.timers = DisposedTimers(loop)]
      /\ \/ loop.inFlight /\ Finish(active, flight)
         \/ ~loop.inFlight /\ UNCHANGED requestVars
      /\ UNCHANGED <<trailing, recent, noticeVars, mounted, list>>
  BY DEF CloseMenu
<1>2. LoopOK(loop') /\ ~loop'.open /\ ~loop'.inFlight
  BY <1>1, DisposedKeeps DEF ListInv
<1>3. RequestInv'
  BY <1>1, FinishKeeps, RequestSame DEF ListInv
<1>4. PollInv'
  BY <1>2 DEF PollInv
<1>5. NoticeInv'
  BY <1>1, NoticeSame DEF ListInv
<1>6. FlagInv'
  BY <1>1 DEF ListInv, FlagInv
<1>7. GoneInv'
  <2> SUFFICES ASSUME ~mounted PROVE FALSE
    BY <1>1 DEF GoneInv
  <2> QED BY DEF ListInv, GoneInv, CloseMenu
<1> QED BY <1>1, <1>2, <1>3, <1>4, <1>5, <1>6, <1>7 DEF ListInv

\* The page goes away.
LEMMA UnmountStep == ASSUME ListInv, Unmount PROVE ListInv'
<1>1. /\ mounted' = FALSE
      /\ latest' = None /\ active' = None /\ pending' = None
      /\ trailing' = FALSE
      /\ loop' = [ClosedLoop EXCEPT !.timers = DisposedTimers(loop)]
      /\ noticeTimers' = 0
      /\ owed' = FALSE
      /\ UNCHANGED <<signalled, flight, overtaken, recent, told, notice, list>>
  BY DEF Unmount
<1>2. LoopOK(loop') /\ ~loop'.open /\ ~loop'.inFlight
  BY <1>1, DisposedKeeps DEF ListInv
<1>3. owed' \in BOOLEAN /\ trailing' \in BOOLEAN /\ mounted' \in BOOLEAN
  BY <1>1, Zenon
<1>4. RequestInv'
  BY <1>1, <1>3 DEF ListInv, RequestInv
<1>5. PollInv' /\ GoneInv'
  BY <1>1, <1>2 DEF PollInv, GoneInv
<1>6. NoticeInv'
  BY <1>1 DEF ListInv, NoticeInv, NoticeTimed
<1>7. FlagInv'
  BY <1>1, <1>3 DEF ListInv, FlagInv
<1> QED BY <1>1, <1>2, <1>4, <1>5, <1>6, <1>7 DEF ListInv

-----------------------------------------------------------------------------
(* Results.                                                                 *)

\* The invariant holds initially ...
LEMMA ListInit == Init => ListInv
<1> SUFFICES ASSUME Init PROVE ListInv
  OBVIOUS
<1>1. signalled \in BOOLEAN /\ owed \in BOOLEAN /\ FlagInv
  BY Zenon DEF Init, FlagInv
<1>2. RequestInv
  BY <1>1 DEF Init, RequestInv
<1>3. loop = ClosedLoop /\ ClosedLoop \in Loop
  BY ListConstants DEF Init, ClosedLoop, Loop
<1>4. LoopOK(loop) /\ PollInv
  BY <1>3, ListConstants DEF LoopOK, PollInv, ClosedLoop
<1>5. NoticeInv
  BY NoneIsNoNotice DEF Init, NoticeInv, NoticeTimed, Notice
<1>6. GoneInv /\ list \in {"empty", "current"}
  BY DEF Init, GoneInv
<1> QED BY <1>1, <1>2, <1>4, <1>5, <1>6 DEF ListInv

\* ... every step keeps it ...
LEMMA ListStep == ListInv /\ [Next]_vars => ListInv'
<1> SUFFICES ASSUME ListInv, [Next]_vars PROVE ListInv'
  OBVIOUS
<1>1. CASE OpenMenu \/ CloseMenu \/ PollTimer
  BY <1>1, OpenStep, CloseStep, PollStep
<1>2. CASE TransportRefresh \/ TrailingTimer \/ IntervalOver
  BY <1>2, TransportSteps
<1>3. CASE ManualRefresh \/ RequestTimeout \/ Unmount
  BY <1>3, ManualStep, TimeoutStep, UnmountStep
<1>4. CASE \E r \in Request : Answer(r)
  BY <1>4, AnswerStep
<1>5. CASE NoticeTimeout \/ CooldownOver \/ ClearNotice \/ StorageFailure
  BY <1>5, NoticeSteps
<1>6. CASE Terminated \/ UNCHANGED vars
  <2>1. UNCHANGED <<requestVars, trailing, recent, loop, noticeVars, mounted, list>>
    BY <1>6 DEF Terminated, vars
  <2>2. RequestInv' /\ NoticeInv'
    BY <2>1, RequestSame, NoticeSame DEF ListInv
  <2>3. LoopOK(loop') /\ PollInv' /\ GoneInv' /\ FlagInv' /\ list' \in {"empty", "current"}
    BY <2>1 DEF ListInv, PollInv, GoneInv, FlagInv, requestVars, noticeVars
  <2> QED BY <2>2, <2>3 DEF ListInv
<1> QED BY <1>1, <1>2, <1>3, <1>4, <1>5, <1>6 DEF Next

\* ... and every reachable state satisfies it.
LEMMA ListInvariant == Spec => []ListInv
BY ListInit, ListStep, PTL DEF Spec

\* The list on the screen is never that of an overtaken fetch: an answer is applied only
\* to the request that is active, which none has overtaken (isStaleRequest, the race).
THEOREM NoStaleListHolds == Spec => []NoStaleList
<1>1. ListInv => NoStaleList
  BY DEF ListInv, NoStaleList
<1> QED BY <1>1, ListInvariant, PTL

\* While the menu is open there is exactly one poll or one timer, whatever the results
\* were, and none when it is closed (runRefreshLoop, scheduleNext, the clean-up).
THEOREM PollingAliveHolds == Spec => []PollingAlive
<1>1. ListInv => PollingAlive
  <2> SUFFICES ASSUME LoopOK(loop) PROVE PollingAlive
    BY DEF ListInv
  <2>1. /\ loop.open => loop.timers <= 1
        /\ ~loop.open => loop.timers = 0 /\ ~loop.inFlight
        /\ loop.open => (loop.timers = 1 /\ ~loop.inFlight) \/ (~(loop.timers = 1) /\ loop.inFlight)
    BY DEF LoopOK
  <2>2. loop.open => (loop.timers = 1) # loop.inFlight
    BY <2>1, Zenon
  <2> QED BY <2>1, <2>2 DEF PollingAlive
<1> QED BY <1>1, ListInvariant, PTL

\* A notice that is shown has exactly one timer, its own (publishSessionNotice).
THEOREM NoticeTimedHolds == Spec => []NoticeTimed
<1>1. ListInv => NoticeTimed
  BY DEF ListInv, NoticeInv
<1> QED BY <1>1, ListInvariant, PTL
=============================================================================
