----------------------------- MODULE SessionList -----------------------------
(***************************************************************************)
(* How the web client keeps its list of live sessions: the refresh         *)
(* coordinator (request ids, aborts, coalescing, timeout), the poll loop of *)
(* the session menu with its circuit breaker, the throttle of refreshes    *)
(* that transport events ask for, and the notices all of them publish.     *)
(*                                                                         *)
(* A step is one task of the event loop with the promise reactions it      *)
(* causes: when a request is aborted or its race is decided, its            *)
(* continuation, its finally and the reaction of its caller follow in the   *)
(* same task.  A fetch outlives the request that started it, and may still  *)
(* answer.  Delays are abstracted: a timer may fire at any time.            *)
(***************************************************************************)
EXTENDS Naturals

CONSTANTS
    Request,        \* request ids; one whose fetch has ended is used again
    None,
    FailureLimit    \* SESSION_REFRESH_FAILURE_LIMIT (6)

ASSUME ListConstants ==
    /\ None \notin Request
    /\ FailureLimit \in Nat \ {0}

VARIABLES
    latest,       \* latestRefreshRequestIdRef
    active,       \* the request that owns activeRefreshControllerRef
    signalled,    \* does it carry the signal of the poll loop ?
    pending,      \* pendingRefreshRef
    trailing,     \* is pendingTransportRefreshTimerRef set ?
    recent,       \* lastTransportRefreshAtRef is less than the interval ago
    loop,         \* the closure of the poll loop
    told,         \* refreshFailureNoticeRef
    notice,       \* sessionNotice
    noticeTimers, \* notice timers that are armed
    mounted,      \* are the hooks mounted ?
    \* fetches and observations
    flight,       \* requests whose fetch has not ended
    overtaken,    \* those of them that were started before another one
    list,         \* what liveSessions shows: "empty", "current" or "outdated"
    owed          \* a refresh was asked for and none has been started since

requestVars == <<latest, active, signalled, pending, flight, overtaken, owed>>
noticeVars == <<told, notice, noticeTimers>>
vars == <<requestVars, trailing, recent, loop, noticeVars, mounted, list>>

Trigger == {"poll", "transport_event", "manual"}

Reason == {"network_error", "http_error", "json_parse_error", "bootstrap_error",
           "all_sessions_invalid", "too_many_invalid_sessions", "request_timeout"}

Notice == Reason \cup {"invalid_entries", "refresh_paused", "storage"}

ASSUME NoneIsNoNotice == None \notin Notice

TypeOK ==
    /\ latest \in Request \cup {None}
    /\ active \in Request \cup {None}
    /\ signalled \in BOOLEAN
    /\ pending \in [trigger : Trigger, queuedFor : Request] \cup {None}
    /\ trailing \in BOOLEAN /\ recent \in BOOLEAN
    /\ loop \in [open : BOOLEAN, inFlight : BOOLEAN, timers : 0 .. 2, armed : BOOLEAN,
                 failures : 0 .. FailureLimit, circuitOpen : BOOLEAN]
    /\ told \in [key : Reason, cooling : BOOLEAN] \cup {None}
    /\ notice \in Notice \cup {None}
    /\ noticeTimers \in 0 .. 2
    /\ mounted \in BOOLEAN
    /\ flight \subseteq Request /\ overtaken \subseteq flight
    /\ list \in {"empty", "current", "outdated"}
    /\ owed \in BOOLEAN

\* timers is the number of timeouts of the loop that run; armed tells whether
\* refreshTimer, which holds the last one that was set, is not null.
ClosedLoop == [open |-> FALSE, inFlight |-> FALSE, timers |-> 0, armed |-> FALSE,
               failures |-> 0, circuitOpen |-> FALSE]

Init ==
    /\ latest = None /\ active = None /\ signalled = FALSE /\ pending = None
    /\ trailing = FALSE /\ recent = FALSE
    /\ loop = ClosedLoop
    /\ told = None
    /\ notice \in {None, "storage"}    \* initialNotice
    /\ noticeTimers = IF notice = None THEN 0 ELSE 1
    /\ mounted = TRUE
    /\ flight = {} /\ overtaken = {} /\ list = "empty" /\ owed = FALSE

-----------------------------------------------------------------------------
(* What an answer means.                                                   *)

\* evaluateSessionsParsePolicy, with MINIMUM_RATIO_SAMPLE_SIZE and the ratio 1/2.
ParsePolicy(valid, invalid) ==
    CASE invalid > 0 /\ valid = 0 -> "all_sessions_invalid"
      [] valid > 0 /\ valid + invalid >= 4 /\ 2 * invalid >= valid + invalid
            -> "too_many_invalid_sessions"
      [] OTHER -> "ok"

\* What the endpoint may answer: nothing, an HTTP error, something without a list of
\* sessions, or a list, of which only the number of valid and of invalid entries counts.
\* "unresolved" stands for a backend that is not known.
Plain(kind) == [kind |-> kind, valid |-> 0, invalid |-> 0]
Response ==
    {Plain(k) : k \in {"unresolved", "unreachable", "status", "garbage"}}
        \cup [kind : {"list"}, valid : 0 .. 2, invalid : 0 .. 2]

\* parseSessionsResponse: an entry is valid if it has every required field, well-formed
\* (parseSessionSnapshot); the others are left out and counted.
ParseSessionsResponse(response) == ParsePolicy(response.valid, response.invalid)

\* fetchSessionsFromEndpoint; an empty body is an empty list.
FetchSessionsFromEndpoint(response) ==
    CASE response.kind = "unreachable" -> "network_error"
      [] response.kind = "status"      -> "http_error"
      [] response.kind = "garbage"     -> "json_parse_error"
      [] response.kind = "list"        -> ParseSessionsResponse(response)

\* useFetchSessions: without a resolved backend nothing is fetched.
Outcome(response) ==
    IF response.kind = "unresolved" THEN "bootstrap_error" ELSE FetchSessionsFromEndpoint(response)

\* classifyPollingRefreshResult.
Classify(result) ==
    CASE result = "ok" -> "success"
      [] result \in {"request_aborted", "request_superseded"} -> "ignored_failure"
      [] result = "bootstrap_error" -> "bootstrap_retry"
      [] OTHER -> "counted_failure"

\* coalesceRefreshTrigger.
Coalesce(current, next) ==
    IF "manual" \in {current, next} THEN "manual"
    ELSE IF "transport_event" \in {current, next} THEN "transport_event"
    ELSE "poll"

-----------------------------------------------------------------------------
(* The poll loop: what its reactions make of its closure.                   *)

\* A timeout is set: the one that refreshTimer held, if any, is not cleared.
SetTimer(l) == [l EXCEPT !.timers = @ + 1, !.armed = TRUE]

OpenCircuitBreaker(l) ==
    IF l.circuitOpen THEN l ELSE SetTimer([l EXCEPT !.circuitOpen = TRUE])

\* The reaction of runRefreshLoop to a result ...
React(l, result) ==
    LET counted == [l EXCEPT !.failures = @ + 1]
    IN  CASE Classify(result) = "success" -> [l EXCEPT !.failures = 0]
          [] Classify(result) = "ignored_failure" -> l
          [] Classify(result) = "bootstrap_retry" -> SetTimer([l EXCEPT !.failures = 0])
          [] Classify(result) = "counted_failure" ->
                IF counted.failures >= FailureLimit THEN OpenCircuitBreaker(counted) ELSE counted

\* ... and its finally.  (Mutant: the next poll is scheduled although a timer was set.)
FinallyAlways(l) ==
    LET over == [l EXCEPT !.inFlight = FALSE]
    IN  IF l.circuitOpen THEN over ELSE SetTimer(over)

Finally(l) ==
    LET over == [l EXCEPT !.inFlight = FALSE]
    IN  IF l.circuitOpen \/ l.armed THEN over ELSE SetTimer(over)

\* A closure that was disposed sets nothing any more.
LoopAfter(l, result) == IF l.open THEN Finally(React(l, result)) ELSE l

CircuitOpens(l, result) == LoopAfter(l, result).circuitOpen /\ ~l.circuitOpen

-----------------------------------------------------------------------------
(* Notices.                                                                *)

\* publishSessionNotice.  (Mutant: the timer of the last notice goes on.)
PublishTimersLeft == noticeTimers + 1
PublishTimers == 1

Publish(message) == notice' = message /\ noticeTimers' = PublishTimers

\* toSessionRefreshFailureNotice: the key of a failure to the throttle.  Every reason has
\* one of its own (all HTTP errors are one here); who aborted or superseded a request
\* knows, and nobody else is told.
FailureKey(failure) ==
    IF failure \in {"request_aborted", "request_superseded"} THEN None ELSE failure

\* registerFailureNotice: is this failure worth a notice ?
ShouldNotify(key) == told = None \/ told.key # key \/ ~told.cooling

\* notifyWithFailureThrottle: what is remembered of it.
Throttled(key) == IF ShouldNotify(key) THEN [key |-> key, cooling |-> TRUE] ELSE told

\* What a result of a request leads to: onRefreshFailure, onRefreshSuccess,
\* onInvalidEntries and onRefreshCircuitOpen, of which the last one is seen.
Announce(result, invalid, paused) ==
    LET key == IF result = "ok" THEN None ELSE FailureKey(result)
    IN  /\ told' = CASE result = "ok" -> None
                     [] key # None    -> Throttled(key)
                     [] OTHER         -> told
        /\ CASE paused -> Publish("refresh_paused")
             [] ~paused /\ result = "ok" /\ invalid > 0 -> Publish("invalid_entries")
             [] ~paused /\ key # None /\ ShouldNotify(key) -> Publish(key)
             [] OTHER -> UNCHANGED <<notice, noticeTimers>>

\* reportStorageFailure, when its own throttle lets the failure through.
StorageFailure ==
    /\ mounted
    /\ Publish("storage")
    /\ UNCHANGED <<requestVars, trailing, recent, loop, told, mounted, list>>

\* The timer of a notice.
NoticeTimeout ==
    /\ noticeTimers > 0
    /\ noticeTimers' = noticeTimers - 1
    /\ notice' = None
    /\ UNCHANGED <<requestVars, trailing, recent, loop, told, mounted, list>>

\* REFRESH_FAILURE_NOTICE_COOLDOWN_MS have passed since the last notice.
CooldownOver ==
    /\ told # None /\ told.cooling
    /\ told' = [told EXCEPT !.cooling = FALSE]
    /\ UNCHANGED <<requestVars, trailing, recent, loop, notice, noticeTimers, mounted, list>>

\* clearSessionNotice: a session is ready, or another one is chosen.
ClearNotice ==
    /\ mounted
    /\ notice # None
    /\ notice' = None /\ noticeTimers' = 0
    /\ UNCHANGED <<requestVars, trailing, recent, loop, told, mounted, list>>

-----------------------------------------------------------------------------
(* Requests.                                                               *)

\* A new request is started while fl are in flight; what was pending for an
\* earlier one is dropped.
StartRefresh(fl, signal) ==
    \E r \in Request \ (fl \cup (IF pending = None THEN {} ELSE {pending.queuedFor})) :
        /\ latest' = r /\ active' = r /\ signalled' = signal
        /\ pending' = None
        /\ flight' = fl \cup {r} /\ overtaken' = fl
        /\ owed' = FALSE

PendingFor(r) == pending # None /\ pending.queuedFor = r

\* requestSessionRefresh finds a request under way: it is remembered.
QueueRefresh(trigger) ==
    LET before == IF PendingFor(latest) THEN pending.trigger ELSE None
    IN  /\ pending' = [trigger |-> Coalesce(before, trigger), queuedFor |-> latest]
        /\ owed' = TRUE
        /\ UNCHANGED <<latest, active, signalled, flight, overtaken>>

\* requestSessionRefresh, except for a manual one that finds a request under way.
RequestRefresh(trigger, signal) ==
    \/ active # None /\ QueueRefresh(trigger)
    \/ active = None /\ StartRefresh(flight, signal)

\* The end of request r, with the fetches fl still in flight: what was asked for
\* meanwhile is started.
Finish(r, fl) ==
    \/ /\ latest = r /\ PendingFor(r)
       /\ \E q \in Request \ (fl \cup {r}) :
             /\ latest' = q /\ active' = q /\ signalled' = FALSE
             /\ pending' = None
             /\ flight' = fl \cup {q} /\ overtaken' = fl
             /\ owed' = FALSE
    \/ /\ ~(latest = r /\ PendingFor(r))
       /\ active' = None
       /\ flight' = fl /\ overtaken' = overtaken \cap fl
       /\ UNCHANGED <<latest, signalled, pending, owed>>

\* The caller of the active request, if it is the poll loop, gets a result.
Caller(result) == IF signalled /\ loop.inFlight THEN LoopAfter(loop, result) ELSE loop
Paused(result) == signalled /\ loop.inFlight /\ CircuitOpens(loop, result)

\* The race of request r was decided before: by an abort, its timeout or its
\* answer.  (Mutant: its answer is taken all the same.)
DecidedNever(r) == FALSE
Decided(r) == r # active

\* The fetch of request r ends.
Answer(r) ==
    /\ r \in flight
    /\ \/ /\ Decided(r)
          /\ flight' = flight \ {r} /\ overtaken' = overtaken \ {r}
          /\ UNCHANGED <<latest, active, signalled, pending, owed, loop, noticeVars, list>>
       \/ /\ ~Decided(r)
          /\ \E response \in Response :
                LET result == Outcome(response)
                IN  /\ Finish(r, flight \ {r})
                    /\ list' = IF result # "ok" THEN list
                               ELSE IF r \in overtaken THEN "outdated" ELSE "current"
                    /\ loop' = Caller(result)
                    /\ Announce(result, response.invalid, Paused(result))
    /\ UNCHANGED <<trailing, recent, mounted>>

\* SESSION_REFRESH_CALL_TIMEOUT_MS without an answer: the fetch is aborted.
RequestTimeout ==
    /\ active # None
    /\ Finish(active, flight)
    /\ loop' = Caller("request_timeout")
    /\ Announce("request_timeout", 0, Paused("request_timeout"))
    /\ UNCHANGED <<trailing, recent, mounted, list>>

\* A manual refresh supersedes the one under way.  (No control of the app asks for
\* one yet; the coordinator provides it.)
ManualRefresh ==
    /\ mounted
    /\ StartRefresh(flight, FALSE)
    /\ loop' = IF active # None THEN Caller("request_superseded") ELSE loop
    /\ UNCHANGED <<trailing, recent, noticeVars, mounted, list>>

-----------------------------------------------------------------------------
(* Refreshes asked for by transport events and renames.                     *)

\* requestTransportRefresh; within the interval, scheduleTrailingTransportRefresh.
TransportRefresh ==
    /\ mounted
    /\ \/ /\ recent
          /\ trailing' = TRUE
          /\ owed' = TRUE
          /\ UNCHANGED <<latest, active, signalled, pending, flight, overtaken, recent>>
       \/ /\ ~recent
          /\ recent' = TRUE
          /\ RequestRefresh("transport_event", FALSE)
          /\ UNCHANGED trailing
    /\ UNCHANGED <<loop, noticeVars, mounted, list>>

\* The trailing timer.  (Mutant: its callback asks the throttle again.)
TrailingTimerThrottled ==
    /\ trailing
    /\ trailing' = recent
    /\ recent' = TRUE
    /\ \/ recent /\ UNCHANGED requestVars
       \/ ~recent /\ RequestRefresh("transport_event", FALSE)
    /\ UNCHANGED <<loop, noticeVars, mounted, list>>

TrailingTimer ==
    /\ trailing
    /\ trailing' = FALSE
    /\ recent' = TRUE
    /\ RequestRefresh("transport_event", FALSE)
    /\ UNCHANGED <<loop, noticeVars, mounted, list>>

IntervalOver ==
    /\ recent
    /\ recent' = FALSE
    /\ UNCHANGED <<requestVars, trailing, loop, noticeVars, mounted, list>>

-----------------------------------------------------------------------------
(* The menu and its poll loop.                                              *)

\* runRefreshLoop, from closure l: the poll is started, or it is left to the
\* request under way and the loop goes on waiting.
RunRefreshLoop(l) ==
    /\ RequestRefresh("poll", TRUE)
    /\ loop' = IF active # None
               THEN LoopAfter([l EXCEPT !.inFlight = TRUE], "request_superseded")
               ELSE [l EXCEPT !.inFlight = TRUE]

OpenMenu ==
    /\ mounted
    /\ ~loop.open
    /\ RunRefreshLoop([ClosedLoop EXCEPT !.open = TRUE])
    /\ UNCHANGED <<trailing, recent, noticeVars, mounted, list>>

\* One of the timers of the loop; the cooldown closes the circuit.
PollTimer ==
    /\ loop.timers > 0
    /\ LET l == [loop EXCEPT !.timers = @ - 1, !.armed = FALSE, !.circuitOpen = FALSE,
                             !.failures = IF loop.circuitOpen THEN 0 ELSE @]
       IN  \/ ~l.inFlight /\ RunRefreshLoop(l)
           \/ l.inFlight /\ loop' = l /\ UNCHANGED requestVars
    /\ UNCHANGED <<trailing, recent, noticeVars, mounted, list>>

\* The effect is cleaned up: the poll under way is aborted, the timer cleared.
DisposedTimers(l) == IF l.armed THEN l.timers - 1 ELSE l.timers

CloseMenu ==
    /\ loop.open
    /\ loop' = [ClosedLoop EXCEPT !.timers = DisposedTimers(loop)]
    /\ \/ loop.inFlight /\ Finish(active, flight)
       \/ ~loop.inFlight /\ UNCHANGED requestVars
    /\ UNCHANGED <<trailing, recent, noticeVars, mounted, list>>

\* The page goes away: every hook cleans up.
Unmount ==
    /\ mounted
    /\ mounted' = FALSE
    /\ latest' = None /\ active' = None /\ pending' = None
    /\ trailing' = FALSE
    /\ loop' = [ClosedLoop EXCEPT !.timers = DisposedTimers(loop)]
    /\ noticeTimers' = 0
    /\ owed' = FALSE
    /\ UNCHANGED <<signalled, flight, overtaken, recent, told, notice, list>>

-----------------------------------------------------------------------------
Terminated == ~mounted /\ flight = {} /\ UNCHANGED vars

Next ==
    \/ OpenMenu \/ CloseMenu \/ PollTimer
    \/ TransportRefresh \/ TrailingTimer \/ IntervalOver \/ ManualRefresh
    \/ (\E r \in Request : Answer(r)) \/ RequestTimeout
    \/ NoticeTimeout \/ CooldownOver \/ ClearNotice \/ StorageFailure
    \/ Unmount \/ Terminated

Spec == Init /\ [][Next]_vars

\* Timers fire and every fetch ends.
FairSpec ==
    /\ Spec
    /\ WF_vars(TrailingTimer) /\ WF_vars(PollTimer) /\ WF_vars(RequestTimeout)
    /\ \A r \in Request : WF_vars(Answer(r))

-----------------------------------------------------------------------------
(* Properties.                                                             *)

\* The list on the screen is never that of a fetch that was overtaken by another
\* one: answers that come late, after an abort, a timeout or a newer request, are
\* not applied (session-refresh-coordinator.ts, isStaleRequest and the race).
NoStaleList == list # "outdated"

\* While the menu is open polling goes on, once: either a poll is under way or one
\* timeout runs, whatever the results were, although a reaction and the finally after it
\* may both set one and neither clears another; and none when it is closed
\* (session-refresh-binding.ts).
PollingAlive ==
    /\ loop.open => (loop.timers = 1) # loop.inFlight
    /\ loop.open => loop.timers <= 1
    /\ ~loop.open => loop.timers = 0 /\ ~loop.inFlight

\* A notice has one timer of its own, so it is neither cleared by the timer of an
\* earlier notice nor shown for ever.
NoticeTimed == mounted => noticeTimers = IF notice = None THEN 0 ELSE 1

\* A refresh that was asked for is fetched in the end: neither coalescing with the request
\* under way, nor an abort or a timeout of that request, nor the throttle loses it.
RefreshServed == owed ~> ~owed
=============================================================================
