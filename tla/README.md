# Verification of WooTTY

WooTTY serves shell sessions to browsers. A Go server (`apps/server`) keeps the
sessions: each is a process on a pseudo-terminal, with at most one controller and
any number of watchers, which survives its clients for a while. A TypeScript client
(`apps/web`) keeps a websocket to the server alive, shows the output and sends the
input. This directory holds TLA+ models of both, the TLC runs that check them and
TLAPS proofs of all their safety properties.

    tlc -workers 2 -config <X>.cfg <MC module>     model-check a run of PROJECT.json
    tlapm <module>                                 check the proofs of a module

## 1. The system

### Server

| Part | State | Operations | With whom |
|---|---|---|---|
| Session manager (`session/manager.go`, `attach.go`, `lifecycle.go`, `connection.go`) | map of sessions; per session its controller, watchers, exit, history, cleanup generation and timer | `Attach`, `Detach`, `Write`, `Resize`, `Rename`, `List`, `Shutdown`, `forwardOutput`, `watchExit`, `scheduleCleanupLocked`, `cleanup` | called by one handler goroutine per client, by one forwarding goroutine per session and by timers; one mutex, released around every write to a socket and every call on a process |
| Websocket handler (`server/terminal.go`) | locals `activeSessionID`, `activeReadOnly` | read loop, replies, deferred detach | caches what `Attach` granted; writes without a lock until it is attached |
| Pseudo-terminal process (`session/pty.go`) | channels, `done`, `readDone`, `closeOnce` | `readLoop`, `waitLoop`, drain timer, `Kill`, `Close` | three goroutines and the kernel; the forwarding goroutine consumes its channels |
| Output history (`session/history.go`) | chunks and their size | `Append`, `Dump` | written by the forwarding goroutine, replayed by `Attach` |
| Shutdown (`server/server.go`, `cmd/woottyd/main.go`) | closed flags | close connections, `Manager.Shutdown`, return | races all of the above |
| Authentication (`server/auth.go`) | the token | exchange of a token for a cookie, check of a request | pages that start; the token changes with a restart |
| HTTP, static files, configuration, wire protocol, the fake process of the tests | none that changes | | |

### Client (`apps/web/src`, mostly below `features/terminal`)

| Part | State | Operations | With whom |
|---|---|---|---|
| Start (`main.tsx`, `AppErrorBoundary.tsx`, `TerminalApp.tsx`, `bootstrap/**`) | token in the fragment, what the tab shows, requests under way | load, mount, exchange of the token, derivation of the socket, sessions and authentication endpoints | the server's token, the cookie all tabs share |
| Transport (`app/engine/transport/**`) | current socket, close intent, status, attempt counter, reconnect timer, heartbeat timers | `connect`, `reconnectNow`, `reconnectWithEndpointChange`, `scheduleFreshConnection`, `dispose`, close plan, heartbeat | events of sockets, of which a replaced one may still close; effects and commands of `useConnectionCoordinator` |
| Coordinator (`connection-coordinator.ts`, `controller-actions.ts`) | session, attach mode, handlers of the last rendering | connect, reconnect, choose a session, start a fresh one | transport, runtime, messages, stored sessions |
| Input queue (`connection-input-backpressure.ts`, `terminal-outbox.ts`) | queued chunks, queued size | enqueue, flush, reset | transport, messages, keys, changes of size |
| Messages and status (`protocol/connection-*.ts`) | status flag, transport status of the last rendering | reaction to ready, output, exit, error; projection | the transport's status arrives through an effect |
| Session list (`session-refresh-coordinator.ts`, `session-refresh-binding.ts`, `session-orchestrator.ts`) | request id, abort controller, pending request, throttle, circuit breaker, list | refresh, poll, coalesce, time out | HTTP, the menu, transport events |
| Notices (`session-notice-channel.ts`, `failure-notice-throttle.ts`) | notice, its timer, last failure told | publish, clear, throttle | everything that fails |
| Stored sessions (`session-persistence.ts`, `session-storage.ts`, `session-candidates.ts`) | tab's session, last session, history | remember, persist, clear, candidates | local storage, which other tabs write too |
| Rendering, menus, status bar | presentation | | |

### What is hard

The mutex of the manager is not held while sockets are written or processes called.
So a cleanup callback may run after `Stop` came too late, output may be forwarded
while a client is sent its history, a process may exit while somebody attaches, a
handshake may fail after it was granted a role, and a shutdown may overtake a
cleanup. A process may fill its channel while nobody reads, or leave a child that
keeps the terminal open. In the browser every socket that was replaced still delivers
its close event, three kinds of timers run, and commands arrive between all of them.
Between a message and the next rendering the handlers still see the old session and
role; an effect may apply a status that a message has overtaken; input is queued and
flushed from three places. Answers of list requests come late or never, tabs write the
same storage, and a tab may be reloaded between any two of its storage operations.
`PROJECT.json` lists these hazards with their lines and the properties that watch them.

### What makes each part correct

* Manager: the cached role is the role on record; nobody displaces a controller; a
  detached session always has an effective cleanup and a session in use is never
  removed; a client sees one stream without gap or repetition; sockets have one
  writer at a time; a shutdown ends everything.
* Processes: output in order and before the exit, one exit, no survivors, no
  goroutine blocked for ever.
* History: no rune torn, the limit kept, the replay contiguous.
* Transport: one live socket, a status with something behind it, a bounded and
  finite recovery, silence after the page is gone.
* Page and session: input is written once and in order, sessions do not mix, a page
  that controls a session has flushed its queue and set its size, and a verdict of the
  server stays on the screen (but for one that comes early, section 3).
* Session list: no overtaken answer is shown, a refresh that was asked for is fetched,
  polling neither stops nor doubles, a notice has its own timer.
* Stored sessions: a reloaded tab comes back to its session; the menu is complete and
  without repetitions, whatever is stored.
* Start: the token in an address is not lost, and a tab that waits has a call whose end
  ends its waiting; the endpoints belong to one backend.

## 2. Modules

| Module | Models | Notes |
|---|---|---|
| `SessionLifecycle` | what the manager promises about a session's life | abstract specification |
| `SessionManager` | manager, handlers, forwarding goroutines, cleanup timers, shutdown | implements `SessionLifecycle` |
| `SessionManagerProofs` | | types, roles, cleanups, steering, shutdown, refinement of `SessionLifecycle`; writers, order and completeness of what a client is sent |
| `ProcessContract` | what the manager relies on in a process | abstract specification |
| `PtyProcess`, `PtyProcessProofs` | `pty.go` and the consumer of its channels | implements `ProcessContract`, proved |
| `OutputHistory`, `OutputHistoryProofs` | the rune loop of `readLoop`, and `history.go` | loops as recursive functions; a reference decoding of the undivided output |
| `Link` | what the transport promises its users | abstract specification |
| `Transport`, `TransportProofs` | the client's transport | implements `Link`, proved |
| `Connection`, `ConnectionProofs` | a page and its session: coordinator, runtime, input queue, messages, status, and the server's handlers | composed with `Link` |
| `SessionList`, `SessionListProofs` | the list of live sessions and the notices | |
| `StoredSessions`, `StoredSessionsProofs` | the storages of several tabs, and the menu's candidates | |
| `Startup`, `StartupProofs` | start of a tab, authentication, endpoints | |
| `MC...` | instances for TLC | |

A definition marked "Mutant" in its comment is a plausible wrong form of the definition
that follows it; `PROJECT.json` pairs each checked property with one that breaks it. A
module whose `TypeOK` no run lists keeps it as documentation of the variables.

### SessionManager

A step is one critical section of `Manager.mu`, one write to a socket or one call on a
process. A handler's program counter `pc` is at its read loop, in a handshake
(`finishAttachLocked`), in the undoing of a failed one, in a blocking `Write` or
`Resize`, or at its end. The forwarding goroutine's `pump` is forwarding, waiting for
the exit, about to schedule the exit cleanup, or done; `targets` are the connections it
collected under the lock and has still to write to, so connections may come and go in
between. `reconnectTimer` holds the generation a pending timer carries, and `cleanups`
the generations of callbacks that have started and wait for the lock: `Stop` does not
reach those. `reaper` is a session taken out of the map whose process is still to be
closed. Output is counted in chunks: a frame on the `wire` carries the positions it
covers, the history a window of them. The window is contiguous, which `OutputHistory`
shows for limits of at least one chunk. Names and sizes are left out.

A handler may find messages in its buffer after its socket was closed, so a socket's
state does not disable reading. A failed write closes the socket, as `writeJSON` and
`SendJSON` do.

### PtyProcess

The process group (a command and one background child which may ignore every signal but
SIGKILL and writes to the same terminal), the kernel's buffer, `readLoop`, `waitLoop`, the
drain timer and the one `Close`, whose kill and close of the descriptor are separate
steps. A child that leaves the process group with `setsid` is outside the model, as it is
outside the reach of `Kill`. A chunk is named by the position at which it ends; it may
leave a unit of an incomplete rune pending. It refines `ProcessContract`: everything
written is received before the data ends and before the one exit, unless the session was
removed, or closed by the drain timer, before the output was drained.

### OutputHistory

A byte is represented by what decoding looks at: a continuation byte or the first byte of
a rune of k bytes. Inputs are all byte strings up to a length, so also invalid ones, and
reads return any number of bytes that fits into the buffer. UTF-8 functions are modelled
from `unicode/utf8` as the code uses them (overlong forms are not told apart). The loops
that cut a chunk (`Cut`) and that count the bytes of dropped chunks (`Size`) are recursive
functions; `Boundaries` decodes the whole output at once and is what the chunks are held
against.

### Transport

A step is one task of the event loop. Sockets outlive their replacement: one that is
closing delivers its close event later, and the module ignores it as the code does (the
generation check). A closed socket stands for a new one, except while `pingSentAt` still
speaks of it. Delays are abstracted: a timer may fire at any time. The code of a close
event only says whether it is recoverable. Commands are possible while the terminal is
ready, as the controls are disabled before.

### Connection

`Connection` is written on top of `Link`: it instantiates it and every step of the page's
socket is a step of `Link`, so what it shows holds for any transport that implements
`Link`, and `Transport` does. The server's side is what one client can notice of
`SessionManager`: a handler per socket, of which those of earlier sockets may still be
working off what they have received.

A step of the page is one task. React renders in a task of its own, which replaces the
closures of the handlers and runs the effects; until then they go by `seen`, the session
and the mode of the last rendering. A click is rendered before the next task. `shown` is
the state of the status projector. Chunks of input are numbered as they are typed, and
`got` is what each session's process has been written; `era` counts the user's choices of
a session; `verdict` is the last flag a message has set on this link, and whether its handler
ran before the effect that tells the projector of the connected status. Sizes are one number
with the client's clamping. Messages are records; the client's validation is `ParseFailure`,
with the checks in the order of the code.

### SessionList

A step is one task with the promise reactions it causes: when a request is aborted or its
race decided, its continuation, its `finally` and the reaction of its caller follow in the
same task. A fetch outlives its request and may answer later. `recent` and `cooling` stand
for comparisons with the clock, and every delay is a timer that may fire at any time. A
response is what the fetch, the status and the payload parser tell apart: failures, or the
numbers of valid and invalid entries, on which the parse policy decides. Of the poll loop,
`timers` counts the timeouts that run and `armed` says whether `refreshTimer` is null: the
reaction to a result (`React`) and the `finally` after it (`Finally`) may each set a timeout,
and `SetTimer`, like the code, clears none.

### StoredSessions

Storage operations are atomic and those of one handler interleave with those of other
tabs. Each may fail, and a tab may be reloaded or restored after a crash between any two
operations; `from` is the session a tab was in when its task began. A stored history is
nothing, a list that may hold invalid entries, or a value that is no list. The local storage
is everybody's: `Damage` stores any history and any last session. A read leaves invalid
entries out and puts nothing else right, so a list with repetitions or over the limit is
read as it is; `untidy` records that somebody else has stored one. The filter of the history
(`Without`) and the loop over the candidates with its set of seen ids (`Unseen`) are recursive
functions. The candidates of the menu are computed for every list of live sessions the server
could send: `MenuSound` says that they are, each once, the live and the remembered sessions
but for the tab's own, whatever is stored. That a history has no repetitions and is within
the limit it claims only of what the tabs bring about themselves. Two tabs that read before
either writes lose one of the two entries; the code promises nothing about that.

### Startup

A tab is loaded, mounted and runs the effect of `TerminalApp`, once or (strict effects)
twice; the token in its fragment is exchanged for the cookie that all tabs share. The
server may restart with another token. Assumed: a connection does not outlive the server;
a request to another origin with a credential needs a preflight, which the server answers
with 405, so it can only fail. The request has no timeout in the code, so nothing is
claimed about when it ends. Addresses are records of scheme, host and the segments of the
path; queries, and the policy for hosts and origins of a server without a token, are left
out.

## 3. Runs

| Run | Question and bounds |
|---|---|
| `sessions_reconnect` | Two clients with two messages, two chunks, so that history, replay and live output differ. Types, roles, cleanups, streams, steering, removal, refinement of `SessionLifecycle`. |
| `sessions_pair` | Two sessions, two clients, no detached TTL: writers, closed processes, shutdown. |
| `sessions_live` | Two clients: expiry, reaping, detaching under fairness, when processes read their input. |
| `sessions_exit`, `sessions_shutdown` | Two disagreements with the documentation, below. |
| `pty_process` | Channel of two chunks, terminal of three units, five units: full channel, full terminal and more to write. |
| `history` | Up to six bytes, runes of up to three, buffer of five, limits 1, 4 and 5: below, near and at the largest chunk. |
| `transport` | Three sockets (one current, two still closing), two attempts instead of eight, three commands. |
| `connection` | A kept session and a new one, the current socket and an old one, chunks that fill half or all of the queue, a size within and one beyond the limit, four acts (keys, changes of size, commands, faults, ends of sessions). 4.5 million states. |
| `session_list` | One request under way and two overtaken ones, a circuit that opens after two failures. |
| `stored_sessions` | Two tabs, three sessions and a history of two, so that entries are evicted; up to two live sessions; what others store has up to three entries, so it may repeat one or be too long; four events, failures or foreign writes (two tabs with a session each, a foreign write and a reload). 0.5 million states. |
| `startup` | Two tabs, two tokens, nine settings that between them have every scheme, route, base path and trailing slash; four loads, failures or restarts. 1.8 million states. |

Session ids, connections, sockets, tabs and tokens are interchangeable where no property
and no initial state names one, so the safety runs use symmetry (`Connection` only for its
sockets: one session is the kept one); the runs with liveness do not. Every counter that
the code leaves unbounded is bounded by a constant named `Max...`; generations grow only
with messages and exits and need none of their own. Four acts are enough for the longest
known interplay in `Connection`: a loss, a key while disconnected, a choice and a key after
it, around the reconnects, which cost nothing. `Connection`, `StoredSessions` and `Startup`
really may stop (a terminal that could not be loaded, acts used up and nothing under way),
so their runs do not check for deadlock.

### Fairness

Goroutines that can run do run, timers fire, a write to a socket ends within its deadline
(`connection.go`), and a process killed with SIGKILL dies. Nothing is assumed of clients,
of process output, nor, in `PtyProcess`, of the forwarding goroutine, which a slow client
may hold up. `sessions_live` adds that a process goes on reading its input. In the browser
timers fire, connection attempts and closing handshakes end, which browsers guarantee by
timeouts of their own, and every fetch ends in an answer or an error.

### Disagreements between documentation and code

With a run:

* `sessions_exit`: `docs/runtime.md` says that process exit removes the live session. A
  client that attaches in the millisecond between `watchExit`'s scheduling and the
  callback cancels the cleanup, and nothing schedules it again while it stays.
* `sessions_shutdown`: shutdown ends all sessions. `cleanup` releases the lock before it
  kills the process; a shutdown that comes in between neither sees the session nor waits.

Met while modelling; the properties are stated so that they hold:

* "Closing the last controller/watcher starts the detached TTL" (`docs/runtime.md:69`). A
  handler blocked in a write to a process that does not read its input never notices that
  its client has gone; hence the assumption of `sessions_live`.
* "Old output beyond `WOOTTY_HISTORY_BYTES` is discarded" (`docs/runtime.md:70`). With a
  limit below the largest chunk (4100 bytes) a chunk trimmed to a rune start may leave room
  in which older output survives, so that the replay has a gap. `ReplaySound` claims a
  contiguous replay for larger limits only.
* FR-4 of `docs/web-ui-spec.md` has buffered input flushed after `ready`. A key typed on an
  open socket flushes the queue at once, ready or not. The server refuses input of a
  connection that is not attached, unless it is attached by the time the input is read;
  hence the exception in `InputInOrder` for chunks sent early.
* A test of the status projector (`connection-status-projector.test.ts:29`) "keeps remote exit
  projected as closed while transport remains connected". The projector learns of the
  connected status from the effect of a rendering, and that effect clears the flag that is
  set. An exit or an unknown session that is handled before it (attaching to a session that
  has ended is answered by ready, replay and exit at once) is lost, and the session is shown
  as connected. `VerdictShown` claims that a verdict is lost in no other way.
* Input typed for a session that turns out to be gone stays queued, and a plain Reconnect
  then sends it to the fresh session. `NoCrossTalk` speaks of sessions the user chose.
* A `ws://` setting whose path does not end with the terminal route, a trailing slash
  included, resolves the sessions and the authentication at the root of the host;
  `EndpointsAgree` says so.

## 4. Proofs

Every safety property of a passing run is also a theorem, for all values of the constants;
so are the three refinements. A run shows a property on an instance, with a mutant of the
code that breaks it; the theorem shows it for any number of clients, sessions, sockets,
requests and tabs, output of any length and any limits. The proofs use the named assumptions
on the constants and nothing else:

* numbers are natural numbers, and a capacity or a limit that the code has is not zero;
* the value that stands for "none" is none of the values it is used beside (`None`, `NoConn`,
  `NoSession`; `NoneIsNoNotice` and `NoneIsNothing` say it of notices, handlers, flags and
  reasons);
* a setting has one of the kinds the code tells apart and a path of strings
  (`StartupConstants`).

Each property needed an inductive invariant that says more than the property. TLC checked
each of those on the run of its module before it was proved.

**Session manager** (`SessionManagerProofs`).

* `TypeCorrect`. `TypeOK` is not inductive: that the frame a pump sends covers natural
  positions needs that a pump with targets has a non-empty history (`TypeInv`).
* `RolesAgree`. `RoleInv` adds what a handler may hold at each program counter
  (`HandlerLocals`) and that a session id never used has no trace anywhere (`UnbornUnused`),
  which makes a newly created session agree with every handler.
* `DetachedIsArmed`, `ClosedOnlyRemoved`, `RemovalNotPremature`. `CleanupInv` says that
  callbacks in flight carry old generations or the current one, and that a pending timer
  carries the current one and then no callback does. This is why a late callback is
  harmless: either its generation is old, or it is the one and only current cleanup.
* `ControllerSteers` follows from the agreement of roles: a handler acts on a cached role.
* `ShutdownClosesAll`, `ManagerImplementsLifecycle`. `LifeInv` adds when an exit can be on
  record and that a process outside the map is closed, or has somebody who is going to close
  it, also once the manager is closed. Every step is then a step of `SessionLifecycle` or
  leaves its variables alone.

**Streams** (`SessionManagerProofs`). `WritersExclude`, `StreamsInOrder`, `StreamsComplete`.
`StreamInv` gives every connection one seat: a session that writes to it, or will, is the one
its handler is attached to, also after the handler has ended. Then the view of a client, in
the snapshot of its handshake as on the wire, is the history of its session but for the one
frame that the pump owes it; a frame that is sent continues the view.

**Processes** (`PtyProcessProofs`). `NoSurvivorsHolds`, `PtyImplementsContract`. `PtyInv`
orders the positions of what is received, in the channel, cut, read and written, and says
that unless the process is closed early, readLoop ends only when everything was read and
nobody can write, and nothing closes the process before.

**Transport** (`TransportProofs`). `NoOrphanHolds`, `StatusBackedHolds`,
`HeartbeatOfCurrentHolds`, `AttemptsBoundedHolds`, `TransportImplementsLink`. `TransportInv`
adds that a reconnect timer and a current socket exclude each other, that the heartbeat runs
on a socket that has opened only, that a page that is gone has at most a socket it is closing,
and that automatic attempts are counted before they are made.

**Page and session** (`ConnectionProofs`). `InputInOrderHolds`, `NoCrossTalkHolds`,
`ReadyIsSyncedHolds`, `VerdictShownHolds`, from one invariant `ConnInv`. For the order of
input: every chunk is queued, on its way on one socket, or written; queued ones are newer than
those sent; what a socket may still write is newer than what its session was written, or was
sent before its socket was attached. For the mixing of sessions: queue, sockets and link are of
one era; output follows the ready message of its session. For a page in step: a socket that
controls a session has the size of the last fit on its way behind everything else, or the
process has it; and a ready message that will flush the queue is on its way, or the queue is
empty. For verdicts: one is given on an open link, and the flag of one that is not early waits
for no effect of the status. As `Connection` takes steps of `Link` only, the results hold for
`Transport`, which implements it.

**Session list** (`SessionListProofs`). `NoStaleListHolds`, `PollingAliveHolds`,
`NoticeTimedHolds`. `ListInv`: the active request is the latest and has not been overtaken; a
poll under way is the active request and carries the signal of the loop, so that whatever ends
it rearms the timer; `refreshTimer` holds the one timeout that runs, so that a reaction and the
`finally` after it set one between them (`ReactSets`, `FinallyArms`); the circuit is open when
the failures have reached their limit; nothing runs once the hooks are gone.

**Stored sessions** (`StoredSessionsProofs`). `ReloadResumesHolds`: a task under way is about
the session its tab is in, so what it stores in the end is that session, and until then the
session storage holds the one before. `MenuIsSound`: `MenuInv` says that every history that is
stored, remembered by a tab or about to be written consists of sessions, apart from invalid
entries, and unless somebody else has stored one that is not in order has no session twice and
is within its limit, since the history a tab reads may be that of any other tab; what is about
to be written is within the limit in any case. What the loops return is one lemma each:
`WithoutFilters` for the filter, `UnseenFilters` for the candidates.

**Start** (`StartupProofs`). `AccessKeptHolds`: a tab counts as given a token only while the
server has that token, and an answer under way is that of the server as it is now, since a
restart loses the others. `EndpointsAgreeHolds`: a path that is derived is the terminal route
below some base path (`DeriveEnds`), and the paths that name a route of a base path lead back to
it (`DeriveAgain`); both from what it is for a sequence to end with a route.

**Output history** (`OutputHistoryProofs`). `NoRuneIsSplit`, `NothingIsLost`, `ReplayIsSound`.
`ReadInv`: the chunks are slices of the output that follow each other, end at boundaries and
are no larger than the buffer; what is pending starts at a boundary and is less than a rune.
The step that needs it is a read: as the buffer starts at a boundary, a rune of the buffer is
the rune of the undivided output at that place whenever it is complete (`SameRune`), so the
cut advances along the boundaries. That a trimmed chunk starts inside no rune rests on
`RuneStartIsBoundary`: in any input, valid or not, a first byte is never inside another rune.
`HistoryInv`: the history holds the last chunks, each as `Trim` leaves it, counts their bytes,
and the chunk before them would not have fitted. From it the replay is the longest that fits,
as sizes only grow with the number of chunks (`SizeGrows`), and with a limit of at least a
chunk nothing is trimmed and the replay is one slice, up to the end of what was appended.

**Induction.** What a recursive function returns is proved without the library's induction
theorems, which take an operator and cannot be instantiated here. That every set of numbers has
a least one (`Least`) follows from the one fact of `WellFoundedInduction` about minimal
elements of a set (`WFMin`); an induction is then about a set, of the numbers at which a claim
holds (`UpTo`, and `DownTo` for loops that run towards the end). A recursive function is a
`CHOOSE`, so that it exists is proved as well (`Recursion`, `DownRecursion`).

Each proof has one lemma per action or group of actions and, where several conjuncts are
disturbed, one step per conjunct; a step that leaves a session, connection or tab alone is
dealt with by a frame lemma.

Only model-checked is liveness: `DetachedExpires`, `RemovedIsReaped`, `DroppedDetaches`,
`ExitAnnounced`, `CloseEndsAll`, `SilenceDetected`, `RecoveryEnds`, `RefreshServed`. Fairness
and `ENABLED` are beyond the prover.

## 5. Outlook

What could be added:

1. The lemmas that liveness would rest on where they are actions: a fair step that is taken
   brings the promised state nearer.
2. Field validation of the Go side and the argument parser of the configuration as pure
   operators.

## 6. Not modelled

* The fake process: a double for tests, switched on by `WOOTTY_FAKE_PTY`.
* Rendering, fonts, styling, the layout of menus and the status bar: presentation of state
  that other parts own.
* Static files and the HTTP routing: no state. The policy for hosts and origins: a
  predicate of one request.
* Configuration: read once at the start.
* Generated contracts, and the build, release and documentation scripts: outside the
  running system.
