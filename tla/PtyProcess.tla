----------------------------- MODULE PtyProcess -----------------------------
(***************************************************************************)
(* A pseudo-terminal process (pty.go): the process group on the slave      *)
(* side, the goroutines readLoop and waitLoop, the drain timer, Close, and *)
(* the forwarding goroutine of the manager as the consumer of its channels.*)
(*                                                                         *)
(* Output is counted in units (a byte of a rune); a chunk is named by the  *)
(* position at which it ends.                                              *)
(***************************************************************************)
EXTENDS Naturals, Sequences

CONSTANTS
    Capacity,   \* capacity of dataCh (256)
    TtyBuffer,  \* units the kernel buffers for the master (bound)
    MaxOutput   \* bound: units the process group writes

ASSUME PtyConstants ==
    /\ Capacity \in Nat \ {0}
    /\ TtyBuffer \in Nat \ {0}
    /\ MaxOutput \in Nat

VARIABLES
    leader,     \* the command: "running" or "dead"
    child,      \* a background child that holds the slave: "none", "alive", "dead"
    written,    \* units written to the slave
    read,       \* units read from the master
    end,        \* end of the last chunk cut from what was read
    reader,     \* program counter of readLoop
    dataCh,     \* the chunks in the channel; closed when the reader is "done"
    waiter,     \* program counter of waitLoop; the exit is in exitCh when "done"
    drainTimer, \* "off", "armed", "fired" or "stopped"
    closing,    \* progress of the one Close: "open", "done", "killed", "closed"
    early,      \* the manager or the drain timer closed before readLoop had returned
    manager,    \* the session: "listed", "removed", "closed"
    pump,       \* the forwarding goroutine: "data", "exit", "end"
    received    \* end of the last chunk it received

vars == <<leader, child, written, read, end, reader, dataCh, waiter, drainTimer,
          closing, early, manager, pump, received>>

TypeOK ==
    /\ leader \in {"running", "dead"}
    /\ child \in {"none", "alive", "dead"}
    /\ written \in 0 .. MaxOutput
    /\ read \in 0 .. MaxOutput
    /\ end \in 0 .. MaxOutput
    /\ reader \in {"read", "send", "last", "done"}
    /\ dataCh \in Seq(0 .. MaxOutput)
    /\ Len(dataCh) <= Capacity
    /\ waiter \in {"wait", "drain", "announce", "done"}
    /\ drainTimer \in {"off", "armed", "fired", "stopped"}
    /\ closing \in {"open", "done", "killed", "closed"}
    /\ early \in BOOLEAN
    /\ manager \in {"listed", "removed", "closed"}
    /\ pump \in {"data", "exit", "end"}
    /\ received \in 0 .. MaxOutput

Init ==
    /\ leader = "running"
    /\ child = "none"
    /\ written = 0
    /\ read = 0
    /\ end = 0
    /\ reader = "read"
    /\ dataCh = <<>>
    /\ waiter = "wait"
    /\ drainTimer = "off"
    /\ closing = "open"
    /\ early = FALSE
    /\ manager = "listed"
    /\ pump = "data"
    /\ received = 0

-----------------------------------------------------------------------------
(* The process group and the terminal.                                     *)

SlaveOpen == leader = "running" \/ child = "alive"

\* The master end has been closed.
MasterClosed == closing = "closed"

Write ==
    /\ SlaveOpen
    /\ ~MasterClosed
    /\ written < MaxOutput
    /\ written - read < TtyBuffer
    /\ written' = written + 1
    /\ UNCHANGED <<leader, child, read, end, reader, dataCh, waiter, drainTimer, closing,
                   early, manager, pump, received>>

Fork ==
    /\ leader = "running"
    /\ child = "none"
    /\ child' = "alive"
    /\ UNCHANGED <<leader, written, read, end, reader, dataCh, waiter, drainTimer, closing,
                   early, manager, pump, received>>

\* The command ends, by itself or on the SIGTERM of a cleanup ...
LeaderExits ==
    /\ leader = "running"
    /\ leader' = "dead"
    /\ UNCHANGED <<child, written, read, end, reader, dataCh, waiter, drainTimer, closing,
                   early, manager, pump, received>>

\* ... and so may the child, which may also ignore every signal but SIGKILL.
ChildExits ==
    /\ child = "alive"
    /\ child' = "dead"
    /\ UNCHANGED <<leader, written, read, end, reader, dataCh, waiter, drainTimer, closing,
                   early, manager, pump, received>>

-----------------------------------------------------------------------------
(* readLoop.                                                               *)

\* Read returns bytes: the loop cuts a chunk that ends at a rune boundary; what
\* is left of an incomplete rune (at most one unit here) stays pending.
Read ==
    /\ reader = "read"
    /\ ~MasterClosed
    /\ \E n \in read + 1 .. written, e \in {end} \cup (end + 1 .. written) :
          /\ e \in {n - 1, n}
          /\ read' = n
          /\ end' = e
          /\ reader' = IF e > end THEN "send" ELSE "read"
    /\ UNCHANGED <<leader, child, written, dataCh, waiter, drainTimer, closing, early,
                   manager, pump, received>>

\* Read fails: nobody holds the slave any more and everything has been read, or
\* the master has been closed.  What is pending is sent as it is.
ReadError ==
    /\ reader = "read"
    /\ MasterClosed \/ (~SlaveOpen /\ read = written)
    /\ end' = read
    /\ reader' = IF read > end THEN "last" ELSE "done"
    /\ UNCHANGED <<leader, child, written, read, dataCh, waiter, drainTimer, closing, early,
                   manager, pump, received>>

\* The select of readLoop: the channel takes the chunk ...
Send ==
    /\ reader \in {"send", "last"}
    /\ Len(dataCh) < Capacity
    /\ dataCh' = Append(dataCh, end)
    /\ reader' = IF reader = "last" THEN "done" ELSE "read"
    /\ UNCHANGED <<leader, child, written, read, end, waiter, drainTimer, closing, early,
                   manager, pump, received>>

\* ... or the process has been closed.
SendAborted ==
    /\ reader \in {"send", "last"}
    /\ closing # "open"
    /\ reader' = "done"
    /\ UNCHANGED <<leader, child, written, read, end, dataCh, waiter, drainTimer, closing,
                   early, manager, pump, received>>

-----------------------------------------------------------------------------
(* Close, which runs once, and waitLoop.                                   *)

\* closeOnce.Do: whoever comes first closes p.done.
BeginClose == closing' = IF closing = "open" THEN "done" ELSE closing

\* A close that does not wait for the output is on record.
CloseEarly ==
    /\ BeginClose
    /\ early' = (early \/ (closing = "open" /\ reader # "done"))

\* SIGKILL to the process group.  (Mutant: to the command alone.)
CloseKillsLeader ==
    /\ closing = "done"
    /\ closing' = "killed"
    /\ leader' = "dead"
    /\ UNCHANGED <<child, written, read, end, reader, dataCh, waiter, drainTimer, early, manager,
                   pump, received>>

CloseKills ==
    /\ closing = "done"
    /\ closing' = "killed"
    /\ leader' = "dead"
    /\ child' = IF child = "alive" THEN "dead" ELSE child
    /\ UNCHANGED <<written, read, end, reader, dataCh, waiter, drainTimer, early, manager,
                   pump, received>>

ClosePty ==
    /\ closing = "killed"
    /\ closing' = "closed"
    /\ UNCHANGED <<leader, child, written, read, end, reader, dataCh, waiter, drainTimer,
                   early, manager, pump, received>>

\* cmd.Wait returns and the final drain is bounded by a timer.
\* (Mutant: it is not.)
WaitReturnsUnbounded ==
    /\ waiter = "wait"
    /\ leader = "dead"
    /\ waiter' = "drain"
    /\ UNCHANGED <<leader, child, written, read, end, reader, dataCh, drainTimer, closing, early,
                   manager, pump, received>>

WaitReturns ==
    /\ waiter = "wait"
    /\ leader = "dead"
    /\ waiter' = "drain"
    /\ drainTimer' = "armed"
    /\ UNCHANGED <<leader, child, written, read, end, reader, dataCh, closing, early,
                   manager, pump, received>>

DrainTimeout ==
    /\ drainTimer = "armed"
    /\ drainTimer' = "fired"
    /\ CloseEarly
    /\ UNCHANGED <<leader, child, written, read, end, reader, dataCh, waiter, manager, pump,
                   received>>

\* readLoop has returned.  (Mutant: nobody waits for it.)
DrainedAtOnce == TRUE
Drained == reader = "done"

\* waitLoop stops the timer and closes.
DrainDone ==
    /\ waiter = "drain"
    /\ Drained
    /\ drainTimer' = IF drainTimer = "armed" THEN "stopped" ELSE drainTimer
    /\ BeginClose
    /\ waiter' = "announce"
    /\ UNCHANGED <<leader, child, written, read, end, reader, dataCh, early, manager, pump,
                   received>>

\* Its Close returns when the one Close is over; the exit is announced.
Announce ==
    /\ waiter = "announce"
    /\ closing = "closed"
    /\ waiter' = "done"
    /\ UNCHANGED <<leader, child, written, read, end, reader, dataCh, drainTimer, closing,
                   early, manager, pump, received>>

-----------------------------------------------------------------------------
(* The session manager.                                                    *)

\* A cleanup or a shutdown takes the session out of the map ...
RemoveSession ==
    /\ manager = "listed"
    /\ manager' = "removed"
    /\ UNCHANGED <<leader, child, written, read, end, reader, dataCh, waiter, drainTimer,
                   closing, early, pump, received>>

\* ... and then closes the process.  (Mutant: it only signals the process, which
\* may ignore that.)
ManagerSignals ==
    /\ manager = "removed"
    /\ manager' = "closed"
    /\ UNCHANGED <<leader, child, written, read, end, reader, dataCh, waiter, drainTimer,
                   closing, early, pump, received>>

ManagerCloses ==
    /\ manager = "removed"
    /\ manager' = "closed"
    /\ CloseEarly
    /\ UNCHANGED <<leader, child, written, read, end, reader, dataCh, waiter, drainTimer, pump,
                   received>>

\* forwardOutput takes a chunk; when the session is gone it is the last it takes.
PumpReceives ==
    /\ pump = "data"
    /\ dataCh # <<>>
    /\ dataCh' = Tail(dataCh)
    /\ received' = Head(dataCh)
    /\ pump' = IF manager = "listed" THEN "data" ELSE "exit"
    /\ UNCHANGED <<leader, child, written, read, end, reader, waiter, drainTimer, closing,
                   early, manager>>

\* The channel is closed and empty.
PumpDrained ==
    /\ pump = "data"
    /\ dataCh = <<>>
    /\ reader = "done"
    /\ pump' = "exit"
    /\ UNCHANGED <<leader, child, written, read, end, reader, dataCh, waiter, drainTimer,
                   closing, early, manager, received>>

\* watchExit receives the exit.
PumpExit ==
    /\ pump = "exit"
    /\ waiter = "done"
    /\ pump' = "end"
    /\ UNCHANGED <<leader, child, written, read, end, reader, dataCh, waiter, drainTimer,
                   closing, early, manager, received>>

-----------------------------------------------------------------------------
Group == Write \/ Fork \/ LeaderExits \/ ChildExits
ReadLoop == Read \/ ReadError \/ Send \/ SendAborted
Close == CloseKills \/ ClosePty
WaitLoop == WaitReturns \/ DrainTimeout \/ DrainDone \/ Announce
Manager == RemoveSession \/ ManagerCloses \/ PumpReceives \/ PumpDrained \/ PumpExit

\* Everything has ended.
Terminated == pump = "end" /\ manager = "closed" /\ UNCHANGED vars

Next == Group \/ ReadLoop \/ Close \/ WaitLoop \/ Manager \/ Terminated

Spec == Init /\ [][Next]_vars

-----------------------------------------------------------------------------
(* Properties.                                                             *)

\* When the exit is announced nobody of the process group is left, neither the
\* command nor a background child that kept the terminal (comment in Close: "A
\* closed session must not leave its process group").
NoSurvivors == waiter = "done" => leader = "dead" /\ child # "alive"

Contract == INSTANCE ProcessContract WITH
    phase  <- pump,
    waived <- early \/ manager # "listed"

\* The forwarding goroutine sees what the manager relies on: all output before
\* the end of the data, unless the session was removed or the process closed
\* early, and the exit once, after the data.
ImplementsContract == Contract!Spec

-----------------------------------------------------------------------------
(* Liveness.  Goroutines run, the timer fires and a system call on a ready  *)
(* descriptor returns.  Nothing is assumed of the process group nor of the  *)
(* forwarding goroutine, which a slow client may hold up.                   *)

FairSpec ==
    /\ Spec
    /\ WF_vars(ReadError)
    /\ WF_vars(SendAborted)
    /\ WF_vars(Close)
    /\ WF_vars(WaitLoop)
    /\ WF_vars(ManagerCloses)

\* The end of the command is announced, even if a background child keeps the
\* terminal open and even if nobody takes the output.
ExitAnnounced == leader = "dead" ~> waiter = "done"

\* A removed session's process ends: its group is killed and readLoop returns, a
\* readLoop that is blocked on the full channel of a removed session too.
CloseEndsAll ==
    manager = "removed" ~> leader = "dead" /\ child # "alive" /\ reader = "done" /\ waiter = "done"
=============================================================================
