-------------------------- MODULE PtyProcessProofs --------------------------
(***************************************************************************)
(* Proofs about PtyProcess, for every capacity of the channel and of the   *)
(* terminal and every amount of output: no process survives its exit, and  *)
(* the forwarding goroutine sees what ProcessContract promises.            *)
(***************************************************************************)
EXTENDS PtyProcess, SequenceTheorems, TLAPS

\* The kill of Close reaches the whole group, no process is forked after it, and the
\* exit is announced only after Close.
KillInv ==
    /\ closing \in {"killed", "closed"} => ~SlaveOpen
    /\ waiter = "done" => closing = "closed"

\* Positions: what was received, the chunks in the channel, the chunk that is cut, what
\* was read and what was written follow each other.
OrderInv ==
    /\ received <= end /\ end <= read /\ read <= written
    /\ \A i \in 1 .. Len(dataCh) : received < dataCh[i] /\ dataCh[i] <= end
    /\ \A i, j \in 1 .. Len(dataCh) : i < j => dataCh[i] < dataCh[j]
    /\ reader \in {"send", "last"} =>
          /\ received < end
          /\ \A i \in 1 .. Len(dataCh) : dataCh[i] < end

\* Unless the process was closed early: it is closed only after readLoop, which ends
\* only when everything was read and nobody can write any more; ...
DrainInv ==
    ~early =>
        /\ closing = "open" \/ reader = "done"
        /\ reader \in {"last", "done"} => ~SlaveOpen /\ end = written

\* ... what was cut and is not in the hands of readLoop is in the channel, or received; ...
ChannelInv ==
    ~early /\ reader \in {"read", "done"} =>
        IF dataCh = <<>> THEN received = end ELSE dataCh[Len(dataCh)] = end

\* ... and a session that is still listed sees the end of the data after readLoop.
PumpInv == ~early /\ manager = "listed" /\ pump # "data" => reader = "done"

PtyInv == TypeOK /\ KillInv /\ OrderInv /\ DrainInv /\ ChannelInv /\ PumpInv

\* The invariant holds initially.
LEMMA PtyInit == Init => PtyInv
<1> SUFFICES ASSUME Init PROVE PtyInv
  OBVIOUS
<1> USE PtyConstants DEF Init
<1>1. TypeOK
  <2>1. early \in BOOLEAN
    BY Zenon
  <2>2. 0 \in 0 .. MaxOutput /\ <<>> \in Seq(0 .. MaxOutput) /\ Len(<<>>) <= Capacity
    OBVIOUS
  <2> QED BY <2>1, <2>2 DEF TypeOK
<1>2. KillInv /\ OrderInv
  BY DEF KillInv, OrderInv
<1>3. DrainInv /\ ChannelInv /\ PumpInv
  BY DEF DrainInv, ChannelInv, PumpInv
<1> QED BY <1>1, <1>2, <1>3 DEF PtyInv

-----------------------------------------------------------------------------
(* The process group.                                                       *)

\* A unit is written: by a group that is alive, so that the contract allows it.
LEMMA WriteStep == PtyInv /\ Write => PtyInv' /\ Contract!Next
<1> SUFFICES ASSUME PtyInv, Write PROVE PtyInv' /\ Contract!Next
  OBVIOUS
<1> USE PtyConstants DEF PtyInv, Write
<1>1. TypeOK'
  BY DEF TypeOK
<1>2. KillInv'
  BY DEF KillInv, SlaveOpen
<1>3. OrderInv'
  BY DEF OrderInv, TypeOK
<1>4. DrainInv'
  BY DEF DrainInv, SlaveOpen
<1>5. ChannelInv' /\ PumpInv'
  BY DEF ChannelInv, PumpInv
<1>6. Contract!Write
  <2>1. pump = "data" \/ early \/ manager # "listed"
    BY DEF PumpInv, DrainInv
  <2>2. written' \in written + 1 .. MaxOutput
    BY DEF TypeOK
  <2> QED BY <2>1, <2>2 DEF Contract!Write
<1> QED BY <1>1, <1>2, <1>3, <1>4, <1>5, <1>6 DEF Contract!Next

\* Steps of the group that write nothing.
LEMMA GroupStep ==
    ASSUME PtyInv, Fork \/ LeaderExits \/ ChildExits
    PROVE  PtyInv' /\ UNCHANGED Contract!vars
<1> USE DEF PtyInv, Fork, LeaderExits, ChildExits
<1>1. TypeOK'
  BY DEF TypeOK
<1>2. KillInv' /\ DrainInv'
  BY DEF KillInv, DrainInv, SlaveOpen
<1>3. OrderInv'
  BY DEF OrderInv
<1>4. ChannelInv' /\ PumpInv'
  BY DEF ChannelInv, PumpInv
<1>5. UNCHANGED Contract!vars
  BY DEF Contract!vars
<1> QED BY <1>1, <1>2, <1>3, <1>4, <1>5

-----------------------------------------------------------------------------
(* readLoop.                                                                *)

\* A chunk is cut, or an incomplete rune kept.
LEMMA ReadStep == PtyInv /\ Read => PtyInv' /\ UNCHANGED Contract!vars
<1> SUFFICES ASSUME PtyInv, Read PROVE PtyInv' /\ UNCHANGED Contract!vars
  OBVIOUS
<1>1. PICK n \in read + 1 .. written, e \in {end} \cup (end + 1 .. written) :
          /\ e \in {n - 1, n}
          /\ read' = n
          /\ end' = e
          /\ reader' = IF e > end THEN "send" ELSE "read"
  BY DEF Read
<1>2. /\ reader = "read"
      /\ UNCHANGED <<leader, child, written, dataCh, waiter, drainTimer, closing, early,
                      manager, pump, received>>
  BY DEF Read
<1>3. /\ n \in Nat /\ e \in Nat /\ n <= written /\ e <= n /\ end <= e
      /\ written \in Nat /\ end \in Nat /\ received \in Nat /\ MaxOutput \in Nat
      /\ written <= MaxOutput
  BY <1>1, PtyConstants DEF PtyInv, TypeOK, OrderInv
<1>4. TypeOK'
  BY <1>1, <1>2, <1>3 DEF PtyInv, TypeOK
<1>5. KillInv'
  BY <1>2 DEF PtyInv, KillInv, SlaveOpen
<1>6. OrderInv'
  BY <1>1, <1>2, <1>3 DEF PtyInv, OrderInv, TypeOK
<1>7. DrainInv' /\ PumpInv'
  BY <1>1, <1>2 DEF PtyInv, DrainInv, PumpInv, SlaveOpen
<1>8. ChannelInv'
  BY <1>1, <1>2, <1>3 DEF PtyInv, ChannelInv
<1>9. UNCHANGED Contract!vars
  BY <1>2 DEF Contract!vars
<1> QED BY <1>4, <1>5, <1>6, <1>7, <1>8, <1>9 DEF PtyInv

\* The end of the terminal.
LEMMA ReadErrorStep == PtyInv /\ ReadError => PtyInv' /\ UNCHANGED Contract!vars
<1> SUFFICES ASSUME PtyInv, ReadError PROVE PtyInv' /\ UNCHANGED Contract!vars
  OBVIOUS
<1> USE PtyConstants DEF PtyInv, ReadError
<1>1. TypeOK'
  BY DEF TypeOK
<1>2. KillInv'
  BY DEF KillInv, SlaveOpen
<1>3. OrderInv'
  BY DEF OrderInv, TypeOK
<1>4. DrainInv'
  BY DEF DrainInv, SlaveOpen, MasterClosed
<1>5. ChannelInv'
  BY DEF ChannelInv, OrderInv, TypeOK
<1>6. PumpInv' /\ UNCHANGED Contract!vars
  BY DEF PumpInv, Contract!vars
<1> QED BY <1>1, <1>2, <1>3, <1>4, <1>5, <1>6

\* The channel takes the chunk.
LEMMA SendStep == PtyInv /\ Send => PtyInv' /\ UNCHANGED Contract!vars
<1> SUFFICES ASSUME PtyInv, Send PROVE PtyInv' /\ UNCHANGED Contract!vars
  OBVIOUS
<1>1. /\ reader \in {"send", "last"} /\ Len(dataCh) < Capacity
      /\ dataCh' = Append(dataCh, end)
      /\ reader' = IF reader = "last" THEN "done" ELSE "read"
      /\ UNCHANGED <<leader, child, written, read, end, waiter, drainTimer, closing, early,
                      manager, pump, received>>
  BY DEF Send
<1>2. /\ dataCh \in Seq(0 .. MaxOutput) /\ end \in 0 .. MaxOutput /\ Capacity \in Nat
      /\ received \in Nat
  BY PtyConstants DEF PtyInv, TypeOK
<1>3. /\ dataCh' \in Seq(0 .. MaxOutput) /\ Len(dataCh') = Len(dataCh) + 1
      /\ dataCh' # <<>>
      /\ dataCh'[Len(dataCh')] = end
      /\ \A i \in 1 .. Len(dataCh) : dataCh'[i] = dataCh[i]
  BY <1>1, <1>2
<1>4. TypeOK'
  BY <1>1, <1>2, <1>3 DEF PtyInv, TypeOK
<1>5. KillInv'
  BY <1>1 DEF PtyInv, KillInv, SlaveOpen
<1>6. OrderInv'
  <2> USE DEF PtyInv, OrderInv, TypeOK
  <2>1. \A i \in 1 .. Len(dataCh) : dataCh'[i] < end /\ received < dataCh'[i]
    BY <1>1, <1>3
  <2>2. \A i \in 1 .. Len(dataCh') : received < dataCh'[i] /\ dataCh'[i] <= end
    BY <1>1, <1>2, <1>3, <2>1
  <2>3. \A i, j \in 1 .. Len(dataCh') : i < j => dataCh'[i] < dataCh'[j]
    BY <1>2, <1>3, <2>1
  <2> QED BY <1>1, <2>2, <2>3
<1>7. DrainInv' /\ PumpInv'
  BY <1>1 DEF PtyInv, DrainInv, PumpInv, SlaveOpen
<1>8. ChannelInv'
  BY <1>1, <1>3 DEF ChannelInv
<1>9. UNCHANGED Contract!vars
  BY <1>1 DEF Contract!vars
<1> QED BY <1>4, <1>5, <1>6, <1>7, <1>8, <1>9 DEF PtyInv

\* The chunk is dropped by a process that was closed early.
LEMMA SendAbortedStep == PtyInv /\ SendAborted => PtyInv' /\ UNCHANGED Contract!vars
<1> SUFFICES ASSUME PtyInv, SendAborted PROVE PtyInv' /\ UNCHANGED Contract!vars
  OBVIOUS
<1> USE DEF PtyInv, SendAborted
<1>1. TypeOK'
  BY DEF TypeOK
<1>2. KillInv' /\ OrderInv'
  BY DEF KillInv, OrderInv, SlaveOpen
<1>3. DrainInv' /\ ChannelInv' /\ PumpInv'
  BY DEF DrainInv, ChannelInv, PumpInv, SlaveOpen
<1>4. UNCHANGED Contract!vars
  BY DEF Contract!vars
<1> QED BY <1>1, <1>2, <1>3, <1>4

-----------------------------------------------------------------------------
(* Close and waitLoop.                                                      *)

\* The two halves of Close.
LEMMA CloseStep == PtyInv /\ Close => PtyInv' /\ UNCHANGED Contract!vars
<1> SUFFICES ASSUME PtyInv, Close PROVE PtyInv' /\ UNCHANGED Contract!vars
  OBVIOUS
<1> USE DEF PtyInv, Close, CloseKills, ClosePty
<1>1. TypeOK'
  BY DEF TypeOK
<1>2. KillInv' /\ DrainInv'
  BY DEF KillInv, DrainInv, SlaveOpen, TypeOK
<1>3. OrderInv'
  BY DEF OrderInv
<1>4. ChannelInv' /\ PumpInv'
  BY DEF ChannelInv, PumpInv
<1>5. UNCHANGED Contract!vars
  BY DEF Contract!vars
<1> QED BY <1>1, <1>2, <1>3, <1>4, <1>5

\* What an early close keeps: the record of it is Boolean, it is not taken back, and
\* without it the process was closed before or had been drained.
LEMMA CloseEarlyKeeps ==
    ASSUME TypeOK, CloseEarly
    PROVE  /\ early' \in BOOLEAN
           /\ early => early'
           /\ ~early' => closing # "open" \/ reader = "done"
           /\ closing' \in {"open", "done", "killed", "closed"} \ {"open"}
           /\ closing' \in {"killed", "closed"} => closing' = closing
           /\ closing = "closed" => closing' = "closed"
<1>1. early' = (early \/ (closing = "open" /\ reader # "done"))
  BY DEF CloseEarly
<1>2. early' \in BOOLEAN /\ (early => early')
      /\ (~early' => closing # "open" \/ reader = "done")
  BY <1>1, Zenon
<1>3. closing' = IF closing = "open" THEN "done" ELSE closing
  BY DEF CloseEarly, BeginClose
<1> QED BY <1>2, <1>3 DEF TypeOK

\* An early close, by the drain timer or by the manager, keeps the rest of the invariant
\* and is a waiver to the contract.
LEMMA CloseEarlyStep ==
    ASSUME PtyInv, CloseEarly,
           manager' = manager \/ manager' # "listed",
           UNCHANGED <<leader, child, written, read, end, reader, dataCh, waiter, pump, received>>
    PROVE  /\ early' \in BOOLEAN
           /\ KillInv' /\ OrderInv' /\ DrainInv' /\ ChannelInv' /\ PumpInv'
<1> USE CloseEarlyKeeps DEF PtyInv
<1>1. KillInv'
  BY DEF KillInv, SlaveOpen
<1>2. OrderInv'
  BY DEF OrderInv
<1>3. DrainInv'
  BY DEF DrainInv, SlaveOpen
<1>4. ChannelInv' /\ PumpInv'
  BY DEF ChannelInv, PumpInv
<1> QED BY <1>1, <1>2, <1>3, <1>4

\* The drain timer closes the process.
LEMMA DrainTimeoutStep == PtyInv /\ DrainTimeout => PtyInv' /\ [Contract!Next]_(Contract!vars)
<1> SUFFICES ASSUME PtyInv, DrainTimeout PROVE PtyInv' /\ [Contract!Next]_(Contract!vars)
  OBVIOUS
<1>1. /\ CloseEarly /\ drainTimer' = "fired"
      /\ UNCHANGED <<leader, child, written, read, end, reader, dataCh, waiter, manager, pump,
                      received>>
  BY DEF DrainTimeout
<1>2. early \in BOOLEAN /\ early' \in BOOLEAN /\ (early => early')
  BY <1>1, CloseEarlyKeeps DEF PtyInv, TypeOK
<1>3. TypeOK'
  BY <1>1, CloseEarlyKeeps DEF PtyInv, TypeOK
<1>4. PtyInv'
  BY <1>1, <1>3, CloseEarlyStep DEF PtyInv
<1>5. Contract!Waive \/ UNCHANGED Contract!vars
  <2>1. CASE early' = early
    BY <1>1, <2>1 DEF Contract!vars
  <2>2. CASE early' # early
    <3>1. (early \/ manager # "listed")' = TRUE
      BY <1>2, <2>2, Zenon
    <3> QED BY <1>1, <3>1 DEF Contract!Waive
  <2> QED BY <2>1, <2>2
<1> QED BY <1>4, <1>5 DEF Contract!Next

\* The other steps of waitLoop.
LEMMA WaitLoopStep ==
    ASSUME PtyInv, WaitReturns \/ DrainDone \/ Announce
    PROVE  PtyInv' /\ UNCHANGED Contract!vars
<1> USE DEF PtyInv, WaitReturns, DrainDone, Announce, BeginClose, Drained
<1>1. TypeOK'
  BY DEF TypeOK
<1>2. KillInv' /\ DrainInv'
  BY DEF KillInv, DrainInv, SlaveOpen
<1>3. OrderInv'
  BY DEF OrderInv
<1>4. ChannelInv' /\ PumpInv'
  BY DEF ChannelInv, PumpInv
<1>5. UNCHANGED Contract!vars
  BY DEF Contract!vars
<1> QED BY <1>1, <1>2, <1>3, <1>4, <1>5

-----------------------------------------------------------------------------
(* The session manager.                                                     *)

\* The session is taken out of the map, which waives the rest of the output.
LEMMA RemoveStep == PtyInv /\ RemoveSession => PtyInv' /\ Contract!Next
<1> SUFFICES ASSUME PtyInv, RemoveSession PROVE PtyInv' /\ Contract!Next
  OBVIOUS
<1> USE DEF PtyInv, RemoveSession
<1>1. TypeOK'
  BY DEF TypeOK
<1>2. KillInv' /\ OrderInv'
  BY DEF KillInv, OrderInv, SlaveOpen
<1>3. DrainInv' /\ ChannelInv' /\ PumpInv'
  BY DEF DrainInv, ChannelInv, PumpInv, SlaveOpen
<1>4. (early \/ manager # "listed")' = TRUE
  BY Zenon
<1>5. Contract!Waive
  BY <1>4 DEF Contract!Waive
<1> QED BY <1>1, <1>2, <1>3, <1>5 DEF Contract!Next

\* The manager closes the process of a removed session.
LEMMA ManagerClosesStep == PtyInv /\ ManagerCloses => PtyInv' /\ UNCHANGED Contract!vars
<1> SUFFICES ASSUME PtyInv, ManagerCloses PROVE PtyInv' /\ UNCHANGED Contract!vars
  OBVIOUS
<1>1. /\ CloseEarly /\ manager = "removed" /\ manager' = "closed"
      /\ UNCHANGED <<leader, child, written, read, end, reader, dataCh, waiter, drainTimer, pump,
                      received>>
  BY DEF ManagerCloses
<1>2. TypeOK'
  BY <1>1, CloseEarlyKeeps DEF PtyInv, TypeOK
<1>3. PtyInv'
  BY <1>1, <1>2, CloseEarlyStep DEF PtyInv
<1>4. (early \/ manager # "listed") = TRUE /\ (early \/ manager # "listed")' = TRUE
  BY <1>1, Zenon
<1> QED BY <1>1, <1>3, <1>4 DEF Contract!vars

\* A chunk is received: the next one in order.
LEMMA PumpReceivesStep == PtyInv /\ PumpReceives => PtyInv' /\ Contract!Next
<1> SUFFICES ASSUME PtyInv, PumpReceives PROVE PtyInv' /\ Contract!Next
  OBVIOUS
<1>1. /\ pump = "data" /\ dataCh # <<>>
      /\ dataCh' = Tail(dataCh) /\ received' = Head(dataCh)
      /\ pump' = IF manager = "listed" THEN "data" ELSE "exit"
      /\ UNCHANGED <<leader, child, written, read, end, reader, waiter, drainTimer, closing,
                      early, manager>>
  BY DEF PumpReceives
<1>2. dataCh \in Seq(0 .. MaxOutput) /\ Len(dataCh) \in Nat /\ Len(dataCh) > 0
  BY <1>1 DEF PtyInv, TypeOK
<1>3. /\ dataCh' \in Seq(0 .. MaxOutput) /\ Len(dataCh') = Len(dataCh) - 1
      /\ \A i \in 1 .. Len(dataCh') : dataCh'[i] = dataCh[i + 1]
      /\ received' = dataCh[1] /\ received' \in 0 .. MaxOutput
  <2>1. dataCh' \in Seq(0 .. MaxOutput) /\ Len(dataCh') = Len(dataCh) - 1
    BY <1>1, <1>2
  <2>2. \A i \in 1 .. Len(Tail(dataCh)) : Tail(dataCh)[i] = dataCh[i + 1]
    BY <1>1, <1>2
  <2>3. 1 \in 1 .. Len(dataCh)
    BY <1>2
  <2>4. dataCh[1] \in 0 .. MaxOutput
    BY <1>2, <2>3, ElementOfSeq
  <2>5. received' = dataCh[1]
    BY <1>1, <1>2
  <2> QED BY <1>1, <2>1, <2>2, <2>4, <2>5
<1>4. /\ received < received' /\ received' <= end
      /\ reader \in {"send", "last"} => received' < end
  BY <1>2, <1>3 DEF PtyInv, OrderInv
<1>5. TypeOK'
  BY <1>1, <1>2, <1>3, PtyConstants DEF PtyInv, TypeOK
<1>6. KillInv'
  BY <1>1 DEF PtyInv, KillInv, SlaveOpen
<1>7. OrderInv'
  <2> USE DEF PtyInv, OrderInv
  <2>1. \A i \in 1 .. Len(dataCh') : i \in Nat /\ i + 1 \in 1 .. Len(dataCh) /\ 1 < i + 1
    BY <1>2, <1>3
  <2>2. 1 \in 1 .. Len(dataCh)
    BY <1>2
  <2>3. \A i \in 1 .. Len(dataCh') :
            received' < dataCh'[i] /\ dataCh'[i] <= end
            /\ (reader \in {"send", "last"} => dataCh'[i] < end)
    BY <1>3, <2>1, <2>2
  <2>4. \A i, j \in 1 .. Len(dataCh') : i < j => dataCh'[i] < dataCh'[j]
    BY <1>3, <2>1
  <2> QED BY <1>1, <1>4, <2>3, <2>4
<1>8. DrainInv'
  BY <1>1 DEF PtyInv, DrainInv, SlaveOpen
<1>9. ChannelInv'
  <2> SUFFICES ASSUME ~early, reader \in {"read", "done"}
               PROVE  IF dataCh' = <<>> THEN received' = end ELSE dataCh'[Len(dataCh')] = end
    BY <1>1 DEF ChannelInv
  <2>1. dataCh[Len(dataCh)] = end
    BY <1>1 DEF PtyInv, ChannelInv
  <2>2. CASE Len(dataCh) = 1
    BY <1>2, <1>3, <2>1, <2>2
  <2>3. CASE Len(dataCh) # 1
    BY <1>2, <1>3, <2>1, <2>3
  <2> QED BY <2>2, <2>3
<1>10. PumpInv'
  BY <1>1 DEF PtyInv, PumpInv
<1>11. received' \in received + 1 .. written /\ received' \in received .. written
  BY <1>3, <1>4 DEF PtyInv, OrderInv, TypeOK
<1>12. Contract!Receive \/ Contract!EndOfData
  <2>1. CASE manager = "listed"
    BY <1>1, <1>11, <2>1 DEF Contract!Receive
  <2>2. CASE manager # "listed"
    BY <1>1, <1>11, <2>2 DEF Contract!EndOfData
  <2> QED BY <2>1, <2>2
<1> QED BY <1>5, <1>6, <1>7, <1>8, <1>9, <1>10, <1>12 DEF PtyInv, Contract!Next

\* The channel is closed and empty: unless it was waived, all output was received.
LEMMA PumpDrainedStep == PtyInv /\ PumpDrained => PtyInv' /\ Contract!Next
<1> SUFFICES ASSUME PtyInv, PumpDrained PROVE PtyInv' /\ Contract!Next
  OBVIOUS
<1> USE DEF PtyInv, PumpDrained
<1>1. TypeOK'
  BY DEF TypeOK
<1>2. KillInv' /\ OrderInv'
  BY DEF KillInv, OrderInv, SlaveOpen
<1>3. DrainInv' /\ ChannelInv' /\ PumpInv'
  BY DEF DrainInv, ChannelInv, PumpInv, SlaveOpen
<1>4. received = written \/ early \/ manager # "listed"
  BY DEF DrainInv, ChannelInv
<1>5. received' \in received .. written
  BY DEF OrderInv, TypeOK
<1>6. Contract!EndOfData
  BY <1>4, <1>5 DEF Contract!EndOfData
<1> QED BY <1>1, <1>2, <1>3, <1>6 DEF Contract!Next

\* The exit is received.
LEMMA PumpExitStep == PtyInv /\ PumpExit => PtyInv' /\ Contract!Next
<1> SUFFICES ASSUME PtyInv, PumpExit PROVE PtyInv' /\ Contract!Next
  OBVIOUS
<1> USE DEF PtyInv, PumpExit
<1>1. TypeOK'
  BY DEF TypeOK
<1>2. KillInv' /\ OrderInv'
  BY DEF KillInv, OrderInv, SlaveOpen
<1>3. DrainInv' /\ ChannelInv' /\ PumpInv'
  BY DEF DrainInv, ChannelInv, PumpInv, SlaveOpen
<1>4. Contract!Exit
  BY DEF Contract!Exit
<1> QED BY <1>1, <1>2, <1>3, <1>4 DEF Contract!Next

\* Nothing changes.
LEMMA PtyStutter == PtyInv /\ UNCHANGED vars => PtyInv' /\ UNCHANGED Contract!vars
<1> SUFFICES ASSUME PtyInv, UNCHANGED vars PROVE PtyInv' /\ UNCHANGED Contract!vars
  OBVIOUS
<1> USE DEF PtyInv, vars
<1>1. TypeOK' /\ KillInv' /\ OrderInv'
  BY DEF TypeOK, KillInv, OrderInv, SlaveOpen
<1>2. DrainInv' /\ ChannelInv' /\ PumpInv'
  BY DEF DrainInv, ChannelInv, PumpInv, SlaveOpen
<1> QED BY <1>1, <1>2 DEF Contract!vars

-----------------------------------------------------------------------------
(* Results.                                                                 *)

\* Every step keeps the invariant and is a step of the contract, or none.
LEMMA PtyStep == PtyInv /\ [Next]_vars => PtyInv' /\ [Contract!Next]_(Contract!vars)
<1> SUFFICES ASSUME PtyInv, [Next]_vars PROVE PtyInv' /\ [Contract!Next]_(Contract!vars)
  OBVIOUS
<1>1. CASE Group
  BY <1>1, WriteStep, GroupStep DEF Group
<1>2. CASE ReadLoop
  BY <1>2, ReadStep, ReadErrorStep, SendStep, SendAbortedStep DEF ReadLoop
<1>3. CASE Close
  BY <1>3, CloseStep
<1>4. CASE WaitLoop
  BY <1>4, WaitLoopStep, DrainTimeoutStep DEF WaitLoop
<1>5. CASE Manager
  BY <1>5, RemoveStep, ManagerClosesStep, PumpReceivesStep, PumpDrainedStep, PumpExitStep
     DEF Manager
<1>6. CASE Terminated \/ UNCHANGED vars
  BY <1>6, PtyStutter DEF Terminated
<1> QED BY <1>1, <1>2, <1>3, <1>4, <1>5, <1>6 DEF Next

\* Every reachable state satisfies the invariant.
LEMMA PtyInvariant == Spec => []PtyInv
BY PtyInit, PtyStep, PTL DEF Spec

\* When the exit is announced nobody of the process group is left: Close kills the
\* whole group before waitLoop announces (Close, waitLoop of pty.go).
THEOREM NoSurvivorsHolds == Spec => []NoSurvivors
<1>1. PtyInv => NoSurvivors
  BY DEF PtyInv, KillInv, SlaveOpen, TypeOK, NoSurvivors
<1> QED BY <1>1, PtyInvariant, PTL

\* The forwarding goroutine sees what the manager relies on: chunks in order, the end of
\* the data only after all of them unless that was waived, then the exit.
THEOREM PtyImplementsContract == Spec => ImplementsContract
<1>1. Init => Contract!Init
  <2> SUFFICES ASSUME Init PROVE Contract!Init
    OBVIOUS
  <2>1. (early \/ manager # "listed") = FALSE
    BY Zenon DEF Init
  <2> QED BY <2>1 DEF Init, Contract!Init
<1> QED BY <1>1, PtyInvariant, PtyStep, PTL DEF Spec, ImplementsContract, Contract!Spec
=============================================================================
