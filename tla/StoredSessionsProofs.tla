------------------------ MODULE StoredSessionsProofs ------------------------
(***************************************************************************)
(* Proofs about StoredSessions, for any tabs, sessions and limits: a tab     *)
(* that is reloaded comes back to its session, and the menu offers what it   *)
(* should.                                                                   *)
(***************************************************************************)
EXTENDS StoredSessions, SequenceTheorems, WellFoundedInduction, TLAPS

\* The records that the proof looks into.
ShapeInv ==
    /\ DOMAIN active = Tab /\ DOMAIN tab = Tab /\ DOMAIN task = Tab
    /\ \A t \in Tab : /\ DOMAIN tab[t] = {"session", "last", "history"}
                      /\ DOMAIN task[t] = {"at", "id", "next", "from"}

\* A task under way is about the session its tab is in, so that what it stores in the
\* end, or would have stored, is that session.
TaskInv == \A t \in Tab : task[t].at # "idle" => task[t].id = tab[t].session

StoredInv == ShapeInv /\ TaskInv /\ ReloadResumes

\* The idle task.
LEMMA IdleFields == Idle.at = "idle" /\ DOMAIN Idle = {"at", "id", "next", "from"}
BY DEF Idle

\* The invariant holds initially.
LEMMA StoredInit == Init => StoredInv
<1> SUFFICES ASSUME Init PROVE StoredInv
  OBVIOUS
<1>1. ShapeInv
  BY DEF Init, ShapeInv, Idle
<1>2. TaskInv /\ ReloadResumes
  BY IdleFields DEF Init, TaskInv, ReloadResumes
<1> QED BY <1>1, <1>2 DEF StoredInv

\* A step of one tab keeps the invariant if it keeps it for that tab.
LEMMA OneTab ==
    ASSUME StoredInv, NEW t \in Tab,
           DOMAIN active' = Tab, DOMAIN tab' = Tab, DOMAIN task' = Tab,
           DOMAIN tab'[t] = {"session", "last", "history"},
           DOMAIN task'[t] = {"at", "id", "next", "from"},
           task'[t].at # "idle" => task'[t].id = tab'[t].session,
           t \notin failed' => active'[t] = IF task'[t].at = "idle" THEN tab'[t].session ELSE task'[t].from,
           \A u \in Tab \ {t} : /\ tab'[u] = tab[u] /\ task'[u] = task[u]
                                /\ active'[u] = active[u] /\ (u \in failed' <=> u \in failed)
    PROVE  StoredInv'
<1>1. ShapeInv'
  BY DEF StoredInv, ShapeInv
<1>2. TaskInv'
  BY DEF StoredInv, TaskInv
<1>3. ReloadResumes'
  BY DEF StoredInv, ReloadResumes
<1> QED BY <1>1, <1>2, <1>3 DEF StoredInv

\* A session is ready.
LEMMA ReadyStep == ASSUME StoredInv, NEW t \in Tab, NEW s, ReadySession(t, s) PROVE StoredInv'
<1>1. PICK at \in {"last", "active"} :
          task' = [task EXCEPT ![t] = [Idle EXCEPT !.at = at, !.id = s, !.from = tab[t].session]]
  BY DEF ReadySession, AfterNoStorage
<1>2. tab' = [tab EXCEPT ![t].session = s] /\ active' = active /\ failed' = failed
  BY DEF ReadySession
<1>3. /\ task'[t].at = at /\ task'[t].id = s /\ task'[t].from = tab[t].session
      /\ DOMAIN task'[t] = {"at", "id", "next", "from"} /\ DOMAIN task' = Tab
  BY <1>1 DEF StoredInv, ShapeInv, Idle
<1>4. tab'[t].session = s /\ DOMAIN tab'[t] = {"session", "last", "history"} /\ DOMAIN tab' = Tab
  BY <1>2 DEF StoredInv, ShapeInv
<1>5. \A u \in Tab \ {t} : tab'[u] = tab[u] /\ task'[u] = task[u]
  BY <1>1, <1>2 DEF StoredInv, ShapeInv
<1>6. t \notin failed => active[t] = tab[t].session
  <2>1. task[t].at = "idle"
    BY IdleFields DEF ReadySession
  <2> QED BY <2>1 DEF StoredInv, ReloadResumes
<1> QED BY <1>2, <1>3, <1>4, <1>5, <1>6, OneTab DEF StoredInv, ShapeInv

\* The session is stored as the last one, and the stored history read.
LEMMA StoreStep ==
    ASSUME StoredInv, NEW t \in Tab, StoreLast(t) \/ ReadThenPush(t)
    PROVE  StoredInv'
<1>1. task[t].at # "idle" /\ tab' = tab /\ active' = active /\ failed' = failed
  BY DEF StoreLast, ReadThenPush
<1>2. /\ task'[t].at # "idle" /\ task'[t].id = task[t].id /\ task'[t].from = task[t].from
      /\ DOMAIN task'[t] = {"at", "id", "next", "from"} /\ DOMAIN task' = Tab
      /\ \A u \in Tab \ {t} : task'[u] = task[u]
  <2>1. CASE StoreLast(t)
    BY <2>1 DEF StoreLast, StoredInv, ShapeInv
  <2>2. CASE ReadThenPush(t)
    <3>1. \E next : task' = [task EXCEPT ![t].at = "write", ![t].next = next]
      BY <2>2 DEF ReadThenPush
    <3> QED BY <3>1 DEF StoredInv, ShapeInv
  <2> QED BY <2>1, <2>2
<1>3. task'[t].id = tab'[t].session
  BY <1>1, <1>2 DEF StoredInv, TaskInv
<1>4. t \notin failed => active[t] = task[t].from
  BY <1>1 DEF StoredInv, ReloadResumes
<1> QED BY <1>1, <1>2, <1>3, <1>4, OneTab DEF StoredInv, ShapeInv

\* The history is written, or not; the tab has it anyway.
LEMMA WriteStep == ASSUME StoredInv, NEW t \in Tab, WriteHistory(t) PROVE StoredInv'
<1>1. /\ task[t].at = "write" /\ active' = active /\ failed' = failed
      /\ task' = [task EXCEPT ![t].at = "active", ![t].next = <<>>]
      /\ tab' = [tab EXCEPT ![t].history = task[t].next, ![t].last = task[t].id]
  BY DEF WriteHistory
<1>2. /\ task'[t].at = "active" /\ task'[t].id = task[t].id /\ task'[t].from = task[t].from
      /\ DOMAIN task'[t] = {"at", "id", "next", "from"} /\ DOMAIN task' = Tab
  BY <1>1 DEF StoredInv, ShapeInv
<1>3. /\ tab'[t].session = tab[t].session
      /\ DOMAIN tab'[t] = {"session", "last", "history"} /\ DOMAIN tab' = Tab
  BY <1>1 DEF StoredInv, ShapeInv
<1>4. \A u \in Tab \ {t} : tab'[u] = tab[u] /\ task'[u] = task[u]
  BY <1>1 DEF StoredInv, ShapeInv
<1>5. task[t].id = tab[t].session
  BY <1>1 DEF StoredInv, TaskInv
<1>6. t \notin failed => active[t] = task[t].from
  BY <1>1 DEF StoredInv, ReloadResumes
<1> QED BY <1>1, <1>2, <1>3, <1>4, <1>5, <1>6, OneTab DEF StoredInv, ShapeInv

\* A write of the session storage leaves the session there, or is a failure.
LEMMA StoreActiveSets ==
    ASSUME StoredInv, NEW t \in Tab, NEW id, StoreActive(t, id)
    PROVE  /\ DOMAIN active' = Tab
           /\ t \notin failed' => active'[t] = id
           /\ \A u \in Tab \ {t} : active'[u] = active[u] /\ (u \in failed' <=> u \in failed)
BY DEF StoredInv, ShapeInv, StoreActive

\* The active session is stored at the end of the task.
LEMMA PersistStep == ASSUME StoredInv, NEW t \in Tab, PersistActive(t) PROVE StoredInv'
<1>1. /\ task[t].at = "active" /\ tab' = tab /\ StoreActive(t, task[t].id)
      /\ task' = [task EXCEPT ![t] = Idle]
  BY DEF PersistActive
<1>2. /\ task'[t] = Idle /\ DOMAIN task' = Tab
      /\ \A u \in Tab \ {t} : task'[u] = task[u]
  BY <1>1 DEF StoredInv, ShapeInv
<1>3. task[t].id = tab[t].session
  BY <1>1 DEF StoredInv, TaskInv
<1>4. DOMAIN tab' = Tab /\ DOMAIN tab'[t] = {"session", "last", "history"}
  BY <1>1 DEF StoredInv, ShapeInv
<1> QED BY <1>1, <1>2, <1>3, <1>4, IdleFields, StoreActiveSets, OneTab

\* The tab turns to another session, to none, or finds that its session is gone.
LEMMA EnterStep == ASSUME StoredInv, NEW t \in Tab, NEW id, EnterSession(t, id) PROVE StoredInv'
<1>1. /\ task[t] = Idle /\ task' = task /\ StoreActive(t, id)
      /\ tab' = [tab EXCEPT ![t].session = id]
  BY DEF EnterSession
<1>2. /\ tab'[t].session = id /\ DOMAIN tab' = Tab
      /\ DOMAIN tab'[t] = {"session", "last", "history"}
      /\ \A u \in Tab \ {t} : tab'[u] = tab[u]
  BY <1>1 DEF StoredInv, ShapeInv
<1>3. DOMAIN task' = Tab
  BY <1>1 DEF StoredInv, ShapeInv
<1> QED BY <1>1, <1>2, <1>3, IdleFields, StoreActiveSets, OneTab

\* The tab is reloaded, at any point of a task.
LEMMA ReloadStep == ASSUME StoredInv, NEW t \in Tab, Reload(t) PROVE StoredInv'
<1>1. PICK session \in {active[t], None}, local \in BOOLEAN :
          /\ tab' = [tab EXCEPT ![t] =
                        [session |-> session,
                         last |-> IF local THEN last ELSE None,
                         history |-> IF local THEN ReadHistory(history) ELSE <<>>]]
          /\ failed' = IF session = active[t] THEN failed \ {t} ELSE failed \cup {t}
  BY DEF Reload
<1>2. task' = [task EXCEPT ![t] = Idle] /\ active' = active
  BY DEF Reload
<1>3. /\ task'[t] = Idle /\ DOMAIN task' = Tab /\ DOMAIN active' = Tab
      /\ \A u \in Tab \ {t} : task'[u] = task[u]
  BY <1>2 DEF StoredInv, ShapeInv
<1>4. /\ tab'[t].session = session /\ DOMAIN tab' = Tab
      /\ DOMAIN tab'[t] = {"session", "last", "history"}
      /\ \A u \in Tab \ {t} : tab'[u] = tab[u]
  BY <1>1 DEF StoredInv, ShapeInv
<1>5. /\ t \notin failed' => active'[t] = session
      /\ \A u \in Tab \ {t} : active'[u] = active[u] /\ (u \in failed' <=> u \in failed)
  BY <1>1, <1>2
<1> QED BY <1>3, <1>4, <1>5, IdleFields, OneTab

\* The invariant is kept by every step.
LEMMA StoredStep == ASSUME StoredInv, [Next]_vars PROVE StoredInv'
<1>1. CASE \E t \in Tab, s \in Session : ReadySession(t, s)
  BY <1>1, ReadyStep
<1>2. CASE \E t \in Tab : StoreLast(t) \/ ReadThenPush(t) \/ WriteHistory(t) \/ PersistActive(t)
  BY <1>2, StoreStep, WriteStep, PersistStep
<1>3. CASE \E t \in Tab, id \in Session \cup {None} : EnterSession(t, id)
  BY <1>3, EnterStep
<1>4. CASE \E t \in Tab : Reload(t)
  BY <1>4, ReloadStep
<1>5. CASE Damage \/ UNCHANGED vars
  BY <1>5 DEF Damage, vars, StoredInv, ShapeInv, TaskInv, ReloadResumes
<1> QED BY <1>1, <1>2, <1>3, <1>4, <1>5 DEF Next

\* Whatever other tabs do and whichever write to the local storage fails, the session
\* storage holds the session of a tab between its tasks, and during a task the session
\* that the tab was in before, unless it has failed itself.
THEOREM ReloadResumesHolds == Spec => []ReloadResumes
<1>1. Init => StoredInv
  BY StoredInit
<1>2. StoredInv /\ [Next]_vars => StoredInv'
  BY StoredStep
<1>3. StoredInv => ReloadResumes
  BY DEF StoredInv
<1> QED BY <1>1, <1>2, <1>3, PTL DEF Spec

-----------------------------------------------------------------------------
(* Induction, from the least element of a set.                              *)

\* Every set of numbers has a least one.
LEMMA Least == ASSUME NEW T \in SUBSET Nat, T # {} PROVE \E m \in T : \A n \in T : m <= n
<1> DEFINE R == OpToRel(<, Nat)
<1>1. IsWellFoundedOn(R, Nat)
  BY NatLessThanWellFounded
<1>2. R = {ss \in Nat \X Nat : ss[1] < ss[2]}
  BY DEF OpToRel
<1> HIDE DEF R
<1>3. PICK m \in T : \A n \in T : ~(<<n, m>> \in R)
  BY <1>1, WFMin
<1>4. \A n \in T : ~(n < m)
  BY <1>2, <1>3
<1> QED BY <1>3, <1>4

\* Induction: a set with 0 and with the successor of each of its numbers.
LEMMA NatInd == ASSUME NEW T, 0 \in T, \A n \in Nat : n \in T => n + 1 \in T PROVE Nat \subseteq T
<1> SUFFICES ASSUME Nat \ T # {} PROVE FALSE
  OBVIOUS
<1>1. PICK m \in Nat \ T : \A n \in Nat \ T : m <= n
  BY Least
<1>2. m # 0 /\ m - 1 \in Nat /\ m - 1 \in T
  BY <1>1
<1> QED BY <1>1, <1>2

\* Induction up to a bound.
LEMMA UpTo == ASSUME NEW n \in Nat, NEW T, 0 \in T, \A i \in 1 .. n : i - 1 \in T => i \in T PROVE 0 .. n \subseteq T
<1> DEFINE U == {i \in Nat : i > n \/ i \in T}
<1>1. 0 \in U
  OBVIOUS
<1>2. \A i \in Nat : i \in U => i + 1 \in U
  <2> SUFFICES ASSUME NEW i \in Nat, i \in U, ~(i + 1 > n) PROVE i + 1 \in T
    OBVIOUS
  <2>1. i + 1 \in 1 .. n /\ (i + 1) - 1 = i /\ i \in T
    OBVIOUS
  <2> QED BY <2>1
<1> HIDE DEF U
<1>3. Nat \subseteq U
  BY <1>1, <1>2, NatInd
<1> QED BY <1>3 DEF U

\* What is defined from its predecessor, from 0 on, exists.
LEMMA Recursion ==
  ASSUME NEW n \in Nat, NEW S, NEW e \in S, NEW F \in [1 .. n -> [S -> S]]
  PROVE \E g \in [0 .. n -> S] : g[0] = e /\ \A i \in 1 .. n : g[i] = F[i][g[i - 1]]
<1> DEFINE Good(k, g) == g[0] = e /\ \A i \in 1 .. k : g[i] = F[i][g[i - 1]]
<1> DEFINE T == {k \in 0 .. n : \E g \in [0 .. k -> S] : Good(k, g)}
<1>1. 0 \in T
  <2>1. [i \in 0 .. 0 |-> e] \in [0 .. 0 -> S] /\ Good(0, [i \in 0 .. 0 |-> e])
    OBVIOUS
  <2>2. 0 \in 0 .. n
    OBVIOUS
  <2> HIDE DEF Good
  <2> QED BY <2>1, <2>2, Zenon
<1>2. ASSUME NEW k \in 1 .. n, k - 1 \in T PROVE k \in T
  <2>1. PICK g \in [0 .. k - 1 -> S] : Good(k - 1, g)
    BY <1>2
  <2> DEFINE h == [i \in 0 .. k |-> IF i = k THEN F[k][g[k - 1]] ELSE g[i]]
  <2>2. F[k] \in [S -> S] /\ g[k - 1] \in S
    OBVIOUS
  <2>3. h \in [0 .. k -> S]
    BY <2>2
  <2>4. \A i \in 0 .. k : h[i] = IF i = k THEN F[k][g[k - 1]] ELSE g[i]
    OBVIOUS
  <2> HIDE DEF h
  <2>5. h[0] = e
    BY <2>1, <2>4
  <2>6. ASSUME NEW i \in 1 .. k PROVE h[i] = F[i][h[i - 1]]
    <3>1. h[i - 1] = g[i - 1]
      BY <2>4
    <3> QED BY <2>1, <2>4, <3>1
  <2>7. Good(k, h) /\ k \in 0 .. n
    BY <2>5, <2>6
  <2> HIDE DEF Good
  <2> QED BY <2>3, <2>7, Zenon
<1> HIDE DEF T
<1>3. n \in T
  <2>1. 0 .. n \subseteq T
    BY <1>1, <1>2, UpTo
  <2> QED BY <2>1
<1> QED BY <1>3 DEF T

-----------------------------------------------------------------------------
(* Filters.                                                                *)

\* The loop of Without, step by step.
WithoutSteps(q, x, g) ==
    /\ Without(q, x) = g[Len(q)]
    /\ g[0] = <<>>
    /\ \A i \in 1 .. Len(q) : g[i] = IF q[i] = x THEN g[i - 1] ELSE Append(g[i - 1], q[i])

\* The loop can be run to its end.
LEMMA WithoutLoop ==
    ASSUME NEW S, NEW q \in Seq(S), NEW x
    PROVE  \E g \in [0 .. Len(q) -> Seq(S)] : WithoutSteps(q, x, g)
<1> DEFINE n == Len(q)
           F == [i \in 1 .. n |-> [p \in Seq(S) |-> IF q[i] = x THEN p ELSE Append(p, q[i])]]
<1>1. n \in Nat /\ <<>> \in Seq(S) /\ \A i \in 1 .. n : q[i] \in S
  BY ElementOfSeq, EmptySeq
<1>2. F \in [1 .. n -> [Seq(S) -> Seq(S)]]
  <2> SUFFICES ASSUME NEW i \in 1 .. n, NEW p \in Seq(S)
               PROVE  (IF q[i] = x THEN p ELSE Append(p, q[i])) \in Seq(S)
    OBVIOUS
  <2> QED BY <1>1, AppendProperties
<1>3. PICK g \in [0 .. n -> Seq(S)] : g[0] = <<>> /\ \A i \in 1 .. n : g[i] = F[i][g[i - 1]]
  <2> HIDE DEF F, n
  <2> DEFINE R == Seq(S) 
             e == <<>>
  <2>1. n \in Nat /\ e \in R /\ F \in [1 .. n -> [R -> R]]
    BY <1>1, <1>2
  <2> HIDE DEF R, e
  <2>2. \E g \in [0 .. n -> R] : g[0] = e /\ \A i \in 1 .. n : g[i] = F[i][g[i - 1]]
    BY <2>1, Recursion, SMTT(60)
  <2> QED BY <2>2 DEF R, e
<1>4. ASSUME NEW i \in 1 .. n
      PROVE  g[i] = IF q[i] = x THEN g[i - 1] ELSE Append(g[i - 1], q[i])
  <2>1. i - 1 \in 0 .. n
    BY <1>1
  <2> QED BY <1>3, <2>1
<1> DEFINE body(f) == [i \in 0 .. n |->
              IF i = 0 THEN <<>> ELSE IF q[i] = x THEN f[i - 1] ELSE Append(f[i - 1], q[i])]
<1>5. g = body(g)
  <2>1. \A i \in 0 .. n : g[i] = IF i = 0 THEN <<>> ELSE IF q[i] = x THEN g[i - 1] ELSE Append(g[i - 1], q[i])
    <3> SUFFICES ASSUME NEW i \in 0 .. n, i # 0 PROVE i \in 1 .. n
      BY <1>3, <1>4
    <3> QED BY <1>1
  <2>2. g = [i \in 0 .. n |-> g[i]]
    OBVIOUS
  <2> QED BY <2>1, <2>2, Zenon
<1>6. ASSUME NEW f, f = body(f) PROVE f = g
  <2> DEFINE T == {i \in 0 .. n : f[i] = g[i]}
  <2>1. 0 \in T
    BY <1>1, <1>3, <1>6
  <2>2. ASSUME NEW i \in 1 .. n, i - 1 \in T PROVE i \in T
    <3>1. i \in 0 .. n /\ i # 0 /\ f[i - 1] = g[i - 1]
      BY <1>1, <2>2
    <3>2. f[i] = IF q[i] = x THEN f[i - 1] ELSE Append(f[i - 1], q[i])
      BY <1>6, <3>1
    <3> QED BY <1>4, <3>1, <3>2
  <2> HIDE DEF T
  <2>3. 0 .. n \subseteq T
    BY <1>1, <2>1, <2>2, UpTo
  <2>4. \A i \in 0 .. n : f[i] = g[i]
    BY <2>3 DEF T
  <2> QED BY <1>5, <1>6, <2>4
<1>7. (CHOOSE f : f = body(f)) = g
  <2> HIDE DEF body
  <2> QED BY <1>5, <1>6
<1>8. Without(q, x) = g[n]
  BY <1>7 DEF Without
<1> QED BY <1>3, <1>4, <1>8 DEF WithoutSteps

\* The loop of Unseen, step by step.
UnseenSteps(q, x, g) ==
    /\ Unseen(q, x) = g[Len(q)]
    /\ g[0] = <<>>
    /\ \A i \in 1 .. Len(q) : g[i] = IF q[i] \in {x} \cup Ids(g[i - 1]) THEN g[i - 1] ELSE Append(g[i - 1], q[i])

\* The loop can be run to its end.
LEMMA UnseenLoop ==
    ASSUME NEW S, NEW q \in Seq(S), NEW x
    PROVE  \E g \in [0 .. Len(q) -> Seq(S)] : UnseenSteps(q, x, g)
<1> DEFINE n == Len(q)
           F == [i \in 1 .. n |-> [p \in Seq(S) |-> IF q[i] \in {x} \cup Ids(p) THEN p ELSE Append(p, q[i])]]
<1>1. n \in Nat /\ <<>> \in Seq(S) /\ \A i \in 1 .. n : q[i] \in S
  BY ElementOfSeq, EmptySeq
<1>2. F \in [1 .. n -> [Seq(S) -> Seq(S)]]
  <2> SUFFICES ASSUME NEW i \in 1 .. n, NEW p \in Seq(S)
               PROVE  (IF q[i] \in {x} \cup Ids(p) THEN p ELSE Append(p, q[i])) \in Seq(S)
    OBVIOUS
  <2> QED BY <1>1, AppendProperties
<1>3. PICK g \in [0 .. n -> Seq(S)] : g[0] = <<>> /\ \A i \in 1 .. n : g[i] = F[i][g[i - 1]]
  <2> HIDE DEF F, n
  <2> DEFINE R == Seq(S) 
             e == <<>>
  <2>1. n \in Nat /\ e \in R /\ F \in [1 .. n -> [R -> R]]
    BY <1>1, <1>2
  <2> HIDE DEF R, e
  <2>2. \E g \in [0 .. n -> R] : g[0] = e /\ \A i \in 1 .. n : g[i] = F[i][g[i - 1]]
    BY <2>1, Recursion, SMTT(60)
  <2> QED BY <2>2 DEF R, e
<1>4. ASSUME NEW i \in 1 .. n
      PROVE  g[i] = IF q[i] \in {x} \cup Ids(g[i - 1]) THEN g[i - 1] ELSE Append(g[i - 1], q[i])
  <2>1. i - 1 \in 0 .. n
    BY <1>1
  <2> QED BY <1>3, <2>1
<1> DEFINE body(f) == [i \in 0 .. n |->
              IF i = 0 THEN <<>> ELSE IF q[i] \in {x} \cup Ids(f[i - 1]) THEN f[i - 1] ELSE Append(f[i - 1], q[i])]
<1>5. g = body(g)
  <2>1. \A i \in 0 .. n : g[i] = IF i = 0 THEN <<>> ELSE IF q[i] \in {x} \cup Ids(g[i - 1]) THEN g[i - 1] ELSE Append(g[i - 1], q[i])
    <3> SUFFICES ASSUME NEW i \in 0 .. n, i # 0 PROVE i \in 1 .. n
      BY <1>3, <1>4
    <3> QED BY <1>1
  <2>2. g = [i \in 0 .. n |-> g[i]]
    OBVIOUS
  <2> QED BY <2>1, <2>2, Zenon
<1>6. ASSUME NEW f, f = body(f) PROVE f = g
  <2> DEFINE T == {i \in 0 .. n : f[i] = g[i]}
  <2>1. 0 \in T
    BY <1>1, <1>3, <1>6
  <2>2. ASSUME NEW i \in 1 .. n, i - 1 \in T PROVE i \in T
    <3>1. i \in 0 .. n /\ i # 0 /\ f[i - 1] = g[i - 1]
      BY <1>1, <2>2
    <3>2. f[i] = IF q[i] \in {x} \cup Ids(f[i - 1]) THEN f[i - 1] ELSE Append(f[i - 1], q[i])
      BY <1>6, <3>1
    <3> QED BY <1>4, <3>1, <3>2
  <2> HIDE DEF T
  <2>3. 0 .. n \subseteq T
    BY <1>1, <2>1, <2>2, UpTo
  <2>4. \A i \in 0 .. n : f[i] = g[i]
    BY <2>3 DEF T
  <2> QED BY <1>5, <1>6, <2>4
<1>7. (CHOOSE f : f = body(f)) = g
  <2> HIDE DEF body
  <2> QED BY <1>5, <1>6
<1>8. Unseen(q, x) = g[n]
  BY <1>7 DEF Unseen
<1> QED BY <1>3, <1>4, <1>8 DEF UnseenSteps

\* No entry but x comes twice.
DistinctBut(q, x) == \A i, j \in DOMAIN q : q[i] = q[j] /\ q[i] # x => i = j

\* One more entry, which may be new.
LEMMA DistinctAppend ==
    ASSUME NEW S, NEW q \in Seq(S), NEW y \in S
    PROVE  /\ Append(q, y) \in Seq(S) /\ Len(Append(q, y)) = Len(q) + 1
           /\ Distinct(q) /\ y \notin Ids(q) => Distinct(Append(q, y))
           /\ Ids(Append(q, y)) = Ids(q) \cup {y}
<1>1. /\ Append(q, y) \in Seq(S) /\ Len(Append(q, y)) = Len(q) + 1
      /\ \A i \in 1 .. Len(q) : Append(q, y)[i] = q[i]
      /\ Append(q, y)[Len(q) + 1] = y
  BY AppendProperties
<1>2. DOMAIN q = 1 .. Len(q) /\ DOMAIN Append(q, y) = 1 .. Len(q) + 1 /\ Len(q) \in Nat
  BY <1>1, LenProperties
<1> DEFINE a == Append(q, y)
<1> HIDE DEF a
<1>3. ASSUME Distinct(q), y \notin Ids(q) PROVE Distinct(a)
  <2> SUFFICES ASSUME NEW i \in 1 .. Len(q) + 1, NEW j \in 1 .. Len(q) + 1, a[i] = a[j] PROVE i = j
    BY <1>2 DEF Distinct, a
  <2>1. \A k \in 1 .. Len(q) : a[k] \in Ids(q) /\ a[k] = q[k]
    BY <1>1, <1>2 DEF Ids, a
  <2>2. a[Len(q) + 1] = y
    BY <1>1 DEF a
  <2> QED BY <1>2, <1>3, <2>1, <2>2 DEF Distinct
<1>4. Ids(a) = Ids(q) \cup {y}
  <2>1. ASSUME NEW v \in Ids(a) PROVE v \in Ids(q) \cup {y}
    <3>1. PICK i \in 1 .. Len(q) + 1 : v = a[i]
      BY <1>2 DEF Ids, a
    <3> QED BY <1>1, <1>2, <3>1 DEF Ids, a
  <2>2. ASSUME NEW v \in Ids(q) PROVE v \in Ids(a)
    <3>1. PICK i \in 1 .. Len(q) : v = q[i]
      BY <1>2 DEF Ids
    <3>2. i \in DOMAIN a /\ v = a[i]
      BY <1>1, <1>2, <3>1 DEF a
    <3> QED BY <3>2 DEF Ids
  <2>3. y \in Ids(a)
    <3>1. Len(q) + 1 \in DOMAIN a /\ y = a[Len(q) + 1]
      BY <1>1, <1>2 DEF a
    <3> QED BY <3>1 DEF Ids
  <2> QED BY <2>1, <2>2, <2>3
<1> QED BY <1>1, <1>3, <1>4 DEF a

\* Without keeps the order and drops x: no entry comes twice if only x did.
LEMMA WithoutFilters ==
    ASSUME NEW S, NEW q \in Seq(S), NEW x
    PROVE  /\ Without(q, x) \in Seq(S \ {x})
           /\ Len(Without(q, x)) <= Len(q)
           /\ DistinctBut(q, x) => Distinct(Without(q, x))
<1>1. PICK g \in [0 .. Len(q) -> Seq(S)] : WithoutSteps(q, x, g)
  BY WithoutLoop
<1>2. Len(q) \in Nat /\ DOMAIN q = 1 .. Len(q) /\ \A i \in 1 .. Len(q) : q[i] \in S
  BY LenProperties, ElementOfSeq
<1> DEFINE From(i) == \A v \in Ids(g[i]) : \E j \in 1 .. i : v = q[j]
           Good(i) == /\ g[i] \in Seq(S \ {x}) /\ Len(g[i]) <= i
                      /\ DistinctBut(q, x) => Distinct(g[i])
                      /\ From(i)
           T == {i \in 0 .. Len(q) : Good(i)}
<1>3. 0 \in T
  <2>1. g[0] \in Seq(S \ {x}) /\ Len(g[0]) = 0 /\ DOMAIN g[0] = {}
    BY <1>1 DEF WithoutSteps
  <2>2. Distinct(g[0]) /\ Ids(g[0]) = {}
    BY <2>1 DEF Distinct, Ids
  <2> QED BY <1>2, <2>1, <2>2
<1>4. ASSUME NEW i \in 1 .. Len(q), i - 1 \in T PROVE i \in T
  <2>1. Good(i - 1) /\ i \in Nat
    BY <1>4
  <2>2. CASE q[i] = x
    <3>1. g[i] = g[i - 1]
      BY <1>1, <2>2 DEF WithoutSteps
    <3>2. From(i)
      BY <2>1, <3>1
    <3> HIDE DEF From
    <3>3. i \in 0 .. Len(q) /\ Len(g[i]) <= i
      BY <1>2, <2>1, <3>1, LenProperties
    <3> QED BY <2>1, <3>1, <3>2, <3>3
  <2>3. CASE q[i] # x
    <3>1. g[i] = Append(g[i - 1], q[i]) /\ q[i] \in S \ {x}
      BY <1>1, <1>2, <2>3 DEF WithoutSteps
    <3>2. ASSUME DistinctBut(q, x) PROVE q[i] \notin Ids(g[i - 1])
      <4> SUFFICES ASSUME NEW j \in 1 .. i - 1, q[i] = q[j] PROVE FALSE
        BY <2>1
      <4>1. i \in DOMAIN q /\ j \in DOMAIN q /\ i # j
        BY <1>2
      <4> QED BY <2>3, <3>2, <4>1 DEF DistinctBut
    <3>3. /\ g[i] \in Seq(S \ {x}) /\ Len(g[i]) = Len(g[i - 1]) + 1
          /\ DistinctBut(q, x) => Distinct(g[i])
          /\ Ids(g[i]) = Ids(g[i - 1]) \cup {q[i]}
      BY <2>1, <3>1, <3>2, DistinctAppend
    <3>4. Len(g[i]) <= i
      <4>1. Len(g[i - 1]) \in Nat
        BY <2>1, LenProperties
      <4> QED BY <2>1, <3>3, <4>1
    <3>5. From(i) /\ i \in 0 .. Len(q)
      BY <1>2, <2>1, <3>3
    <3> HIDE DEF From
    <3> QED BY <3>3, <3>4, <3>5
  <2> QED BY <2>2, <2>3
<1> HIDE DEF T
<1>5. 0 .. Len(q) \subseteq T
  BY <1>2, <1>3, <1>4, UpTo
<1>6. Len(q) \in T
  BY <1>2, <1>5
<1> QED BY <1>1, <1>6 DEF T, WithoutSteps

\* Unseen takes every session but x, once.
LEMMA UnseenFilters ==
    ASSUME NEW S, NEW q \in Seq(S), NEW x
    PROVE  Distinct(Unseen(q, x)) /\ Ids(Unseen(q, x)) = Ids(q) \ {x}
<1>1. PICK g \in [0 .. Len(q) -> Seq(S)] : UnseenSteps(q, x, g)
  BY UnseenLoop
<1>2. Len(q) \in Nat /\ DOMAIN q = 1 .. Len(q) /\ \A i \in 1 .. Len(q) : q[i] \in S
  BY LenProperties, ElementOfSeq
<1> DEFINE Front(i) == {q[j] : j \in 1 .. i}
           T == {i \in 0 .. Len(q) : Distinct(g[i]) /\ Ids(g[i]) = Front(i) \ {x}}
<1>3. 0 \in T
  <2>1. DOMAIN g[0] = {} /\ 1 .. 0 = {}
    BY <1>1 DEF UnseenSteps
  <2>2. Distinct(g[0]) /\ Ids(g[0]) = {} /\ Front(0) = {}
    BY <2>1 DEF Distinct, Ids
  <2> QED BY <1>2, <2>2
<1>4. ASSUME NEW i \in 1 .. Len(q), i - 1 \in T PROVE i \in T
  <2>1. /\ i \in 0 .. Len(q) /\ i - 1 \in 0 .. Len(q) /\ q[i] \in S /\ g[i - 1] \in Seq(S)
        /\ Distinct(g[i - 1]) /\ Ids(g[i - 1]) = Front(i - 1) \ {x}
    <3>1. i \in 0 .. Len(q) /\ i - 1 \in 0 .. Len(q) /\ q[i] \in S /\ g[i - 1] \in Seq(S)
      BY <1>2
    <3> HIDE DEF Front
    <3> QED BY <1>4, <3>1
  <2>2. Front(i) = Front(i - 1) \cup {q[i]}
    <3>1. 1 .. i = (1 .. i - 1) \cup {i}
      BY <1>2
    <3> QED BY <3>1
  <2> HIDE DEF Front
  <2>3. CASE q[i] \in {x} \cup Ids(g[i - 1])
    <3>1. g[i] = g[i - 1]
      BY <1>1, <2>3 DEF UnseenSteps
    <3> QED BY <2>1, <2>2, <2>3, <3>1
  <2>4. CASE q[i] \notin {x} \cup Ids(g[i - 1])
    <3>1. g[i] = Append(g[i - 1], q[i])
      BY <1>1, <2>4 DEF UnseenSteps
    <3>2. Distinct(g[i]) /\ Ids(g[i]) = Ids(g[i - 1]) \cup {q[i]}
      BY <2>1, <2>4, <3>1, DistinctAppend
    <3> QED BY <2>1, <2>2, <2>4, <3>2
  <2> QED BY <2>3, <2>4
<1> HIDE DEF T
<1>5. 0 .. Len(q) \subseteq T
  BY <1>2, <1>3, <1>4, UpTo
<1>6. Len(q) \in T
  BY <1>2, <1>5
<1>7. Front(Len(q)) = Ids(q)
  BY <1>2 DEF Ids
<1> QED BY <1>1, <1>6, <1>7 DEF T, UnseenSteps

-----------------------------------------------------------------------------
(* The menu.                                                               *)

\* Nothing is in order.
LEMMA NothingTidy == <<>> \in Seq(Session) /\ Tidy(<<>>)
<1>1. DOMAIN <<>> = {}
  OBVIOUS
<1> QED BY <1>1, StoredConstants DEF Tidy, Distinct

\* What Push returns, whatever was remembered by whom: it is never too long, and it
\* repeats nothing that it was not given twice.
LEMMA PushRemembers ==
    ASSUME NEW q \in Seq(Session), NEW s \in Session
    PROVE  /\ Push(q, s) \in Seq(Session) /\ Len(Push(q, s)) <= MaxEntries
           /\ Distinct(q) => Distinct(Push(q, s))
<1> DEFINE w == Without(q, s)
           u == <<s>> \o w
<1>1. w \in Seq(Session \ {s}) /\ (Distinct(q) => Distinct(w))
  <2>1. Distinct(q) => DistinctBut(q, s)
    BY DEF Distinct, DistinctBut
  <2> QED BY <2>1, WithoutFilters
<1> HIDE DEF w
<1>2. /\ w \in Seq(Session) /\ <<s>> \in Seq(Session) /\ Len(<<s>>) = 1 /\ Len(w) \in Nat
      /\ \A i \in 1 .. Len(w) : w[i] \in Session \ {s}
      /\ DOMAIN w = 1 .. Len(w)
  <2>1. Seq(Session \ {s}) \subseteq Seq(Session)
    BY SeqMonotonic
  <2> QED BY <1>1, <2>1, LenProperties, ElementOfSeq
<1>3. /\ u \in Seq(Session) /\ Len(u) = Len(w) + 1
      /\ \A i \in 1 .. Len(w) + 1 : u[i] = IF i = 1 THEN s ELSE w[i - 1]
  <2>1. /\ u \in Seq(Session) /\ Len(u) = 1 + Len(w)
        /\ \A i \in 1 .. 1 + Len(w) : u[i] = IF i <= 1 THEN <<s>>[i] ELSE w[i - 1]
    BY <1>2, ConcatProperties
  <2> QED BY <1>2, <2>1
<1>4. ASSUME Distinct(q), NEW i \in 1 .. Len(u), NEW j \in 1 .. Len(u), u[i] = u[j] PROVE i = j
  <2>1. \A k \in 1 .. Len(u) : k # 1 => k - 1 \in 1 .. Len(w) /\ u[k] = w[k - 1] /\ u[k] # s
    BY <1>2, <1>3
  <2>2. \A k, l \in 1 .. Len(w) : w[k] = w[l] => k = l
    BY <1>1, <1>2, <1>4 DEF Distinct
  <2>3. CASE i = 1 \/ j = 1
    BY <1>2, <1>3, <1>4, <2>1, <2>3
  <2>4. CASE i # 1 /\ j # 1
    <3>1. i - 1 = j - 1
      BY <1>4, <2>1, <2>2, <2>4
    <3> QED BY <1>2, <1>3, <3>1
  <2> QED BY <2>3, <2>4
<1> HIDE DEF u
<1> DEFINE m == IF Len(u) > MaxEntries THEN MaxEntries ELSE Len(u)
<1>5. m \in 1 .. Len(u) /\ m <= MaxEntries /\ Len(u) \in Nat
  BY <1>2, <1>3, StoredConstants
<1> HIDE DEF m
<1>6. /\ SubSeq(u, 1, m) \in Seq(Session) /\ Len(SubSeq(u, 1, m)) = m
      /\ \A i \in 1 .. m : SubSeq(u, 1, m)[i] = u[i]
      /\ DOMAIN SubSeq(u, 1, m) = 1 .. m
  <2>1. /\ SubSeq(u, 1, m) \in Seq(Session) 
        /\ Len(SubSeq(u, 1, m)) = IF 1 <= m THEN m - 1 + 1 ELSE 0
        /\ \A i \in 1 .. m - 1 + 1 : SubSeq(u, 1, m)[i] = u[1 + i - 1]
    BY <1>3, <1>5, SubSeqProperties
  <2> QED BY <1>5, <2>1, LenProperties
<1>7. ASSUME Distinct(q) PROVE Distinct(SubSeq(u, 1, m))
  <2> SUFFICES ASSUME NEW i \in 1 .. m, NEW j \in 1 .. m, SubSeq(u, 1, m)[i] = SubSeq(u, 1, m)[j]
               PROVE  i = j
    BY <1>6 DEF Distinct
  <2>1. i \in 1 .. Len(u) /\ j \in 1 .. Len(u) /\ u[i] = u[j]
    BY <1>5, <1>6
  <2> QED BY <1>4, <1>7, <2>1
<1>8. Push(q, s) = SubSeq(u, 1, m)
  BY DEF Push, u, m, w
<1> QED BY <1>5, <1>6, <1>7, <1>8

\* Sessions that are in order unless somebody else has stored a history that is not.
Sound(q, foreign) == q \in Seq(Session) /\ (~foreign => Tidy(q))

\* Of a tab: what it remembers, and what its task is about to write.
MenuOf(t) ==
    /\ Sound(tab[t].history, untidy) /\ tab[t].last \in Session \cup {None}
    /\ Sound(task[t].next, untidy) /\ Len(task[t].next) <= MaxEntries
    /\ task[t].at # "idle" => task[t].id \in Session

\* Whatever is stored can be read, and a history that is stored, remembered or about to
\* be written is in order unless the disorder comes from somebody else: the one that a
\* tab reads may be that of any other tab.
MenuInv ==
    /\ last \in Session \cup {None} /\ Sound(ReadHistory(history), untidy)
    /\ \A t \in Tab : MenuOf(t)

\* Nothing is sound.
LEMMA NothingSound == \A foreign : Sound(<<>>, foreign)
BY NothingTidy, Zenon DEF Sound

\* What is read of a stored list, its invalid entries left out.
LEMMA ReadSessions ==
    ASSUME NEW items \in Seq(Session \cup {None}) PROVE ReadHistory(List(items)) \in Seq(Session)
<1>1. Without(items, None) \in Seq((Session \cup {None}) \ {None})
  BY WithoutFilters
<1>2. (Session \cup {None}) \ {None} = Session
  BY StoredConstants
<1> QED BY <1>1, <1>2 DEF ReadHistory, List

\* What a tab stores is read back in order, if it was.
LEMMA ReadBack ==
    ASSUME NEW q, NEW foreign, Sound(q, foreign), q \in Seq(Session)
    PROVE  Sound(ReadHistory(List(q)), foreign)
<1>1. q \in Seq(Session \cup {None})
  BY SeqMonotonic
<1>2. ReadHistory(List(q)) = Without(q, None)
  BY DEF ReadHistory, List
<1>3. ASSUME Tidy(q) PROVE Tidy(Without(q, None))
  <2>1. DistinctBut(q, None)
    BY <1>3 DEF Tidy, Distinct, DistinctBut
  <2>2. /\ Without(q, None) \in Seq((Session \cup {None}) \ {None})
        /\ Len(Without(q, None)) <= Len(q) /\ Distinct(Without(q, None))
    BY <1>1, <2>1, WithoutFilters
  <2>3. Len(q) \in Nat /\ Len(Without(q, None)) \in Nat
    BY <1>1, <2>2, LenProperties
  <2> QED BY <1>3, <2>2, <2>3, StoredConstants DEF Tidy
<1>4. ReadHistory(List(q)) \in Seq(Session)
  BY <1>1, ReadSessions
<1> QED BY <1>2, <1>3, <1>4, Zenon DEF Sound

\* The invariant holds initially.
LEMMA MenuInit == Init => MenuInv
<1> SUFFICES ASSUME Init PROVE MenuInv
  OBVIOUS
<1>1. last = None /\ ReadHistory(history) = <<>>
  BY DEF Init, ReadHistory, Nothing
<1>2. ASSUME NEW t \in Tab PROVE MenuOf(t)
  <2>1. tab[t].history = <<>> /\ tab[t].last = None /\ task[t].next = <<>> /\ task[t].at = "idle"
    BY DEF Init, Idle
  <2> QED BY <2>1, NothingSound, NothingTidy DEF MenuOf, Tidy
<1> QED BY <1>1, <1>2, NothingSound DEF MenuInv

\* A step of one tab keeps the invariant if it keeps it for that tab.
LEMMA MenuOneTab ==
    ASSUME MenuInv, NEW t \in Tab, last' \in Session \cup {None}, untidy' = untidy,
           Sound(ReadHistory(history'), untidy), MenuOf(t)',
           \A u \in Tab \ {t} : tab'[u] = tab[u] /\ task'[u] = task[u]
    PROVE  MenuInv'
<1>1. ASSUME NEW u \in Tab \ {t} PROVE MenuOf(u)'
  BY DEF MenuInv, MenuOf
<1>2. Sound(ReadHistory(history), untidy)'
  OBVIOUS
<1> QED BY <1>1, <1>2 DEF MenuInv

\* A task begins: what the tab remembers is left alone.
LEMMA ReadyMenu ==
    ASSUME ShapeInv, MenuInv, NEW t \in Tab, NEW s \in Session, ReadySession(t, s)
    PROVE  MenuInv'
<1>1. PICK at \in {"last", "active"} :
          task' = [task EXCEPT ![t] = [Idle EXCEPT !.at = at, !.id = s, !.from = tab[t].session]]
  BY DEF ReadySession, AfterNoStorage
<1>2. tab' = [tab EXCEPT ![t].session = s] /\ last' = last /\ history' = history /\ untidy' = untidy
  BY DEF ReadySession
<1>3. task'[t].id = s /\ task'[t].next = <<>> /\ \A u \in Tab \ {t} : task'[u] = task[u]
  BY <1>1 DEF ShapeInv, Idle
<1>4. /\ tab'[t].history = tab[t].history /\ tab'[t].last = tab[t].last
      /\ \A u \in Tab \ {t} : tab'[u] = tab[u]
  BY <1>2 DEF ShapeInv
<1>5. MenuOf(t)'
  BY <1>2, <1>3, <1>4, NothingSound, NothingTidy DEF MenuInv, MenuOf, Tidy
<1> QED BY <1>2, <1>3, <1>4, <1>5, MenuOneTab DEF MenuInv

\* The last session is stored, or not.
LEMMA StoreLastMenu ==
    ASSUME ShapeInv, MenuInv, NEW t \in Tab, StoreLast(t)
    PROVE  MenuInv'
<1>1. /\ task[t].at = "last" /\ task' = [task EXCEPT ![t].at = "read"]
      /\ last' = task[t].id \/ last' = last
      /\ tab' = tab /\ history' = history /\ untidy' = untidy
  BY DEF StoreLast
<1>2. /\ task'[t].id = task[t].id /\ task'[t].next = task[t].next
      /\ \A u \in Tab \ {t} : task'[u] = task[u]
  BY <1>1 DEF ShapeInv
<1>3. task[t].id \in Session /\ last' \in Session \cup {None}
  BY <1>1 DEF MenuInv, MenuOf
<1>4. MenuOf(t)'
  BY <1>1, <1>2, <1>3 DEF MenuInv, MenuOf
<1> QED BY <1>1, <1>2, <1>3, <1>4, MenuOneTab DEF MenuInv

\* The session is put in front of what is stored, or of nothing.
LEMMA ReadMenu ==
    ASSUME ShapeInv, MenuInv, NEW t \in Tab, ReadThenPush(t)
    PROVE  MenuInv'
<1>1. PICK q \in {ReadHistory(history), <<>>} :
          task' = [task EXCEPT ![t].at = "write", ![t].next = Push(q, task[t].id)]
  BY DEF ReadThenPush
<1>2. task[t].at = "read" /\ last' = last /\ tab' = tab /\ history' = history /\ untidy' = untidy
  BY DEF ReadThenPush
<1>3. /\ task'[t].id = task[t].id /\ task'[t].next = Push(q, task[t].id)
      /\ \A u \in Tab \ {t} : task'[u] = task[u]
  BY <1>1 DEF ShapeInv
<1>4. task[t].id \in Session
  BY <1>2 DEF MenuInv, MenuOf
<1>5. Sound(q, untidy) /\ q \in Seq(Session)
  BY NothingSound DEF MenuInv, Sound
<1> DEFINE p == Push(q, task[t].id)
<1>6. p \in Seq(Session) /\ Len(p) <= MaxEntries /\ (Distinct(q) => Distinct(p))
  BY <1>4, <1>5, PushRemembers
<1> HIDE DEF p
<1>7. Sound(p, untidy)
  BY <1>5, <1>6, Zenon DEF Sound, Tidy
<1>8. MenuOf(t)'
  BY <1>2, <1>3, <1>4, <1>6, <1>7 DEF MenuInv, MenuOf, p
<1> QED BY <1>2, <1>3, <1>8, MenuOneTab DEF MenuInv

\* The history is written, or not; the tab has it anyway.
LEMMA WriteMenu ==
    ASSUME ShapeInv, MenuInv, NEW t \in Tab, WriteHistory(t)
    PROVE  MenuInv'
<1>1. /\ task[t].at = "write" /\ last' = last /\ untidy' = untidy
      /\ history' = List(task[t].next) \/ history' = history
      /\ task' = [task EXCEPT ![t].at = "active", ![t].next = <<>>]
      /\ tab' = [tab EXCEPT ![t].history = task[t].next, ![t].last = task[t].id]
  BY DEF WriteHistory
<1>2. /\ task'[t].id = task[t].id /\ task'[t].next = <<>>
      /\ \A u \in Tab \ {t} : task'[u] = task[u]
  BY <1>1 DEF ShapeInv
<1>3. /\ tab'[t].history = task[t].next /\ tab'[t].last = task[t].id
      /\ \A u \in Tab \ {t} : tab'[u] = tab[u]
  BY <1>1 DEF ShapeInv
<1>4. task[t].id \in Session /\ Sound(task[t].next, untidy) /\ task[t].next \in Seq(Session)
  BY <1>1 DEF MenuInv, MenuOf, Sound
<1>5. Sound(ReadHistory(history'), untidy)
  BY <1>1, <1>4, ReadBack DEF MenuInv
<1>6. MenuOf(t)'
  BY <1>1, <1>2, <1>3, <1>4, NothingSound, NothingTidy DEF MenuOf, Tidy
<1> QED BY <1>1, <1>2, <1>3, <1>5, <1>6, MenuOneTab DEF MenuInv

\* The active session is stored, or the tab turns to another one.
LEMMA ActiveMenu ==
    ASSUME ShapeInv, MenuInv, NEW t \in Tab, NEW id, PersistActive(t) \/ EnterSession(t, id)
    PROVE  MenuInv'
<1>1. last' = last /\ history' = history /\ untidy' = untidy
  BY DEF PersistActive, EnterSession
<1>2. /\ tab'[t].history = tab[t].history /\ tab'[t].last = tab[t].last
      /\ \A u \in Tab \ {t} : tab'[u] = tab[u] /\ task'[u] = task[u]
  BY DEF PersistActive, EnterSession, ShapeInv
<1>3. task'[t] = Idle
  BY DEF PersistActive, EnterSession, ShapeInv
<1>4. MenuOf(t)'
  BY <1>1, <1>2, <1>3, NothingSound, NothingTidy DEF MenuInv, MenuOf, Idle, Tidy
<1> QED BY <1>1, <1>2, <1>4, MenuOneTab DEF MenuInv

\* The tab is reloaded and reads what is stored.
LEMMA ReloadMenu ==
    ASSUME ShapeInv, MenuInv, NEW t \in Tab, Reload(t)
    PROVE  MenuInv'
<1>1. PICK session \in {active[t], None}, local \in BOOLEAN :
          tab' = [tab EXCEPT ![t] =
                        [session |-> session,
                         last |-> IF local THEN last ELSE None,
                         history |-> IF local THEN ReadHistory(history) ELSE <<>>]]
  BY DEF Reload
<1>2. task' = [task EXCEPT ![t] = Idle] /\ last' = last /\ history' = history /\ untidy' = untidy
  BY DEF Reload
<1>3. /\ tab'[t].history \in {ReadHistory(history), <<>>} /\ tab'[t].last \in {last, None}
      /\ \A u \in Tab \ {t} : tab'[u] = tab[u]
  BY <1>1 DEF ShapeInv
<1>4. task'[t] = Idle /\ \A u \in Tab \ {t} : task'[u] = task[u]
  BY <1>2 DEF ShapeInv
<1>5. Sound(tab'[t].history, untidy)
  BY <1>3, NothingSound DEF MenuInv
<1>6. MenuOf(t)'
  BY <1>2, <1>3, <1>4, <1>5, NothingSound, NothingTidy DEF MenuInv, MenuOf, Idle, Tidy
<1> QED BY <1>2, <1>3, <1>4, <1>6, MenuOneTab DEF MenuInv

\* What somebody else stores can be read.
LEMMA ForeignReadable == \A stored \in ForeignHistory : ReadHistory(stored) \in Seq(Session)
<1> SUFFICES ASSUME NEW stored \in ForeignHistory PROVE ReadHistory(stored) \in Seq(Session)
  OBVIOUS
<1>1. CASE stored \in {Nothing, Garbage}
  BY <1>1, NothingTidy DEF Nothing, Garbage, ReadHistory
<1>2. CASE stored \notin {Nothing, Garbage}
  <2>1. PICK n \in 0 .. MaxForeign : \E items \in [1 .. n -> Session \cup {None}] : stored = List(items)
    BY <1>2 DEF ForeignHistory
  <2>2. PICK items \in [1 .. n -> Session \cup {None}] : stored = List(items)
    BY <2>1
  <2>3. items \in Seq(Session \cup {None})
    BY StoredConstants
  <2> QED BY <2>2, <2>3, ReadSessions
<1> QED BY <1>1, <1>2

\* Somebody else stores a history or a last session.
LEMMA DamageMenu == ASSUME MenuInv, Damage PROVE MenuInv'
<1>1. tab' = tab /\ task' = task
  BY DEF Damage
<1>2. last' \in Session \cup {None}
  BY DEF Damage, MenuInv
<1>3. untidy => untidy'
  BY Zenon DEF Damage
<1>4. Sound(ReadHistory(history'), untidy')
  <2>1. CASE history' \in ForeignHistory /\ untidy' = (untidy \/ ~Tidy(ReadHistory(history')))
    <3>1. ReadHistory(history') \in Seq(Session)
      BY <2>1, ForeignReadable
    <3>2. ~untidy' => Tidy(ReadHistory(history'))
      BY <2>1, Zenon
    <3> QED BY <3>1, <3>2, Zenon DEF Sound
  <2>2. CASE history' = history /\ untidy' = untidy
    BY <2>2 DEF MenuInv
  <2> QED BY <2>1, <2>2, Zenon DEF Damage
<1>5. ASSUME NEW t \in Tab PROVE MenuOf(t)'
  <2>1. Sound(tab[t].history, untidy) /\ Sound(task[t].next, untidy)
    BY DEF MenuInv, MenuOf
  <2>2. Sound(tab[t].history, untidy') /\ Sound(task[t].next, untidy')
    BY <1>3, <2>1, Zenon DEF Sound
  <2> QED BY <1>1, <2>2 DEF MenuInv, MenuOf
<1>6. Sound(ReadHistory(history), untidy)'
  BY <1>4
<1> QED BY <1>2, <1>5, <1>6 DEF MenuInv

\* The invariant is kept by every step.
LEMMA MenuStep == ASSUME ShapeInv, MenuInv, [Next]_vars PROVE MenuInv'
<1>1. CASE \E t \in Tab, s \in Session : ReadySession(t, s)
  BY <1>1, ReadyMenu
<1>2. CASE \E t \in Tab : StoreLast(t) \/ ReadThenPush(t) \/ WriteHistory(t) \/ PersistActive(t)
  BY <1>2, StoreLastMenu, ReadMenu, WriteMenu, ActiveMenu
<1>3. CASE \E t \in Tab, id \in Session \cup {None} : EnterSession(t, id)
  BY <1>3, ActiveMenu
<1>4. CASE \E t \in Tab : Reload(t)
  BY <1>4, ReloadMenu
<1>5. CASE Damage
  BY <1>5, DamageMenu
<1>6. CASE UNCHANGED vars
  BY <1>6 DEF vars, MenuInv, MenuOf
<1> QED BY <1>1, <1>2, <1>3, <1>4, <1>5, <1>6 DEF Next

\* What the menu offers: the live sessions and the remembered ones, but for the tab's
\* own, each once.
LEMMA MenuOffers == ASSUME MenuInv PROVE MenuSound
<1> SUFFICES ASSUME NEW t \in Tab, NEW live \in LiveList
             PROVE  /\ Distinct(Candidates(t, live))
                    /\ Ids(Candidates(t, live)) = (Ids(live) \cup Ids(Fallback(t))) \ {tab[t].session}
  <2>1. ASSUME NEW t \in Tab
        PROVE  /\ Len(task[t].next) <= MaxEntries
               /\ ~untidy => Tidy(tab[t].history) /\ Tidy(ReadHistory(history))
    BY Zenon DEF MenuInv, MenuOf, Sound
  <2> QED BY <2>1 DEF MenuSound
<1>2. live \in Seq(Session)
  <2>1. PICK n \in 0 .. MaxLive : live \in [1 .. n -> Session]
    BY DEF LiveList
  <2> QED BY <2>1, StoredConstants
<1>3. Fallback(t) \in Seq(Session)
  BY DEF MenuInv, MenuOf, Sound, Fallback
<1> DEFINE q == live \o Fallback(t)
<1>4. q \in Seq(Session) /\ Ids(q) = Ids(live) \cup Ids(Fallback(t))
  <2> DEFINE f == Fallback(t)
  <2> HIDE DEF f
  <2>1. /\ live \o f \in Seq(Session) /\ Len(live \o f) = Len(live) + Len(f)
        /\ \A i \in 1 .. Len(live) + Len(f) : (live \o f)[i] = IF i <= Len(live) THEN live[i] ELSE f[i - Len(live)]
    BY <1>2, <1>3, ConcatProperties DEF f
  <2>2. /\ Len(live) \in Nat /\ Len(f) \in Nat
        /\ DOMAIN live = 1 .. Len(live) /\ DOMAIN f = 1 .. Len(f)
        /\ DOMAIN (live \o f) = 1 .. Len(live) + Len(f)
    BY <1>2, <1>3, <2>1, LenProperties DEF f
  <2>3. ASSUME NEW v \in Ids(live \o f) PROVE v \in Ids(live) \cup Ids(f)
    <3>1. PICK i \in 1 .. Len(live) + Len(f) : v = (live \o f)[i]
      BY <2>2 DEF Ids
    <3> QED BY <2>1, <2>2, <3>1 DEF Ids
  <2>4. ASSUME NEW v \in Ids(live) PROVE v \in Ids(live \o f)
    <3>1. PICK i \in 1 .. Len(live) : v = live[i]
      BY <2>2 DEF Ids
    <3>2. i \in DOMAIN (live \o f) /\ v = (live \o f)[i]
      BY <2>1, <2>2, <3>1
    <3> QED BY <3>2 DEF Ids
  <2>5. ASSUME NEW v \in Ids(f) PROVE v \in Ids(live \o f)
    <3>1. PICK i \in 1 .. Len(f) : v = f[i]
      BY <2>2 DEF Ids
    <3>2. /\ i + Len(live) \in DOMAIN (live \o f) /\ v = (live \o f)[i + Len(live)]
      BY <2>1, <2>2, <3>1
    <3> QED BY <3>2 DEF Ids
  <2> QED BY <2>1, <2>3, <2>4, <2>5 DEF f
<1> HIDE DEF q
<1>5. Distinct(Unseen(q, tab[t].session)) /\ Ids(Unseen(q, tab[t].session)) = Ids(q) \ {tab[t].session}
  BY <1>4, UnseenFilters
<1> QED BY <1>4, <1>5 DEF Candidates, q

\* However the writes of the tabs interleave and fail, and whatever anybody stores, the
\* menu of a tab offers the live and the remembered sessions, each once and never its
\* own; what a tab stores is never too long; and unless somebody else has stored a
\* history that repeats a session or is too long, no stored or remembered one does.
THEOREM MenuIsSound == Spec => []MenuSound
<1>1. Init => StoredInv /\ MenuInv
  BY StoredInit, MenuInit
<1>2. StoredInv /\ MenuInv /\ [Next]_vars => (StoredInv /\ MenuInv)'
  BY StoredStep, MenuStep DEF StoredInv
<1>3. MenuInv => MenuSound
  BY MenuOffers
<1> QED BY <1>1, <1>2, <1>3, PTL DEF Spec
=============================================================================
