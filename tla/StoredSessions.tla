--------------------------- MODULE StoredSessions ---------------------------
(***************************************************************************)
(* The sessions a browser remembers: every tab has its own active session   *)
(* in the session storage, and all tabs share the last session and a history *)
(* of sessions in the local storage.                                        *)
(*                                                                         *)
(* Tabs run in processes of their own, so the storage operations of one     *)
(* handler interleave with those of other tabs; each operation may fail, and *)
(* a tab may be reloaded, or crash and be restored, between two of them.     *)
(* What is reported of failures is left out.                                *)
(***************************************************************************)
EXTENDS Naturals, Sequences

CONSTANTS
    Tab, Session, None,
    MaxEntries,    \* of the history (8)
    MaxLive,       \* bound: live sessions the server lists
    MaxForeign,    \* bound: entries of a history that somebody else stores
    MaxActs        \* bound: events of the tabs, failures and damage together

ASSUME StoredConstants ==
    /\ None \notin Session
    /\ MaxEntries \in Nat \ {0} /\ MaxLive \in Nat
    /\ MaxForeign \in Nat /\ MaxActs \in Nat

VARIABLES
    last,       \* LAST_SESSION_STORAGE_KEY
    history,    \* SESSION_HISTORY_STORAGE_KEY
    active,     \* of every tab, ACTIVE_SESSION_STORAGE_KEY
    tab,        \* of every tab, the state of useSessionPersistence
    task,       \* of every tab, how far its applyReadySession has come
    \* bound and observation
    acts,
    failed,     \* tabs whose session storage has failed since it was last written
    untidy      \* somebody else has stored a history that repeats a session or is too long

vars == <<last, history, active, tab, task, acts, failed, untidy>>

\* (from is an observation: the session the tab was in before.)
Idle == [at |-> "idle", id |-> None, next |-> <<>>, from |-> None]

\* Stored histories: nothing, a list (in which None is an invalid entry), or a value
\* that is no list.
Nothing == [kind |-> "none", items |-> <<>>]
Garbage == [kind |-> "garbage", items |-> <<>>]
List(items) == [kind |-> "list", items |-> items]

TypeOK ==
    /\ last \in Session \cup {None}
    /\ history.kind \in {"none", "garbage", "list"}
    /\ active \in [Tab -> Session \cup {None}]
    /\ \A t \in Tab :
          /\ tab[t].session \in Session \cup {None}
          /\ tab[t].last \in Session \cup {None}
          /\ \A i \in 1 .. Len(tab[t].history) : tab[t].history[i] \in Session
          /\ task[t].at \in {"idle", "last", "read", "write", "active"}
    /\ acts \in 0 .. MaxActs
    /\ failed \subseteq Tab
    /\ untidy \in BOOLEAN

Init ==
    /\ last = None /\ history = Nothing
    /\ active = [t \in Tab |-> None]
    /\ tab = [t \in Tab |-> [session |-> None, last |-> None, history |-> <<>>]]
    /\ task = [t \in Tab |-> Idle]
    /\ acts = MaxActs
    /\ failed = {}
    /\ untidy = FALSE

Act == acts > 0 /\ acts' = acts - 1

-----------------------------------------------------------------------------
(* Stored values.                                                          *)

Ids(sequence) == {sequence[i] : i \in DOMAIN sequence}

Distinct(sequence) == \A i, j \in DOMAIN sequence : sequence[i] = sequence[j] => i = j

\* A history as the program means it to be.
Tidy(sessions) == Len(sessions) <= MaxEntries /\ Distinct(sessions)

\* Array.filter: the sequence without an entry.
Without(sequence, entry) ==
    LET kept[i \in 0 .. Len(sequence)] ==
            IF i = 0 THEN <<>>
            ELSE IF sequence[i] = entry THEN kept[i - 1] ELSE Append(kept[i - 1], sequence[i])
    IN  kept[Len(sequence)]

\* readSessionHistoryResult: invalid entries are left out; nothing else is put right.
ReadHistory(stored) == IF stored.kind = "list" THEN Without(stored.items, None) ELSE <<>>

\* pushSessionHistory: the session comes first, once.  (Mutant: it may be there
\* already.)
PushTwice(sessions, s) ==
    LET repeated == <<s>> \o sessions
    IN  SubSeq(repeated, 1, IF Len(repeated) > MaxEntries THEN MaxEntries ELSE Len(repeated))

Push(sessions, s) ==
    LET unique == <<s>> \o Without(sessions, s)
    IN  SubSeq(unique, 1, IF Len(unique) > MaxEntries THEN MaxEntries ELSE Len(unique))

-----------------------------------------------------------------------------
(* applyReadySession: rememberSession, then persistActiveSessionStorage.     *)

\* A session is ready; without a local storage nothing is remembered.
\* (Mutant: nor is the active session.)
AfterNoStorageIdle == "idle"
AfterNoStorage == "active"

ReadySession(t, s) ==
    /\ task[t] = Idle
    /\ Act
    /\ tab' = [tab EXCEPT ![t].session = s]
    /\ \E at \in {"last", AfterNoStorage} :
          task' = [task EXCEPT ![t] = [Idle EXCEPT !.at = at, !.id = s, !.from = tab[t].session]]
    /\ UNCHANGED <<last, history, active, failed, untidy>>

StoreLast(t) ==
    /\ task[t].at = "last"
    /\ task' = [task EXCEPT ![t].at = "read"]
    /\ \/ last' = task[t].id /\ UNCHANGED acts
       \/ Act /\ UNCHANGED last             \* the write fails
    /\ UNCHANGED <<history, active, tab, failed, untidy>>

ReadThenPush(t) ==
    /\ task[t].at = "read"
    /\ \/ /\ task' = [task EXCEPT ![t].at = "write", ![t].next = Push(ReadHistory(history), task[t].id)]
          /\ UNCHANGED acts
       \/ /\ task' = [task EXCEPT ![t].at = "write", ![t].next = Push(<<>>, task[t].id)]
          /\ Act                            \* the read fails
    /\ UNCHANGED <<last, history, active, tab, failed, untidy>>

WriteHistory(t) ==
    /\ task[t].at = "write"
    /\ task' = [task EXCEPT ![t].at = "active", ![t].next = <<>>]
    /\ tab' = [tab EXCEPT ![t].history = task[t].next, ![t].last = task[t].id]
    /\ \/ history' = List(task[t].next) /\ UNCHANGED acts
       \/ Act /\ UNCHANGED history          \* the write fails
    /\ UNCHANGED <<last, active, failed, untidy>>

\* persistActiveSessionStorage and clearActiveSessionStorage, for tab t.
StoreActive(t, id) ==
    \/ active' = [active EXCEPT ![t] = id] /\ failed' = failed \ {t}
    \/ failed' = failed \cup {t} /\ UNCHANGED active

PersistActive(t) ==
    /\ task[t].at = "active"
    /\ task' = [task EXCEPT ![t] = Idle]
    /\ StoreActive(t, task[t].id)
    /\ UNCHANGED <<last, history, tab, acts, untidy>>

-----------------------------------------------------------------------------
(* Other events of a tab.                                                   *)

\* clearMissingSession, and transitionSessionContext to a session or to a new one.
\* What the tab remembers is left alone.
EnterSession(t, id) ==
    /\ task[t] = Idle
    /\ Act
    /\ tab' = [tab EXCEPT ![t].session = id]
    /\ StoreActive(t, id)
    /\ UNCHANGED <<last, history, task, untidy>>

\* The tab is reloaded, or restored after a crash at any point: everything is read
\* from the storages, either of which may not be readable.
Reload(t) ==
    /\ Act
    /\ task' = [task EXCEPT ![t] = Idle]
    /\ \E session \in {active[t], None}, local \in BOOLEAN :
          /\ tab' = [tab EXCEPT ![t] =
                        [session |-> session,
                         last |-> IF local THEN last ELSE None,
                         history |-> IF local THEN ReadHistory(history) ELSE <<>>]]
          /\ failed' = IF session = active[t] THEN failed \ {t} ELSE failed \cup {t}
    /\ UNCHANGED <<last, history, active, untidy>>

\* Somebody else writes the local storage, which is the user's, every script's of the
\* origin and every version's: the history is cleared or is anything from then on, in
\* whatever order and number, and so is the last session.
ForeignHistory ==
    {Nothing, Garbage}
        \cup {List(items) : items \in UNION {[1 .. n -> Session \cup {None}] : n \in 0 .. MaxForeign}}

Damage ==
    /\ Act
    /\ \/ /\ history' \in ForeignHistory
          /\ untidy' = (untidy \/ ~Tidy(ReadHistory(history')))
          /\ UNCHANGED last
       \/ last' \in Session \cup {None} /\ UNCHANGED <<history, untidy>>
    /\ UNCHANGED <<active, tab, task, failed>>

Next ==
    \/ \E t \in Tab, s \in Session : ReadySession(t, s)
    \/ \E t \in Tab : StoreLast(t) \/ ReadThenPush(t) \/ WriteHistory(t) \/ PersistActive(t)
    \/ \E t \in Tab, id \in Session \cup {None} : EnterSession(t, id)
    \/ \E t \in Tab : Reload(t)
    \/ Damage

Spec == Init /\ [][Next]_vars

-----------------------------------------------------------------------------
(* The session menu.                                                       *)

\* Live sessions as they are listed, sorted by their last activity.
LiveList == UNION {[1 .. n -> Session] : n \in 0 .. MaxLive}

\* deriveSessionCandidates: the live ones, then those of the history, without the
\* tab's own and without those it has seen.
Fallback(t) ==
    IF tab[t].history # <<>> THEN tab[t].history
    ELSE IF tab[t].last # None THEN <<tab[t].last>> ELSE <<>>

Unseen(sessions, own) ==
    LET seen[i \in 0 .. Len(sessions)] ==
            IF i = 0 THEN <<>>
            ELSE IF sessions[i] \in {own} \cup Ids(seen[i - 1]) THEN seen[i - 1]
            ELSE Append(seen[i - 1], sessions[i])
    IN  seen[Len(sessions)]

Candidates(t, live) == Unseen(live \o Fallback(t), tab[t].session)

-----------------------------------------------------------------------------
(* Properties.                                                             *)

\* A tab that is reloaded comes back to the session it is in, also when the local
\* storage is not available or fails half-way, and whatever the other tabs do; one that
\* crashes in the middle of a task comes back to the session it was in before, never to
\* a third one.  It does unless the session storage itself has failed
\* (session-orchestrator.ts, session-persistence.ts).
ReloadResumes ==
    \A t \in Tab \ failed :
        active[t] = IF task[t].at = "idle" THEN tab[t].session ELSE task[t].from

\* The menu offers every live session but the tab's own, what the tab remembers with
\* it, and no session twice, whatever is stored and whoever stored it.  The program
\* itself never stores too long a history, and it neither stores nor remembers one that
\* repeats a session unless it has read one that somebody else stored: interleaved
\* writes of two tabs, and reads and writes that fail, do not bring that about
\* (session-candidates.ts, session-storage.ts).
MenuSound ==
    \A t \in Tab :
        /\ Len(task[t].next) <= MaxEntries
        /\ ~untidy => Tidy(tab[t].history) /\ Tidy(ReadHistory(history))
        /\ \A live \in LiveList :
              LET offered == Candidates(t, live)
              IN  /\ Distinct(offered)
                  /\ Ids(offered) = (Ids(live) \cup Ids(Fallback(t))) \ {tab[t].session}
=============================================================================
