-------------------------- MODULE SessionLifecycle --------------------------
(***************************************************************************)
(* What the session manager promises about the life of a session, without  *)
(* locks, goroutines, timers or sockets: who controls it, who watches it,  *)
(* and when it may end.  docs/runtime.md states these rules in words.      *)
(***************************************************************************)
CONSTANTS Conn, Session, NoConn, DetachedTTL

VARIABLES
    phase,    \* "unborn", "running", "exited" or "gone"
    holder,   \* the controller of each session
    viewers,  \* the watchers of each session
    free,     \* connections that may still attach: each attaches at most once
    open      \* the server has not shut down

vars == <<phase, holder, viewers, free, open>>

Init ==
    /\ phase = [s \in Session |-> "unborn"]
    /\ holder = [s \in Session |-> NoConn]
    /\ viewers = [s \in Session |-> {}]
    /\ free = Conn
    /\ open = TRUE

Listed(s) == phase[s] \in {"running", "exited"}

\* A connection takes its one seat.
Take(c) == c \in free /\ free' = free \ {c}

\* c starts session s and controls it.
Create(s, c) ==
    /\ open
    /\ phase[s] = "unborn"
    /\ Take(c)
    /\ phase' = [phase EXCEPT ![s] = "running"]
    /\ holder' = [holder EXCEPT ![s] = c]
    /\ UNCHANGED <<viewers, open>>

\* c becomes the controller of a session that has none: nobody is displaced.
Control(s, c) ==
    /\ Listed(s)
    /\ holder[s] = NoConn
    /\ Take(c)
    /\ holder' = [holder EXCEPT ![s] = c]
    /\ UNCHANGED <<phase, viewers, open>>

\* c becomes a watcher.
Watch(s, c) ==
    /\ Listed(s)
    /\ Take(c)
    /\ viewers' = [viewers EXCEPT ![s] = @ \cup {c}]
    /\ UNCHANGED <<phase, holder, open>>

\* c gives up its role, for good.
Part(s, c) ==
    /\ Listed(s)
    /\ c \notin free
    /\ holder[s] = c \/ c \in viewers[s]
    /\ holder' = [holder EXCEPT ![s] = IF @ = c THEN NoConn ELSE @]
    /\ viewers' = [viewers EXCEPT ![s] = @ \ {c}]
    /\ UNCHANGED <<phase, free, open>>

\* A connection ends without ever having attached.
Retire(c) ==
    /\ Take(c)
    /\ UNCHANGED <<phase, holder, viewers, open>>

\* The process of s exits.
Exit(s) ==
    /\ phase[s] = "running"
    /\ phase' = [phase EXCEPT ![s] = "exited"]
    /\ UNCHANGED <<holder, viewers, free, open>>

\* s is removed: it has exited, or it is detached and there is a TTL.
Remove(s) ==
    /\ \/ phase[s] = "exited"
       \/ phase[s] = "running" /\ DetachedTTL /\ holder[s] = NoConn /\ viewers[s] = {}
    /\ phase' = [phase EXCEPT ![s] = "gone"]
    /\ holder' = [holder EXCEPT ![s] = NoConn]
    /\ viewers' = [viewers EXCEPT ![s] = {}]
    /\ UNCHANGED <<free, open>>

\* The server shuts down: every session ends at once.
Close ==
    /\ open
    /\ open' = FALSE
    /\ phase' = [s \in Session |-> IF Listed(s) THEN "gone" ELSE phase[s]]
    /\ holder' = [s \in Session |-> NoConn]
    /\ viewers' = [s \in Session |-> {}]
    /\ UNCHANGED free

Next ==
    \/ \E s \in Session, c \in Conn :
          Create(s, c) \/ Control(s, c) \/ Watch(s, c) \/ Part(s, c)
    \/ \E c \in Conn : Retire(c)
    \/ \E s \in Session : Exit(s) \/ Remove(s)
    \/ Close

Spec == Init /\ [][Next]_vars
=============================================================================
