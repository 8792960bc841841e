---------------------------- MODULE StartupProofs ----------------------------
(***************************************************************************)
(* Proofs about Startup, for any tabs, tokens and settings: the token of an  *)
(* address is not lost before the cookie lets the page in, and the endpoints *)
(* that are derived from a setting belong to one backend.                    *)
(***************************************************************************)
EXTENDS Startup, SequenceTheorems, TLAPS

-----------------------------------------------------------------------------
(* The exchange of the token.                                               *)

\* A tab is given the token of a server that has one.
GivenInv == \A t \in given : serverToken # None

\* An answer under way is that of the server as it is now: those of an earlier one are
\* lost with it.
AnswerInv ==
    \A p \in posts : /\ p.phase = "open" => serverToken = None
                     /\ p.phase = "granted" => p.token = serverToken

\* The two parts of AccessKept.
KeptInv == \A t \in given : (hash[t] = serverToken /\ app[t] # "ready") \/ Admitted
WaitInv == \A t \in Tab : app[t] = "pending" => \E p \in posts : p.tab = t /\ p.owner = "active"

StartInv == TypeOK /\ GivenInv /\ AnswerInv /\ KeptInv /\ WaitInv

\* The invariant holds initially.
LEMMA StartInit == Init => StartInv
<1> SUFFICES ASSUME Init PROVE StartInv
  OBVIOUS
<1>1. TypeOK
  <2>1. secure \in BOOLEAN
    BY DEF Init
  <2>2. acts \in 0 .. MaxActs
    BY StartupConstants DEF Init
  <2> QED BY <2>1, <2>2 DEF Init, TypeOK
<1>2. GivenInv /\ AnswerInv /\ KeptInv /\ WaitInv
  BY DEF Init, GivenInv, AnswerInv, KeptInv, WaitInv
<1> QED BY <1>1, <1>2 DEF StartInv

\* The bound.
LEMMA ActKeeps == ASSUME TypeOK, Act \/ acts' = acts PROVE acts' \in 0 .. MaxActs
BY StartupConstants DEF TypeOK, Act

\* The requests of a page that goes away keep what the server answered, and those of
\* other tabs are left alone.
LEMMA LeftKeeps ==
    ASSUME StartInv, NEW t \in Tab, posts' = Left(t), serverToken' = serverToken
    PROVE  /\ posts' \subseteq Post
           /\ AnswerInv'
           /\ \A p \in posts : p.tab # t => p \in posts'
<1>1. posts \subseteq Post
  BY DEF StartInv, TypeOK
<1>2. \A p \in posts : /\ [p EXCEPT !.owner = "gone"] \in Post
                       /\ [p EXCEPT !.owner = "gone"].phase = p.phase
                       /\ [p EXCEPT !.owner = "gone"].token = p.token
  BY <1>1 DEF Post
<1>3. \A q \in posts' : \E p \in posts : q = p \/ q = [p EXCEPT !.owner = "gone"]
  BY DEF Left
<1>4. posts' \subseteq Post
  BY <1>1, <1>2, <1>3
<1>5. AnswerInv'
  <2>1. \A q \in posts' : \E p \in posts : q.phase = p.phase /\ q.token = p.token
    BY <1>2, <1>3
  <2> QED BY <2>1 DEF StartInv, AnswerInv
<1>6. \A p \in posts : p.tab # t => p \in posts'
  BY DEF Left
<1> QED BY <1>4, <1>5, <1>6

\* The page is opened or loaded again.
LEMMA LoadStep ==
    ASSUME StartInv, NEW t \in Tab,
           (\E token \in Token \cup {None} : Open(t, token)) \/ Reload(t)
    PROVE  StartInv'
<1>1. /\ Act /\ app' = [app EXCEPT ![t] = "loading"] /\ posts' = Left(t)
      /\ UNCHANGED <<setting, secure, serverToken, cookie>>
  BY DEF Open, Reload
<1>2. /\ posts' \subseteq Post /\ AnswerInv'
      /\ \A p \in posts : p.tab # t => p \in posts'
  BY <1>1, LeftKeeps
<1>3. acts' \in 0 .. MaxActs
  BY <1>1, ActKeeps DEF StartInv
<1>4. /\ hash' \in [Tab -> Token \cup {None}] /\ given' \subseteq Tab
      /\ \A r \in Tab \ {t} : hash'[r] = hash[r] /\ (r \in given' => r \in given)
      /\ t \in given' => \/ hash'[t] = serverToken /\ serverToken # None
                         \/ t \in given /\ hash'[t] = hash[t]
  <2>1. CASE \E token \in Token \cup {None} : Open(t, token)
    <3>1. PICK token \in Token \cup {None} :
            /\ hash' = [hash EXCEPT ![t] = token]
            /\ given' = IF token # None /\ token = serverToken THEN given \cup {t}
                        ELSE given \ {t}
      BY <2>1 DEF Open
    <3> QED BY <3>1 DEF StartInv, TypeOK
  <2>2. CASE Reload(t)
    BY <2>2 DEF Reload, StartInv, TypeOK
  <2> QED BY <2>1, <2>2
<1>5. /\ app' \in [Tab -> {"closed", "loading", "pending", "ready", "error", "failed"}]
      /\ app'[t] = "loading" /\ \A r \in Tab \ {t} : app'[r] = app[r]
  BY <1>1 DEF StartInv, TypeOK
<1>6. TypeOK'
  BY <1>1, <1>2, <1>3, <1>4, <1>5 DEF StartInv, TypeOK
<1>7. GivenInv'
  BY <1>1, <1>4 DEF StartInv, GivenInv
<1>8. KeptInv'
  <2> SUFFICES ASSUME NEW r \in given'
               PROVE  (hash'[r] = serverToken /\ app'[r] # "ready") \/ Admitted'
    BY <1>1 DEF KeptInv
  <2>1. Admitted' <=> Admitted
    BY <1>1 DEF Admitted
  <2>2. r \in Tab
    BY <1>4
  <2>3. CASE r = t
    BY <1>4, <1>5, <2>1, <2>3 DEF StartInv, KeptInv
  <2>4. CASE r # t
    BY <1>4, <1>5, <2>1, <2>2, <2>4 DEF StartInv, KeptInv
  <2> QED BY <2>3, <2>4
<1>9. WaitInv'
  BY <1>2, <1>5 DEF StartInv, WaitInv
<1> QED BY <1>2, <1>6, <1>7, <1>8, <1>9 DEF StartInv

\* The fragment is edited.
LEMMA HashChangeStep ==
    ASSUME StartInv, NEW t \in Tab, NEW token \in Token \cup {None}, HashChange(t, token)
    PROVE  StartInv'
<1>1. /\ Act /\ hash' = [hash EXCEPT ![t] = token] /\ given' = given \ {t}
      /\ UNCHANGED <<setting, secure, serverToken, cookie, app, posts>>
  BY DEF HashChange
<1>2. acts' \in 0 .. MaxActs
  BY <1>1, ActKeeps DEF StartInv
<1>3. TypeOK'
  BY <1>1, <1>2 DEF StartInv, TypeOK
<1>4. GivenInv' /\ AnswerInv' /\ WaitInv'
  BY <1>1 DEF StartInv, GivenInv, AnswerInv, WaitInv
<1>5. KeptInv'
  BY <1>1 DEF StartInv, TypeOK, KeptInv, Admitted
<1> QED BY <1>3, <1>4, <1>5 DEF StartInv

\* The application cannot be mounted, or fails later.
LEMMA AppFailsStep ==
    ASSUME StartInv, NEW t \in Tab, MountFails(t) \/ RenderFails(t) PROVE StartInv'
<1>1. /\ Act /\ app' = [app EXCEPT ![t] = "failed"]
      /\ UNCHANGED <<setting, secure, serverToken, cookie, hash, given>>
  BY DEF MountFails, RenderFails
<1>2. acts' \in 0 .. MaxActs
  BY <1>1, ActKeeps DEF StartInv
<1>3. /\ app' \in [Tab -> {"closed", "loading", "pending", "ready", "error", "failed"}]
      /\ app'[t] = "failed" /\ \A r \in Tab \ {t} : app'[r] = app[r]
  BY <1>1 DEF StartInv, TypeOK
<1>4. posts \subseteq Post
  BY DEF StartInv, TypeOK
<1>5. /\ posts' \subseteq Post
      /\ \A q \in posts' : \E p \in posts : q.phase = p.phase /\ q.token = p.token
      /\ \A p \in posts : p.tab # t => p \in posts'
  <2>1. CASE MountFails(t)
    BY <1>4, <2>1 DEF MountFails
  <2>2. CASE RenderFails(t)
    <3>1. posts' = {IF p.tab = t /\ p.owner = "active" THEN [p EXCEPT !.owner = "inactive"]
                    ELSE p : p \in posts}
      BY <2>2 DEF RenderFails
    <3>2. \A p \in posts : /\ [p EXCEPT !.owner = "inactive"] \in Post
                           /\ [p EXCEPT !.owner = "inactive"].phase = p.phase
                           /\ [p EXCEPT !.owner = "inactive"].token = p.token
      BY <1>4 DEF Post
    <3>3. \A q \in posts' : \E p \in posts : q = p \/ q = [p EXCEPT !.owner = "inactive"]
      BY <3>1
    <3>4. \A p \in posts : p.tab # t => p \in posts'
      BY <3>1
    <3> QED BY <1>4, <3>2, <3>3, <3>4
  <2> QED BY <2>1, <2>2
<1>6. TypeOK'
  BY <1>1, <1>2, <1>3, <1>5 DEF StartInv, TypeOK
<1>7. GivenInv' /\ AnswerInv'
  BY <1>1, <1>5 DEF StartInv, GivenInv, AnswerInv
<1>8. KeptInv'
  BY <1>1, <1>3 DEF StartInv, TypeOK, KeptInv, Admitted
<1>9. WaitInv'
  BY <1>3, <1>5 DEF StartInv, WaitInv
<1> QED BY <1>6, <1>7, <1>8, <1>9 DEF StartInv

\* The effect: a tab that still has its token does not show the terminal.
LEMMA EffectStep ==
    ASSUME StartInv, NEW t \in Tab, NEW owners \in {{"active"}, {"active", "inactive"}},
           Effect(t, owners)
    PROVE  StartInv'
<1> DEFINE new == {[tab |-> t, token |-> hash[t], owner |-> o, phase |-> "sent"] : o \in owners}
<1>1. /\ \/ hash[t] = None /\ app' = [app EXCEPT ![t] = "ready"] /\ posts' = posts
         \/ app' = [app EXCEPT ![t] = "error"] /\ posts' = posts
         \/ hash[t] # None /\ app' = [app EXCEPT ![t] = "pending"] /\ posts' = posts \cup new
      /\ UNCHANGED <<setting, secure, serverToken, cookie, hash, acts, given>>
  BY DEF Effect
<1>2. /\ app' \in [Tab -> {"closed", "loading", "pending", "ready", "error", "failed"}]
      /\ \A r \in Tab \ {t} : app'[r] = app[r]
      /\ app'[t] = "ready" => hash[t] = None
      /\ app'[t] = "pending" => posts' = posts \cup new
      /\ posts' \subseteq posts \cup new /\ posts \subseteq posts'
      /\ hash[t] # None \/ posts' = posts
  BY <1>1 DEF StartInv, TypeOK
<1>3. hash[t] \in Token \cup {None} /\ posts \subseteq Post
  BY DEF StartInv, TypeOK
<1>4. hash[t] # None => new \subseteq Post
  BY <1>3 DEF Post
<1>5. \A p \in new : p.phase = "sent"
  OBVIOUS
<1>6. \E p \in new : p.tab = t /\ p.owner = "active"
  <2>1. [tab |-> t, token |-> hash[t], owner |-> "active", phase |-> "sent"] \in new
    OBVIOUS
  <2> QED BY <2>1
<1> HIDE DEF new
<1>7. TypeOK'
  BY <1>1, <1>2, <1>3, <1>4 DEF StartInv, TypeOK
<1>8. GivenInv' /\ AnswerInv'
  BY <1>1, <1>2, <1>5 DEF StartInv, GivenInv, AnswerInv
<1>9. KeptInv'
  BY <1>1, <1>2 DEF StartInv, TypeOK, GivenInv, KeptInv, Admitted
<1>10. WaitInv'
  BY <1>2, <1>6 DEF StartInv, WaitInv
<1> QED BY <1>7, <1>8, <1>9, <1>10 DEF StartInv

\* The server compares the token with its own.
LEMMA ServeStep == ASSUME StartInv, NEW p \in posts, Serve(p) PROVE StartInv'
<1> DEFINE phase == IF serverToken = None THEN "open"
                    ELSE IF p.token = serverToken THEN "granted" ELSE "denied"
           q == [p EXCEPT !.phase = phase]
<1>1. /\ posts' = (posts \ {p}) \cup {q}
      /\ UNCHANGED <<setting, secure, serverToken, cookie, hash, app, acts, given>>
  BY DEF Serve
<1>2. p \in Post
  BY DEF StartInv, TypeOK
<1>3. /\ q \in Post /\ q.tab = p.tab /\ q.owner = p.owner /\ q.token = p.token
      /\ q.phase = "open" => serverToken = None
      /\ q.phase = "granted" => q.token = serverToken
  BY <1>2 DEF Post
<1> HIDE DEF q
<1>4. TypeOK'
  BY <1>1, <1>3 DEF StartInv, TypeOK
<1>5. GivenInv' /\ AnswerInv'
  BY <1>1, <1>3 DEF StartInv, GivenInv, AnswerInv
<1>6. KeptInv'
  BY <1>1 DEF StartInv, KeptInv, Admitted
<1>7. WaitInv'
  BY <1>1, <1>3 DEF StartInv, WaitInv
<1> QED BY <1>4, <1>5, <1>6, <1>7 DEF StartInv

\* A call ends: an active one has its tab show something else.
LEMMA OutcomeKeeps ==
    ASSUME StartInv, NEW p \in posts, NEW status \in {"ready", "error"},
           app' = Outcome(p, status), posts' = posts \ {p}
    PROVE  /\ app' \in [Tab -> {"closed", "loading", "pending", "ready", "error", "failed"}]
           /\ posts' \subseteq Post
           /\ \A t \in Tab : app'[t] = "ready" => app[t] = "ready" \/ status = "ready"
           /\ WaitInv'
<1>1. p \in Post /\ p.tab \in Tab
  BY DEF StartInv, TypeOK, Post
<1>2. CASE p.owner = "active"
  <2>1. /\ app' = [app EXCEPT ![p.tab] = status] /\ app'[p.tab] = status
        /\ \A t \in Tab \ {p.tab} : app'[t] = app[t]
    BY <1>1, <1>2 DEF Outcome, StartInv, TypeOK
  <2> QED BY <1>1, <2>1 DEF StartInv, TypeOK, WaitInv
<1>3. CASE p.owner # "active"
  BY <1>3 DEF Outcome, StartInv, TypeOK, WaitInv
<1> QED BY <1>2, <1>3

\* An answer arrives: the token is taken out of the fragment when the cookie, or no
\* token, lets the page in.
LEMMA ArriveStep == ASSUME StartInv, NEW p \in posts, Arrive(p) PROVE StartInv'
<1> DEFINE status == IF p.phase = "denied" THEN "error" ELSE "ready"
<1>1. /\ p.phase # "sent" /\ posts' = posts \ {p}
      /\ cookie' = IF p.phase = "granted" THEN p.token ELSE cookie
      /\ hash' = IF p.phase # "denied" /\ p.owner # "gone" THEN [hash EXCEPT ![p.tab] = None]
                 ELSE hash
      /\ app' = Outcome(p, status)
      /\ UNCHANGED <<setting, secure, serverToken, acts, given>>
  BY DEF Arrive
<1>2. p \in Post
  BY DEF StartInv, TypeOK
<1>3. /\ p.tab \in Tab /\ p.token \in Token
      /\ p.phase \in {"granted", "open", "denied"}
  BY <1>1, <1>2 DEF Post
<1>4. status \in {"ready", "error"} /\ (status = "ready" => p.phase # "denied")
  OBVIOUS
<1> HIDE DEF status
<1>5. /\ app' \in [Tab -> {"closed", "loading", "pending", "ready", "error", "failed"}]
      /\ posts' \subseteq Post
      /\ \A t \in Tab : app'[t] = "ready" => app[t] = "ready" \/ status = "ready"
      /\ WaitInv'
  BY <1>1, <1>4, OutcomeKeeps
<1>6. TypeOK'
  BY <1>1, <1>3, <1>5 DEF StartInv, TypeOK
<1>7. GivenInv' /\ AnswerInv'
  BY <1>1 DEF StartInv, GivenInv, AnswerInv
<1>8. p.phase # "denied" => Admitted'
  <2>1. CASE p.phase = "granted"
    BY <1>1, <2>1 DEF StartInv, AnswerInv, Admitted
  <2>2. CASE p.phase = "open"
    BY <1>1, <2>2 DEF StartInv, AnswerInv, Admitted
  <2> QED BY <1>3, <2>1, <2>2
<1>9. KeptInv'
  <2>1. CASE p.phase # "denied"
    BY <1>8, <2>1 DEF KeptInv
  <2>2. CASE p.phase = "denied"
    <3>1. hash' = hash /\ cookie' = cookie
      BY <1>1, <2>2
    <3> QED BY <1>1, <1>4, <1>5, <2>2, <3>1 DEF StartInv, TypeOK, KeptInv, Admitted
  <2> QED BY <2>1, <2>2
<1> QED BY <1>5, <1>6, <1>7, <1>9 DEF StartInv

\* A call fails: the token stays.
LEMMA FailsStep == ASSUME StartInv, NEW p \in posts, Fails(p) PROVE StartInv'
<1>1. /\ Act /\ posts' = posts \ {p} /\ app' = Outcome(p, "error")
      /\ UNCHANGED <<setting, secure, serverToken, cookie, hash, given>>
  BY DEF Fails
<1>2. /\ app' \in [Tab -> {"closed", "loading", "pending", "ready", "error", "failed"}]
      /\ posts' \subseteq Post
      /\ \A t \in Tab : app'[t] = "ready" => app[t] = "ready" \/ "error" = "ready"
      /\ WaitInv'
  BY <1>1, OutcomeKeeps
<1>3. acts' \in 0 .. MaxActs
  BY <1>1, ActKeeps DEF StartInv
<1>4. TypeOK'
  BY <1>1, <1>2, <1>3 DEF StartInv, TypeOK
<1>5. GivenInv' /\ AnswerInv'
  BY <1>1 DEF StartInv, GivenInv, AnswerInv
<1>6. KeptInv'
  BY <1>1, <1>2 DEF StartInv, TypeOK, KeptInv, Admitted
<1> QED BY <1>2, <1>4, <1>5, <1>6 DEF StartInv

\* The server is restarted: no answer of it arrives any more.
LEMMA RestartStep ==
    ASSUME StartInv, NEW token \in Token \cup {None}, Restart(token) PROVE StartInv'
<1>1. /\ Act /\ serverToken' = token /\ posts' = {}
      /\ app' = [t \in Tab |-> IF \E p \in posts : p.tab = t /\ p.owner = "active" THEN "error"
                               ELSE app[t]]
      /\ given' = IF token = serverToken THEN given ELSE {}
      /\ UNCHANGED <<setting, secure, cookie, hash>>
  BY DEF Restart
<1>2. acts' \in 0 .. MaxActs
  BY <1>1, ActKeeps DEF StartInv
<1>3. /\ app' \in [Tab -> {"closed", "loading", "pending", "ready", "error", "failed"}]
      /\ \A t \in Tab : app'[t] = "error" \/ app'[t] = app[t]
      /\ \A t \in Tab : app'[t] # "pending"
  BY <1>1 DEF StartInv, TypeOK, WaitInv
<1>4. TypeOK'
  BY <1>1, <1>2, <1>3 DEF StartInv, TypeOK
<1>5. GivenInv' /\ AnswerInv' /\ WaitInv'
  BY <1>1, <1>3 DEF StartInv, GivenInv, AnswerInv, WaitInv
<1>6. KeptInv'
  BY <1>1, <1>3 DEF StartInv, TypeOK, KeptInv, Admitted
<1> QED BY <1>4, <1>5, <1>6 DEF StartInv

\* The invariant is kept by every step.
LEMMA StartStep == ASSUME StartInv, [Next]_vars PROVE StartInv'
<1>1. CASE \E t \in Tab, token \in Token \cup {None} : Open(t, token) \/ HashChange(t, token)
  BY <1>1, LoadStep, HashChangeStep
<1>2. CASE \E t \in Tab : Reload(t) \/ MountFails(t) \/ RenderFails(t)
  BY <1>2, LoadStep, AppFailsStep
<1>3. CASE \E t \in Tab, owners \in {{"active"}, {"active", "inactive"}} : Effect(t, owners)
  BY <1>3, EffectStep
<1>4. CASE \E p \in posts : Serve(p) \/ Arrive(p) \/ Fails(p)
  BY <1>4, ServeStep, ArriveStep, FailsStep
<1>5. CASE \E token \in Token \cup {None} : Restart(token)
  BY <1>5, RestartStep
<1>6. CASE UNCHANGED vars
  BY <1>6 DEF vars, StartInv, TypeOK, GivenInv, AnswerInv, KeptInv, WaitInv, Admitted
<1> QED BY <1>1, <1>2, <1>3, <1>4, <1>5, <1>6 DEF Next

\* The invariant holds in every reachable state.
THEOREM StartInvariant == Spec => []StartInv
<1>1. Init => StartInv
  BY StartInit
<1>2. StartInv /\ [Next]_vars => StartInv'
  BY StartStep
<1> QED BY <1>1, <1>2, PTL DEF Spec

\* Whatever fails and whatever other tabs do, a tab that was opened with the server's
\* token has it still unless the cookie lets it in, and a tab that waits has a call
\* that will end its waiting.
THEOREM AccessKeptHolds == Spec => []AccessKept
<1>1. StartInv => AccessKept
  BY DEF StartInv, KeptInv, WaitInv, AccessKept
<1> QED BY <1>1, StartInvariant, PTL
-----------------------------------------------------------------------------
(* The endpoints.  A path that ends with a route is some path followed by it. *)

\* What it is to end with a route of two segments.
LEMMA SuffixOfTwo ==
    ASSUME NEW S, NEW p \in Seq(S), NEW x \in S, NEW y \in S
    PROVE  IsSuffix(<<x, y>>, p) <=> (Len(p) >= 2 /\ p[Len(p) - 1] = x /\ p[Len(p)] = y)
<1> DEFINE n == Len(p)
           r == Reverse(p)
           q == Reverse(<<x, y>>)
<1>1. n \in Nat
  BY LenProperties
<1>2. q = [i \in 1 .. 2 |-> <<x, y>>[(2 - i) + 1]]
  BY DEF Reverse
<1>3. q \in Seq(S) /\ Len(q) = 2 /\ q[1] = y /\ q[2] = x
  <2>1. \A i \in 1 .. 2 : <<x, y>>[(2 - i) + 1] = IF i = 1 THEN y ELSE x
    OBVIOUS
  <2>2. q = [i \in 1 .. 2 |-> IF i = 1 THEN y ELSE x]
    BY <1>2, <2>1
  <2> HIDE DEF q
  <2>3. q \in [1 .. 2 -> S] /\ q[1] = y /\ q[2] = x
    BY <2>2
  <2>4. q \in Seq(S)
    <3>1. q \in UNION {[1 .. m -> S] : m \in Nat}
      BY <2>3, Zenon
    <3> QED BY <3>1, SeqDef
  <2>5. Len(q) = 2
    BY <2>3, <2>4, LenProperties
  <2> QED BY <2>3, <2>4, <2>5
<1>4. r = [i \in 1 .. n |-> p[(n - i) + 1]]
  BY DEF Reverse
<1>5. \A i \in 1 .. n : p[(n - i) + 1] \in S
  <2> SUFFICES ASSUME NEW i \in 1 .. n PROVE p[(n - i) + 1] \in S
    OBVIOUS
  <2>1. (n - i) + 1 \in 1 .. n
    BY <1>1
  <2> QED BY <2>1, ElementOfSeq
<1>6. r \in Seq(S) /\ Len(r) = n
  BY <1>1, <1>4, <1>5, SeqDef
<1>7. IsSuffix(<<x, y>>, p) <=> IsPrefix(q, r)
  BY DEF IsSuffix
<1>8. IsPrefix(q, r) <=> (2 <= n /\ SubSeq(q, 1, 2) = SubSeq(r, 1, 2))
  BY <1>3, <1>6 DEF IsPrefix
<1>9. ASSUME 2 <= n
      PROVE  SubSeq(q, 1, 2) = SubSeq(r, 1, 2) <=> (p[n - 1] = x /\ p[n] = y)
  <2>1. r[1] = p[n] /\ r[2] = p[n - 1]
    <3>1. 1 \in 1 .. n /\ 2 \in 1 .. n
      BY <1>1, <1>9
    <3>2. r[1] = p[(n - 1) + 1] /\ r[2] = p[(n - 2) + 1]
      BY <1>4, <3>1
    <3>3. (n - 1) + 1 = n /\ (n - 2) + 1 = n - 1
      BY <1>1
    <3> HIDE DEF n, r, q
    <3> QED BY <3>2, <3>3
  <2> HIDE DEF n, r, q
  <2> DEFINE a == SubSeq(q, 1, 2)
             c == SubSeq(r, 1, 2)
  <2>2. a \in Seq(S) /\ Len(a) = 2 /\ a[1] = y /\ a[2] = x
    <3>1. \A i \in 1 .. 2 : q[i] \in S
      BY <1>3
    <3> QED BY <1>3, <3>1, SubSeqProperties
  <2>3. c \in Seq(S) /\ Len(c) = 2 /\ c[1] = p[n] /\ c[2] = p[n - 1]
    <3>1. \A i \in 1 .. 2 : r[i] \in S
      BY <1>1, <1>6, <1>9, ElementOfSeq
    <3> QED BY <2>1, <3>1, SubSeqProperties
  <2> HIDE DEF a, c
  <2>4. (a[1] = c[1] /\ a[2] = c[2]) => a = c
    <3> SUFFICES ASSUME a[1] = c[1], a[2] = c[2] PROVE a = c
      OBVIOUS
    <3>1. \A i \in 1 .. 2 : a[i] = c[i]
      <4> SUFFICES ASSUME NEW i \in 1 .. 2 PROVE a[i] = c[i]
        OBVIOUS
      <4>1. i = 1 \/ i = 2
        OBVIOUS
      <4> QED BY <4>1
    <3> QED BY <2>2, <2>3, <3>1, SeqEqual
  <2>5. a = c <=> (p[n - 1] = x /\ p[n] = y)
    BY <2>2, <2>3, <2>4
  <2> QED BY <2>5 DEF a, c
<1> HIDE DEF n, r, q
<1>10. IsSuffix(<<x, y>>, p) <=> (n >= 2 /\ p[n - 1] = x /\ p[n] = y)
  BY <1>1, <1>7, <1>8, <1>9
<1> QED BY <1>10 DEF n

\* A path followed by a route ends with that route and no other, and the path is what is
\* left without it.
LEMMA RouteAdded ==
    ASSUME NEW S, NEW b \in Seq(S), NEW x \in S, NEW y \in S
    PROVE  /\ b \o <<x, y>> \in Seq(S)
           /\ Base(b \o <<x, y>>, <<x, y>>) = b
           /\ Last(b \o <<x, y>>) = y
           /\ Len(b \o <<x, y>>) = Len(b) + 2
           /\ IsSuffix(<<x, y>>, b \o <<x, y>>)
           /\ \A v \in S : v # y => ~IsSuffix(<<x, v>>, b \o <<x, y>>)
<1> DEFINE p == b \o <<x, y>>
           n == Len(b)
<1>1. n \in Nat
  BY LenProperties
<1>2. <<x, y>> \in Seq(S) /\ Len(<<x, y>>) = 2
  OBVIOUS
<1>3. /\ p \in Seq(S)
      /\ Len(p) = n + 2
      /\ p[n + 1] = x
      /\ p[n + 2] = y
      /\ \A i \in 1 .. n : p[i] = b[i]
  BY <1>1, <1>2, ConcatProperties
<1> HIDE DEF p
<1>4. Base(p, <<x, y>>) = SubSeq(p, 1, n)
  BY <1>1, <1>2, <1>3 DEF Base
<1>5. SubSeq(p, 1, n) = b
  BY <1>1, <1>3
<1>6. Last(p) = y
  BY <1>1, <1>3 DEF Last
<1>7. \A u, v \in S : IsSuffix(<<u, v>>, p) <=> (u = x /\ v = y)
  <2> SUFFICES ASSUME NEW u \in S, NEW v \in S
               PROVE  IsSuffix(<<u, v>>, p) <=> (u = x /\ v = y)
    OBVIOUS
  <2>1. IsSuffix(<<u, v>>, p) <=> (Len(p) >= 2 /\ p[Len(p) - 1] = u /\ p[Len(p)] = v)
    BY <1>3, SuffixOfTwo
  <2>2. Len(p) >= 2 /\ Len(p) - 1 = n + 1 /\ Len(p) = n + 2
    BY <1>1, <1>3
  <2>3. p[Len(p) - 1] = x /\ p[Len(p)] = y
    BY <1>3, <2>2
  <2> QED BY <2>1, <2>2, <2>3
<1>8. IsSuffix(<<x, y>>, p) /\ \A v \in S : v # y => ~IsSuffix(<<x, v>>, p)
  BY <1>7
<1> QED BY <1>3, <1>4, <1>5, <1>6, <1>8 DEF p

\* A path that ends with a route is its base followed by the route.
LEMMA RouteSplit ==
    ASSUME NEW S, NEW p \in Seq(S), NEW x \in S, NEW y \in S, IsSuffix(<<x, y>>, p)
    PROVE  /\ Base(p, <<x, y>>) \in Seq(S)
           /\ p = Base(p, <<x, y>>) \o <<x, y>>
<1> DEFINE b == Base(p, <<x, y>>)
           n == Len(p)
<1>1. n \in Nat /\ n >= 2 /\ p[n - 1] = x /\ p[n] = y
  BY LenProperties, SuffixOfTwo
<1>2. b = SubSeq(p, 1, n - 2)
  BY DEF Base
<1>3. b \in Seq(S) /\ Len(b) = n - 2 /\ \A i \in 1 .. n - 2 : b[i] = p[i]
  <2>1. n - 2 \in Nat
    BY <1>1
  <2>2. \A i \in 1 .. n - 2 : p[i] \in S
    BY <1>1, ElementOfSeq
  <2> HIDE DEF b
  <2> QED BY <1>1, <1>2, <2>1, <2>2, SubSeqProperties
<1> HIDE DEF b
<1>4. b \o <<x, y>> = p
  BY <1>1, <1>3
<1> QED BY <1>3, <1>4 DEF b

\* A trailing segment is dropped.
LEMMA SlashDropped ==
    ASSUME NEW S, NEW p \in Seq(S), NEW z \in S, Len(p) >= 1
    PROVE  /\ Append(p, z) \in Seq(S)
           /\ Len(Append(p, z)) > 1
           /\ Last(Append(p, z)) = z
           /\ Front(Append(p, z)) = p
<1> DEFINE a == Append(p, z)
           n == Len(p)
           c == SubSeq(a, 1, n)
<1>1. /\ a \in Seq(S)
      /\ Len(a) = n + 1
      /\ a[n + 1] = z
      /\ \A i \in 1 .. n : a[i] = p[i]
  BY AppendProperties
<1>2. n \in Nat
  BY LenProperties
<1>3. \A i \in 1 .. n : p[i] \in S
  BY ElementOfSeq
<1> HIDE DEF a
<1>4. c \in Seq(S) /\ Len(c) = n /\ \A i \in 1 .. n : c[i] = a[i]
  <2>1. \A i \in 1 .. n : a[i] \in S
    BY <1>1, <1>3
  <2> QED BY <1>2, <2>1, SubSeqProperties
<1> HIDE DEF c
<1>5. c = p
  BY <1>1, <1>4, SeqEqual
<1> HIDE DEF n
<1>6. Len(a) - 1 = n /\ Len(a) > 1
  BY <1>1, <1>2 DEF n
<1>7. Last(a) = z
  BY <1>1 DEF Last
<1>8. Front(a) = p
  BY <1>5, <1>6 DEF Front, c
<1> QED BY <1>1, <1>6, <1>7, <1>8 DEF a

\* The segments of paths: the provers do not know that a literal is in STRING.
Segment == STRING \cup {"", "api", "terminal", "sessions"}

\* The segments of the routes are segments.
LEMMA RouteSegments ==
    /\ "" \in Segment /\ "api" \in Segment /\ "terminal" \in Segment /\ "sessions" \in Segment
    /\ TerminalRoute \in Seq(Segment) /\ SessionsRoute \in Seq(Segment)
<1>1. "" \in Segment /\ "api" \in Segment /\ "terminal" \in Segment /\ "sessions" \in Segment
  BY DEF Segment
<1>2. ASSUME NEW S, NEW x \in S, NEW y \in S PROVE <<x, y>> \in Seq(S)
  OBVIOUS
<1>3. <<"api", "terminal">> \in Seq(Segment) /\ <<"api", "sessions">> \in Seq(Segment)
  BY <1>1, <1>2, Zenon
<1> QED BY <1>1, <1>3 DEF TerminalRoute, SessionsRoute

\* The terminal route below a base path.
LEMMA TerminalBelow ==
    ASSUME NEW b \in Seq(Segment)
    PROVE  /\ b \o TerminalRoute \in Seq(Segment)
           /\ Len(b \o TerminalRoute) >= 2
           /\ Last(b \o TerminalRoute) = "terminal"
           /\ IsSuffix(TerminalRoute, b \o TerminalRoute)
           /\ Base(b \o TerminalRoute, TerminalRoute) = b
<1>1. ASSUME NEW x \in Segment, NEW y \in Segment
      PROVE  /\ b \o <<x, y>> \in Seq(Segment)
             /\ Len(b \o <<x, y>>) >= 2
             /\ Last(b \o <<x, y>>) = y
             /\ IsSuffix(<<x, y>>, b \o <<x, y>>)
             /\ Base(b \o <<x, y>>, <<x, y>>) = b
  <2>1. Len(b) \in Nat
    BY LenProperties
  <2>2. b \o <<x, y>> \in Seq(Segment) /\ Base(b \o <<x, y>>, <<x, y>>) = b
    BY RouteAdded
  <2>3. Len(b \o <<x, y>>) = Len(b) + 2
    BY RouteAdded
  <2>4. Last(b \o <<x, y>>) = y /\ IsSuffix(<<x, y>>, b \o <<x, y>>)
    BY RouteAdded
  <2> QED BY <2>1, <2>2, <2>3, <2>4
<1> QED BY <1>1, RouteSegments, Zenon DEF TerminalRoute

\* The sessions route below a base path.
LEMMA SessionsBelow ==
    ASSUME NEW b \in Seq(Segment)
    PROVE  /\ b \o SessionsRoute \in Seq(Segment)
           /\ Len(b \o SessionsRoute) >= 2
           /\ Last(b \o SessionsRoute) = "sessions"
           /\ IsSuffix(SessionsRoute, b \o SessionsRoute)
           /\ ~IsSuffix(TerminalRoute, b \o SessionsRoute)
           /\ Base(b \o SessionsRoute, SessionsRoute) = b
<1>1. ASSUME NEW x \in Segment, NEW y \in Segment, NEW v \in Segment, v # y
      PROVE  /\ b \o <<x, y>> \in Seq(Segment)
             /\ Len(b \o <<x, y>>) >= 2
             /\ Last(b \o <<x, y>>) = y
             /\ IsSuffix(<<x, y>>, b \o <<x, y>>)
             /\ ~IsSuffix(<<x, v>>, b \o <<x, y>>)
             /\ Base(b \o <<x, y>>, <<x, y>>) = b
  <2>1. Len(b) \in Nat
    BY LenProperties
  <2>2. b \o <<x, y>> \in Seq(Segment) /\ Base(b \o <<x, y>>, <<x, y>>) = b
    BY RouteAdded
  <2>3. Len(b \o <<x, y>>) = Len(b) + 2
    BY RouteAdded
  <2>4. /\ Last(b \o <<x, y>>) = y
        /\ IsSuffix(<<x, y>>, b \o <<x, y>>)
        /\ ~IsSuffix(<<x, v>>, b \o <<x, y>>)
    BY <1>1, RouteAdded
  <2> QED BY <2>1, <2>2, <2>3, <2>4
<1>2. "terminal" # "sessions"
  OBVIOUS
<1> QED BY <1>1, <1>2, RouteSegments, Zenon DEF SessionsRoute, TerminalRoute

\* A path without its trailing slash, as in DeriveTerminalPath.
Normalized(path) == IF Len(path) > 1 /\ Last(path) = "" THEN Front(path) ELSE path

\* Whatever path is set, the derived one is the terminal route below some base path.
LEMMA DeriveEnds ==
    ASSUME NEW p \in Seq(Segment)
    PROVE  \E b \in Seq(Segment) : DeriveTerminalPath(p) = b \o TerminalRoute
<1> DEFINE n == Normalized(p)
<1>1. n \in Seq(Segment)
  <2>1. Len(p) \in Nat /\ \A i \in 1 .. Len(p) : p[i] \in Segment
    BY LenProperties, ElementOfSeq
  <2>2. \A i \in 1 .. Len(p) - 1 : p[i] \in Segment
    BY <2>1
  <2>3. Front(p) \in Seq(Segment)
    BY <2>1, <2>2, SubSeqProperties DEF Front
  <2> QED BY <2>3 DEF Normalized
<1>2. DeriveTerminalPath(p) =
          IF IsSuffix(TerminalRoute, n) THEN n
          ELSE IF IsSuffix(SessionsRoute, n) THEN Base(n, SessionsRoute) \o TerminalRoute
          ELSE IF n = <<"">> THEN TerminalRoute
          ELSE n \o TerminalRoute
  BY DEF DeriveTerminalPath, Normalized
<1> HIDE DEF n
<1>3. CASE IsSuffix(TerminalRoute, n)
  <2>1. Base(n, TerminalRoute) \in Seq(Segment) /\ n = Base(n, TerminalRoute) \o TerminalRoute
    BY <1>1, <1>3, RouteSegments, RouteSplit DEF TerminalRoute
  <2> QED BY <1>2, <1>3, <2>1
<1>4. CASE ~IsSuffix(TerminalRoute, n) /\ IsSuffix(SessionsRoute, n)
  <2>1. Base(n, SessionsRoute) \in Seq(Segment)
    BY <1>1, <1>4, RouteSegments, RouteSplit DEF SessionsRoute
  <2> QED BY <1>2, <1>4, <2>1
<1>5. CASE ~IsSuffix(TerminalRoute, n) /\ ~IsSuffix(SessionsRoute, n) /\ n = <<"">>
  <2>1. <<>> \in Seq(Segment) /\ <<>> \o TerminalRoute = TerminalRoute
    BY RouteSegments, EmptySeq, ConcatEmptySeq
  <2> QED BY <1>2, <1>5, <2>1, Zenon
<1>6. CASE ~IsSuffix(TerminalRoute, n) /\ ~IsSuffix(SessionsRoute, n) /\ n # <<"">>
  BY <1>1, <1>2, <1>6
<1> QED BY <1>3, <1>4, <1>5, <1>6

\* The paths that name the terminal or the sessions route of a base path, with a trailing
\* slash or without, all lead to the terminal route below it.
LEMMA DeriveAgain ==
    ASSUME NEW b \in Seq(Segment)
    PROVE  /\ DeriveTerminalPath(b \o TerminalRoute) = b \o TerminalRoute
           /\ DeriveTerminalPath(Append(b \o TerminalRoute, "")) = b \o TerminalRoute
           /\ DeriveTerminalPath(b \o SessionsRoute) = b \o TerminalRoute
           /\ DeriveTerminalPath(Append(b \o SessionsRoute, "")) = b \o TerminalRoute
<1> DEFINE t == b \o TerminalRoute
           s == b \o SessionsRoute
<1>1. ASSUME NEW p, Normalized(p) = t
      PROVE  DeriveTerminalPath(p) = t
  BY <1>1, TerminalBelow DEF DeriveTerminalPath, Normalized
<1>2. ASSUME NEW p, Normalized(p) = s
      PROVE  DeriveTerminalPath(p) = t
  BY <1>2, SessionsBelow DEF DeriveTerminalPath, Normalized
<1>3. Normalized(t) = t /\ Normalized(s) = s
  BY TerminalBelow, SessionsBelow DEF Normalized
<1>4. t \in Seq(Segment) /\ Len(t) >= 1 /\ s \in Seq(Segment) /\ Len(s) >= 1
  BY TerminalBelow, SessionsBelow, LenProperties
<1> HIDE DEF t, s
<1>5. Normalized(Append(t, "")) = t /\ Normalized(Append(s, "")) = s
  BY <1>4, RouteSegments, SlashDropped DEF Normalized
<1>6. /\ DeriveTerminalPath(t) = t /\ DeriveTerminalPath(Append(t, "")) = t
      /\ DeriveTerminalPath(s) = t /\ DeriveTerminalPath(Append(s, "")) = t
  BY <1>1, <1>2, <1>3, <1>5
<1> QED BY <1>6 DEF t, s

\* The sessions and authentication endpoints of a socket whose path is the terminal route
\* below a base path lie below the same base path.
LEMMA BelowOneBase ==
    ASSUME NEW b \in Seq(Segment), NEW tls, NEW host
    PROVE  /\ SessionsUrl(Url(tls, host, b \o TerminalRoute)) = Url(tls, host, b \o SessionsRoute)
           /\ AuthUrl(Url(tls, host, b \o SessionsRoute)) = Url(tls, host, b \o AuthRoute)
<1>1. \A path : Url(tls, host, path).tls = tls /\ Url(tls, host, path).host = host
                /\ Url(tls, host, path).path = path
  BY DEF Url
<1>2. SessionsPath(b \o TerminalRoute) = b \o SessionsRoute
  BY TerminalBelow DEF SessionsPath
<1>3. SessionsUrl(Url(tls, host, b \o TerminalRoute)) = Url(tls, host, b \o SessionsRoute)
  BY <1>1, <1>2, Zenon DEF SessionsUrl
<1>4. IsSuffix(SessionsRoute, b \o SessionsRoute) /\ Base(b \o SessionsRoute, SessionsRoute) = b
  BY SessionsBelow
<1>5. AuthUrl(Url(tls, host, b \o SessionsRoute)) = Url(tls, host, b \o AuthRoute)
  BY <1>1, <1>4, Zenon DEF AuthUrl
<1> QED BY <1>3, <1>5

\* What a setting that names a backend over http resolves to.
LEMMA HttpResolves ==
    ASSUME NEW b \in Seq(Segment), NEW tls \in BOOLEAN, NEW host, NEW path, NEW page,
           DeriveTerminalPath(path) = b \o TerminalRoute
    PROVE  Endpoints([kind |-> IF tls THEN "https" ELSE "http", host |-> host, path |-> path], page)
             = [ok |-> TRUE, socket |-> Url(tls, host, b \o TerminalRoute),
                sessions |-> Url(tls, host, b \o SessionsRoute)]
<1> DEFINE s == [kind |-> IF tls THEN "https" ELSE "http", host |-> host, path |-> path]
           socket == Url(tls, host, b \o TerminalRoute)
<1>1. s.kind = (IF tls THEN "https" ELSE "http") /\ s.host = host /\ s.path = path
  OBVIOUS
<1> HIDE DEF s
<1>2. (s.kind = "https") = tls
  <2>1. CASE tls = TRUE
    BY <1>1, <2>1
  <2>2. CASE tls = FALSE
    BY <1>1, <2>2
  <2> QED BY <2>1, <2>2
<1>3. s.kind \in {"http", "https"} /\ s.kind \notin {"ws", "wss"}
      /\ s.kind # "none" /\ s.kind # "relative"
  BY <1>1
<1>4. AbsoluteHttp(s) = socket
  BY <1>1, <1>2, Zenon DEF AbsoluteHttp
<1>5. ResolveSocketUrl(s, page) = AbsoluteHttp(s)
  BY <1>3 DEF ResolveSocketUrl
<1>6. socket.ok
  BY DEF Url
<1>7. SessionsUrl(socket) = Url(tls, host, b \o SessionsRoute)
  BY BelowOneBase
<1> HIDE DEF socket
<1>8. Endpoints(s, page) = [ok |-> TRUE, socket |-> socket,
                            sessions |-> Url(tls, host, b \o SessionsRoute)]
  BY <1>4, <1>5, <1>6, <1>7, Zenon DEF Endpoints
<1> QED BY <1>8 DEF s, socket

\* A path of a setting consists of segments.
LEMMA SettingPath ==
    ASSUME NEW s \in Setting
    PROVE  s.path \in Seq(Segment)
<1>1. s.path \in Seq(STRING)
  BY StartupConstants
<1>2. STRING \subseteq Segment
  BY DEF Segment
<1> QED BY <1>1, <1>2, SeqMonotonic

\* Every setting that resolves, the address of a socket elsewhere than at the terminal
\* route apart, resolves to the terminal route below some base path.
LEMMA NamedResolves ==
    ASSUME NEW s \in Setting, NEW page \in BOOLEAN, ResolveSocketUrl(s, page).ok,
           s.kind \notin {"ws", "wss"} \/ IsSuffix(TerminalRoute, s.path)
    PROVE  \E b \in Seq(Segment), tls \in BOOLEAN, host \in {Page, s.host} :
              ResolveSocketUrl(s, page) = Url(tls, host, b \o TerminalRoute)
<1>1. s.kind \in {"none", "ws", "wss", "http", "https", "other", "broken", "relative"}
  BY StartupConstants
<1>2. s.path \in Seq(Segment)
  BY SettingPath
<1>3. CASE s.kind = "none"
  <2>1. ResolveSocketUrl(s, page) = Url(page, Page, TerminalRoute)
    BY <1>3 DEF ResolveSocketUrl
  <2>2. <<>> \in Seq(Segment) /\ <<>> \o TerminalRoute = TerminalRoute
    BY RouteSegments, EmptySeq, ConcatEmptySeq
  <2> QED BY <2>1, <2>2, Zenon
<1>4. CASE s.kind \in {"ws", "wss"}
  <2>1. ResolveSocketUrl(s, page) = Url(s.kind = "wss", s.host, s.path)
    BY <1>4 DEF ResolveSocketUrl, AbsoluteWs, ValidateEndpoint
  <2>2. IsSuffix(TerminalRoute, s.path)
    BY <1>4
  <2>3. \E b \in Seq(Segment) : s.path = b \o TerminalRoute
    BY <1>2, <2>2, RouteSegments, RouteSplit DEF TerminalRoute
  <2>4. (s.kind = "wss") \in BOOLEAN
    OBVIOUS
  <2> QED BY <2>1, <2>3, <2>4, Zenon
<1>5. CASE s.kind \in {"http", "https"}
  <2>1. ResolveSocketUrl(s, page) = AbsoluteHttp(s)
    BY <1>5 DEF ResolveSocketUrl
  <2>2. \E b \in Seq(Segment) : DeriveTerminalPath(s.path) = b \o TerminalRoute
    BY <1>2, DeriveEnds
  <2>3. (s.kind = "https") \in BOOLEAN
    OBVIOUS
  <2> QED BY <2>1, <2>2, <2>3, Zenon DEF AbsoluteHttp
<1>6. CASE s.kind = "relative"
  <2>1. ResolveSocketUrl(s, page) = Relative(s, page)
    BY <1>6 DEF ResolveSocketUrl
  <2>2. \E b \in Seq(Segment) : DeriveTerminalPath(s.path) = b \o TerminalRoute
    BY <1>2, DeriveEnds
  <2> QED BY <2>1, <2>2, Zenon DEF Relative
<1>7. CASE s.kind \in {"other", "broken"}
  <2>1. ResolveSocketUrl(s, page) = Issue
    BY <1>7 DEF ResolveSocketUrl
  <2>2. ~Issue.ok
    BY DEF Issue
  <2> QED BY <2>1, <2>2
<1> QED BY <1>1, <1>3, <1>4, <1>5, <1>6, <1>7

\* An address of a socket elsewhere than at the terminal route.
LEMMA UnnamedResolves ==
    ASSUME NEW s, NEW page, s.kind \in {"ws", "wss"}, ~IsSuffix(TerminalRoute, s.path)
    PROVE  /\ ResolveSocketUrl(s, page) = Url(s.kind = "wss", s.host, s.path)
           /\ SessionsUrl(Url(s.kind = "wss", s.host, s.path))
                = Url(s.kind = "wss", s.host, <<>> \o SessionsRoute)
<1>1. ResolveSocketUrl(s, page) = Url(s.kind = "wss", s.host, s.path)
  BY DEF ResolveSocketUrl, AbsoluteWs, ValidateEndpoint
<1>2. SessionsPath(s.path) = SessionsRoute
  BY DEF SessionsPath
<1>3. <<>> \o SessionsRoute = SessionsRoute
  BY RouteSegments, ConcatEmptySeq
<1>4. \A tls : /\ Url(tls, s.host, s.path).tls = tls
               /\ Url(tls, s.host, s.path).host = s.host
               /\ Url(tls, s.host, s.path).path = s.path
  BY DEF Url
<1>5. \A tls : SessionsUrl(Url(tls, s.host, s.path)) = Url(tls, s.host, <<>> \o SessionsRoute)
  BY <1>2, <1>3, <1>4, Zenon DEF SessionsUrl
<1> QED BY <1>1, <1>5

\* The endpoints agree for every setting and however the page is loaded.
LEMMA SettingAgrees == TypeOK => EndpointsAgree
<1> SUFFICES ASSUME TypeOK PROVE EndpointsAgree
  OBVIOUS
<1> DEFINE found == Endpoints(setting, secure)
           socket == ResolveSocketUrl(setting, secure)
           Http(url, slash) ==
               [kind |-> IF url.tls THEN "https" ELSE "http", host |-> url.host,
                path |-> IF slash THEN Append(url.path, "") ELSE url.path]
           named == setting.kind \notin {"ws", "wss"} \/ IsSuffix(TerminalRoute, setting.path)
           base == IF named THEN Base(found.socket.path, TerminalRoute) ELSE <<>>
           Agree ==
               /\ found.sessions = Url(found.socket.tls, found.socket.host, base \o SessionsRoute)
               /\ AuthUrl(found.sessions)
                    = Url(found.socket.tls, found.socket.host, base \o AuthRoute)
               /\ named => /\ found.socket.path = base \o TerminalRoute
                           /\ \A slash \in BOOLEAN, url \in {found.socket, found.sessions} :
                                 Endpoints(Http(url, slash), secure) = found
<1>1. setting \in Setting /\ secure \in BOOLEAN
  BY DEF TypeOK
<1>2. SUFFICES ASSUME found.ok PROVE Agree
  BY DEF EndpointsAgree
<1>3. socket.ok /\ found = [ok |-> TRUE, socket |-> socket, sessions |-> SessionsUrl(socket)]
  <2>1. CASE socket.ok
    BY <2>1 DEF Endpoints
  <2>2. CASE ~socket.ok
    <3>1. found = Issue
      BY <2>2 DEF Endpoints
    <3>2. ~Issue.ok
      BY DEF Issue
    <3> QED BY <1>2, <3>1, <3>2
  <2> QED BY <2>1, <2>2
<1>4. found.socket = socket /\ found.sessions = SessionsUrl(socket)
  BY <1>3
<1>5. \A tls, host, path : /\ Url(tls, host, path).tls = tls
                           /\ Url(tls, host, path).host = host
                           /\ Url(tls, host, path).path = path
  BY DEF Url
<1>6. CASE named
  <2>1. PICK b \in Seq(Segment), tls \in BOOLEAN, host \in {Page, setting.host} :
                socket = Url(tls, host, b \o TerminalRoute)
    BY <1>1, <1>3, <1>6, NamedResolves
  <2>2. found.sessions = Url(tls, host, b \o SessionsRoute)
    BY <1>4, <2>1, BelowOneBase
  <2>3. AuthUrl(found.sessions) = Url(tls, host, b \o AuthRoute)
    BY <2>2, BelowOneBase
  <2>4. found.socket = Url(tls, host, b \o TerminalRoute)
    BY <1>4, <2>1
  <2>5. found = [ok |-> TRUE, socket |-> Url(tls, host, b \o TerminalRoute),
                 sessions |-> Url(tls, host, b \o SessionsRoute)]
    BY <1>3, <1>4, <2>2, <2>4
  <2> HIDE DEF found, socket, named
  <2>6. /\ found.socket.tls = tls /\ found.socket.host = host
         /\ found.socket.path = b \o TerminalRoute
    BY <2>4 DEF Url
  <2>7. /\ found.sessions.tls = tls /\ found.sessions.host = host
         /\ found.sessions.path = b \o SessionsRoute
    BY <2>2 DEF Url
  <2>8. base = b
    BY <1>5, <1>6, <2>4, TerminalBelow
  <2> HIDE DEF base
  <2>9. found.socket.path = base \o TerminalRoute
    BY <2>8, <2>6
  <2>10. /\ found.sessions = Url(found.socket.tls, found.socket.host, base \o SessionsRoute)
        /\ AuthUrl(found.sessions)
             = Url(found.socket.tls, found.socket.host, base \o AuthRoute)
    BY <1>5, <2>2, <2>3, <2>4, <2>8
  <2>11. ASSUME NEW slash \in BOOLEAN, NEW url,
               url = found.socket \/ url = found.sessions
        PROVE  Endpoints(Http(url, slash), secure) = found
    <3> DEFINE path == IF slash THEN Append(url.path, "") ELSE url.path
    <3>1. url.tls = tls /\ url.host = host
          /\ (url.path = b \o TerminalRoute \/ url.path = b \o SessionsRoute)
      <4>1. CASE url = found.socket
        BY <2>6, <4>1
      <4>2. CASE url = found.sessions
        BY <2>7, <4>2
      <4> QED BY <2>11, <4>1, <4>2
    <3>2. DeriveTerminalPath(path) = b \o TerminalRoute
      BY <3>1, DeriveAgain
    <3>3. Http(url, slash) = [kind |-> IF tls THEN "https" ELSE "http", host |-> host, path |-> path]
      BY <3>1
    <3> HIDE DEF path, Http
    <3> QED BY <2>5, <3>2, <3>3, HttpResolves
  <2> HIDE DEF Http
  <2> QED BY <2>9, <2>10, <2>11
<1>7. CASE ~named
  <2>1. setting.kind \in {"ws", "wss"} /\ ~IsSuffix(TerminalRoute, setting.path)
    BY <1>7
  <2>2. PICK tls : /\ socket = Url(tls, setting.host, setting.path)
                   /\ SessionsUrl(socket) = Url(tls, setting.host, <<>> \o SessionsRoute)
    BY <2>1, UnnamedResolves
  <2>3. found.sessions = Url(tls, setting.host, <<>> \o SessionsRoute)
    BY <1>4, <2>2
  <2>4. AuthUrl(found.sessions) = Url(tls, setting.host, <<>> \o AuthRoute)
    <3>1. <<>> \in Seq(Segment)
      BY EmptySeq
    <3> QED BY <2>3, <3>1, BelowOneBase
  <2>5. found.socket.tls = tls /\ found.socket.host = setting.host
    BY <1>4, <1>5, <2>2
  <2> HIDE DEF found, socket, named
  <2>6. base = <<>>
    BY <1>7
  <2> HIDE DEF base, Http
  <2> QED BY <1>7, <2>3, <2>4, <2>5, <2>6
<1> QED BY <1>6, <1>7

\* Socket, sessions and authentication are looked for at one host, below one base path,
\* whatever the address that is set; and the derived addresses, taken as settings, lead
\* to the same endpoints.
THEOREM EndpointsAgreeHolds == Spec => []EndpointsAgree
<1>1. StartInv => EndpointsAgree
  BY SettingAgrees DEF StartInv
<1> QED BY <1>1, StartInvariant, PTL
=============================================================================
