------------------------------ MODULE Startup -------------------------------
(***************************************************************************)
(* How a browser tab starts: the page is loaded, the application mounted,   *)
(* and a token in the fragment of the page's address exchanged for a cookie  *)
(* before the terminal is shown; and where the backend is that it talks to.  *)
(*                                                                         *)
(* The tabs share the cookies of the page's host.  The server compares the   *)
(* credential with its token and may be restarted with another token; a     *)
(* connection does not outlive the server, so that the answers under way at  *)
(* a restart are lost.  Who a server without a token trusts (the host and    *)
(* origin policy) is left out, and so is the query of an address.            *)
(***************************************************************************)
EXTENDS Naturals, Sequences, SequencesExt

CONSTANTS
    Tab,
    Token,          \* tokens, in addresses or of the server
    None,           \* no token: absent, or blank
    Page,           \* the host the page is loaded from
    Setting,        \* the values of VITE_WOOTTY_WS_URL considered
    MaxActs         \* bound: loads, changes of the fragment, failures, restarts

ASSUME StartupConstants ==
    /\ None \notin Token
    /\ \A s \in Setting :
          /\ s.kind \in {"none", "ws", "wss", "http", "https", "other", "broken", "relative"}
          /\ s.path \in Seq(STRING)
    /\ MaxActs \in Nat

VARIABLES
    setting,        \* VITE_WOOTTY_WS_URL, trimmed, of this build
    secure,         \* whether the page is loaded over https
    serverToken,    \* cfg.AuthToken
    cookie,         \* wootty_auth
    hash,           \* of every tab, the token in its fragment
    app,            \* of every tab, what it shows
    posts,          \* requests for /api/auth/bootstrap that matter
    \* bound and observation
    acts,
    given           \* tabs opened with a token that still is the server's

vars == <<setting, secure, serverToken, cookie, hash, app, posts, acts, given>>

\* A path is the sequence of its segments: "/" is <<"">>, "/x/" is <<"x", "">>, and
\* the empty string <<>>.
TerminalRoute == <<"api", "terminal">>
SessionsRoute == <<"api", "sessions">>
AuthRoute     == <<"api", "auth", "bootstrap">>

Url(tls, host, path) == [ok |-> TRUE, tls |-> tls, host |-> host, path |-> path]
Issue == [ok |-> FALSE]

Post == [tab : Tab, token : Token, owner : {"active", "inactive", "gone"},
         phase : {"sent", "granted", "open", "denied"}]

TypeOK ==
    /\ setting \in Setting /\ secure \in BOOLEAN
    /\ serverToken \in Token \cup {None} /\ cookie \in Token \cup {None}
    /\ hash \in [Tab -> Token \cup {None}]
    /\ app \in [Tab -> {"closed", "loading", "pending", "ready", "error", "failed"}]
    /\ posts \subseteq Post
    /\ acts \in 0 .. MaxActs
    /\ given \subseteq Tab

Init ==
    /\ setting \in Setting
    /\ secure \in BOOLEAN
    /\ serverToken \in Token \cup {None}
    /\ cookie \in Token \cup {None}
    /\ hash = [t \in Tab |-> None]
    /\ app = [t \in Tab |-> "closed"]
    /\ posts = {}
    /\ acts = MaxActs
    /\ given = {}

Act == acts > 0 /\ acts' = acts - 1

-----------------------------------------------------------------------------
(* The endpoints of the backend.  A setting is a record: its kind is "none",  *)
(* the scheme of an address ("ws", "wss", "http", "https" or "other"),        *)
(* "broken" (an address with one of these schemes that does not parse) or     *)
(* "relative".                                                              *)

\* The path without the route it ends with.
Base(path, route) == SubSeq(path, 1, Len(path) - Len(route))

\* deriveTerminalPathFromHttpUrl.
DeriveTerminalPath(path) ==
    LET normalized == IF Len(path) > 1 /\ Last(path) = "" THEN Front(path) ELSE path
    IN  IF IsSuffix(TerminalRoute, normalized) THEN normalized
        ELSE IF IsSuffix(SessionsRoute, normalized)
             THEN Base(normalized, SessionsRoute) \o TerminalRoute
        ELSE IF normalized = <<"">> THEN TerminalRoute
        ELSE normalized \o TerminalRoute

\* validateWebsocketEndpoint.
ValidateEndpoint(s) ==
    IF s.kind \in {"ws", "wss"} THEN Url(s.kind = "wss", s.host, s.path) ELSE Issue

\* resolveAbsoluteWsSocketUrl takes the address as it is.
AbsoluteWs(s) == ValidateEndpoint(s)

\* resolveAbsoluteHttpSocketUrl.
AbsoluteHttp(s) == Url(s.kind = "https", s.host, DeriveTerminalPath(s.path))

\* resolveRelativeSocketUrl.
Relative(s, tls) == Url(tls, Page, DeriveTerminalPath(s.path))

\* resolveSocketUrl, in a browser.
ResolveSocketUrl(s, tls) ==
    CASE s.kind = "none"              -> Url(tls, Page, TerminalRoute)
      [] s.kind \in {"ws", "wss"}     -> AbsoluteWs(s)
      [] s.kind \in {"http", "https"} -> AbsoluteHttp(s)
      [] s.kind = "relative"          -> Relative(s, tls)
      [] OTHER                        -> Issue

\* deriveSessionsPath.  (Mutant: the base path of the socket is forgotten.)
SessionsPathRoot(path) == SessionsRoute

SessionsPath(path) ==
    IF IsSuffix(TerminalRoute, path) THEN Base(path, TerminalRoute) \o SessionsRoute
    ELSE SessionsRoute

\* resolveSessionUrlFromSocket, of a socket address that has been resolved.
SessionsUrl(socket) == Url(socket.tls, socket.host, SessionsPath(socket.path))

\* deriveAuthBootstrapUrlFromSessions.
AuthUrl(sessions) ==
    Url(sessions.tls, sessions.host,
        IF IsSuffix(SessionsRoute, sessions.path)
        THEN Base(sessions.path, SessionsRoute) \o AuthRoute
        ELSE AuthRoute)

\* resolveTerminalBackendEndpoints.
Endpoints(s, tls) ==
    LET socket == ResolveSocketUrl(s, tls)
    IN  IF socket.ok
        THEN [ok |-> TRUE, socket |-> socket, sessions |-> SessionsUrl(socket)]
        ELSE Issue

\* A browser sends a credential to another origin only after a preflight, which the
\* server answers with 405.
SameOrigin ==
    LET endpoints == Endpoints(setting, secure)
    IN  endpoints.ok /\ endpoints.sessions.host = Page /\ endpoints.sessions.tls = secure

-----------------------------------------------------------------------------
(* Loading and mounting.                                                   *)

\* The page a tab shows goes away: nobody waits for its requests.
Left(t) == {IF p.tab = t THEN [p EXCEPT !.owner = "gone"] ELSE p : p \in posts}

\* The page is opened with a token in its fragment, or with none.
Open(t, token) ==
    /\ Act
    /\ hash' = [hash EXCEPT ![t] = token]
    /\ app' = [app EXCEPT ![t] = "loading"]
    /\ posts' = Left(t)
    /\ given' = IF token # None /\ token = serverToken THEN given \cup {t} ELSE given \ {t}
    /\ UNCHANGED <<setting, secure, serverToken, cookie>>

\* The page is loaded again, by the browser or from the fallback of AppErrorBoundary.
Reload(t) ==
    /\ Act
    /\ app[t] # "closed"
    /\ app' = [app EXCEPT ![t] = "loading"]
    /\ posts' = Left(t)
    /\ UNCHANGED <<setting, secure, serverToken, cookie, hash, given>>

\* The fragment is edited: nothing is loaded, no effect runs again.
HashChange(t, token) ==
    /\ Act
    /\ app[t] # "closed" /\ token # hash[t]
    /\ hash' = [hash EXCEPT ![t] = token]
    /\ given' = given \ {t}
    /\ UNCHANGED <<setting, secure, serverToken, cookie, app, posts>>

\* mountApp: the application's code cannot be loaded (or AppErrorBoundary catches what
\* its first render throws).
MountFails(t) ==
    /\ Act
    /\ app[t] = "loading"
    /\ app' = [app EXCEPT ![t] = "failed"]
    /\ UNCHANGED <<setting, secure, serverToken, cookie, hash, posts, given>>

\* A component throws while it renders: AppErrorBoundary replaces the application, and
\* the cleanup of the effect deactivates the calls under way.
RenderFails(t) ==
    /\ Act
    /\ app[t] = "ready"
    /\ app' = [app EXCEPT ![t] = "failed"]
    /\ posts' = {IF p.tab = t /\ p.owner = "active" THEN [p EXCEPT !.owner = "inactive"] ELSE p :
                    p \in posts}
    /\ UNCHANGED <<setting, secure, serverToken, cookie, hash, given>>

\* The effect of TerminalApp calls bootstrapBrowserAuth; with strict effects it runs
\* twice, and the first call is inactive from the start.  (A rejected or settled call
\* answers at once, before anything else of the tab happens.)
Effect(t, owners) ==
    /\ app[t] = "loading"
    /\ IF hash[t] = None
       THEN app' = [app EXCEPT ![t] = "ready"] /\ posts' = posts
       ELSE IF ~Endpoints(setting, secure).ok
       THEN app' = [app EXCEPT ![t] = "error"] /\ posts' = posts
       ELSE /\ app' = [app EXCEPT ![t] = "pending"]
            /\ posts' = posts \cup
                  {[tab |-> t, token |-> hash[t], owner |-> o, phase |-> "sent"] : o \in owners}
    /\ UNCHANGED <<setting, secure, serverToken, cookie, hash, acts, given>>

-----------------------------------------------------------------------------
(* The exchange of the token.                                              *)

\* handleAuthBootstrap.
Serve(p) ==
    /\ SameOrigin
    /\ p.phase = "sent"
    /\ posts' = (posts \ {p}) \cup
          {[p EXCEPT !.phase = IF serverToken = None THEN "open"
                               ELSE IF p.token = serverToken THEN "granted" ELSE "denied"]}
    /\ UNCHANGED <<setting, secure, serverToken, cookie, hash, app, acts, given>>

\* What the effect does with the outcome of its call.
Outcome(p, status) == IF p.owner = "active" THEN [app EXCEPT ![p.tab] = status] ELSE app

\* The browser has the answer: it keeps the cookie, and bootstrapBrowserAuth takes
\* the token out of the fragment if the answer is a success.
Arrive(p) ==
    /\ p.phase # "sent"
    /\ posts' = posts \ {p}
    /\ cookie' = IF p.phase = "granted" THEN p.token ELSE cookie
    /\ hash' = IF p.phase # "denied" /\ p.owner # "gone" THEN [hash EXCEPT ![p.tab] = None]
               ELSE hash
    /\ app' = Outcome(p, IF p.phase = "denied" THEN "error" ELSE "ready")
    /\ UNCHANGED <<setting, secure, serverToken, acts, given>>

\* No answer: the network fails, a preflight is refused, a proxy knows no such path.
\* (Mutant: the token is taken out whatever the outcome.)
FailsStripping(p) ==
    /\ Act
    /\ posts' = posts \ {p}
    /\ hash' = IF p.owner # "gone" THEN [hash EXCEPT ![p.tab] = None] ELSE hash
    /\ app' = Outcome(p, "error")
    /\ UNCHANGED <<setting, secure, serverToken, cookie, given>>

Fails(p) ==
    /\ Act
    /\ posts' = posts \ {p}
    /\ app' = Outcome(p, "error")
    /\ UNCHANGED <<setting, secure, serverToken, cookie, hash, given>>

\* The server is restarted, perhaps with another token; the requests it has are lost.
Restart(token) ==
    /\ Act
    /\ serverToken' = token
    /\ posts' = {}
    /\ app' = [t \in Tab |-> IF \E p \in posts : p.tab = t /\ p.owner = "active" THEN "error"
                             ELSE app[t]]
    /\ given' = IF token = serverToken THEN given ELSE {}
    /\ UNCHANGED <<setting, secure, cookie, hash>>

Next ==
    \/ \E t \in Tab, token \in Token \cup {None} : Open(t, token) \/ HashChange(t, token)
    \/ \E t \in Tab : Reload(t) \/ MountFails(t) \/ RenderFails(t)
    \/ \E t \in Tab, owners \in {{"active"}, {"active", "inactive"}} : Effect(t, owners)
    \/ \E p \in posts : Serve(p) \/ Arrive(p) \/ Fails(p)
    \/ \E token \in Token \cup {None} : Restart(token)

Spec == Init /\ [][Next]_vars

-----------------------------------------------------------------------------
(* Properties.                                                             *)

\* The server lets a request of the page in (isAuthorizedRequest).
Admitted == serverToken = None \/ cookie = serverToken

\* The token in an address is not lost: whatever fails, of the network, the server or
\* the application, and whatever other tabs do with the cookie, a tab opened with the
\* server's token still has it in its fragment unless the cookie lets the tab in; the
\* terminal is shown only when it does; and a tab that says it is establishing the
\* authentication has an active call under way that will end that
\* (auth-bootstrap.ts:98-104, TerminalApp.tsx:169-197).
AccessKept ==
    /\ \A t \in given : (hash[t] = serverToken /\ app[t] # "ready") \/ Admitted
    /\ \A t \in Tab : app[t] = "pending" => \E p \in posts : p.tab = t /\ p.owner = "active"

\* Socket, sessions and authentication are looked for at one backend: at one host, with
\* or without TLS alike, below one base path; and a setting that names the sessions or the
\* terminal route of that backend over http, with a trailing slash or none, leads to the
\* same endpoints.  An address of a socket that does not end with the terminal route
\* names no base path (backend-endpoint-resolver.ts:47-55).
EndpointsAgree ==
    LET found  == Endpoints(setting, secure)
        Http(url, slash) ==
            [kind |-> IF url.tls THEN "https" ELSE "http", host |-> url.host,
             path |-> IF slash THEN Append(url.path, "") ELSE url.path]
    IN  found.ok =>
          LET auth == AuthUrl(found.sessions)
              named == setting.kind \notin {"ws", "wss"} \/ IsSuffix(TerminalRoute, setting.path)
              base == IF named THEN Base(found.socket.path, TerminalRoute) ELSE <<>>
          IN  /\ found.sessions = Url(found.socket.tls, found.socket.host, base \o SessionsRoute)
              /\ auth = Url(found.socket.tls, found.socket.host, base \o AuthRoute)
              /\ named => /\ found.socket.path = base \o TerminalRoute
                          /\ \A slash \in BOOLEAN, url \in {found.socket, found.sessions} :
                                Endpoints(Http(url, slash), secure) = found
=============================================================================
