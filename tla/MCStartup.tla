----------------------------- MODULE MCStartup ------------------------------
(* Model checking of Startup: tabs are interchangeable, and so are tokens.   *)
EXTENDS Startup, TLC

Symmetry == Permutations(Tab) \cup Permutations(Token)

\* Each route, no route, and a route followed by something else; below a base path or
\* not; with a trailing slash or not; on the page's host or another one.
At(kind, host, paths) == {[kind |-> kind, host |-> host, path |-> p] : p \in paths}

Addresses ==
    At("ws", "page", {<<"x">> \o TerminalRoute, TerminalRoute \o <<"">>})
    \cup At("https", "page", {<<"">>, <<"x">> \o SessionsRoute \o <<"">>})
    \cup At("http", "other", {<<"x">>})
    \cup At("relative", "page", {<<"x", "">>, TerminalRoute \o <<"x">>})
    \cup At("none", "page", {<<>>}) \cup At("broken", "page", {<<>>})
=============================================================================
