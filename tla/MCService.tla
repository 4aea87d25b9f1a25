------------------------------ MODULE MCService ------------------------------
(* One process with two tools, the stock tool that probes and one that runs   *)
(* in a thread, and two calls.                                                *)
EXTENDS Service

CONSTANTS stock, calc, unknown, c1, c2

TwoTools    == <<calc, stock>>
ToolsOpen   == {calc, stock}
\* Two calls compete for the worker thread; a call awaits while one is refused;
\* one carries no valid name.
Assignments == {(c1 :> calc) @@ (c2 :> calc),
                (c1 :> stock) @@ (c2 :> NoName),
                (c1 :> unknown) @@ (c2 :> NoName)}
=============================================================================
