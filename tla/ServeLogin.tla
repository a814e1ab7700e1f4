------------------------------ MODULE ServeLogin ------------------------------
(***************************************************************************)
(* "account login --json" (oxibrowser/account_cli.rs): the command opens a *)
(* login window, starts a CDP server for the host, tells the host where to *)
(* connect, waits for the window to end and stops the server.  The serve   *)
(* command (main.rs) starts its server in the same way.                    *)
(***************************************************************************)

VARIABLES main,    \* the command: "begin", "starting", "waiting", "stopping", "done"
          server,  \* CdpServer::start: "unbound", "accepting", "leaving", "returned", "failed"
          window   \* the login window: "none", "open", "closed"

vars == <<main, server, window>>

Init == main = "begin" /\ server = "unbound" /\ window = "none"

\* LoginSurface::begin_login, then CdpServer::start is awaited.
BeginLogin ==
    /\ main = "begin"
    /\ main' = "starting" /\ window' = "open"
    /\ UNCHANGED server

\* start binds and enters its accept loop, or cannot bind.
Bind ==
    /\ main = "starting" /\ server = "unbound"
    /\ server' \in {"accepting", "failed"}
    /\ UNCHANGED <<main, window>>

\* The accept loop is left when shutdown is signalled, and start returns the address.
StartReturns ==
    /\ server = "leaving"
    /\ server' = "returned"
    /\ UNCHANGED <<main, window>>

\* The connection block is printed once the address is known.
Announce ==
    /\ main = "starting" /\ server = "returned"
    /\ main' = "waiting"
    /\ UNCHANGED <<server, window>>

StartFailed ==
    /\ main = "starting" /\ server = "failed"
    /\ main' = "done" /\ window' = "closed"
    /\ UNCHANGED server

\* The host, which has read the block, ends the window, or the timer does.
WindowEnds ==
    /\ window = "open" /\ main \in {"starting", "waiting"}
    /\ window' = "closed"
    /\ UNCHANGED <<main, server>>

\* orch.wait returns; then shutdown, and Browser::close.
Shutdown ==
    /\ main = "waiting" /\ window = "closed"
    /\ main' = "stopping"
    /\ server' = IF server = "accepting" THEN "leaving" ELSE server
    /\ UNCHANGED window

CloseBrowser == main = "stopping" /\ main' = "done" /\ UNCHANGED <<server, window>>

Next ==
    BeginLogin \/ Bind \/ StartReturns \/ Announce \/ StartFailed \/ WindowEnds
        \/ Shutdown \/ CloseBrowser

\* Every step is the runtime's own; the window ends by its timer.
FairSpec == Init /\ [][Next]_vars /\ WF_vars(Next)

\* The host hears where to connect, unless the server cannot be started.
HostIsTold == main = "starting" ~> main = "waiting" \/ server = "failed"
=============================================================================
