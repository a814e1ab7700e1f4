------------------------------ MODULE CdpTargets ------------------------------
(***************************************************************************)
(* The CDP server: connections and their limit (cdp/server.rs), the main   *)
(* session of each connection and its end (cdp/session.rs), child targets  *)
(* with their registry (cdp/domains/mod.rs, cdp/domains/target.rs) and the *)
(* routing of commands by sessionId (dispatch_command).  Every command     *)
(* runs in a task of its own, concurrently with the others and with the    *)
(* end of its connection.  The sessions come from SessionPool.             *)
(*                                                                         *)
(* The sessionId that createTarget announces is identified with the child  *)
(* session; "alias" is the one attachToTarget returns for a target.        *)
(***************************************************************************)
EXTENDS SessionPool

CONSTANTS Conns,     \* TCP connections; none is used twice
          Tasks,     \* slots for dispatched commands
          MaxConns,  \* MAX_CONCURRENT_CONNECTIONS
          Verbs,     \* the commands the clients use
          None       \* no session

ASSUME ConnsAssumption == Openers = Conns \cup Tasks
ASSUME NoneAssumption == None \notin Sessions

VARIABLES counted,     \* the connections connection_count counts
          stage,       \* where each connection stands: see Stages
          main,        \* CdpSession.session
          registered,  \* TargetRegistry.by_session of each connection
          tomb,        \* TargetRegistry.closed
          issued,      \* targets whose ids the client has been told
          aliases,     \* targets for which attachToTarget has issued a sessionId
          task         \* dispatched commands

targetVars == <<registered, tomb, issued, aliases>>
vars == <<poolVars, counted, stage, main, targetVars, task>>

\* "dropped" is a run loop left by its early return, "gone" one left by its end.
Stages == {"off", "http", "upgraded", "live", "closing", "cleaning", "dropped", "gone"}

Sids == [kind : {"main"}, of : {None}] \cup [kind : {"own", "alias"}, of : Sessions]
MainSid == [kind |-> "main", of |-> None]

Task(c, verb, at, sid, s) == [conn |-> c, verb |-> verb, at |-> at, sid |-> sid, on |-> s]
Free == Task(None, "none", "free", MainSid, None)

At(t, step) == task[t].at = step
Goes(t, step, s) == task' = [task EXCEPT ![t] = [@ EXCEPT !.at = step, !.on = s]]
Done(t) == task' = [task EXCEPT ![t] = Free]
StageTo(c, st) == stage' = [stage EXCEPT ![c] = st]

-----------------------------------------------------------------------------
Init ==
    /\ PoolInit
    /\ counted = {}
    /\ stage = [c \in Conns |-> "off"]
    /\ main = [c \in Conns |-> None]
    /\ registered = [c \in Conns |-> {}] /\ tomb = [c \in Conns |-> {}]
    /\ issued = [c \in Conns |-> {}] /\ aliases = [c \in Conns |-> {}]
    /\ task = [t \in Tasks |-> Free]

(* Connections *)

\* The accept loop; one connection too many is dropped at once.
Accept(c) ==
    /\ stage[c] = "off" /\ Cardinality(counted) < MaxConns
    /\ counted' = counted \cup {c}
    /\ StageTo(c, "http")
    /\ UNCHANGED <<poolVars, main, targetVars, task>>

\* Variant: the counter is decremented for upgrades only.
HttpEndsCounted(c) ==
    /\ stage[c] = "http"
    /\ StageTo(c, "gone")
    /\ UNCHANGED <<poolVars, counted, main, targetVars, task>>

\* A plain HTTP request has been answered, or serving it has failed.
HttpEnds(c) ==
    /\ stage[c] = "http"
    /\ counted' = counted \ {c}
    /\ StageTo(c, "gone")
    /\ UNCHANGED <<poolVars, main, targetVars, task>>

\* /ws: with the upgrade hyper's connection future completes, and the connection is
\* no longer counted; the WebSocket goes on in its own task.
Upgrade(c) ==
    /\ stage[c] = "http"
    /\ counted' = counted \ {c}
    /\ StageTo(c, "upgraded")
    /\ UNCHANGED <<poolVars, main, targetVars, task>>

\* CdpSession::new.
Connect(c) ==
    /\ stage[c] = "upgraded" /\ Admit(c, "session")
    /\ UNCHANGED <<counted, stage, main, targetVars, task>>

ConnectRefused(c) ==
    /\ stage[c] = "upgraded" /\ opening[c] = "no" /\ ~Admits
    /\ StageTo(c, "gone")
    /\ UNCHANGED <<poolVars, counted, main, targetVars, task>>

Connected(c, s) ==
    /\ stage[c] = "upgraded" /\ PushSession(c, s)
    /\ main' = [main EXCEPT ![c] = s]
    /\ StageTo(c, "live")
    /\ UNCHANGED <<counted, targetVars, task>>

\* A close frame, a read error, the end of the stream or a failed send.
Ends(c) ==
    /\ stage[c] = "live"
    /\ StageTo(c, "closing")
    /\ UNCHANGED <<poolVars, counted, main, targetVars, task>>

\* A ping whose pong cannot be sent leaves run() by the question mark.
PongFails(c) ==
    /\ stage[c] = "live" /\ "ping" \in Verbs
    /\ StageTo(c, "dropped")
    /\ UNCHANGED <<poolVars, counted, main, targetVars, task>>

\* The end of run(): the main session is closed under its lock ...
CloseMain(c) ==
    /\ stage[c] = "closing" /\ CloseSession(main[c])
    /\ StageTo(c, "cleaning")
    /\ UNCHANGED <<counted, main, targetVars, task>>

\* ... and the closed sessions are reclaimed.
CleanUp(c) ==
    /\ stage[c] = "cleaning" /\ Cleanup
    /\ StageTo(c, "gone")
    /\ UNCHANGED <<counted, main, targetVars, task>>

(* Commands *)

Dispatch(t, c, verb, at, sid) ==
    /\ stage[c] = "live" /\ At(t, "free") /\ verb \in Verbs
    /\ task' = [task EXCEPT ![t] = Task(c, verb, at, sid, None)]
    /\ UNCHANGED <<poolVars, counted, stage, main, targetVars>>

\* A command for the page: one that changes it, such as evaluate and navigate ("run"),
\* or one that only reads it, such as getFrameTree ("read").
Run(t, c, verb, sid) ==
    /\ verb \in {"run", "read"}
    /\ CASE sid.kind = "own" -> sid.of \in issued[c]
         [] sid.kind = "alias" -> sid.of \in aliases[c]
         [] OTHER -> TRUE
    /\ Dispatch(t, c, verb, "route", sid)

\* dispatch_command: the registry is asked for the sessionId ...
Route(t) ==
    LET c == task[t].conn
        sid == task[t].sid
    IN
    /\ At(t, "route")
    /\ IF sid.kind = "main" THEN Goes(t, "enter", main[c])
       ELSE IF sid.kind = "own" /\ sid.of \in registered[c] THEN Goes(t, "enter", sid.of)
       ELSE Goes(t, "missed", None)
    /\ UNCHANGED <<poolVars, counted, stage, main, targetVars>>

\* Variant: no tombstone is looked for.
MissedUnchecked(t) ==
    /\ At(t, "missed")
    /\ Goes(t, "enter", main[task[t].conn])
    /\ UNCHANGED <<poolVars, counted, stage, main, targetVars>>

\* ... then for a tombstone; an unknown sessionId means the default session.
Missed(t) ==
    LET c == task[t].conn
        sid == task[t].sid
    IN
    /\ At(t, "missed")
    /\ IF sid.kind = "own" /\ sid.of \in tomb[c] THEN Done(t) ELSE Goes(t, "enter", main[c])
    /\ UNCHANGED <<poolVars, counted, stage, main, targetVars>>

Reads(t) == task[t].verb = "read"

\* The handler holds the session it was routed to, alone or with other readers.
Enter(t) ==
    /\ At(t, "enter")
    /\ IF Reads(t) THEN Share(task[t].on) ELSE Lock(task[t].on)
    /\ Goes(t, "running", task[t].on)
    /\ UNCHANGED <<counted, stage, main, targetVars>>

\* Another command reads the session as well.
ReadByAnother(t) ==
    \E u \in Tasks \ {t} : At(u, "running") /\ Reads(u) /\ task[u].on = task[t].on

\* Variant: the handler never gives the session back.
LeaveHolding(t) ==
    /\ At(t, "running")
    /\ Done(t)
    /\ UNCHANGED <<poolVars, counted, stage, main, targetVars>>

Leave(t) ==
    /\ At(t, "running")
    /\ IF ~Reads(t) THEN Unlock(task[t].on)
       ELSE IF ReadByAnother(t) THEN UNCHANGED poolVars
       ELSE Unshare(task[t].on)
    /\ Done(t)
    /\ UNCHANGED <<counted, stage, main, targetVars>>

\* Target.createTarget.
Create(t, c) == Dispatch(t, c, "create", "check", MainSid)

CreateAdmitted(t) ==
    /\ At(t, "check") /\ Admit(t, "session")
    /\ Goes(t, "push", None)
    /\ UNCHANGED <<counted, stage, main, targetVars>>

CreateRefused(t) ==
    /\ At(t, "check") /\ ~Admits
    /\ Done(t)
    /\ UNCHANGED <<poolVars, counted, stage, main, targetVars>>

Created(t, s) ==
    /\ At(t, "push") /\ PushSession(t, s)
    /\ Goes(t, "register", s)
    /\ UNCHANGED <<counted, stage, main, targetVars>>

\* The registry entry, then the two events.
Register(t) ==
    LET c == task[t].conn IN
    /\ At(t, "register")
    /\ registered' = [registered EXCEPT ![c] = @ \cup {task[t].on}]
    /\ issued' = [issued EXCEPT ![c] = @ \cup {task[t].on}]
    /\ Done(t)
    /\ UNCHANGED <<poolVars, counted, stage, main, tomb, aliases>>

\* Target.closeTarget.
Close(t, c, s) ==
    s \in issued[c] /\ Dispatch(t, c, "close", "find", [kind |-> "own", of |-> s])

\* Variant: the entry leaves the registry only after the session is closed.
FindKeepingEntry(t) ==
    LET c == task[t].conn
        s == task[t].sid.of
    IN
    /\ At(t, "find")
    /\ IF s \in registered[c]
       THEN /\ tomb' = [tomb EXCEPT ![c] = @ \cup {s}]
            /\ Goes(t, "shut", s)
       ELSE Done(t) /\ UNCHANGED tomb
    /\ UNCHANGED <<poolVars, counted, stage, main, registered, issued, aliases>>

\* close_by_target: tombstone and removal under the registry's write lock.
Find(t) ==
    LET c == task[t].conn
        s == task[t].sid.of
    IN
    /\ At(t, "find")
    /\ IF s \in registered[c]
       THEN /\ tomb' = [tomb EXCEPT ![c] = @ \cup {s}]
            /\ registered' = [registered EXCEPT ![c] = @ \ {s}]
            /\ Goes(t, "shut", s)
       ELSE Done(t) /\ UNCHANGED <<tomb, registered>>
    /\ UNCHANGED <<poolVars, counted, stage, main, issued, aliases>>

\* The child session is closed under its lock; its slot is not reclaimed here.
Shut(t) ==
    /\ At(t, "shut") /\ CloseSession(task[t].on)
    /\ Done(t)
    /\ UNCHANGED <<counted, stage, main, targetVars>>

\* Target.detachFromTarget: the child session stays alive.
Detach(t, c, s) ==
    s \in issued[c] /\ Dispatch(t, c, "detach", "forget", [kind |-> "own", of |-> s])

Forget(t) ==
    /\ At(t, "forget")
    /\ registered' = [registered EXCEPT ![task[t].conn] = @ \ {task[t].sid.of}]
    /\ Done(t)
    /\ UNCHANGED <<poolVars, counted, stage, main, tomb, issued, aliases>>

\* Target.attachToTarget registers nothing.
Attach(t, c, s) ==
    /\ stage[c] = "live" /\ At(t, "free") /\ "attach" \in Verbs
    /\ s \in issued[c]
    /\ aliases' = [aliases EXCEPT ![c] = @ \cup {s}]
    /\ UNCHANGED <<poolVars, counted, stage, main, registered, tomb, issued, task>>

Works(t) ==
    \/ Route(t) \/ Missed(t) \/ Enter(t) \/ Leave(t)
    \/ CreateAdmitted(t) \/ CreateRefused(t) \/ (\E s \in Sessions : Created(t, s)) \/ Register(t)
    \/ Find(t) \/ Shut(t) \/ Forget(t)

Closes(c) == CloseMain(c) \/ CleanUp(c)

Next ==
    \/ \E c \in Conns :
          \/ Accept(c) \/ HttpEnds(c) \/ Upgrade(c) \/ Connect(c) \/ ConnectRefused(c)
          \/ Ends(c) \/ PongFails(c) \/ Closes(c)
          \/ \E s \in Sessions : Connected(c, s)
    \/ \E t \in Tasks, c \in Conns :
          \/ \E sid \in Sids, verb \in Verbs : Run(t, c, verb, sid)
          \/ Create(t, c)
          \/ \E s \in Sessions : Close(t, c, s) \/ Detach(t, c, s) \/ Attach(t, c, s)
    \/ \E t \in Tasks : Works(t)

Spec == Init /\ [][Next]_vars

\* A task that was spawned is polled to its end; a blocked dialog resolves itself
\* after 30 seconds.  Clients need not send anything.
FairSpec ==
    /\ Spec
    /\ \A t \in Tasks : WF_vars(Works(t))
    /\ \A c \in Conns : WF_vars(Closes(c))
-----------------------------------------------------------------------------
(* Properties *)

TaskRecords ==
    [conn : Conns \cup {None}, verb : Verbs \cup {"none"},
     at : {"free", "route", "missed", "enter", "running", "check", "push", "register",
           "find", "shut", "forget"},
     sid : Sids, on : Sessions \cup {None}]

\* Type invariant; the counter counts the connections that hyper still serves.
TypeOK ==
    /\ PoolTypeOK
    /\ counted = {c \in Conns : stage[c] = "http"}
    /\ stage \in [Conns -> Stages]
    /\ main \in [Conns -> Sessions \cup {None}]
    /\ \A f \in {registered, tomb, issued, aliases} : f \in [Conns -> SUBSET Sessions]
    /\ task \in [Tasks -> TaskRecords]

\* A target that no command reaches by its own sessionId although it lives on.
Detached(c, s) == s \in issued[c] \ (registered[c] \cup tomb[c]) /\ session[s] = "open"

\* A command with the sessionId that createTarget issued for a child works on that
\* child, however routing, closing and detaching interleave; it works on the default
\* session only after the client has detached the child, which is then still open, and
\* never in the place of a child that closeTarget has closed (dispatch_command,
\* is_closed).  The ids of attachToTarget are not covered: see ClosedTargetsFail.
NoFallback ==
    \A t \in Tasks :
        (At(t, "enter") \/ At(t, "running")) /\ task[t].sid.kind = "own" =>
            \/ task[t].on = task[t].sid.of
            \/ task[t].on = main[task[t].conn] /\ Detached(task[t].conn, task[t].sid.of)

\* What the registry hands out is alive: an entry is gone before its session is
\* closed (close_target), whatever happens to the connection.
RegisteredAreOpen ==
    \A c \in Conns : \A s \in registered[c] : session[s] = "open" /\ s \in pool

\* Every open session is somebody's: the main session of a connection that has not
\* closed it, a child in the hands of a task, or a target that createTarget announced
\* and closeTarget has not closed.  A closed target never lives on.
OpenSessionsAreKnown ==
    \A s \in pool :
        session[s] = "open" =>
            \/ \E c \in Conns : main[c] = s /\ stage[c] \in {"live", "closing", "dropped"}
            \/ \E t \in Tasks : task[t].on = s
            \/ \E c \in Conns : s \in issued[c] \ tomb[c]

\* The registry of a connection and the sessions of the browser agree, however
\* createTarget, closeTarget and the end of the connection interleave.
RegistryMatchesSessions == RegisteredAreOpen /\ OpenSessionsAreKnown

\* A connection that ends closes its main session, whatever commands are still
\* running on it (the end of run).
EndedConnectionsClose ==
    \A c \in Conns : stage[c] = "closing" ~> main[c] # None /\ session[main[c]] = "closed"

\* At the end of a connection its slot is free (session.rs: "Free the session slot so
\* new connections are not rejected when max_sessions is reached").
MainSlotFreed == \A c \in Conns : stage[c] \in {"gone", "dropped"} => main[c] \notin pool

Quiet ==
    /\ \A t \in Tasks : At(t, "free")
    /\ \A c \in Conns : stage[c] \notin {"upgraded", "closing", "cleaning"}

\* The limit is one on concurrent sessions (config.rs): while nothing is under way, a
\* request is refused only if that many sessions are open.
RefusedOnlyWhenInUse ==
    Quiet /\ ~Admits => Cardinality({s \in pool : session[s] = "open"}) >= MaxSessions

\* When every client has disconnected there is room for a new one (browser.rs,
\* cleanup_closed_sessions: "so that the session slot is freed for new connections").
RoomWhenNobodyIsConnected ==
    Quiet /\ (\A c \in Conns : stage[c] \in {"off", "gone"}) => Admits

\* Commands for a closed target fail (domains/mod.rs), whichever of its sessionIds
\* they carry.
ClosedTargetsFail ==
    [][\A t \in Tasks :
          At(t, "missed") /\ session[task[t].sid.of] = "closed" => ~At(t, "enter")']_vars

\* No more than MAX_CONCURRENT_CONNECTIONS concurrent connections (server.rs).
ConnectionsBounded ==
    Cardinality({c \in Conns : stage[c] = "live"}) <= MaxConns
=============================================================================
