------------------------------ MODULE FetchBridge ------------------------------
(***************************************************************************)
(* Requests of the pages, from the script or the command that issues them  *)
(* to the answer it hears: the table of pending fetches of a JavaScript    *)
(* thread (core/js/runtime.rs, PENDING_FETCH), the bridge that performs    *)
(* them (core/session.rs, handle_fetch_requests), the interception that    *)
(* pauses them (core/network/intercept.rs, cdp/domains/fetch.rs), and the  *)
(* counter that NetworkIdle reads (in_flight).                             *)
(*                                                                         *)
(* The patterns that pause a script's request are one table of the         *)
(* process; those that pause a navigation belong to the connection.  Every *)
(* pattern here matches every URL.  A request is named by its id, which is *)
(* a fresh one everywhere; the network answers every request it is given,  *)
(* if only by an error, in its own time.                                   *)
(***************************************************************************)
EXTENDS Naturals, Sequences, FiniteSets

CONSTANTS Conns,      \* CDP connections
          Sessions,   \* sessions, each with a JavaScript thread and a bridge
          Owner,      \* the connection a session's events go to
          Frames,     \* execution contexts of a page
          Requests,   \* request ids
          MaxSheets,  \* bound: stylesheets fetched in a behaviour
          None        \* no frame, no request, no decision

Decisions == {"continue", "fail", "fulfill"}
Kinds == {"fetch", "xhr", "nav"}
Origins == [session : Sessions, kind : Kinds, frame : Frames \cup {None}]

ASSUME OwnerAssumption == Owner \in [Sessions -> Conns]
ASSUME RequestsAssumption == IsFiniteSet(Requests)
ASSUME NoneAssumption == None \notin Frames \cup Requests \cup Decisions \cup Origins

VARIABLES connected,  \* connections that are up
          enabled,    \* connections with Fetch enabled: their own patterns
          patterns,   \* FETCH_PATTERNS: whether scripts' requests are paused
          at,         \* where each request is
          from,       \* who issued it: see Origins
          registry,   \* PausedRequestRegistry
          announced,  \* requests a Fetch.requestPaused has been sent for
          decision,   \* what the client decided of a request, or None
          pending,    \* PENDING_FETCH
          aborted,    \* requests whose AbortSignal has fired
          blocked,    \* the synchronous XHR each JavaScript thread waits for, or None
          reply,      \* what each response message carries, or None
          inFlight,   \* Session.in_flight
          sheets,     \* history: stylesheets fetched by each session
          wire,       \* history: requests the network was given
          heard       \* history: what the page was told of each request, and where

client == <<connected, enabled, patterns>>
page == <<pending, aborted, blocked>>
history == <<sheets, wire, heard>>
vars == <<client, at, from, registry, announced, decision, page, reply, inFlight, history>>

Replies == {"network", "offline", "failed", "fulfilled"}
Stages == {"none", "queued", "task", "paused", "decided", "sent", "replied", "deferred",
           "loading", "sheet", "over"}

Init ==
    /\ connected = Conns /\ enabled = {} /\ patterns = FALSE
    /\ at = [r \in Requests |-> "none"] /\ from = [r \in Requests |-> None]
    /\ registry = {} /\ announced = {}
    /\ decision = [r \in Requests |-> None]
    /\ pending = {} /\ aborted = {} /\ blocked = [s \in Sessions |-> None]
    /\ reply = [r \in Requests |-> None]
    /\ inFlight = [s \in Sessions |-> 0]
    /\ sheets = [s \in Sessions |-> 0] /\ wire = {}
    /\ heard = [r \in Requests |-> <<>>]

Reach(r, stage) == at' = [at EXCEPT ![r] = stage]
Is(r, kinds) == from[r] # None /\ from[r].kind \in kinds
Script == {"fetch", "xhr"}
Of(s, r) == from[r] # None /\ from[r].session = s
InFlight(s, n) == inFlight' = [inFlight EXCEPT ![s] = @ + n]
Ends(s) == inFlight' = [inFlight EXCEPT ![s] = @ - 1]
-----------------------------------------------------------------------------
(* The client *)

\* Fetch.enable, with or without patterns, sets the connection's own patterns and
\* those of the process; Fetch.disable clears both.
Enable(c, withPatterns) ==
    /\ c \in connected
    /\ enabled' = IF withPatterns THEN enabled \cup {c} ELSE enabled \ {c}
    /\ patterns' = withPatterns
    /\ UNCHANGED <<connected, at, from, registry, announced, decision, page, reply, inFlight, history>>

\* The connection ends; what it has paused stays paused.
Disconnect(c) ==
    /\ c \in connected
    /\ connected' = connected \ {c}
    /\ UNCHANGED <<enabled, patterns, at, from, registry, announced, decision, page, reply,
                   inFlight, history>>

\* The event of a paused request is drained to the connection of its session, which
\* sends it when its Fetch domain is enabled.
Announce(r) ==
    LET c == Owner[from[r].session] IN
    /\ r \in registry \ announced
    /\ c \in connected \cap enabled
    /\ announced' = announced \cup {r}
    /\ UNCHANGED <<client, at, from, registry, decision, page, reply, inFlight, history>>

\* Variant: the entry is read, not taken, and a second decision replaces the first.
DecideAgain(r, d) ==
    /\ r \in registry \cap announced /\ Owner[from[r].session] \in connected
    /\ decision' = [decision EXCEPT ![r] = d]
    /\ at' = IF at[r] = "paused" THEN [at EXCEPT ![r] = "decided"] ELSE at
    /\ UNCHANGED <<client, from, registry, announced, page, reply, inFlight, history>>

\* continueRequest, continueResponse, failRequest and fulfillRequest take the entry
\* and send the decision to whoever waits for it.
Decide(r, d) ==
    /\ r \in registry \cap announced /\ Owner[from[r].session] \in connected
    /\ registry' = registry \ {r}
    /\ decision' = [decision EXCEPT ![r] = d]
    /\ Reach(r, "decided")
    /\ UNCHANGED <<client, from, announced, page, reply, inFlight, history>>
-----------------------------------------------------------------------------
(* Requests of scripts *)

\* fetch() and XMLHttpRequest.send(): the request goes to the bridge and its promise
\* or XHR into the table; a synchronous XHR keeps the thread.
Issue(r, s, f, kind, sync) ==
    /\ at[r] = "none" /\ blocked[s] = None
    /\ sync => kind = "xhr"
    /\ from' = [from EXCEPT ![r] = [session |-> s, kind |-> kind, frame |-> f]]
    /\ Reach(r, "queued")
    /\ pending' = pending \cup {r}
    /\ blocked' = IF sync THEN [blocked EXCEPT ![s] = r] ELSE blocked
    /\ UNCHANGED <<client, registry, announced, decision, aborted, reply, inFlight, history>>

\* The script that issued a fetch aborts it.
Abort(r) ==
    /\ r \in pending \ aborted /\ Is(r, {"fetch"}) /\ blocked[from[r].session] = None
    /\ aborted' = aborted \cup {r}
    /\ UNCHANGED <<client, at, from, registry, announced, decision, pending, blocked, reply,
                   inFlight, history>>

\* The bridge receives the request, counts it and spawns its task.
Take(r) ==
    /\ at[r] = "queued"
    /\ Reach(r, "task")
    /\ InFlight(from[r].session, 1)
    /\ UNCHANGED <<client, from, registry, announced, decision, page, reply, history>>

\* The task sends a response to the JavaScript thread and is counted off.
Respond(r, what) ==
    /\ Reach(r, "replied")
    /\ reply' = [reply EXCEPT ![r] = what]
    /\ Ends(from[r].session)

\* maybe_intercept: the request is answered at once (offline, or no URL), paused, or
\* performed.
Intercept(r) ==
    /\ at[r] = "task"
    /\ \/ /\ Respond(r, "offline")
          /\ UNCHANGED <<registry, wire>>
       \/ /\ patterns
          /\ registry' = registry \cup {r}
          /\ Reach(r, "paused")
          /\ UNCHANGED <<reply, inFlight, wire>>
       \/ /\ ~patterns
          /\ wire' = wire \cup {r}
          /\ Reach(r, "sent")
          /\ UNCHANGED <<registry, reply, inFlight>>
    /\ UNCHANGED <<client, from, announced, decision, page, sheets, heard>>

\* Variant: the early return of an answered request forgets the counter.
ObeyUncounted(r) ==
    /\ at[r] = "decided" /\ Is(r, Script)
    /\ IF decision[r] = "continue"
       THEN wire' = wire \cup {r} /\ Reach(r, "sent") /\ UNCHANGED reply
       ELSE /\ Reach(r, "replied")
            /\ reply' = [reply EXCEPT ![r] = IF decision[r] = "fail" THEN "failed" ELSE "fulfilled"]
            /\ UNCHANGED wire
    /\ UNCHANGED <<client, from, registry, announced, decision, page, inFlight, sheets, heard>>

\* The task goes on with the decision: it performs the request, or answers it.
Obey(r) ==
    /\ at[r] = "decided" /\ Is(r, Script)
    /\ IF decision[r] = "continue"
       THEN wire' = wire \cup {r} /\ Reach(r, "sent") /\ UNCHANGED <<reply, inFlight>>
       ELSE /\ Respond(r, IF decision[r] = "fail" THEN "failed" ELSE "fulfilled")
            /\ UNCHANGED wire
    /\ UNCHANGED <<client, from, registry, announced, decision, page, sheets, heard>>

\* The network has answered, or failed to.
Answered(r) ==
    /\ at[r] = "sent"
    /\ Respond(r, "network")
    /\ UNCHANGED <<client, from, registry, announced, decision, page, history>>

\* Variant: a response is settled in whatever frame is being pumped.
PumpAnyFrame(s, f) ==
    LET given == {r \in pending : Of(s, r) /\ from[r].frame = f /\ r \in aborted}
        came == {r \in Requests : Of(s, r) /\ at[r] \in {"replied", "deferred"}}
        mine == came \cap (pending \ given)
    IN
    /\ blocked[s] = None \/ (blocked[s] \in mine /\ from[blocked[s]].frame = f)
    /\ given \cup came # {}
    /\ blocked' = [blocked EXCEPT ![s] = None]
    /\ pending' = pending \ (given \cup mine)
    /\ at' = [r \in Requests |-> IF r \in came THEN "over" ELSE at[r]]
    /\ heard' = [r \in Requests |->
                    IF r \in given THEN Append(heard[r], <<f, "aborted">>)
                    ELSE IF r \in mine THEN Append(heard[r], <<f, reply[r]>>) ELSE heard[r]]
    /\ UNCHANGED <<client, from, registry, announced, decision, aborted, reply, inFlight,
                   sheets, wire>>

\* drain_pending_fetch_responses while frame f is the active one: its aborted fetches
\* are rejected, its responses settled, those of other frames put by, and those that
\* nobody waits for dropped.  The thread pumps whenever it runs scripts; one that
\* waits in wait_for_sync_xhr pumps when that response has come.
Pump(s, f) ==
    LET given == {r \in pending : Of(s, r) /\ from[r].frame = f /\ r \in aborted}
        came == {r \in Requests : Of(s, r) /\ at[r] \in {"replied", "deferred"}}
        mine == {r \in came \cap (pending \ given) : from[r].frame = f}
        later == came \cap (pending \ (given \cup mine))
    IN
    /\ blocked[s] = None \/ (blocked[s] \in mine /\ from[blocked[s]].frame = f)
    /\ given \cup came # {}
    /\ blocked' = [blocked EXCEPT ![s] = None]
    /\ pending' = pending \ (given \cup mine)
    /\ at' = [r \in Requests |-> IF r \notin came THEN at[r]
                                 ELSE IF r \in later THEN "deferred" ELSE "over"]
    /\ heard' = [r \in Requests |->
                    IF r \in given THEN Append(heard[r], <<f, "aborted">>)
                    ELSE IF r \in mine THEN Append(heard[r], <<f, reply[r]>>) ELSE heard[r]]
    /\ UNCHANGED <<client, from, registry, announced, decision, aborted, reply, inFlight,
                   sheets, wire>>
-----------------------------------------------------------------------------
(* Navigations of clients *)

\* Page.navigate pauses by the patterns of its own connection, before it takes the
\* session, and sends the event itself.
Navigate(r, s) ==
    LET c == Owner[s] IN
    /\ at[r] = "none" /\ c \in connected
    /\ from' = [from EXCEPT ![r] = [session |-> s, kind |-> "nav", frame |-> None]]
    /\ IF c \in enabled
       THEN /\ Reach(r, "paused")
            /\ registry' = registry \cup {r} /\ announced' = announced \cup {r}
       ELSE Reach(r, "decided") /\ UNCHANGED <<registry, announced>>
    /\ UNCHANGED <<client, decision, page, reply, inFlight, history>>

\* Nobody else has the session: no navigation loads, and no script waits.
SessionFree(s) ==
    /\ blocked[s] = None
    /\ \A r \in Requests : Of(s, r) /\ Is(r, {"nav"}) => at[r] \notin {"loading", "sheet"}

\* A decision to fail ends the command; otherwise it takes the session and loads the
\* URL, or the client's body as a data: URL, which asks nothing of the network.
Load(r) ==
    LET s == from[r].session IN
    /\ at[r] = "decided" /\ Is(r, {"nav"})
    /\ \/ decision[r] = "fail" /\ Reach(r, "over") /\ UNCHANGED <<inFlight, wire>>
       \/ /\ decision[r] = "fulfill" /\ SessionFree(s)
          /\ Reach(r, "loading") /\ UNCHANGED <<inFlight, wire>>
       \/ /\ decision[r] \in {"continue", None} /\ SessionFree(s)
          /\ \/ Reach(r, "over") /\ UNCHANGED <<inFlight, wire>>        \* ensure_online
             \/ Reach(r, "loading") /\ InFlight(s, 1) /\ wire' = wire \cup {r}
    /\ UNCHANGED <<client, from, registry, announced, decision, page, reply, sheets, heard>>

\* inline_external_stylesheets counts a stylesheet twice, in passing and by its guard ...
Stylesheet(r) ==
    LET s == from[r].session IN
    /\ at[r] = "loading" /\ sheets[s] < MaxSheets
    /\ Reach(r, "sheet")
    /\ InFlight(s, 2)
    /\ sheets' = [sheets EXCEPT ![s] = @ + 1]
    /\ UNCHANGED <<client, from, registry, announced, decision, page, reply, wire, heard>>

\* ... and the guard takes it off once.
StylesheetCame(r) ==
    /\ at[r] = "sheet"
    /\ Reach(r, "loading")
    /\ Ends(from[r].session)
    /\ UNCHANGED <<client, from, registry, announced, decision, page, reply, history>>

\* Session::navigate returns; the scripts it ran have ended.
Loaded(r) ==
    LET s == from[r].session IN
    /\ at[r] = "loading" /\ blocked[s] = None
    /\ Reach(r, "over")
    /\ IF decision[r] = "fulfill" THEN UNCHANGED inFlight ELSE Ends(s)
    /\ UNCHANGED <<client, from, registry, announced, decision, page, reply, history>>

Next ==
    \/ \E c \in Conns : Disconnect(c) \/ \E withPatterns \in BOOLEAN : Enable(c, withPatterns)
    \/ \E r \in Requests, d \in Decisions : Decide(r, d)
    \/ \E r \in Requests, s \in Sessions, f \in Frames, kind \in Script, sync \in BOOLEAN :
          Issue(r, s, f, kind, sync)
    \/ \E r \in Requests, s \in Sessions : Navigate(r, s)
    \/ \E s \in Sessions, f \in Frames : Pump(s, f)
    \/ \E r \in Requests :
          \/ Announce(r) \/ Abort(r) \/ Take(r) \/ Intercept(r) \/ Obey(r) \/ Answered(r)
          \/ Load(r) \/ Stylesheet(r) \/ StylesheetCame(r) \/ Loaded(r)

Spec == Init /\ [][Next]_vars
-----------------------------------------------------------------------------
(* Properties *)

\* Type invariant; what is paused is in the registry and nowhere else, and a thread
\* that waits does so for a request that is still open.
TypeOK ==
    /\ connected \subseteq Conns /\ enabled \subseteq Conns /\ patterns \in BOOLEAN
    /\ at \in [Requests -> Stages]
    /\ from \in [Requests -> Origins \cup {None}]
    /\ announced \subseteq Requests
    /\ decision \in [Requests -> Decisions \cup {None}]
    /\ reply \in [Requests -> Replies \cup {None}]
    /\ inFlight \in [Sessions -> Nat]
    /\ registry = {r \in Requests : at[r] = "paused"}
    /\ \A s \in Sessions : blocked[s] # None => blocked[s] \in pending

\* The tasks of the bridge and the guards of Session that exist.
Work(s) ==
    {r \in Requests : Of(s, r) /\ IF Is(r, Script)
                                  THEN at[r] \in {"task", "paused", "decided", "sent"}
                                  ELSE at[r] \in {"loading", "sheet"} /\ decision[r] # "fulfill"}
Guards(s) == {r \in Requests : Of(s, r) /\ at[r] = "sheet"}

\* NetworkIdle is never reported while a request is being made, however requests,
\* decisions, aborts and navigations interleave; and the counter is too high by the
\* stylesheets fetched, no more (in_flight).
WorkIsCounted ==
    \A s \in Sessions : inFlight[s] = Cardinality(Work(s)) + Cardinality(Guards(s)) + sheets[s]

\* What a request may tell the page that issued it.
Told(r) == {"aborted"} \cup
    {w \in Replies : \/ w = "failed" /\ decision[r] = "fail"
                     \/ w = "fulfilled" /\ decision[r] = "fulfill"
                     \/ w \in {"network", "offline"} /\ decision[r] \in {None, "continue"}}

\* A paused request goes out only when the client lets it, and never when the client
\* has answered it; the page hears what was decided, once, in the frame that asked.
DecisionIsObeyed ==
    \A r \in Requests :
        /\ r \in wire => r \notin registry /\ decision[r] \in {None, "continue"}
        /\ Len(heard[r]) <= 1
        /\ heard[r] # <<>> => heard[r][1][1] = from[r].frame /\ heard[r][1][2] \in Told(r)

\* NetworkIdle can be reached: a session without requests counts none (session.rs,
\* handle_fetch_requests: "the counter never leaks").
CounterReturns == \A s \in Sessions : Work(s) \cup Guards(s) = {} => inFlight[s] = 0

\* A paused request is one that some client has been or can be told of.
PausedIsKnown ==
    \A r \in registry : r \in announced \/ Owner[from[r].session] \in connected \cap enabled

\* A client that has interception enabled is asked before its pages' scripts' requests
\* go out (maybe_intercept).
EnabledIsAsked ==
    [][\A r \in Requests : at[r] = "task" /\ r \in wire' \ wire
                              => Owner[from[r].session] \notin connected \cap enabled]_vars
=============================================================================
