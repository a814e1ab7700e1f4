---------------------------- MODULE LoginSurface ----------------------------
(***************************************************************************)
(* The login surface of the CDP server (cdp/account.rs) for one account:   *)
(* login windows of the orchestrator, the takeover that keeps agents out   *)
(* of the window's context, the one-time viewer tokens, the sessions the   *)
(* windows are captured from, and the commands that race with each other   *)
(* and with the orchestrator's timer.  Each table has a mutex of its own,  *)
(* and every step here holds at most one of them.                          *)
(*                                                                         *)
(* The orchestrator appears by its interface: its table of windows, an end *)
(* that succeeds or fails, and the timer (AccountLifecycle has the rest).  *)
(* The pool of sessions, which the other connections share, admits a       *)
(* session or not.  Every window is in user mode; a token is named by its  *)
(* window.                                                                 *)
(***************************************************************************)
EXTENDS Naturals, Sequences

CONSTANTS Logins,    \* login ids, each used for one begin_login
          Contexts,  \* browser contexts of the account
          Calls,     \* commands and upgrades in flight besides begin_login
          None       \* no context, no login, no job

ASSUME NoneAssumption == None \notin Logins \cup Contexts

VARIABLES stage,     \* how far each begin_login is
          win,       \* the context it opens its window in
          table,     \* the orchestrator's open windows
          due,       \* windows whose timeout has passed
          lapsed,    \* windows whose takeover has passed its `until`
          binding,   \* bindings: the context of the account, or None
          made,      \* the contexts created so far
          takeover,  \* takeovers: context -> window, or None
          tokens,    \* viewer_tokens: token -> context, or None
          sessions,  \* login_sessions
          job,       \* what each call is doing, or None
          entered,   \* history: the windows the viewers of each token were let into
          crossed    \* history: two begin_logins of the account overlapped

windows == <<stage, win, table, due, lapsed>>
registers == <<takeover, tokens, sessions>>
history == <<entered, crossed>>
vars == <<windows, binding, made, registers, job, history>>

UnderWay == {"opening", "bound", "token"}
Stages == {"new", "looked", "done", "failed"} \cup UnderWay

\* active_takeover: an entry counts until its time has passed.
Live(c) == takeover[c] # None /\ takeover[c] \notin lapsed

\* active_takeover prunes an entry it finds expired.
Pruned(c) == IF Live(c) THEN takeover ELSE [takeover EXCEPT ![c] = None]

Free(j) == job[j] = None
At(j, do, at) == job[j] # None /\ job[j].do = do /\ job[j].at = at
Do(j, r) == job' = [job EXCEPT ![j] = r]
Done(j) == job' = [job EXCEPT ![j] = None]
Job(do, at, login, ctx, seen) == [do |-> do, at |-> at, login |-> login, ctx |-> ctx, seen |-> seen]
Reach(l, s) == stage' = [stage EXCEPT ![l] = s]

Init ==
    /\ stage = [l \in Logins |-> "new"] /\ win = [l \in Logins |-> None]
    /\ table = {} /\ due = {} /\ lapsed = {}
    /\ binding \in {None} \cup Contexts       \* serve --account binds one
    /\ made = {binding} \ {None}
    /\ takeover = [c \in Contexts |-> None] /\ tokens = [l \in Logins |-> None]
    /\ sessions = {}
    /\ job = [j \in Calls |-> None]
    /\ entered = [l \in Logins |-> <<>>] /\ crossed = FALSE
-----------------------------------------------------------------------------
(* begin_login *)

\* LoginOrchestrator::begin_login finds a state to log in from and no window ...
BeginLooks(l) ==
    /\ stage[l] = "new" /\ table = {}
    /\ Reach(l, "looked")
    /\ UNCHANGED <<win, table, due, lapsed, binding, made, registers, job, history>>

\* ... changes the state, arms the timer, enters the window in its table and
\* publishes the login id, and the surface reads the binding of the account; or the
\* change fails.
BeginOpens(l) ==
    /\ stage[l] = "looked"
    /\ \/ /\ Reach(l, IF binding = None THEN "opening" ELSE "bound")
          /\ win' = [win EXCEPT ![l] = binding]
          /\ table' = table \cup {l}
          /\ crossed' = (crossed \/ table # {} \/ \E m \in Logins : stage[m] \in UnderWay)
       \/ Reach(l, "failed") /\ UNCHANGED <<win, table, crossed>>
    /\ UNCHANGED <<due, lapsed, binding, made, registers, job, entered>>

\* open_account_context, and bind; its session is dropped, never closed.  When it
\* errs, begin_login returns the error and leaves the window open.
BeginOpensContext(l, c) ==
    /\ stage[l] = "opening" /\ c \notin made
    /\ made' = made \cup {c}
    /\ \/ binding' = c /\ win' = [win EXCEPT ![l] = c] /\ Reach(l, "bound")
       \/ Reach(l, "failed") /\ UNCHANGED <<binding, win>>
    /\ UNCHANGED <<table, due, lapsed, registers, job, history>>

\* The window's own session enters login_sessions and its token viewer_tokens;
\* without a session the window is aborted, and whether that worked is not asked.
BeginOpensSession(l) ==
    /\ stage[l] = "bound"
    /\ \/ /\ sessions' = sessions \cup {l}
          /\ tokens' = [tokens EXCEPT ![l] = win[l]]
          /\ Reach(l, "token")
          /\ UNCHANGED table
       \/ /\ Reach(l, "failed")
          /\ table' \in {table, table \ {l}}
          /\ UNCHANGED <<sessions, tokens>>
    /\ UNCHANGED <<win, due, lapsed, binding, made, takeover, job, history>>

\* Variant: the takeover is entered for the context the account is bound to by now.
RegisterTakeoverOfBinding(l) ==
    /\ stage[l] = "token"
    /\ takeover' = [takeover EXCEPT ![binding] = l]
    /\ Reach(l, "done")
    /\ UNCHANGED <<win, table, due, lapsed, binding, made, tokens, sessions, job, history>>

\* register_takeover enters the takeover last, over whatever the context had.
RegisterTakeover(l) ==
    /\ stage[l] = "token"
    /\ takeover' = [takeover EXCEPT ![win[l]] = l]
    /\ Reach(l, "done")
    /\ UNCHANGED <<win, table, due, lapsed, binding, made, tokens, sessions, job, history>>

(* Time *)

\* The timeout of a window passes ...
TimeoutPasses(l) ==
    /\ stage[l] \in UnderWay \cup {"done"} /\ l \notin due
    /\ due' = due \cup {l}
    /\ UNCHANGED <<stage, win, table, lapsed, binding, made, registers, job, history>>

\* ... and later the `until` of its takeover, which is reckoned from its registration.
TakeoverLapses(l) ==
    /\ stage[l] = "done" /\ l \in due \ lapsed
    /\ lapsed' = lapsed \cup {l}
    /\ UNCHANGED <<stage, win, table, due, binding, made, registers, job, history>>

\* The timer calls abort once, which ends the window, or fails and is never heard of
\* again; the surface hears of neither.
TimerFires(l) ==
    /\ l \in due \cap table
    /\ table' = table \ {l}
    /\ UNCHANGED <<stage, win, due, lapsed, binding, made, registers, job, history>>
-----------------------------------------------------------------------------
(* report_success and end_login *)

\* Variant: the session is taken out of the table, not looked up in it.
ReportStartsTaking(j, l) ==
    /\ Free(j) /\ l \in sessions \cap table
    /\ \A k \in Calls : At(k, "report", "judge") => job[k].login # l
    /\ Do(j, Job("report", "judge", l, None, {}))
    /\ sessions' = sessions \ {l}
    /\ UNCHANGED <<windows, binding, made, takeover, tokens, history>>

\* The end finds the window.  A report, or an end that is done, takes the window's
\* session from login_sessions and keeps it locked until the capture is over.
ReportStarts(j, l) ==
    /\ Free(j) /\ l \in sessions \cap table
    /\ \A k \in Calls : At(k, "report", "judge") => job[k].login # l
    /\ Do(j, Job("report", "judge", l, None, {}))
    /\ UNCHANGED <<windows, binding, made, registers, history>>

\* Whoever has read the event knows the login id.
AbortStarts(j, l) ==
    /\ Free(j) /\ l \in table
    /\ Do(j, Job("abort", "judge", l, None, {}))
    /\ UNCHANGED <<windows, binding, made, registers, history>>

AtEnd(j, at) == At(j, "report", at) \/ At(j, "abort", at)

\* The orchestrator captures, or reverts, and closes the window; or it errs, and
\* nothing else is done.
Ended(j) ==
    /\ AtEnd(j, "judge")
    /\ \/ table' = table \ {job[j].login} /\ Do(j, [job[j] EXCEPT !.at = "takeover"])
       \/ Done(j) /\ UNCHANGED table
    /\ UNCHANGED <<stage, win, due, lapsed, binding, made, registers, history>>

\* Variant: close_login removes the entry of the window's context, whosever it is.
CloseTakeoverOfContext(j) ==
    LET cs == {win[job[j].login]} \ {None} IN
    /\ AtEnd(j, "takeover")
    /\ takeover' = [c \in Contexts |-> IF c \in cs THEN None ELSE takeover[c]]
    /\ Do(j, [job[j] EXCEPT !.at = "tokens", !.seen = cs])
    /\ UNCHANGED <<windows, binding, made, tokens, sessions, history>>

\* close_login: the entry that names the window goes ...
CloseTakeover(j) ==
    LET cs == {c \in Contexts : takeover[c] = job[j].login} IN
    /\ AtEnd(j, "takeover")
    /\ takeover' = [c \in Contexts |-> IF c \in cs THEN None ELSE takeover[c]]
    /\ Do(j, [job[j] EXCEPT !.at = "tokens", !.seen = cs])
    /\ UNCHANGED <<windows, binding, made, tokens, sessions, history>>

\* ... then the tokens of its context, and the window's session leaves its table
\* as it is, open.
CloseTokens(j) ==
    /\ AtEnd(j, "tokens")
    /\ tokens' = [l \in Logins |-> IF tokens[l] \in job[j].seen THEN None ELSE tokens[l]]
    /\ sessions' = sessions \ {job[j].login}
    /\ Done(j)
    /\ UNCHANGED <<windows, binding, made, takeover, history>>

(* take_viewer, at the upgrade of a viewer's connection *)

ClaimToken(j, l) ==
    /\ Free(j) /\ tokens[l] # None
    /\ tokens' = [tokens EXCEPT ![l] = None]
    /\ Do(j, Job("claim", "check", l, tokens[l], {}))
    /\ UNCHANGED <<windows, binding, made, takeover, sessions, history>>

\* The takeover of the token's context must be live, and the context not disposed of.
ClaimChecks(j) ==
    LET c == job[j].ctx
        l == job[j].login
    IN
    /\ At(j, "claim", "check")
    /\ takeover' = Pruned(c)
    /\ \/ Live(c) /\ entered' = [entered EXCEPT ![l] = Append(@, takeover[c])]
       \/ UNCHANGED entered
    /\ Done(j)
    /\ UNCHANGED <<windows, binding, made, tokens, sessions, crossed>>

(* gate_role, for the commands of an agent connection *)

\* The windows that have taken the context over so far.
Registered(c) == {l \in Logins : stage[l] = "done" /\ win[l] = c}

\* What an agent can do to a page: "input" stands for the methods that gate_role lists
\* (Input.*, OXI.fillRef, OXI.clickRef, Runtime.evaluate, the captures), "act" for
\* those it does not (Page.navigate, Runtime.runScript, Runtime.callFunctionOn,
\* OXI.fillCredential), which a takeover does not stop.
Commands == {"input", "act"}
Listed(do) == do = "input"

\* Variant: the gate looks at the context of the account's binding.
GateOfBinding(j, c, do) ==
    /\ Free(j) /\ c \in made
    /\ takeover' = Pruned(c)
    /\ IF c = binding /\ Live(c) /\ Listed(do)
       THEN UNCHANGED job
       ELSE Do(j, Job(do, "held", None, c, Registered(c)))
    /\ UNCHANGED <<windows, binding, made, tokens, sessions, history>>

\* The gate is passed before the command waits for its session.
Gate(j, c, do) ==
    /\ Free(j) /\ c \in made
    /\ takeover' = Pruned(c)
    /\ IF Live(c) /\ Listed(do)
       THEN UNCHANGED job
       ELSE Do(j, Job(do, "held", None, c, Registered(c)))
    /\ UNCHANGED <<windows, binding, made, tokens, sessions, history>>

Acting(j) == \E do \in Commands : At(j, do, "held")

CommandEnds(j) ==
    /\ Acting(j)
    /\ Done(j)
    /\ UNCHANGED <<windows, binding, made, registers, history>>

\* create_account_context binds a new context, whatever the account was bound to;
\* when the envelope cannot be restored the context stays unbound.
AccountContext(c) ==
    /\ c \notin made
    /\ made' = made \cup {c}
    /\ binding' \in {binding, c}
    /\ UNCHANGED <<windows, registers, job, history>>

Begins(l) ==
    \/ BeginLooks(l) \/ BeginOpens(l)
    \/ \E c \in Contexts : BeginOpensContext(l, c)
    \/ BeginOpensSession(l) \/ RegisterTakeover(l)

Passes(l) == TimeoutPasses(l) \/ TakeoverLapses(l) \/ TimerFires(l)

Proceeds(j) == Ended(j) \/ CloseTakeover(j) \/ CloseTokens(j) \/ ClaimChecks(j) \/ CommandEnds(j)

Next ==
    \/ \E l \in Logins : Begins(l) \/ Passes(l)
    \/ \E j \in Calls : Proceeds(j)
    \/ \E j \in Calls, l \in Logins : ReportStarts(j, l) \/ AbortStarts(j, l) \/ ClaimToken(j, l)
    \/ \E j \in Calls, c \in Contexts, do \in Commands : Gate(j, c, do)
    \/ \E c \in Contexts : AccountContext(c)

Spec == Init /\ [][Next]_vars
-----------------------------------------------------------------------------
(* Properties *)

Jobs == [do : {"report", "abort", "claim"} \cup Commands,
         at : {"judge", "takeover", "tokens", "check", "held"},
         login : Logins \cup {None}, ctx : Contexts \cup {None},
         seen : SUBSET (Logins \cup Contexts)]

\* Type invariant; a takeover is of a window that has been registered there.
TypeOK ==
    /\ stage \in [Logins -> Stages] /\ win \in [Logins -> Contexts \cup {None}]
    /\ table \subseteq Logins
    /\ due \subseteq Logins /\ lapsed \subseteq due
    /\ binding \in made \cup {None} /\ made \subseteq Contexts
    /\ takeover \in [Contexts -> Logins \cup {None}]
    /\ tokens \in [Logins -> Contexts \cup {None}]
    /\ sessions \subseteq Logins
    /\ job \in [Calls -> Jobs \cup {None}]
    /\ entered \in [Logins -> Seq(Logins)] /\ crossed \in BOOLEAN
    /\ \A c \in Contexts : takeover[c] # None => takeover[c] \in Registered(c)

\* While a login window is open and its time has not passed, the takeover table keeps
\* its context for it: the entry is there and is this window's, so an end of the
\* window, and nothing else, gives the context back.  Two begin_logins that overlap
\* void it (register_takeover, close_login).
LockoutHolds ==
    ~crossed => \A l \in table \ due : stage[l] = "done" => takeover[win[l]] = l

\* A window that is open can be ended by its host: its session is still in the
\* table, also after an end that failed (report_success and end_login return
\* before close_login).
OpenWindowCompletes == \A l \in table : stage[l] = "done" => l \in sessions

\* An agent's command of those the gate lists that is in flight under a live takeover
\* passed the gate before that takeover was registered, whatever windows came, went
\* and lapsed since; and a token lets one viewer in, into a window that had taken over
\* the context the token was issued for (gate_role, take_viewer).
GateAndTokensHold ==
    /\ \A j \in Calls :
          At(j, "input", "held") /\ Live(job[j].ctx) => takeover[job[j].ctx] \notin job[j].seen
    /\ \A l \in Logins :
          Len(entered[l]) <= 1 /\ \A i \in DOMAIN entered[l] : win[entered[l][i]] = win[l]

(* Statements TLC refutes; see the README. *)

\* An agent is kept off the page of a live takeover whatever it uses, the comment of
\* gate_role names the evaluate-based paths (the methods it does not list pass).
AgentsKeepOff ==
    \A j \in Calls : Acting(j) /\ Live(job[j].ctx) => takeover[job[j].ctx] \notin job[j].seen

\* No listed command is in flight under a live takeover (the gate is read before the
\* command waits for its session, and not again).
NoInputUnderTakeover == \A j \in Calls : At(j, "input", "held") => ~Live(job[j].ctx)

\* A begin_login that fails leaves no window open (the window of a failed
\* open_account_context stays, and so may that of a failed abort).
FailedBeginLeavesNoWindow == \A l \in table : stage[l] # "failed"

\* A token lets its viewer into the window it was issued for (the comment of
\* take_viewer: none when its window expired).
TokenOfItsWindow == \A l \in Logins : \A i \in DOMAIN entered[l] : entered[l][i] = l

\* A window that has ended leaves no token behind.
TokensEndWithTheirWindow == \A l \in Logins : stage[l] = "done" /\ tokens[l] # None => l \in table

\* The token of an open window is there until a viewer presents it.
ViewerCanCome ==
    \A l \in table \ due :
        stage[l] = "done" /\ tokens[l] = None =>
            entered[l] # <<>> \/ \E j \in Calls : At(j, "claim", "check") /\ job[j].login = l
=============================================================================
