------------------------------ MODULE AgentWorld ------------------------------
(***************************************************************************)
(* The agent of `oxibrowser repl` and `oxibrowser agent run`: the loop     *)
(* that has a model write programs (agent/loop_.rs), the world thread that *)
(* evaluates them one after the other (agent/world.rs), the host that      *)
(* serves their commands one after the other on the session                *)
(* (agent/repl.rs), the queue of events (agent/events.rs), and of the page *)
(* what these depend on: the JS thread with its queue of commands and the  *)
(* dialogs that park it (js/runtime.rs).                                   *)
(*                                                                         *)
(* Everybody waits for somebody else, with a limit: the loop for a program *)
(* (60 s), the world for a command (30 s), the host for an act (3 s) or an *)
(* event (at most 25 s), a dialog for its answer (30 s).  Who gives up     *)
(* goes on while the other one still works.  There are no clocks here: a   *)
(* limit may be reached at any moment of the wait.                         *)
(*                                                                         *)
(* Commands and programs are numbered in the order in which they are sent, *)
(* so a channel is the set of the numbers in it and its head the least.    *)
(***************************************************************************)
EXTENDS Naturals, FiniteSets

CONSTANTS MaxSteps,    \* LoopConfig.max_steps
          GrantUses,   \* uses of the grant that a human's consent makes
          MaxCmds,     \* bound: commands that programs send
          MaxDialogs   \* bound: dialogs that pages open

ASSUME StepsAssumption == MaxSteps \in Nat
ASSUME UsesAssumption == GrantUses \in Nat
ASSUME CmdsAssumption == MaxCmds \in Nat
ASSUME DialogsAssumption == MaxDialogs \in Nat

Cmds == 1..MaxCmds
Dialogs == 1..MaxDialogs
Evals == 1..(2 * MaxSteps)

\* "act" is a click or a fill (act and mouse_click), "fill" is fillCredential, "goto"
\* stands for all that runs the page without a guard: goto, observe, replay.
Kinds == {"act", "fill", "goto", "wait", "resolve"}

VARIABLES loop,      \* where the loop stands
          steps,     \* model replies used
          evals,     \* evaluations asked for; the last one is the one awaited
          yes,       \* history: consents given
          programs,  \* the channel to the world thread
          world,     \* the world thread: what it evaluates, the command it has sent
          mark,      \* globalThis.__taskDone: the evaluation that set it, or 0
          sent,      \* commands sent
          told,      \* what the program was told of each
          inbox,     \* the channel to the host: the kind of each command in it, or "none"
          host,      \* the host: what it does for which command
          uses,      \* uses left of the grants in the consent store
          filled,    \* history: credentials released by the broker
          job,       \* the command of each of ours in the JS thread's queue
          acted,     \* history: acts and fills that the page has seen
          parked,    \* the dialog on which the JS thread is parked, or 0
          dialogs,   \* dialogs opened
          gate,      \* DialogGate: the resolveDialog whose answer it holds, or 0
          transit,   \* dialog events not yet seen by the hub
          queue,     \* EventHub.queue
          pending    \* EventHub.dialog_pending

loopVars == <<loop, steps, evals, yes>>
worldVars == <<programs, world, mark>>
callVars == <<sent, told, inbox>>
hostVars == <<host, uses, filled>>
pageVars == <<job, acted, parked, dialogs>>
eventVars == <<gate, transit, queue, pending>>
vars == <<loopVars, worldVars, callVars, hostVars, pageVars, eventVars>>

First(n, S) == n \in S /\ \A m \in S : n <= m

Sleeping == [at |-> "idle", eval |-> 0, cmd |-> 0]
Idle == [at |-> "idle", cmd |-> 0, guarded |-> FALSE]

Init ==
    /\ loop = "think" /\ steps = 0 /\ evals = 0 /\ yes = 0
    /\ programs = {} /\ world = Sleeping /\ mark = 0
    /\ sent = 0
    /\ told = [c \in Cmds |-> "none"] /\ inbox = [c \in Cmds |-> "none"]
    /\ host = Idle /\ uses = 0 /\ filled = 0
    /\ job = [c \in Cmds |-> "none"] /\ acted = {}
    /\ parked = 0 /\ dialogs = 0
    /\ gate = 0 /\ transit = {} /\ queue = {} /\ pending = FALSE

(* The loop *)

\* The reply of the model is evaluated.
Program ==
    /\ loop = "think" /\ steps < MaxSteps
    /\ loop' = "eval"
    /\ steps' = steps + 1 /\ evals' = evals + 1
    /\ programs' = programs \cup {evals + 1}
    /\ UNCHANGED <<yes, world, mark, callVars, hostVars, pageVars, eventVars>>

\* The model has no program to offer.
EmptyReply ==
    /\ loop = "think" /\ steps < MaxSteps
    /\ steps' = steps + 1
    /\ UNCHANGED <<loop, evals, yes, worldVars, callVars, hostVars, pageVars, eventVars>>

\* Steps or tokens are used up, or the model fails.
Stop ==
    /\ loop = "think"
    /\ loop' = "closing"
    /\ UNCHANGED <<steps, evals, yes, worldVars, callVars, hostVars, pageVars, eventVars>>

\* World::eval: "world did not answer".
EvalTimesOut ==
    /\ loop \in {"eval", "retry"}
    /\ loop' = "think"
    /\ UNCHANGED <<steps, evals, yes, worldVars, callVars, hostVars, pageVars, eventVars>>

\* handle_consent: a grant is appended and the whole program evaluated again.
Approve ==
    /\ loop = "consent"
    /\ loop' = "retry"
    /\ yes' = yes + 1 /\ uses' = uses + GrantUses
    /\ evals' = evals + 1
    /\ programs' = programs \cup {evals + 1}
    /\ UNCHANGED <<steps, world, mark, callVars, host, filled, pageVars, eventVars>>

Decline ==
    /\ loop = "consent"
    /\ loop' = "think"
    /\ UNCHANGED <<steps, evals, yes, worldVars, callVars, hostVars, pageVars, eventVars>>

\* The host holds the session's write lock.
Locked == host.at \in {"observe", "decide", "act", "load"}

\* WorldSetup::shutdown closes the session under its lock; the process ends.
Shutdown ==
    /\ loop = "closing" /\ ~Locked
    /\ loop' = "exited"
    /\ UNCHANGED <<steps, evals, yes, worldVars, callVars, hostVars, pageVars, eventVars>>

(* The world *)

TakeProgram(e) ==
    /\ world.at = "idle" /\ First(e, programs)
    /\ programs' = programs \ {e}
    /\ world' = [at |-> "run", eval |-> e, cmd |-> 0]
    /\ UNCHANGED <<loopVars, mark, callVars, hostVars, pageVars, eventVars>>

\* __host: a command with a reply channel of its own.
Call(k) ==
    /\ world.at = "run" /\ sent < MaxCmds
    /\ sent' = sent + 1
    /\ inbox' = [inbox EXCEPT ![sent + 1] = k]
    /\ world' = [world EXCEPT !.at = "call", !.cmd = sent + 1]
    /\ UNCHANGED <<loopVars, programs, mark, told, hostVars, pageVars, eventVars>>

\* BRIDGE_TIMEOUT: the command stays with the host.
GiveUp ==
    /\ world.at = "call"
    /\ told' = [told EXCEPT ![world.cmd] = "gaveup"]
    /\ world' = [world EXCEPT !.at = "run"]
    /\ UNCHANGED <<loopVars, programs, mark, sent, inbox, hostVars, pageVars, eventVars>>

\* task.done
MarkDone ==
    /\ world.at = "run" /\ mark # world.eval
    /\ mark' = world.eval
    /\ UNCHANGED <<loopVars, programs, world, callVars, hostVars, pageVars, eventVars>>

\* Variant: the human is asked again for the retry.
ReportAskingAgain(result) ==
    loop' = IF loop \notin {"eval", "retry"} \/ world.eval # evals THEN loop
            ELSE CASE result = "done" -> "closing"
                   [] result = "consent" -> "consent"
                   [] OTHER -> "think"

\* The loop gets the result of the evaluation it waits for; others are dropped.  An
\* error that asks for consent is put to the human, unless it comes of the retry.
Report(result) ==
    loop' = IF loop \notin {"eval", "retry"} \/ world.eval # evals THEN loop
            ELSE CASE result = "done" -> "closing"
                   [] result = "consent" /\ loop = "eval" -> "consent"
                   [] OTHER -> "think"

\* eval_program once the promise has settled.
Settle(result) ==
    /\ world.at = "run"
    /\ \/ result = "done" /\ mark # 0
       \/ result = "value" /\ mark = 0
       \/ result = "consent" /\ \E c \in Cmds : told[c] = "consent"
       \/ result = "error"
    /\ mark' = 0
    /\ world' = Sleeping
    /\ Report(result)
    /\ UNCHANGED <<steps, evals, yes, programs, callVars, hostVars, pageVars, eventVars>>

\* REPL_TIMEOUT: the globals stay as they are.
ProgramTimesOut ==
    /\ world.at = "run"
    /\ world' = Sleeping
    /\ Report("error")
    /\ UNCHANGED <<steps, evals, yes, programs, mark, callVars, hostVars, pageVars, eventVars>>

(* The host *)

\* The host goes on with the command; a guarded one is an act with the limit of 3 s.
Serves(c, at) == host' = [at |-> at, cmd |-> c, guarded |-> inbox[c] = "act"]
Goes(at) == host' = [host EXCEPT !.at = at]

\* Variant: one reply channel for all commands.
ReplyAny(c, answer) ==
    /\ host' = Idle
    /\ IF world.at = "call"
       THEN /\ told' = [told EXCEPT ![world.cmd] = answer]
            /\ world' = [world EXCEPT !.at = "run"]
       ELSE UNCHANGED <<told, world>>

\* The reply reaches the world if it still waits for this command.
Reply(c, answer) ==
    /\ host' = Idle
    /\ IF world.at = "call" /\ world.cmd = c
       THEN /\ told' = [told EXCEPT ![c] = answer]
            /\ world' = [world EXCEPT !.at = "run"]
       ELSE UNCHANGED <<told, world>>

Sent == {c \in Cmds : inbox[c] # "none"}

Take(c, k) ==
    /\ host.at = "idle" /\ First(c, Sent) /\ inbox[c] = k
    /\ inbox' = [inbox EXCEPT ![c] = "none"]

\* act and mouse_click begin with native_observe, or with an eval.
TakeAct(c) ==
    /\ Take(c, "act")
    /\ job' = [job EXCEPT ![c] = "observe"]
    /\ Serves(c, "observe")
    /\ UNCHANGED <<loopVars, worldVars, sent, told, uses, filled,
                   acted, parked, dialogs, eventVars>>

\* fill_credential asks the broker first, which charges a grant or asks for consent.
TakeFill(c) ==
    /\ Take(c, "fill")
    /\ \/ /\ uses > 0
          /\ uses' = uses - 1 /\ filled' = filled + 1
          /\ job' = [job EXCEPT ![c] = "observe"]
          /\ Serves(c, "observe")
          /\ UNCHANGED <<world, told>>
       \/ /\ uses = 0
          /\ Reply(c, "consent")
          /\ UNCHANGED <<uses, filled, job>>
    /\ UNCHANGED <<loopVars, programs, mark, sent, acted, parked, dialogs, eventVars>>

TakeGoto(c) ==
    /\ Take(c, "goto")
    /\ job' = [job EXCEPT ![c] = "load"]
    /\ Serves(c, "load")
    /\ UNCHANGED <<loopVars, worldVars, sent, told, uses, filled,
                   acted, parked, dialogs, eventVars>>

TakeWait(c) ==
    /\ Take(c, "wait")
    /\ Serves(c, "check")
    /\ UNCHANGED <<loopVars, worldVars, sent, told, uses, filled, pageVars, eventVars>>

\* resolve_dialog writes the gate, whether or not a dialog waits for it.
TakeResolve(c) ==
    /\ Take(c, "resolve")
    /\ gate' = c /\ pending' = FALSE
    /\ Reply(c, "over")
    /\ UNCHANGED <<loopVars, programs, mark, sent, uses, filled, pageVars, transit, queue>>

\* wait_for looks into the queue ...
WaitChecks ==
    /\ host.at = "check"
    /\ \/ \E d \in queue :
             /\ First(d, queue)
             /\ queue' = queue \ {d}
             /\ Reply(host.cmd, "over")
       \/ /\ queue = {}
          /\ Goes("gap")
          /\ UNCHANGED <<told, world, queue>>
    /\ UNCHANGED <<loopVars, programs, mark, sent, inbox, uses, filled, pageVars,
                   gate, transit, pending>>

\* ... then waits to be notified; what is pushed in between notifies nobody ...
WaitRegisters ==
    /\ host.at = "gap"
    /\ Goes("waiting")
    /\ UNCHANGED <<loopVars, worldVars, callVars, uses, filled, pageVars, eventVars>>

\* ... at most until its deadline, and then does not look again.
WaitTimesOut ==
    /\ host.at \in {"gap", "waiting"}
    /\ Reply(host.cmd, "over")
    /\ UNCHANGED <<loopVars, programs, mark, sent, inbox, uses, filled, pageVars, eventVars>>

\* The observation is there: no such element, a gate that denies, or native_act.
Decide ==
    LET c == host.cmd IN
    /\ host.at = "decide"
    /\ \/ Reply(c, "refused") /\ UNCHANGED job
       \/ /\ job' = [job EXCEPT ![c] = "act"]
          /\ Goes("act")
          /\ UNCHANGED <<told, world>>
    /\ UNCHANGED <<loopVars, programs, mark, sent, inbox, uses, filled, acted, parked,
                   dialogs, eventVars>>

\* native_act_guarded gives up after 3 s; fillCredential has no such guard.
ActTimesOut ==
    /\ host.at = "act" /\ host.guarded
    /\ Reply(host.cmd, IF pending THEN "blocked" ELSE "stuck")
    /\ UNCHANGED <<loopVars, programs, mark, sent, inbox, uses, filled, pageVars, eventVars>>

\* A grant expires.
Expire ==
    /\ uses > 0
    /\ uses' = 0
    /\ UNCHANGED <<loopVars, worldVars, callVars, host, filled, pageVars, eventVars>>

(* The page *)

Queued == {c \in Cmds : job[c] # "none"}

\* The JS thread works on the commands of its channel one after the other.
Running(c) == parked = 0 /\ First(c, Queued)

\* The native event is delivered.
Deliver(c) ==
    /\ Running(c) /\ job[c] = "act" /\ c \notin acted
    /\ acted' = acted \cup {c}
    /\ UNCHANGED <<loopVars, worldVars, callVars, hostVars, job, parked, dialogs, eventVars>>

\* A script, a listener or a pumped callback calls alert, confirm or prompt.
OpenDialog(c) ==
    /\ Running(c) /\ dialogs < MaxDialogs
    /\ dialogs' = dialogs + 1 /\ parked' = dialogs + 1
    /\ transit' = transit \cup {dialogs + 1}
    /\ UNCHANGED <<loopVars, worldVars, callVars, hostVars, job, acted, gate, queue, pending>>

\* wait_dialog_resolution takes an answer from the gate ...
TakeAnswer ==
    /\ parked # 0 /\ gate # 0
    /\ gate' = 0 /\ parked' = 0
    /\ UNCHANGED <<loopVars, worldVars, callVars, hostVars, job, acted, dialogs,
                   transit, queue, pending>>

\* Variant: a dialog waits until it is answered.
DialogWaits ==
    /\ parked # 0 /\ gate # 0
    /\ parked' = 0
    /\ UNCHANGED <<loopVars, worldVars, callVars, hostVars, job, acted, dialogs, eventVars>>

\* ... or dismisses the dialog after 30 s.
DialogTimesOut ==
    /\ parked # 0
    /\ parked' = 0
    /\ UNCHANGED <<loopVars, worldVars, callVars, hostVars, job, acted, dialogs, eventVars>>

\* What the end of a command means to a host that waits for it.
Finish(c, answer) ==
    IF host.at # "idle" /\ host.cmd = c
    THEN IF job[c] = "observe"
         THEN Goes("decide") /\ UNCHANGED <<told, world>>
         ELSE Reply(c, answer)
    ELSE UNCHANGED <<host, told, world>>

\* The JS thread answers the command; an act may fail before or after it is delivered.
JobEnds(c) ==
    /\ Running(c)
    /\ job' = [job EXCEPT ![c] = "none"]
    /\ \/ Finish(c, "over")
       \/ job[c] = "act" /\ c \in acted /\ Finish(c, "acted")
    /\ UNCHANGED <<loopVars, programs, mark, sent, inbox, uses, filled,
                   acted, parked, dialogs, eventVars>>

\* The hub task: the flag, the queue, and notify_waiters.
HubTakes(d) ==
    /\ First(d, transit)
    /\ transit' = transit \ {d}
    /\ pending' = TRUE
    /\ queue' = queue \cup {d}
    /\ IF host.at = "waiting" THEN Goes("check") ELSE UNCHANGED host
    /\ UNCHANGED <<loopVars, worldVars, callVars, uses, filled, pageVars, gate>>

Lives == loop # "exited"

LoopNext == Program \/ EmptyReply \/ Stop \/ EvalTimesOut \/ Approve \/ Decline \/ Shutdown

WorldNext ==
    /\ Lives
    /\ \/ \E e \in Evals : TakeProgram(e)
       \/ \E k \in Kinds : Call(k)
       \/ GiveUp \/ MarkDone \/ ProgramTimesOut
       \/ \E r \in {"done", "value", "consent", "error"} : Settle(r)

Takes(c) == TakeAct(c) \/ TakeFill(c) \/ TakeGoto(c) \/ TakeWait(c) \/ TakeResolve(c)

HostNext ==
    /\ Lives
    /\ \/ \E c \in Cmds : Takes(c)
       \/ WaitChecks \/ WaitRegisters \/ WaitTimesOut \/ Decide \/ ActTimesOut

DialogEnds == Lives /\ (TakeAnswer \/ DialogTimesOut)
PageGoesOn == Lives /\ \E c \in Cmds : JobEnds(c)

Next ==
    \/ LoopNext \/ WorldNext \/ HostNext \/ DialogEnds \/ PageGoesOn
    \/ Lives /\ \E c \in Cmds : Deliver(c) \/ OpenDialog(c)
    \/ Lives /\ \E d \in Dialogs : HubTakes(d)
    \/ Lives /\ Expire

Spec == Init /\ [][Next]_vars

\* The threads and tasks run, the limits of their waits are timers, and the model's
\* server and the human at the terminal answer.  A dialog ends by an answer or by its
\* own limit; a page's scripts end (their loops are limited).
FairSpec ==
    /\ Spec
    /\ WF_vars(LoopNext) /\ WF_vars(HostNext)
    /\ WF_vars(DialogEnds) /\ WF_vars(PageGoesOn)
-----------------------------------------------------------------------------
(* Properties *)

Answers == {"none", "gaveup", "acted", "refused", "consent", "blocked", "stuck", "over"}

\* Evaluations that the steps taken may still ask for.
Spare == IF loop \in {"eval", "consent"} THEN 1 ELSE 0

\* Type invariant; a reply of the model is evaluated at most twice, and a JS thread that
\* is parked is parked in a command.
TypeOK ==
    /\ loop \in {"think", "eval", "consent", "retry", "closing", "exited"}
    /\ steps \in 0..MaxSteps /\ evals \in Nat /\ yes \in Nat
    /\ evals + Spare <= 2 * steps
    /\ programs \subseteq Evals
    /\ world \in [at : {"idle", "run", "call"}, eval : Evals \cup {0}, cmd : Cmds \cup {0}]
    /\ mark \in Evals \cup {0}
    /\ sent \in 0..MaxCmds
    /\ told \in [Cmds -> Answers] /\ inbox \in [Cmds -> Kinds \cup {"none"}]
    /\ host \in [at : {"idle", "observe", "decide", "act", "load", "check", "gap", "waiting"},
                 cmd : Cmds \cup {0}, guarded : BOOLEAN]
    /\ uses \in Nat /\ filled \in Nat
    /\ job \in [Cmds -> {"none", "observe", "act", "load"}]
    /\ acted \subseteq Cmds
    /\ parked \in Dialogs \cup {0} /\ dialogs \in 0..MaxDialogs
    /\ parked # 0 => Queued # {}
    /\ gate \in Cmds \cup {0}
    /\ transit \subseteq Dialogs /\ queue \subseteq Dialogs
    /\ pending \in BOOLEAN

\* Nobody knows what has become of a command the program gave up on, and of an act
\* the host gave up on.
Open(c) == told[c] \in {"none", "gaveup", "blocked", "stuck"}

\* A program that is told that its act has been done, refused or not consented to is
\* told the truth, and any answer that does not leave the outcome open is the end of
\* the command: nothing of it is still in a queue, with the host or in the page.
AnswersAreFinal ==
    \A c \in Cmds :
        /\ told[c] = "acted" => c \in acted
        /\ told[c] \in {"refused", "consent"} => c \notin acted
        /\ inbox[c] # "none" \/ host.cmd = c \/ job[c] # "none" => Open(c)

\* However late they are, acts reach the page in the order of the program.
InOrder == \A c \in acted' \ acted : \A b \in acted : b < c

\* No credential is released beyond what the human has consented to, whatever is
\* evaluated again (handle_consent: "retry the same program once").
FillsAreGranted == filled + uses <= GrantUses * yes

\* What the program is told of its acts and what the page has seen agree, in spite of
\* everybody's giving up on everybody (world.rs, __host; repl.rs, native_act_guarded).
ActsAreTrue == [](AnswersAreFinal /\ FillsAreGranted) /\ [][InOrder]_vars

\* The task comes to its end and the process can close its session, whatever dialogs
\* park the page while the host holds the lock (events.rs: "a blocking alert() holds
\* the write lock until this lands"; repl.rs: "would otherwise deadlock the bridge").
TaskEnds == <>(loop = "exited")

\* A wait for an event finds the event that is there (events.rs, wait_for).
WaitFindsTheEvent ==
    [][host.at \in {"gap", "waiting"} /\ host'.at = "idle" => queue = {}]_vars

\* An answer is given to the dialog that is open (events.rs: "Resolve a parked dialog").
AnswersItsDialog == gate # 0 => parked # 0

\* The flag tells of a dialog (events.rs: "Is a dialog currently parked on the gate?").
PendingIsTrue == pending => parked # 0

\* The result that ends the task is of the program that was evaluated (loop_.rs).
DoneIsOfItsProgram ==
    [][mark # 0 /\ mark' = 0 /\ loop = "eval" /\ loop' = "closing" => mark = world.eval]_vars

=============================================================================
