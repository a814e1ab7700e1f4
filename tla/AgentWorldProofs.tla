--------------------------- MODULE AgentWorldProofs ---------------------------
(***************************************************************************)
(* Theorems about the agent and about the session it works in, for any     *)
(* number of steps, commands, dialogs, documents, writes and URLs.         *)
(*                                                                         *)
(* AgentWorld: what a program is told of its acts is true and final,       *)
(* however late commands are executed and answered, and nobody waits for   *)
(* something that is no longer there.                                      *)
(*                                                                         *)
(* PageSession: history, page and document agree between commands, the     *)
(* journal is of the live document, and localStorage is kept by origin,    *)
(* however commands are nested, redirected, cut short or given up.         *)
(***************************************************************************)
EXTENDS AgentWorld, PageSession, SequenceTheorems, TLAPS

\* A command that is still in a queue, with the host or in the page.
UnderWay(c) == inbox[c] # "none" \/ host.cmd = c \/ job[c] # "none"

\* What the host waits for is what the JS thread has of its command.
HostAtWork ==
    /\ host.at = "idle" <=> host.cmd = 0
    /\ host.at \in {"observe", "act", "load"} => job[host.cmd] = host.at
    /\ host.at \in {"decide", "check", "gap", "waiting"} => job[host.cmd] = "none"

\* A command is in one place at a time, except that the page works for the host; its
\* outcome is open as long as it is anywhere, and what is said of it is true.
Command(c) ==
    /\ UnderWay(c) => c <= sent /\ Open(c)
    /\ inbox[c] # "none" => job[c] = "none" /\ host.cmd # c /\ c \notin acted
    /\ job[c] \in {"observe", "load"} => host.cmd = c
    /\ host.cmd = c /\ host.at # "act" => c \notin acted
    /\ told[c] = "acted" => c \in acted
    /\ told[c] \in {"refused", "consent"} => c \notin acted
    /\ c > sent => told[c] = "none"
    /\ c \in acted => c <= sent

\* The page is behind the host, the host is behind the program, and nothing that is
\* still to be done is older than what has been done.
Behind(c, d) ==
    /\ job[c] # "none" /\ inbox[d] # "none" => c < d
    /\ job[c] # "none" /\ host.cmd = d => c <= d
    /\ host.cmd = c /\ inbox[d] # "none" => c < d
    /\ c \in acted /\ UnderWay(d) /\ d \notin acted => c < d

Placed ==
    /\ HostAtWork
    /\ \A c \in Cmds : Command(c)
    /\ \A c, d \in Cmds : Behind(c, d)

\* The program waits for a command that has been sent.
Called == world.cmd <= sent

IInv == TypeOK /\ Called /\ Placed /\ FillsAreGranted
-----------------------------------------------------------------------------
(* Types *)

LEMMA InitTypeOK == Init => TypeOK
<1> SUFFICES ASSUME Init PROVE TypeOK
  OBVIOUS
<1>1. world \in [at : {"idle", "run", "call"}, eval : Evals \cup {0}, cmd : Cmds \cup {0}]
  BY DEF Init, Sleeping
<1>2. host \in [at : {"idle", "observe", "decide", "act", "load", "check", "gap", "waiting"},
                cmd : Cmds \cup {0}, guarded : BOOLEAN]
  BY DEF Init, Idle
<1>3. told \in [Cmds -> Answers] /\ inbox \in [Cmds -> Kinds \cup {"none"}]
      /\ job \in [Cmds -> {"none", "observe", "act", "load"}]
  BY DEF Init, Answers
<1>4. steps \in 0..MaxSteps /\ evals + Spare <= 2 * steps /\ sent \in 0..MaxCmds
      /\ dialogs \in 0..MaxDialogs
  BY StepsAssumption, CmdsAssumption, DialogsAssumption DEF Init, Spare
<1>5. QED  BY <1>1, <1>2, <1>3, <1>4 DEF Init, TypeOK

\* The parts of the type invariant that the host's answers and moves are about.
HostTyped ==
    /\ world \in [at : {"idle", "run", "call"}, eval : Evals \cup {0}, cmd : Cmds \cup {0}]
    /\ told \in [Cmds -> Answers]
    /\ host \in [at : {"idle", "observe", "decide", "act", "load", "check", "gap", "waiting"},
                 cmd : Cmds \cup {0}, guarded : BOOLEAN]

LEMMA ReplyTyped ==
    ASSUME HostTyped, NEW c, NEW answer \in Answers, Reply(c, answer)
    PROVE  HostTyped'
<1>1. CASE world.at = "call" /\ world.cmd = c
  <2>1. told' = [told EXCEPT ![c] = answer] /\ world' = [world EXCEPT !.at = "run"] /\ host' = Idle
    BY <1>1 DEF Reply
  <2>2. told' \in [Cmds -> Answers]
    BY <2>1 DEF HostTyped
  <2>3. world' \in [at : {"idle", "run", "call"}, eval : Evals \cup {0}, cmd : Cmds \cup {0}]
    BY <2>1 DEF HostTyped
  <2>4. QED  BY <2>1, <2>2, <2>3 DEF HostTyped, Idle
<1>2. CASE ~(world.at = "call" /\ world.cmd = c)
  BY <1>2 DEF Reply, HostTyped, Idle
<1>3. QED  BY <1>1, <1>2

LEMMA GoesTyped ==
    ASSUME HostTyped, NEW at \in {"decide", "act", "check", "gap", "waiting"}, Goes(at),
           UNCHANGED <<told, world>>
    PROVE  HostTyped'
BY DEF Goes, HostTyped

LEMMA FinishTyped ==
    ASSUME HostTyped, NEW c, NEW answer \in Answers, Finish(c, answer)
    PROVE  HostTyped'
BY ReplyTyped, GoesTyped DEF Finish, HostTyped

LEMMA LoopTypeOK == TypeOK /\ LoopNext => TypeOK'
<1> SUFFICES ASSUME TypeOK, LoopNext PROVE TypeOK'
  OBVIOUS
<1>1. CASE Program
  BY <1>1, StepsAssumption, UsesAssumption
     DEF Program, TypeOK, Spare, Evals, Queued, worldVars, callVars, hostVars, pageVars,
         eventVars
<1>2. CASE EmptyReply
  BY <1>2, StepsAssumption, UsesAssumption
     DEF EmptyReply, TypeOK, Spare, Evals, Queued, worldVars, callVars, hostVars, pageVars,
         eventVars
<1>3. CASE Stop
  BY <1>3, StepsAssumption, UsesAssumption
     DEF Stop, TypeOK, Spare, Evals, Queued, worldVars, callVars, hostVars, pageVars, eventVars
<1>4. CASE EvalTimesOut
  BY <1>4, StepsAssumption, UsesAssumption
     DEF EvalTimesOut, TypeOK, Spare, Evals, Queued, worldVars, callVars, hostVars, pageVars,
         eventVars
<1>5. CASE Approve
  BY <1>5, StepsAssumption, UsesAssumption
     DEF Approve, TypeOK, Spare, Evals, Queued, worldVars, callVars, hostVars, pageVars,
         eventVars
<1>6. CASE Decline
  BY <1>6, StepsAssumption, UsesAssumption
     DEF Decline, TypeOK, Spare, Evals, Queued, worldVars, callVars, hostVars, pageVars,
         eventVars
<1>7. CASE Shutdown
  BY <1>7, StepsAssumption, UsesAssumption
     DEF Shutdown, TypeOK, Spare, Evals, Queued, worldVars, callVars, hostVars, pageVars,
         eventVars
<1>8. QED  BY <1>1, <1>2, <1>3, <1>4, <1>5, <1>6, <1>7 DEF LoopNext

LEMMA WorldTypeOK ==
    ASSUME TypeOK, WorldNext
    PROVE  TypeOK'
<1>1. ASSUME NEW e \in Evals, TakeProgram(e) PROVE TypeOK'
  BY <1>1, CmdsAssumption
     DEF TakeProgram, TypeOK, Spare, Evals, Queued, loopVars, worldVars, callVars, hostVars,
         pageVars, eventVars
<1>2. ASSUME NEW k \in Kinds, Call(k) PROVE TypeOK'
  <2>1. sent + 1 \in Cmds /\ sent' \in 0..MaxCmds
    BY <1>2, CmdsAssumption DEF Call, Cmds, TypeOK
  <2>2. world' \in [at : {"idle", "run", "call"}, eval : Evals \cup {0}, cmd : Cmds \cup {0}]
    BY <1>2, <2>1 DEF Call, TypeOK
  <2>3. inbox' \in [Cmds -> Kinds \cup {"none"}]
    BY <1>2 DEF Call, TypeOK
  <2>4. QED
    BY <1>2, <2>1, <2>2, <2>3
       DEF Call, TypeOK, Spare, Queued, loopVars, hostVars, pageVars, eventVars
<1>3. CASE GiveUp
  <2>1. told' \in [Cmds -> Answers]
    BY <1>3 DEF GiveUp, TypeOK, Answers
  <2>2. world' \in [at : {"idle", "run", "call"}, eval : Evals \cup {0}, cmd : Cmds \cup {0}]
    BY <1>3 DEF GiveUp, TypeOK
  <2>3. QED
    BY <1>3, <2>1, <2>2
       DEF GiveUp, TypeOK, Spare, Queued, loopVars, hostVars, pageVars, eventVars
<1>4. CASE MarkDone
  BY <1>4, CmdsAssumption
     DEF MarkDone, TypeOK, Spare, Evals, Queued, loopVars, worldVars, callVars, hostVars,
         pageVars, eventVars
<1>5. CASE ProgramTimesOut
  BY <1>5, CmdsAssumption
     DEF ProgramTimesOut, Report, Sleeping, TypeOK, Spare, Evals, Queued, loopVars, worldVars,
         callVars, hostVars, pageVars, eventVars
<1>6. ASSUME NEW r \in {"done", "value", "consent", "error"}, Settle(r) PROVE TypeOK'
  BY <1>6, CmdsAssumption
     DEF Settle, Report, Sleeping, TypeOK, Spare, Evals, Queued, loopVars, worldVars,
         callVars, hostVars, pageVars, eventVars
<1>7. QED  BY <1>1, <1>2, <1>3, <1>4, <1>5, <1>6 DEF WorldNext

LEMMA HostTypeOK ==
    ASSUME TypeOK, HostNext
    PROVE  TypeOK'
<1>1. ASSUME NEW c \in Cmds, TakeAct(c) PROVE TypeOK'
  BY <1>1
     DEF TakeAct, Take, Serves, Reply, Idle, Answers, TypeOK, Spare, Evals, Queued, loopVars,
         worldVars, callVars, hostVars, pageVars, eventVars
<1>2. ASSUME NEW c \in Cmds, TakeFill(c) PROVE TypeOK'
  <2>1. HostTyped'
    <3>1. CASE uses > 0 /\ Serves(c, "observe") /\ UNCHANGED <<world, told>>
      BY <3>1 DEF Serves, HostTyped, TypeOK
    <3>2. CASE Reply(c, "consent")
      BY <3>2, ReplyTyped DEF HostTyped, TypeOK, Answers
    <3>3. QED  BY <1>2, <3>1, <3>2 DEF TakeFill
  <2>2. uses' \in Nat /\ filled' \in Nat /\ job' \in [Cmds -> {"none", "observe", "act", "load"}]
    BY <1>2 DEF TakeFill, TypeOK
  <2>3. inbox' \in [Cmds -> Kinds \cup {"none"}] /\ (Queued # {} => Queued' # {})
    BY <1>2 DEF TakeFill, Take, TypeOK, Queued
  <2>4. QED
    BY <1>2, <2>1, <2>2, <2>3 DEF TakeFill, TypeOK, HostTyped, Spare, loopVars, eventVars
<1>3. ASSUME NEW c \in Cmds, TakeGoto(c) PROVE TypeOK'
  BY <1>3
     DEF TakeGoto, Take, Serves, Reply, Idle, Answers, TypeOK, Spare, Evals, Queued, loopVars,
         worldVars, callVars, hostVars, pageVars, eventVars
<1>4. ASSUME NEW c \in Cmds, TakeWait(c) PROVE TypeOK'
  BY <1>4
     DEF TakeWait, Take, Serves, Reply, Idle, Answers, TypeOK, Spare, Evals, Queued, loopVars,
         worldVars, callVars, hostVars, pageVars, eventVars
<1>5. ASSUME NEW c \in Cmds, TakeResolve(c) PROVE TypeOK'
  <2>1. HostTyped'
    <3>1. HostTyped /\ Reply(c, "over")
      BY <1>5 DEF TakeResolve, HostTyped, TypeOK
    <3>2. QED  BY <3>1, ReplyTyped DEF Answers
  <2>2. inbox' \in [Cmds -> Kinds \cup {"none"}]
    BY <1>5 DEF TakeResolve, Take, TypeOK
  <2>3. gate' = c /\ pending' = FALSE
    BY <1>5 DEF TakeResolve
  <2>4. UNCHANGED <<loopVars, programs, mark, sent, uses, filled, pageVars, transit, queue>>
    BY <1>5 DEF TakeResolve
  <2>5. QED
    BY <2>1, <2>2, <2>3, <2>4 DEF TypeOK, HostTyped, Spare, Queued, loopVars, pageVars
<1>6. CASE WaitChecks
  <2>1. HostTyped'
    BY <1>6, ReplyTyped, GoesTyped DEF WaitChecks, TypeOK, HostTyped, Answers
  <2>2. queue' \subseteq Dialogs
    BY <1>6 DEF WaitChecks, TypeOK
  <2>3. QED
    BY <1>6, <2>1, <2>2 DEF WaitChecks, TypeOK, HostTyped, Spare, Queued, loopVars, pageVars
<1>7. CASE WaitRegisters
  BY <1>7
     DEF WaitRegisters, Reply, Goes, Idle, Answers, TypeOK, Spare, Evals, Queued, loopVars,
         worldVars, callVars, hostVars, pageVars, eventVars
<1>8. CASE WaitTimesOut
  BY <1>8
     DEF WaitTimesOut, Reply, Goes, Idle, Answers, TypeOK, Spare, Evals, Queued, loopVars,
         worldVars, callVars, hostVars, pageVars, eventVars
<1>9. CASE Decide
  <2>1. HostTyped'
    BY <1>9, ReplyTyped, GoesTyped DEF Decide, TypeOK, HostTyped, Answers
  <2>2. job' \in [Cmds -> {"none", "observe", "act", "load"}] /\ (Queued # {} => Queued' # {})
    BY <1>9 DEF Decide, TypeOK, Queued
  <2>3. QED
    BY <1>9, <2>1, <2>2 DEF Decide, TypeOK, HostTyped, Spare, loopVars, eventVars
<1>10. CASE ActTimesOut
  BY <1>10
     DEF ActTimesOut, Reply, Goes, Idle, Answers, TypeOK, Spare, Evals, Queued, loopVars,
         worldVars, callVars, hostVars, pageVars, eventVars
<1>11. QED  BY <1>1, <1>2, <1>3, <1>4, <1>5, <1>6, <1>7, <1>8, <1>9, <1>10 DEF HostNext, Takes

PageNext ==
    \/ DialogEnds \/ PageGoesOn
    \/ \E c \in Cmds : Deliver(c) \/ OpenDialog(c)
    \/ \E d \in Dialogs : HubTakes(d)
    \/ Expire

LEMMA PageTypeOK ==
    ASSUME TypeOK, PageNext
    PROVE  TypeOK'
<1>1. CASE TakeAnswer
  BY <1>1, DialogsAssumption
     DEF TakeAnswer, TypeOK, Spare, Evals, Queued, loopVars, worldVars, callVars, hostVars,
         pageVars, eventVars
<1>2. CASE DialogTimesOut
  BY <1>2, DialogsAssumption
     DEF DialogTimesOut, TypeOK, Spare, Evals, Queued, loopVars, worldVars, callVars,
         hostVars, pageVars, eventVars
<1>3. CASE Expire
  BY <1>3, DialogsAssumption
     DEF Expire, TypeOK, Spare, Evals, Queued, loopVars, worldVars, callVars, hostVars,
         pageVars, eventVars
<1>4. ASSUME NEW c \in Cmds, Deliver(c) PROVE TypeOK'
  BY <1>4, DialogsAssumption
     DEF Deliver, TypeOK, Spare, Evals, Queued, loopVars, worldVars, callVars, hostVars,
         pageVars, eventVars
<1>5. ASSUME NEW c \in Cmds, OpenDialog(c) PROVE TypeOK'
  BY <1>5, DialogsAssumption
     DEF OpenDialog, Running, First, Dialogs, TypeOK, Spare, Evals, Queued, loopVars,
         worldVars, callVars, hostVars, pageVars, eventVars
<1>6. ASSUME NEW c \in Cmds, JobEnds(c) PROVE TypeOK'
  <2>1. HostTyped'
    BY <1>6, FinishTyped DEF JobEnds, TypeOK, HostTyped, Answers
  <2>2. job' \in [Cmds -> {"none", "observe", "act", "load"}] /\ parked' = 0
    BY <1>6 DEF JobEnds, Running, TypeOK
  <2>3. QED
    BY <1>6, <2>1, <2>2 DEF JobEnds, TypeOK, HostTyped, Spare, loopVars, eventVars
<1>7. ASSUME NEW d \in Dialogs, HubTakes(d) PROVE TypeOK'
  BY <1>7, DialogsAssumption
     DEF HubTakes, Goes, TypeOK, Spare, Evals, Queued, loopVars, worldVars, callVars,
         hostVars, pageVars, eventVars
<1>8. QED  BY <1>1, <1>2, <1>3, <1>4, <1>5, <1>6, <1>7 DEF PageNext, DialogEnds, PageGoesOn

-----------------------------------------------------------------------------
(* Where commands are *)

LEMMA InitPlaced == Init => Placed
BY CmdsAssumption
   DEF Init, Placed, HostAtWork, Command, Behind, UnderWay, Open, Idle, Cmds

LEMMA PlacedStays ==
    ASSUME Placed, UNCHANGED <<sent, told, inbox, host, job, acted>>
    PROVE  Placed'
BY DEF Placed, HostAtWork, Command, Behind, UnderWay, Open

LEMMA HostOfCommand ==
    ASSUME TypeOK, Placed, host.at # "idle"
    PROVE  host.cmd \in Cmds /\ UnderWay(host.cmd) /\ inbox[host.cmd] = "none"
BY DEF TypeOK, Placed, HostAtWork, Command, UnderWay

\* A new command is the last one.
LEMMA CallPlaced ==
    ASSUME TypeOK, Placed, NEW k \in Kinds, Call(k)
    PROVE  Placed'
<1> DEFINE n == sent + 1
<1>1. /\ n \in Cmds /\ sent' = n /\ sent \in Nat
      /\ inbox' = [inbox EXCEPT ![n] = k]
      /\ UNCHANGED <<told, host, job, acted>>
  BY CmdsAssumption DEF Call, Cmds, TypeOK, hostVars, pageVars
<1>2. /\ inbox[n] = "none" /\ job[n] = "none" /\ host.cmd # n
      /\ n \notin acted /\ told[n] = "none"
  BY <1>1 DEF Placed, Command, UnderWay
<1>3. inbox'[n] = k /\ \A d \in Cmds \ {n} : inbox'[d] = inbox[d]
  BY <1>1 DEF TypeOK
<1>4. HostAtWork'
  BY <1>1 DEF Placed, HostAtWork
<1>5. ASSUME NEW c \in Cmds PROVE Command(c)'
  <2>1. CASE c = n
    BY <1>1, <1>2, <2>1 DEF Placed, Command, UnderWay, Open, Cmds
  <2>2. CASE c # n
    BY <1>1, <1>3, <2>2 DEF Placed, Command, UnderWay, Open, Cmds
  <2>3. QED  BY <2>1, <2>2
<1>6. ASSUME NEW c \in Cmds, NEW d \in Cmds PROVE Behind(c, d)'
  <2>1. UnderWay(c) \/ c \in acted => c < n
    BY <1>1 DEF Placed, Command, Cmds
  <2>2. CASE d = n
    BY <1>1, <1>2, <2>1, <2>2 DEF Behind, UnderWay
  <2>3. CASE d # n
    BY <1>1, <1>3, <2>3 DEF Placed, Behind, UnderWay
  <2>4. QED  BY <2>2, <2>3
<1>7. QED  BY <1>4, <1>5, <1>6 DEF Placed

LEMMA GiveUpPlaced ==
    ASSUME TypeOK, Called, Placed, GiveUp
    PROVE  Placed'
<1>1. UNCHANGED <<sent, inbox, host, job, acted>>
  BY DEF GiveUp, hostVars, pageVars
<1>2. ASSUME NEW c \in Cmds PROVE told'[c] = told[c] \/ (c = world.cmd /\ told'[c] = "gaveup")
  <2>1. told' = [told EXCEPT ![world.cmd] = "gaveup"]
    BY DEF GiveUp
  <2>2. told \in [Cmds -> Answers]
    BY DEF TypeOK
  <2>3. QED  BY <2>1, <2>2
<1>3. ASSUME NEW c \in Cmds PROVE Command(c)'
  <2>1. CASE told'[c] = told[c]
    BY <1>1, <2>1 DEF Placed, Command, UnderWay, Open
  <2>2. CASE c = world.cmd /\ told'[c] = "gaveup"
    <3>1. c <= sent
      BY <2>2 DEF Called
    <3>2. QED  BY <1>1, <2>2, <3>1 DEF TypeOK, Placed, Command, UnderWay, Open, Cmds
  <2>3. QED  BY <1>2, <2>1, <2>2
<1>4. HostAtWork' /\ \A c, d \in Cmds : Behind(c, d)'
  BY <1>1 DEF Placed, HostAtWork, Behind, UnderWay
<1>5. QED  BY <1>3, <1>4 DEF Placed

\* The host is done with a command and answers, or nobody listens any more.
LEMMA AnswerPlaced ==
    ASSUME TypeOK, Placed, NEW c \in Cmds, NEW answer \in Answers \ {"none"},
           Reply(c, answer), UnderWay(c), host.at = "idle" \/ host.cmd = c,
           inbox'[c] = "none",
           \/ job'[c] = "none"
           \/ job'[c] = "act" /\ job[c] = "act" /\ answer \in {"blocked", "stuck"},
           \A d \in Cmds \ {c} : inbox'[d] = inbox[d] /\ job'[d] = job[d],
           answer = "acted" => c \in acted,
           answer \in {"refused", "consent"} => c \notin acted,
           UNCHANGED <<sent, acted>>
    PROVE  Placed'
<1>1. host' = Idle
  BY DEF Reply
<1>2. ASSUME NEW d \in Cmds PROVE told'[d] = told[d] \/ (d = c /\ told'[d] = answer)
  <2>1. told' = [told EXCEPT ![c] = answer] \/ told' = told
    BY DEF Reply
  <2>2. told \in [Cmds -> Answers]
    BY DEF TypeOK
  <2>3. QED  BY <2>1, <2>2
<1>3. HostAtWork'
  BY <1>1 DEF HostAtWork, Idle
<1>4. host.cmd = c \/ host.cmd \notin Cmds
  BY DEF Placed, HostAtWork, Cmds
<1>5. ASSUME NEW d \in Cmds PROVE Command(d)'
  <2>1. CASE d = c
    BY <1>1, <1>2, <2>1 DEF TypeOK, Placed, Command, UnderWay, Open, Idle, Cmds
  <2>2. CASE d # c
    BY <1>1, <1>2, <1>4, <2>2 DEF Placed, Command, UnderWay, Open, Idle, Cmds
  <2>3. QED  BY <2>1, <2>2
<1>6. ASSUME NEW d \in Cmds, NEW e \in Cmds PROVE Behind(d, e)'
  <2>1. host'.cmd \notin Cmds
    BY <1>1 DEF Idle, Cmds
  <2>2. /\ inbox'[d] # "none" => inbox[d] # "none"
        /\ job'[d] # "none" => job[d] # "none"
        /\ inbox'[e] # "none" => inbox[e] # "none"
        /\ job'[e] # "none" => job[e] # "none"
    OBVIOUS
  <2>3. QED  BY <2>1, <2>2 DEF Placed, Behind, UnderWay
<1>7. QED  BY <1>3, <1>5, <1>6 DEF Placed

\* The host takes the oldest command from its channel.
LEMMA TakePlaced ==
    ASSUME TypeOK, Placed, NEW c \in Cmds, NEW k, Take(c, k),
           NEW at \in {"observe", "load", "check"}, Serves(c, at),
           at = "check" => UNCHANGED job,
           at # "check" => job' = [job EXCEPT ![c] = at],
           UNCHANGED <<sent, told, acted>>
    PROVE  Placed'
<1>1. /\ host.cmd = 0 /\ host'.at = at /\ host'.cmd = c
      /\ inbox[c] # "none" /\ inbox' = [inbox EXCEPT ![c] = "none"]
      /\ \A d \in Cmds : inbox[d] # "none" => c <= d
  BY DEF Take, Serves, First, Sent, Placed, HostAtWork
<1>2. /\ inbox'[c] = "none" /\ \A d \in Cmds \ {c} : inbox'[d] = inbox[d] /\ job'[d] = job[d]
      /\ job[c] = "none" /\ c \notin acted
      /\ job'[c] = IF at = "check" THEN "none" ELSE at
  BY <1>1 DEF TypeOK, Placed, Command
<1>3. HostAtWork'
  BY <1>1, <1>2 DEF HostAtWork, Cmds
<1>4. ASSUME NEW d \in Cmds PROVE Command(d)'
  <2>1. CASE d = c
    BY <1>1, <1>2, <2>1 DEF Placed, Command, UnderWay, Open
  <2>2. CASE d # c
    BY <1>1, <1>2, <2>2 DEF Placed, Command, UnderWay, Open, Cmds
  <2>3. QED  BY <2>1, <2>2
<1>5. ASSUME NEW d \in Cmds, NEW e \in Cmds PROVE Behind(d, e)'
  <2>1. /\ job'[d] # "none" => job[d] # "none" \/ d = c
        /\ job'[e] # "none" => job[e] # "none" \/ e = c
        /\ inbox'[e] # "none" => inbox[e] # "none" /\ e # c
    BY <1>2
  <2>2. job[d] # "none" => d < c
    BY <1>1 DEF Placed, Behind
  <2>3. d \in acted => d < c
    BY <1>1, <1>2 DEF Placed, Behind, UnderWay
  <2>4. inbox[e] # "none" /\ e # c => c < e
    BY <1>1 DEF Cmds
  <2>5. QED
    BY <1>1, <1>2, <2>1, <2>2, <2>3, <2>4 DEF Placed, Behind, UnderWay, Cmds
<1>6. QED  BY <1>3, <1>4, <1>5 DEF Placed

\* The host goes on with its command.
LEMMA GoesPlaced ==
    ASSUME TypeOK, Placed, host.at \notin {"idle", "act"},
           NEW at \in {"decide", "act", "check", "gap", "waiting"}, Goes(at),
           job'[host.cmd] = IF at = "act" THEN "act" ELSE "none",
           \A d \in Cmds \ {host.cmd} : job'[d] = job[d],
           UNCHANGED <<sent, told, inbox, acted>>
    PROVE  Placed'
<1> DEFINE c == host.cmd
<1>1. c \in Cmds /\ c # 0 /\ inbox[c] = "none" /\ c \notin acted /\ c <= sent /\ Open(c)
  BY HostOfCommand DEF Placed, Command, Cmds
<1>2. host'.at = at /\ host'.cmd = c
  BY DEF Goes, TypeOK
<1>3. HostAtWork'
  BY <1>1, <1>2 DEF HostAtWork
<1>4. ASSUME NEW d \in Cmds PROVE Command(d)'
  <2>1. CASE d = c
    BY <1>1, <1>2, <2>1 DEF Placed, Command, UnderWay, Open
  <2>2. CASE d # c
    BY <1>1, <1>2, <2>2 DEF Placed, Command, UnderWay, Open
  <2>3. QED  BY <2>1, <2>2
<1>5. ASSUME NEW d \in Cmds, NEW e \in Cmds PROVE Behind(d, e)'
  BY <1>1, <1>2 DEF Placed, Behind, UnderWay, Cmds
<1>6. QED  BY <1>3, <1>4, <1>5 DEF Placed

\* The page sees an act; what it has not seen yet is younger.
LEMMA DeliverPlaced ==
    ASSUME TypeOK, Placed, NEW c \in Cmds, Deliver(c)
    PROVE  Placed' /\ InOrder
<1>1. /\ job[c] = "act" /\ c \notin acted /\ acted' = acted \cup {c}
      /\ \A d \in Cmds : job[d] # "none" => c <= d
      /\ UNCHANGED <<sent, told, inbox, host, job>>
  BY DEF Deliver, Running, First, Queued, callVars, hostVars
<1>2. UnderWay(c) /\ c <= sent /\ Open(c) /\ inbox[c] = "none"
  BY <1>1 DEF Placed, Command, UnderWay
<1>3. host.cmd = c => host.at = "act"
  BY <1>1 DEF Placed, HostAtWork, TypeOK, Cmds
<1>4. HostAtWork'
  BY <1>1 DEF Placed, HostAtWork
<1>5. ASSUME NEW d \in Cmds PROVE Command(d)'
  BY <1>1, <1>2, <1>3 DEF Placed, Command, UnderWay, Open
<1>6. ASSUME NEW d \in Cmds, NEW e \in Cmds PROVE Behind(d, e)'
  BY <1>1 DEF Placed, Behind, UnderWay, Cmds
<1>7. InOrder
  BY <1>1, <1>2 DEF InOrder, Placed, Behind, TypeOK
<1>8. QED  BY <1>4, <1>5, <1>6, <1>7 DEF Placed

-----------------------------------------------------------------------------
(* The steps *)

\* What is proved of each step.
Keeps == Called' /\ Placed' /\ FillsAreGranted' /\ InOrder

\* A step of the others, which leaves the commands and the grants alone.
LEMMA Elsewhere ==
    ASSUME IInv, UNCHANGED <<sent, told, inbox, host, job, acted, uses, filled, yes>>,
           world'.cmd \in {world.cmd, 0}
    PROVE  Keeps
<1>1. Placed'
  BY PlacedStays DEF IInv
<1>2. Called'
  BY DEF IInv, Called, TypeOK
<1>3. FillsAreGranted' /\ InOrder
  BY DEF IInv, FillsAreGranted, InOrder
<1>4. QED  BY <1>1, <1>2, <1>3 DEF Keeps

LEMMA LoopKeeps ==
    ASSUME IInv, LoopNext
    PROVE  Keeps
<1>1. CASE Approve
  <2>1. Placed' /\ Called' /\ InOrder
    BY <1>1, PlacedStays DEF Approve, IInv, Called, InOrder, callVars, pageVars
  <2>2. yes' = yes + 1 /\ uses' = uses + GrantUses /\ filled' = filled
    BY <1>1 DEF Approve
  <2>3. GrantUses * yes \in Nat /\ GrantUses * (yes + 1) = GrantUses * yes + GrantUses
    BY UsesAssumption DEF IInv, TypeOK
  <2>4. FillsAreGranted'
    BY <2>2, <2>3, UsesAssumption DEF IInv, TypeOK, FillsAreGranted
  <2>5. QED  BY <2>1, <2>4 DEF Keeps
<1>2. CASE Program \/ EmptyReply \/ Stop \/ EvalTimesOut \/ Decline \/ Shutdown
  BY <1>2, Elsewhere
     DEF Program, EmptyReply, Stop, EvalTimesOut, Decline, Shutdown,
         worldVars, callVars, hostVars, pageVars
<1>3. QED  BY <1>1, <1>2 DEF LoopNext

LEMMA WorldKeeps ==
    ASSUME IInv, WorldNext
    PROVE  Keeps
<1>1. ASSUME NEW e \in Evals, TakeProgram(e) PROVE Keeps
  BY <1>1, Elsewhere DEF TakeProgram, loopVars, callVars, hostVars, pageVars
<1>2. ASSUME NEW k \in Kinds, Call(k) PROVE Keeps
  <2>1. Placed'
    BY <1>2, CallPlaced DEF IInv
  <2>2. Called'
    BY <1>2 DEF Call, IInv, Called, TypeOK
  <2>3. FillsAreGranted' /\ InOrder
    BY <1>2 DEF Call, IInv, FillsAreGranted, InOrder, loopVars, hostVars, pageVars
  <2>4. QED  BY <2>1, <2>2, <2>3 DEF Keeps
<1>3. CASE GiveUp
  <2>1. Placed'
    BY <1>3, GiveUpPlaced DEF IInv
  <2>2. Called'
    BY <1>3 DEF GiveUp, IInv, Called, TypeOK
  <2>3. FillsAreGranted' /\ InOrder
    BY <1>3 DEF GiveUp, IInv, FillsAreGranted, InOrder, loopVars, hostVars, pageVars
  <2>4. QED  BY <2>1, <2>2, <2>3 DEF Keeps
<1>4. CASE MarkDone \/ ProgramTimesOut
  BY <1>4, Elsewhere
     DEF MarkDone, ProgramTimesOut, Sleeping, loopVars, callVars, hostVars, pageVars
<1>5. ASSUME NEW r \in {"done", "value", "consent", "error"}, Settle(r) PROVE Keeps
  BY <1>5, Elsewhere DEF Settle, Sleeping, callVars, hostVars, pageVars
<1>6. QED  BY <1>1, <1>2, <1>3, <1>4, <1>5 DEF WorldNext

\* An answer leaves the command the program waits for, and the grants, as they are.
LEMMA RestOfHost ==
    ASSUME IInv, UNCHANGED <<sent, acted, uses, filled, yes>>,
           world' = world \/ world' = [world EXCEPT !.at = "run"]
    PROVE  Called' /\ FillsAreGranted' /\ InOrder
BY DEF IInv, Called, FillsAreGranted, InOrder, TypeOK

\* The host answers a command it has just taken.
LEMMA TakenAnswered ==
    ASSUME IInv, NEW c \in Cmds, NEW k, NEW answer \in {"consent", "over"},
           Take(c, k), Reply(c, answer), UNCHANGED <<sent, job, acted>>
    PROVE  Placed'
<1>1. /\ inbox[c] # "none" /\ inbox'[c] = "none" /\ host.at = "idle"
      /\ \A d \in Cmds \ {c} : inbox'[d] = inbox[d]
  BY DEF Take, First, Sent, IInv, TypeOK
<1>2. job[c] = "none" /\ c \notin acted /\ UnderWay(c)
  BY <1>1 DEF IInv, Placed, Command, UnderWay
<1>3. answer \in Answers \ {"none"}
  BY DEF Answers
<1>4. /\ job'[c] = "none" /\ \A d \in Cmds \ {c} : inbox'[d] = inbox[d] /\ job'[d] = job[d]
      /\ answer # "acted" /\ UNCHANGED <<sent, acted>>
  BY <1>1, <1>2
<1>5. TypeOK /\ Placed
  BY DEF IInv
<1>6. QED  BY <1>1, <1>2, <1>3, <1>4, <1>5, AnswerPlaced

\* The host answers the command it is at, of which nothing is left in the page unless
\* it gives an act up.
LEMMA HostAnswers ==
    ASSUME IInv, host.at # "idle", NEW answer \in Answers \ {"none", "acted", "consent"},
           Reply(host.cmd, answer), UNCHANGED <<sent, inbox, job, acted>>,
           \/ host.at \in {"decide", "check", "gap", "waiting"}
           \/ host.at = "act" /\ answer \in {"blocked", "stuck"}
    PROVE  Placed'
<1>1. host.cmd \in Cmds /\ UnderWay(host.cmd) /\ inbox[host.cmd] = "none"
  BY HostOfCommand DEF IInv
<1>2. job[host.cmd] = "none" \/ (job[host.cmd] = "act" /\ answer \in {"blocked", "stuck"})
  BY DEF IInv, Placed, HostAtWork
<1>3. answer = "refused" => host.cmd \notin acted
  BY <1>1 DEF IInv, Placed, Command
<1>4. /\ job'[host.cmd] = job[host.cmd]
      /\ \A d \in Cmds \ {host.cmd} : inbox'[d] = inbox[d] /\ job'[d] = job[d]
      /\ inbox'[host.cmd] = "none" /\ answer \notin {"acted", "consent"}
      /\ UNCHANGED <<sent, acted>>
  BY <1>1
<1>5. TypeOK /\ Placed
  BY DEF IInv
<1>6. QED  BY <1>1, <1>2, <1>3, <1>4, <1>5, AnswerPlaced

LEMMA HostKeeps ==
    ASSUME IInv, HostNext
    PROVE  Keeps
<1>1. ASSUME NEW c \in Cmds, TakeAct(c) PROVE Keeps
  <2>1. Placed'
    BY <1>1, TakePlaced DEF TakeAct, IInv
  <2>2. QED  BY <1>1, <2>1, RestOfHost DEF TakeAct, Keeps, loopVars, worldVars
<1>2. ASSUME NEW c \in Cmds, TakeFill(c) PROVE Keeps
  <2>1. CASE uses = 0 /\ Reply(c, "consent") /\ UNCHANGED <<uses, filled, job>>
    <3>1. Placed'
      BY <1>2, <2>1, TakenAnswered DEF TakeFill
    <3>2. QED  BY <1>2, <2>1, <3>1, RestOfHost DEF TakeFill, Reply, Keeps, loopVars
  <2>2. CASE /\ uses > 0 /\ uses' = uses - 1 /\ filled' = filled + 1
             /\ job' = [job EXCEPT ![c] = "observe"] /\ Serves(c, "observe")
             /\ UNCHANGED <<world, told>>
    <3>1. Placed'
      BY <1>2, <2>2, TakePlaced DEF TakeFill, IInv
    <3>2. Called' /\ InOrder
      BY <1>2, <2>2 DEF TakeFill, IInv, Called, InOrder
    <3>3. FillsAreGranted'
      BY <1>2, <2>2 DEF TakeFill, IInv, TypeOK, FillsAreGranted, loopVars
    <3>4. QED  BY <3>1, <3>2, <3>3 DEF Keeps
  <2>3. QED  BY <1>2, <2>1, <2>2 DEF TakeFill
<1>3. ASSUME NEW c \in Cmds, TakeGoto(c) PROVE Keeps
  <2>1. Placed'
    BY <1>3, TakePlaced DEF TakeGoto, IInv
  <2>2. QED  BY <1>3, <2>1, RestOfHost DEF TakeGoto, Keeps, loopVars, worldVars
<1>4. ASSUME NEW c \in Cmds, TakeWait(c) PROVE Keeps
  <2>1. Placed'
    BY <1>4, TakePlaced DEF TakeWait, IInv, pageVars
  <2>2. QED  BY <1>4, <2>1, RestOfHost DEF TakeWait, Keeps, loopVars, worldVars, pageVars
<1>5. ASSUME NEW c \in Cmds, TakeResolve(c) PROVE Keeps
  <2>1. Placed'
    BY <1>5, TakenAnswered DEF TakeResolve, pageVars
  <2>2. QED  BY <1>5, <2>1, RestOfHost DEF TakeResolve, Reply, Keeps, loopVars, pageVars
<1>6. CASE WaitChecks
  <2>1. Placed'
    <3>1. CASE Reply(host.cmd, "over")
      BY <1>6, <3>1, HostAnswers DEF WaitChecks, pageVars, Answers
    <3>2. CASE Goes("gap") /\ UNCHANGED <<told, world>>
      BY <1>6, <3>2, GoesPlaced DEF WaitChecks, pageVars, IInv, Placed, HostAtWork
    <3>3. QED  BY <1>6, <3>1, <3>2 DEF WaitChecks
  <2>2. QED  BY <1>6, <2>1, RestOfHost DEF WaitChecks, Reply, Keeps, loopVars, pageVars
<1>7. CASE WaitRegisters
  <2>1. Placed'
    BY <1>7, GoesPlaced DEF WaitRegisters, callVars, pageVars, IInv, Placed, HostAtWork
  <2>2. QED
    BY <1>7, <2>1, RestOfHost DEF WaitRegisters, Keeps, loopVars, worldVars, callVars, pageVars
<1>8. CASE WaitTimesOut
  <2>1. Placed'
    BY <1>8, HostAnswers DEF WaitTimesOut, pageVars, Answers
  <2>2. QED  BY <1>8, <2>1, RestOfHost DEF WaitTimesOut, Reply, Keeps, loopVars, pageVars
<1>9. CASE Decide
  <2>1. Placed'
    <3>1. CASE Reply(host.cmd, "refused") /\ UNCHANGED job
      BY <1>9, <3>1, HostAnswers DEF Decide, Answers
    <3>2. CASE job' = [job EXCEPT ![host.cmd] = "act"] /\ Goes("act") /\ UNCHANGED <<told, world>>
      <4>1. host.cmd \in Cmds
        BY <1>9, HostOfCommand DEF Decide, IInv
      <4>2. job'[host.cmd] = "act" /\ \A d \in Cmds \ {host.cmd} : job'[d] = job[d]
        BY <3>2, <4>1 DEF IInv, TypeOK
      <4>3. QED  BY <1>9, <3>2, <4>2, GoesPlaced DEF Decide, IInv
    <3>3. QED  BY <1>9, <3>1, <3>2 DEF Decide
  <2>2. QED  BY <1>9, <2>1, RestOfHost DEF Decide, Reply, Keeps, loopVars
<1>10. CASE ActTimesOut
  <2>1. Placed'
    BY <1>10, HostAnswers DEF ActTimesOut, pageVars, Answers
  <2>2. QED  BY <1>10, <2>1, RestOfHost DEF ActTimesOut, Reply, Keeps, loopVars, pageVars
<1>11. QED
  BY <1>1, <1>2, <1>3, <1>4, <1>5, <1>6, <1>7, <1>8, <1>9, <1>10 DEF HostNext, Takes

\* The JS thread has ended a command: the host observes, or answers.
LEMMA JobEndsPlaced ==
    ASSUME IInv, NEW c \in Cmds, JobEnds(c)
    PROVE  Placed'
<1>1. /\ job[c] # "none" /\ job' = [job EXCEPT ![c] = "none"]
      /\ UNCHANGED <<sent, inbox, acted>>
  BY DEF JobEnds, Running, First, Queued
<1>2. job'[c] = "none" /\ \A d \in Cmds \ {c} : job'[d] = job[d]
  BY <1>1 DEF IInv, TypeOK
<1>3. inbox[c] = "none" /\ UnderWay(c)
  BY <1>1 DEF IInv, Placed, Command, UnderWay
<1>4. CASE ~(host.at # "idle" /\ host.cmd = c)
  <2>1. UNCHANGED <<host, told>> /\ host.cmd # c
    BY <1>4 DEF JobEnds, Finish, IInv, Placed, HostAtWork, Cmds
  <2>2. HostAtWork'
    BY <1>2, <2>1 DEF IInv, TypeOK, Placed, HostAtWork
  <2>3. ASSUME NEW d \in Cmds PROVE Command(d)'
    BY <1>1, <1>2, <2>1 DEF IInv, Placed, Command, UnderWay, Open
  <2>4. ASSUME NEW d \in Cmds, NEW e \in Cmds PROVE Behind(d, e)'
    BY <1>1, <1>2, <2>1 DEF IInv, Placed, Behind, UnderWay
  <2>5. QED  BY <2>2, <2>3, <2>4 DEF Placed
<1>5. CASE host.at # "idle" /\ host.cmd = c
  <2>1. CASE job[c] = "observe"
    <3>1. Goes("decide") /\ UNCHANGED told
      BY <1>5, <2>1 DEF JobEnds, Finish
    <3>2. host.at # "act"
      BY <1>5, <2>1 DEF IInv, Placed, HostAtWork
    <3>3. QED  BY <1>1, <1>2, <1>5, <3>1, <3>2, GoesPlaced DEF IInv
  <2>2. CASE job[c] # "observe"
    <3>1. PICK answer \in {"over", "acted"} :
              Reply(c, answer) /\ (answer = "acted" => c \in acted)
      BY <1>5, <2>2 DEF JobEnds, Finish
    <3>2. answer \in Answers \ {"none"} /\ answer \notin {"refused", "consent"}
      BY DEF Answers
    <3>3. \A d \in Cmds \ {c} : inbox'[d] = inbox[d] /\ job'[d] = job[d]
      BY <1>1, <1>2
    <3>4. TypeOK /\ Placed /\ inbox'[c] = "none" /\ UNCHANGED <<sent, acted>>
      BY <1>1, <1>3 DEF IInv
    <3>5. QED  BY <1>2, <1>3, <1>5, <3>1, <3>2, <3>3, <3>4, AnswerPlaced
  <2>3. QED  BY <2>1, <2>2
<1>6. QED  BY <1>4, <1>5

LEMMA PageKeeps ==
    ASSUME IInv, PageNext
    PROVE  Keeps
<1>1. CASE TakeAnswer \/ DialogTimesOut
  BY <1>1, Elsewhere
     DEF TakeAnswer, DialogTimesOut, loopVars, worldVars, callVars, hostVars
<1>2. ASSUME NEW c \in Cmds, JobEnds(c) PROVE Keeps
  <2>1. Placed'
    BY <1>2, JobEndsPlaced
  <2>2. world' = world \/ world' = [world EXCEPT !.at = "run"]
    BY <1>2 DEF JobEnds, Finish, Reply
  <2>3. QED  BY <1>2, <2>1, <2>2, RestOfHost DEF JobEnds, Keeps, loopVars
<1>3. ASSUME NEW c \in Cmds, Deliver(c) PROVE Keeps
  <2>1. Placed' /\ InOrder
    BY <1>3, DeliverPlaced DEF IInv
  <2>2. Called' /\ FillsAreGranted'
    BY <1>3 DEF Deliver, IInv, Called, FillsAreGranted, loopVars, worldVars, callVars, hostVars
  <2>3. QED  BY <2>1, <2>2 DEF Keeps
<1>4. ASSUME NEW c \in Cmds, OpenDialog(c) PROVE Keeps
  BY <1>4, Elsewhere DEF OpenDialog, loopVars, worldVars, callVars, hostVars
<1>5. ASSUME NEW d \in Dialogs, HubTakes(d) PROVE Keeps
  <2>1. CASE host.at = "waiting"
    <3>1. Placed'
      BY <1>5, <2>1, GoesPlaced DEF HubTakes, callVars, pageVars, IInv, Placed, HostAtWork
    <3>2. QED
      BY <1>5, <3>1, RestOfHost DEF HubTakes, Keeps, loopVars, worldVars, callVars, pageVars
  <2>2. CASE host.at # "waiting"
    BY <1>5, <2>2, Elsewhere DEF HubTakes, loopVars, worldVars, callVars, pageVars
  <2>3. QED  BY <2>1, <2>2
<1>6. CASE Expire
  <2>1. Placed' /\ Called' /\ InOrder
    BY <1>6, PlacedStays DEF Expire, IInv, Called, InOrder, worldVars, callVars, pageVars
  <2>2. GrantUses * yes \in Nat /\ GrantUses * yes' = GrantUses * yes
    BY <1>6, UsesAssumption DEF Expire, IInv, TypeOK, loopVars
  <2>3. FillsAreGranted'
    BY <1>6, <2>2 DEF Expire, IInv, TypeOK, FillsAreGranted
  <2>4. QED  BY <2>1, <2>3 DEF Keeps
<1>7. QED
  BY <1>1, <1>2, <1>3, <1>4, <1>5, <1>6 DEF PageNext, DialogEnds, PageGoesOn

LEMMA InitIInv == Init => IInv
<1> SUFFICES ASSUME Init PROVE IInv
  OBVIOUS
<1>1. Called /\ FillsAreGranted
  BY UsesAssumption DEF Init, Called, Sleeping, FillsAreGranted
<1>2. QED  BY <1>1, InitTypeOK, InitPlaced DEF IInv

LEMMA NextIInv ==
    ASSUME IInv, [Next]_vars
    PROVE  IInv' /\ [InOrder]_vars
<1>1. CASE LoopNext
  BY <1>1, LoopTypeOK, LoopKeeps DEF IInv, Keeps
<1>2. CASE WorldNext
  BY <1>2, WorldTypeOK, WorldKeeps DEF IInv, Keeps
<1>3. CASE HostNext
  BY <1>3, HostTypeOK, HostKeeps DEF IInv, Keeps
<1>4. CASE PageNext
  BY <1>4, PageTypeOK, PageKeeps DEF IInv, Keeps
<1>5. CASE UNCHANGED vars
  <2>1. UNCHANGED <<sent, told, inbox, host, job, acted, uses, filled, yes, world>>
    BY <1>5 DEF vars, loopVars, worldVars, callVars, hostVars, pageVars
  <2>2. Called' /\ Placed' /\ FillsAreGranted'
    BY <2>1, Elsewhere DEF Keeps
  <2>3. TypeOK'
    BY <1>5
       DEF IInv, TypeOK, Spare, Queued, vars, loopVars, worldVars, callVars, hostVars,
           pageVars, eventVars
  <2>4. QED  BY <1>5, <2>2, <2>3 DEF IInv
<1>6. QED  BY <1>1, <1>2, <1>3, <1>4, <1>5 DEF Next, PageNext

\* The inductive invariant implies the properties.
LEMMA IInvAnswers == IInv => AnswersAreFinal /\ FillsAreGranted
BY DEF IInv, Placed, Command, UnderWay, AnswersAreFinal

-----------------------------------------------------------------------------
(* Theorems *)

\* Type correctness, with at most two evaluations of each reply of the model (loop_.rs,
\* run and handle_consent).
THEOREM TypeCorrect == Spec => []TypeOK
<1>1. IInv => TypeOK
  BY DEF IInv
<1>2. QED  BY InitIInv, NextIInv, <1>1, PTL DEF Spec

\* Whatever times out and whatever is evaluated again: a program is told the truth of
\* its acts, an answer is the end of its command, acts reach the page in the order in
\* which they were asked for, and no credential is released beyond the consents given
\* (repl.rs, ReplHost::run; world.rs, __host; loop_.rs, handle_consent).
THEOREM Truth == Spec => ActsAreTrue
<1>1. IInv /\ [Next]_vars => IInv' /\ [InOrder]_vars
  BY NextIInv
<1>2. QED  BY InitIInv, <1>1, IInvAnswers, PTL DEF Spec, ActsAreTrue
-----------------------------------------------------------------------------
(* Nobody waits in vain *)

\* The evaluation the loop waits for is still to be taken, or in progress.
EvaluationIsThere ==
    loop \in {"eval", "retry"} => evals \in programs \/ (world.at # "idle" /\ world.eval = evals)

\* The command the program waits for is still to be taken, or the host is at it.
CommandIsThere ==
    world.at = "call" =>
        world.cmd \in Cmds /\ (inbox[world.cmd] # "none" \/ host.cmd = world.cmd)

\* Each of the three who wait for another, waits for something the other still has.
NobodyWaitsInVain == EvaluationIsThere /\ CommandIsThere /\ HostAtWork

LEMMA LoopWaits ==
    ASSUME IInv, NobodyWaitsInVain, LoopNext
    PROVE  EvaluationIsThere' /\ CommandIsThere'
<1>1. UNCHANGED <<world, inbox>> /\ UNCHANGED host
  BY DEF LoopNext, Program, EmptyReply, Stop, EvalTimesOut, Approve, Decline, Shutdown,
         worldVars, callVars, hostVars
<1>2. CommandIsThere'
  BY <1>1 DEF NobodyWaitsInVain, CommandIsThere
<1>3. loop' \in {"eval", "retry"} => evals' \in programs'
  BY DEF LoopNext, Program, EmptyReply, Stop, EvalTimesOut, Approve, Decline, Shutdown
<1>4. QED  BY <1>2, <1>3 DEF EvaluationIsThere

\* The world gives an evaluation up only with a report of it.
LEMMA WorldWaits ==
    ASSUME IInv, NobodyWaitsInVain, WorldNext
    PROVE  EvaluationIsThere' /\ CommandIsThere'
<1>1. ASSUME NEW e \in Evals, TakeProgram(e) PROVE EvaluationIsThere' /\ CommandIsThere'
  BY <1>1 DEF TakeProgram, NobodyWaitsInVain, EvaluationIsThere, CommandIsThere, loopVars
<1>2. ASSUME NEW k \in Kinds, Call(k) PROVE EvaluationIsThere' /\ CommandIsThere'
  <2>1. sent + 1 \in Cmds /\ world'.at = "call" /\ world'.cmd = sent + 1 /\ world'.eval = world.eval
    BY <1>2, CmdsAssumption DEF Call, IInv, TypeOK, Cmds
  <2>2. inbox'[sent + 1] # "none"
    BY <1>2, <2>1 DEF Call, IInv, TypeOK, Kinds
  <2>3. UNCHANGED <<loop, evals, programs>> /\ world.at # "idle"
    BY <1>2 DEF Call, loopVars
  <2>4. QED
    BY <2>1, <2>2, <2>3 DEF NobodyWaitsInVain, EvaluationIsThere, CommandIsThere
<1>3. CASE GiveUp \/ MarkDone
  <2>1. world'.at = "run" /\ world'.eval = world.eval /\ world.at # "idle"
    BY <1>3 DEF GiveUp, MarkDone, IInv, TypeOK
  <2>2. UNCHANGED <<loop, evals, programs>>
    BY <1>3 DEF GiveUp, MarkDone, loopVars
  <2>3. QED
    BY <2>1, <2>2 DEF NobodyWaitsInVain, EvaluationIsThere, CommandIsThere
<1>4. ASSUME NEW r \in {"done", "value", "consent", "error"}, Settle(r) \/ ProgramTimesOut
      PROVE  EvaluationIsThere' /\ CommandIsThere'
  <2>1. UNCHANGED <<evals, programs>> /\ world' = Sleeping
    BY <1>4 DEF Settle, ProgramTimesOut
  <2>2. loop' \in {"eval", "retry"} => loop' = loop /\ world.eval # evals
    BY <1>4 DEF Settle, ProgramTimesOut, Report
  <2>3. QED
    BY <2>1, <2>2 DEF NobodyWaitsInVain, EvaluationIsThere, CommandIsThere, Sleeping
<1>5. QED  BY <1>1, <1>2, <1>3, <1>4 DEF WorldNext

\* The host puts a command away only with an answer to whoever waits for it.
LEMMA AnswerWaits ==
    ASSUME IInv, NobodyWaitsInVain, NEW c, NEW answer, Reply(c, answer),
           host.cmd \in {0, c}, \A d \in Cmds \ {c} : inbox'[d] = inbox[d],
           UNCHANGED <<loop, evals, programs>>
    PROVE  EvaluationIsThere' /\ CommandIsThere'
<1>1. world'.eval = world.eval /\ world'.cmd = world.cmd
  BY DEF Reply, IInv, TypeOK
<1>2. world'.at = world.at \/ (world.at = "call" /\ world'.at = "run")
  BY DEF Reply, IInv, TypeOK
<1>3. world'.at = "call" => world.at = "call" /\ world.cmd # c
  BY DEF Reply, IInv, TypeOK
<1>4. 0 \notin Cmds
  BY DEF Cmds
<1>5. QED
  BY <1>1, <1>2, <1>3, <1>4 DEF NobodyWaitsInVain, EvaluationIsThere, CommandIsThere

LEMMA ServedWaits ==
    ASSUME IInv, NobodyWaitsInVain, UNCHANGED <<loop, evals, programs, world>>,
           \/ UNCHANGED inbox /\ host'.cmd = host.cmd
           \/ host.cmd = 0 /\ \A d \in Cmds : inbox'[d] = inbox[d] \/ host'.cmd = d
    PROVE  EvaluationIsThere' /\ CommandIsThere'
<1>1. 0 \notin Cmds
  BY DEF Cmds
<1>2. QED  BY <1>1 DEF NobodyWaitsInVain, EvaluationIsThere, CommandIsThere

LEMMA TakeFacts ==
    ASSUME IInv, NEW c \in Cmds, NEW k, Take(c, k)
    PROVE  host.cmd = 0 /\ \A d \in Cmds \ {c} : inbox'[d] = inbox[d]
BY DEF IInv, TypeOK, Placed, HostAtWork, Take

LEMMA HostWaits ==
    ASSUME IInv, NobodyWaitsInVain, HostNext
    PROVE  EvaluationIsThere' /\ CommandIsThere'
<1>0. UNCHANGED <<loop, evals, programs>>
  BY DEF HostNext, Takes, TakeAct, TakeFill, TakeGoto, TakeWait, TakeResolve, WaitChecks,
         WaitRegisters, WaitTimesOut, Decide, ActTimesOut, loopVars, worldVars
<1>1. ASSUME NEW c \in Cmds, Takes(c) PROVE EvaluationIsThere' /\ CommandIsThere'
  <2>1. host.cmd = 0 /\ \A d \in Cmds \ {c} : inbox'[d] = inbox[d]
    BY <1>1, TakeFacts DEF Takes, TakeAct, TakeFill, TakeGoto, TakeWait, TakeResolve
  <2>2. \/ \E answer \in Answers : Reply(c, answer)
        \/ UNCHANGED world /\ host'.cmd = c
    BY <1>1
       DEF Takes, TakeAct, TakeFill, TakeGoto, TakeWait, TakeResolve, Serves, worldVars, Answers
  <2>3. QED  BY <1>0, <2>1, <2>2, AnswerWaits, ServedWaits
<1>2. CASE WaitChecks \/ WaitRegisters \/ WaitTimesOut \/ Decide \/ ActTimesOut
  <2>1. UNCHANGED inbox
    BY <1>2 DEF WaitChecks, WaitRegisters, WaitTimesOut, Decide, ActTimesOut, callVars
  <2>2. \/ \E answer \in Answers : Reply(host.cmd, answer)
        \/ UNCHANGED world /\ host'.cmd = host.cmd
    BY <1>2 DEF WaitChecks, WaitRegisters, WaitTimesOut, Decide, ActTimesOut, Goes, worldVars,
                Answers, IInv, TypeOK
  <2>3. QED  BY <1>0, <2>1, <2>2, AnswerWaits, ServedWaits
<1>3. QED  BY <1>1, <1>2 DEF HostNext

LEMMA PageWaits ==
    ASSUME IInv, NobodyWaitsInVain, PageNext
    PROVE  EvaluationIsThere' /\ CommandIsThere'
<1>0. UNCHANGED <<loop, evals, programs, inbox>>
  BY DEF PageNext, DialogEnds, PageGoesOn, TakeAnswer, DialogTimesOut, JobEnds, Deliver,
         OpenDialog, HubTakes, Expire, loopVars, worldVars, callVars
<1>1. ASSUME NEW c \in Cmds, JobEnds(c) PROVE EvaluationIsThere' /\ CommandIsThere'
  <2>1. \/ host.cmd = c /\ \E answer \in Answers : Reply(c, answer)
        \/ UNCHANGED world /\ host'.cmd = host.cmd
    BY <1>1 DEF JobEnds, Finish, Goes, Answers, IInv, TypeOK
  <2>2. QED  BY <1>0, <2>1, AnswerWaits, ServedWaits
<1>2. ASSUME ~\E c \in Cmds : JobEnds(c) PROVE EvaluationIsThere' /\ CommandIsThere'
  <2>1. UNCHANGED world /\ host'.cmd = host.cmd
    BY <1>2 DEF PageNext, DialogEnds, PageGoesOn, TakeAnswer, DialogTimesOut, Deliver,
         OpenDialog, HubTakes, Expire, Goes, worldVars, hostVars, IInv, TypeOK
  <2>2. QED  BY <1>0, <2>1, ServedWaits
<1>3. QED  BY <1>1, <1>2

\* Everybody's wait is for something that is still there, whoever has given up on whom:
\* the loop's evaluation, the program's command, the host's job in the JS thread
\* (World::eval, __host, native_act_guarded).  It is what TaskEnds rests on: only what
\* the other has yet to do holds anybody up.
THEOREM WaitsAreServed == Spec => []NobodyWaitsInVain
<1>1. Init => NobodyWaitsInVain
  <2>1. Init => EvaluationIsThere /\ CommandIsThere
    BY DEF Init, Sleeping, EvaluationIsThere, CommandIsThere
  <2>2. QED  BY <2>1, InitPlaced DEF Placed, NobodyWaitsInVain
<1>2. IInv /\ NobodyWaitsInVain /\ [Next]_vars => NobodyWaitsInVain'
  <2> SUFFICES ASSUME IInv, NobodyWaitsInVain, [Next]_vars PROVE NobodyWaitsInVain'
    OBVIOUS
  <2>1. HostAtWork'
    BY NextIInv DEF IInv, Placed
  <2>2. CASE UNCHANGED vars
    <3>1. UNCHANGED <<loop, evals, programs, world, inbox, host>>
      BY <2>2 DEF vars, loopVars, worldVars, callVars, hostVars
    <3>2. QED  BY <2>1, <3>1, ServedWaits DEF NobodyWaitsInVain
  <2>3. CASE Next
    BY <2>1, <2>3, LoopWaits, WorldWaits, HostWaits, PageWaits
       DEF Next, PageNext, NobodyWaitsInVain
  <2>4. QED  BY <2>2, <2>3
<1>3. IInv /\ [Next]_vars => IInv'
  BY NextIInv
<1>4. QED  BY <1>1, <1>2, <1>3, InitIInv, PTL DEF Spec
-----------------------------------------------------------------------------
(* The session the agent works in: PageSession *)

\* Of the requests a script makes only a reload has no URL.
Asked(list) == \A i \in DOMAIN list : list[i].do = "reload" <=> list[i].url = None

\* A command in progress: a script of an expression or an action is of no URL.
Framed(f) ==
    /\ f \in Frames
    /\ IF f.do \in {"evaluate", "act"} THEN f.at \in {"scripts", "drain"} ELSE f.url \in Urls
    /\ f.at = "load" => f.do = "navigate"
    /\ Asked(f.list)

\* The commands under the innermost one drain their journals, and what a script asks
\* for is never a step in the history.
Stacked ==
    /\ op \in Seq(Frames)
    /\ \A i \in 1..Len(op) : Framed(op[i])
    /\ \A i \in 2..Len(op) : op[i].at = "drain"
    /\ \A i \in 1..Len(op) - 1 : op[i].do \in {"navigate", "post", "reload"}

PageTyped ==
    /\ page \in Documents \cup {None}
    /\ page # None => page.url \in Urls
    /\ history \in Seq(Urls) /\ index \in Nat /\ (history # <<>> => index < Len(history))
    /\ docs \in 0..MaxDocs /\ strayed \in BOOLEAN

ThreadTyped ==
    /\ busy \in BOOLEAN /\ live \in Documents /\ site \in Urls \cup {None}
    /\ map \in 0..MaxWrites \cup {None}
    /\ timers \subseteq Documents /\ journal \in Seq(Requests)
    /\ {lost, late, torn, reset, outlived} \subseteq BOOLEAN

BoxTyped ==
    /\ box \in Seq([to : Urls, n : 1..MaxWrites, by : Urls])
    /\ bucket \in [Urls -> [n : 0..MaxWrites, by : Urls]]
    /\ last \in [Urls -> 0..MaxWrites]

\* The page is the one the history is at, but for a back or forward that is still being
\* fetched or has failed.
Turning == At("fetch") /\ Top.do \in {"back", "forward"}

OnThePage ==
    /\ page = None <=> history = <<>>
    /\ Turning => history # <<>> /\ Top.url = history[index + 1]
    /\ At("fetch") /\ Top.do = "reload" => page # None /\ Top.url = page.url
    /\ page # None /\ ~strayed /\ ~Turning => page.url = history[index + 1]

\* While a document is injected the page is the one of the command, and the JS thread
\* is idle from SetPageUrl to SetDocument.
Injecting == At("seed") \/ At("locate") \/ At("clear") \/ At("replace")

Injected ==
    /\ Injecting => page # None /\ page.url = Top.url /\ lost
    /\ At("clear") \/ At("replace") => site = Top.url /\ ~reset /\ ~busy
    /\ page # None /\ ~lost => live = page /\ site = IF reset THEN None ELSE page.url
    /\ map # None => site \in Urls /\ page # None

Working ==
    /\ At("scripts") => busy
    /\ busy => torn \/ At("scripts")

Journaled ==
    /\ Asked(journal)
    /\ At("replace") => journal = <<>>
    /\ JournalIsOfTheLiveDocument

\* The last message on its way to an origin carries its last write; without one the
\* bucket has it.
Newest(i) == \A j \in DOMAIN box : j > i => box[j].to # box[i].to

Stored ==
    /\ \A u \in Urls : (\A i \in DOMAIN box : box[i].to # u) => bucket[u].n = last[u]
    /\ \A i \in DOMAIN box : Newest(i) => box[i].n = last[box[i].to]
    /\ At("locate") /\ ~Top.late /\ ~torn => Top.seed = last[Top.url]
    /\ StorageIsKept

SessionInv ==
    /\ PageTyped /\ ThreadTyped /\ BoxTyped
    /\ Stacked /\ OnThePage /\ Injected /\ Working /\ Journaled /\ Stored
-----------------------------------------------------------------------------
(* The stack *)

LEMMA TopIsFirst ==
    ASSUME Stacked, op # <<>>
    PROVE  Len(op) \in Nat \ {0} /\ Top = op[1] /\ Framed(Top) /\ Top \in Frames
  BY EmptySeq, HeadTailProperties DEF Stacked, Top, Framed

LEMMA Begins ==
    ASSUME NEW f, Framed(f), op' = <<f>>
    PROVE  Stacked' /\ op' # <<>> /\ Top' = f
<1>1. op' \in Seq(Frames) /\ Len(op') = 1 /\ op'[1] = f
  BY DEF Framed
<1>2. \A i \in 1..Len(op') : Framed(op'[i])
  BY <1>1
<1>3. (\A i \in 2..Len(op') : op'[i].at = "drain")
      /\ (\A i \in 1..Len(op') - 1 : op'[i].do \in {"navigate", "post", "reload"})
  BY <1>1
<1>4. op' # <<>> /\ Top' = f
  BY <1>1 DEF Top
<1>5. QED  BY <1>1, <1>2, <1>3, <1>4 DEF Stacked, Framed, Asked

LEMMA Turns ==
    ASSUME Stacked, op # <<>>, NEW g, Framed(g), g.do = Top.do, op' = [op EXCEPT ![1] = g]
    PROVE  Stacked' /\ op' # <<>> /\ Top' = g
<1>1. Len(op) \in Nat \ {0} /\ Top = op[1]
  BY TopIsFirst
<1>2. op' \in Seq(Frames) /\ Len(op') = Len(op)
      /\ \A i \in 1..Len(op) : op'[i] = IF i = 1 THEN g ELSE op[i]
  BY <1>1, ExceptSeq DEF Stacked, Framed
<1>3. \A i \in 1..Len(op') : Framed(op'[i])
  BY <1>2 DEF Stacked
<1>4. \A i \in 2..Len(op') : op'[i].at = "drain"
  BY <1>1, <1>2 DEF Stacked
<1>5. \A i \in 1..Len(op') - 1 : op'[i].do \in {"navigate", "post", "reload"}
  BY <1>1, <1>2 DEF Stacked
<1>6. op' # <<>> /\ Top' = g
  BY <1>1, <1>2, EmptySeq, HeadTailProperties DEF Top
<1>7. QED  BY <1>2, <1>3, <1>4, <1>5, <1>6 DEF Stacked, Framed, Asked

\* A command that ends leaves one that drains, or none.
LEMMA Ends ==
    ASSUME Stacked, op # <<>>, Returns
    PROVE  Stacked' /\ (op' # <<>> => Top'.at = "drain")
<1>1. Len(op) \in Nat \ {0} /\ op \in Seq(Frames)
  BY TopIsFirst DEF Stacked
<1>2. op' \in Seq(Frames) /\ Len(op') = Len(op) - 1 /\ \A i \in 1..Len(op) - 1 : op'[i] = op[i + 1]
  BY <1>1, HeadTailProperties DEF Returns
<1>3. ASSUME NEW i \in 1..Len(op')
      PROVE  Framed(op'[i]) /\ op'[i].at = "drain"
  <2>1. i + 1 \in 1..Len(op) /\ i + 1 \in 2..Len(op) /\ op'[i] = op[i + 1]
    BY <1>1, <1>2
  <2>2. QED  BY <2>1 DEF Stacked
<1>4. \A i \in 1..Len(op') - 1 : op'[i].do \in {"navigate", "post", "reload"}
  BY <1>1, <1>2 DEF Stacked
<1>5. ASSUME op' # <<>> PROVE Top'.at = "drain"
  <2>1. Top' = op'[1] /\ 1 \in 1..Len(op')
    BY <1>2, <1>5, EmptySeq, HeadTailProperties DEF Top
  <2>2. QED  BY <2>1, <1>3
<1>6. \A i \in 2..Len(op') : op'[i].at = "drain"
  BY <1>1, <1>2, <1>3
<1>7. QED  BY <1>2, <1>3, <1>4, <1>5, <1>6 DEF Stacked, Framed, Asked

\* A command that a script asked for begins inside the one that drains.
LEMMA BeginsInside ==
    ASSUME Stacked, At("drain"), NEW g, Framed(g), g.at = "drain", g.do = Top.do,
           NEW f, Framed(f), f.do \in {"navigate", "post", "reload"},
           op' = <<f>> \o [op EXCEPT ![1] = g]
    PROVE  Stacked' /\ op' # <<>> /\ Top' = f
<1> DEFINE rest == [op EXCEPT ![1] = g]
<1>1. Len(op) \in Nat \ {0} /\ Top = op[1] /\ op \in Seq(Frames)
  BY TopIsFirst DEF At, Stacked
<1>2. rest \in Seq(Frames) /\ Len(rest) = Len(op)
      /\ \A i \in 1..Len(op) : rest[i] = IF i = 1 THEN g ELSE op[i]
  BY <1>1, ExceptSeq DEF Framed
<1>3. <<f>> \in Seq(Frames) /\ Len(<<f>>) = 1 /\ <<f>>[1] = f
  BY DEF Framed
<1> HIDE DEF rest
<1>4. op' = <<f>> \o rest
  BY DEF rest
<1>5. op' \in Seq(Frames) /\ Len(op') = Len(op) + 1
      /\ \A i \in 1..Len(op) + 1 : op'[i] = IF i = 1 THEN f ELSE rest[i - 1]
  BY <1>1, <1>2, <1>3, <1>4, ConcatProperties
<1>6. \A i \in 1..Len(op') : Framed(op'[i])
  BY <1>1, <1>2, <1>5 DEF Stacked
<1>7. \A i \in 2..Len(op') : op'[i].at = "drain"
  BY <1>1, <1>2, <1>5 DEF Stacked
<1>8. \A i \in 1..Len(op') - 1 : op'[i].do \in {"navigate", "post", "reload"}
  BY <1>1, <1>2, <1>5 DEF Stacked
<1>9. op' # <<>> /\ Top' = f
  BY <1>1, <1>5, EmptySeq, HeadTailProperties DEF Top
<1>10. QED  BY <1>5, <1>6, <1>7, <1>8, <1>9 DEF Stacked, Framed, Asked

LEMMA Empties == op' = <<>> => Stacked'
  BY EmptySeq DEF Stacked
-----------------------------------------------------------------------------
(* What a change of the innermost command leaves alone *)

LEMMA Depend ==
    /\ UNCHANGED <<page, history, index, docs, strayed>> /\ PageTyped => PageTyped'
    /\ UNCHANGED <<thread, lost, late, torn, reset, outlived>> /\ ThreadTyped => ThreadTyped'
    /\ UNCHANGED <<storage, last>> /\ BoxTyped => BoxTyped'
  BY DEF PageTyped, ThreadTyped, BoxTyped, thread, storage

LEMMA PageStays ==
    ASSUME OnThePage, UNCHANGED <<page, history, index, strayed>>, ~Turning,
           (op' # <<>> /\ Top'.at = "fetch") => Top'.do \in {"navigate", "post"}
    PROVE  OnThePage'
  BY DEF OnThePage, Turning, At, Top

LEMMA JournalStays ==
    ASSUME Journaled, UNCHANGED <<journal, live>>, (op' # <<>> => Top'.at # "replace")
    PROVE  Journaled'
  BY DEF Journaled, At, Top, JournalIsOfTheLiveDocument, Asked

LEMMA StoreStays ==
    ASSUME Stored, UNCHANGED <<box, bucket, last, map, late, site, outlived>>, torn => torn',
           torn \in BOOLEAN, (op' # <<>> => Top'.at # "locate")
    PROVE  Stored'
  BY DEF Stored, StorageIsKept, Newest, At, Top

\* A command that begins, fails or ends while the JS thread is idle, or at the script of
\* an action that was given up.
LEMMA Rests ==
    ASSUME SessionInv, UNCHANGED <<page, thread, storage, lost, late, torn, reset, outlived, last>>,
           ~At("scripts"), op' # <<>> => Top'.at \in {"fetch", "load", "drain"}
    PROVE  ThreadTyped' /\ BoxTyped' /\ Injected' /\ Working' /\ Journaled' /\ Stored'
<1>1. ThreadTyped' /\ BoxTyped'
  BY Depend DEF SessionInv
<1>2. Injected' /\ Working'
  BY DEF SessionInv, Injected, Injecting, Working, At, Top, thread
<1>3. Journaled'
  BY JournalStays DEF SessionInv, thread
<1>4. Stored'
  BY StoreStays DEF SessionInv, ThreadTyped, thread, storage
<1>5. QED  BY <1>1, <1>2, <1>3, <1>4
-----------------------------------------------------------------------------
(* Commands *)

LEMMA InitSessionInv == SessionInit => SessionInv
<1> SUFFICES ASSUME SessionInit PROVE SessionInv
  OBVIOUS
<1>1. PageTyped /\ ThreadTyped /\ BoxTyped
  <2>1. 0 \in 0..MaxDocs /\ 0 \in 0..MaxWrites
    BY BoundsAssumption
  <2>2. PageTyped
    BY <2>1, EmptySeq DEF SessionInit, PageTyped
  <2>3. ThreadTyped
    BY <2>1, EmptySeq DEF SessionInit, ThreadTyped, Documents
  <2>4. BoxTyped
    BY <2>1, EmptySeq DEF SessionInit, BoxTyped
  <2>5. QED  BY <2>2, <2>3, <2>4
<1>2. Stacked
  BY EmptySeq DEF SessionInit, Stacked
<1>3. OnThePage /\ Injected /\ Working
  BY DEF SessionInit, OnThePage, Turning, Injected, Injecting, Working, At
<1>4. Journaled /\ Stored
  BY
  DEF SessionInit, Journaled, Stored, Newest, At, Asked, JournalIsOfTheLiveDocument,
      StorageIsKept
<1>5. QED  BY <1>1, <1>2, <1>3, <1>4 DEF SessionInv

LEMMA FrameOf ==
    ASSUME NEW do \in {"navigate", "post", "back", "forward", "reload", "evaluate", "act"},
           NEW at \in {"fetch", "load", "scripts"}, NEW u \in Urls \cup {None},
           IF do \in {"evaluate", "act"} THEN at = "scripts" ELSE u \in Urls,
           at = "load" => do = "navigate"
    PROVE  Framed(Frame(do, at, u)) /\ Frame(do, at, u).at = at /\ Frame(do, at, u).do = do
           /\ Frame(do, at, u).url = u
  BY BoundsAssumption, EmptySeq DEF Frame, Framed, Frames, Asked

LEMMA NavigationOf ==
    ASSUME NEW do \in {"navigate", "post"}, NEW u \in Urls
    PROVE  Framed(Navigation(do, u)) /\ Navigation(do, u).at \in {"fetch", "load"}
           /\ Navigation(do, u).do = do
  BY FrameOf DEF Navigation

LEMMA GotoKeeps ==
    ASSUME SessionInv, NEW do \in {"navigate", "post"}, NEW u \in Urls, Goto(do, u)
    PROVE  SessionInv'
<1>1. op = <<>> /\ op' = <<Navigation(do, u)>>
      /\ UNCHANGED <<page, history, index, docs, thread, storage, strayed, lost, late, torn,
                     reset, outlived, last>>
  BY DEF Goto, NoCommand, flags
<1>2. Stacked' /\ Top' = Navigation(do, u)
  BY <1>1, NavigationOf, Begins
<1>3. Top'.at \in {"fetch", "load"} /\ Top'.do \in {"navigate", "post"}
  BY <1>2, NavigationOf
<1>4. OnThePage'
  BY <1>1, <1>3, PageStays DEF SessionInv, Turning, At
<1>5. ThreadTyped' /\ BoxTyped' /\ Injected' /\ Working' /\ Journaled' /\ Stored'
  BY <1>1, <1>3, Rests DEF At
<1>6. QED  BY <1>1, <1>2, <1>4, <1>5, Depend DEF SessionInv

LEMMA GoBackKeeps ==
    ASSUME SessionInv, GoBack \/ GoForward
    PROVE  SessionInv'
<1>1. op = <<>> /\ UNCHANGED <<page, history, docs, thread, storage, strayed, lost, late, torn,
                               reset, outlived, last>>
  BY DEF GoBack, GoForward, NoCommand, flags
<1>2. PICK do \in {"back", "forward"} : op' = <<Frame(do, "fetch", history[index' + 1])>>
      /\ history # <<>> /\ index' \in Nat /\ index' < Len(history)
  <2>1. CASE GoBack
    <3>1. index - 1 + 1 = index /\ index - 1 \in Nat /\ index - 1 < Len(history)
      BY <2>1, EmptySeq DEF GoBack, SessionInv, PageTyped
    <3>2. QED  BY <2>1, <3>1 DEF GoBack
  <2>2. CASE GoForward
    <3>1. index + 1 + 1 = index + 2 /\ index + 1 \in Nat /\ index + 1 < Len(history)
      BY <2>2 DEF GoForward, SessionInv, PageTyped
    <3>2. history # <<>>
      BY <3>1, EmptySeq DEF SessionInv, PageTyped
    <3>3. QED  BY <2>2, <3>1, <3>2 DEF GoForward
  <2>3. QED  BY <2>1, <2>2
<1>3. history[index' + 1] \in Urls
  BY <1>2, ElementOfSeq DEF SessionInv, PageTyped
<1>4. Stacked' /\ op' # <<>> /\ Top' = Frame(do, "fetch", history[index' + 1])
      /\ Top'.at = "fetch" /\ Top'.do = do /\ Top'.url = history[index' + 1]
  BY <1>2, <1>3, FrameOf, Begins
<1>5. PageTyped'
  BY <1>1, <1>2 DEF SessionInv, PageTyped
<1>6. OnThePage'
  BY <1>1, <1>2, <1>4 DEF SessionInv, OnThePage, Turning, At, Top
<1>7. ThreadTyped' /\ BoxTyped' /\ Injected' /\ Working' /\ Journaled' /\ Stored'
  BY <1>1, <1>4, Rests DEF At
<1>8. QED  BY <1>4, <1>5, <1>6, <1>7 DEF SessionInv

LEMMA GoForwardFromNothingKeeps ==
    ASSUME SessionInv, GoForwardFromNothing
    PROVE  SessionInv'
<1>1. op = <<>> /\ history = <<>> /\ index' = 1
      /\ UNCHANGED <<page, history, docs, op, thread, storage, strayed, lost, late, torn, reset,
                     outlived, last>>
  BY DEF GoForwardFromNothing, NoCommand, flags
<1>2. PageTyped' /\ OnThePage' /\ Stacked'
  BY <1>1, Empties DEF SessionInv, PageTyped, OnThePage, Turning, At
<1>3. ThreadTyped' /\ BoxTyped' /\ Injected' /\ Working' /\ Journaled' /\ Stored'
  BY <1>1, Rests DEF At
<1>4. QED  BY <1>2, <1>3 DEF SessionInv

LEMMA ReloadKeeps ==
    ASSUME SessionInv, Reload
    PROVE  SessionInv'
<1>1. op = <<>> /\ op' = <<Frame("reload", "fetch", page.url)>> /\ page # None
      /\ UNCHANGED <<page, history, index, docs, thread, storage, strayed, lost, late, torn,
                     reset, outlived, last>>
  BY DEF Reload, NoCommand, flags
<1>2. page.url \in Urls
  BY <1>1 DEF SessionInv, PageTyped
<1>3. Stacked' /\ op' # <<>> /\ Top' = Frame("reload", "fetch", page.url)
      /\ Top'.at = "fetch" /\ Top'.do = "reload" /\ Top'.url = page.url
  BY <1>1, <1>2, FrameOf, Begins
<1>4. OnThePage'
  BY <1>1, <1>3 DEF SessionInv, OnThePage, Turning, At, Top
<1>5. ThreadTyped' /\ BoxTyped' /\ Injected' /\ Working' /\ Journaled' /\ Stored'
  BY <1>1, <1>3, Rests DEF At
<1>6. QED  BY <1>1, <1>3, <1>4, <1>5, Depend DEF SessionInv

LEMMA ScriptBegins ==
    ASSUME SessionInv, Evaluate \/ NativeAct
    PROVE  SessionInv'
<1>1. PICK do \in {"evaluate", "act"} : op' = <<Frame(do, "scripts", None)>>
  BY DEF Evaluate, NativeAct
<1>2. op = <<>> /\ ~busy /\ busy' = TRUE /\ journal' \in {journal, <<>>}
      /\ UNCHANGED <<page, history, index, docs, live, site, map, timers, storage,
                     strayed, lost, late, torn, reset, outlived, last>>
  BY DEF Evaluate, NativeAct, NoCommand, flags
<1>3. Stacked' /\ op' # <<>> /\ Top'.at = "scripts" /\ Top'.do = do
  BY <1>1, FrameOf, Begins
<1>4. PageTyped' /\ BoxTyped'
  BY <1>2, Depend DEF SessionInv
<1>5. ThreadTyped'
  BY <1>2, EmptySeq DEF SessionInv, ThreadTyped
<1>6. OnThePage'
  BY <1>2, <1>3, PageStays DEF SessionInv, Turning, At
<1>7. Injected' /\ Working'
  BY <1>2, <1>3 DEF SessionInv, Injected, Injecting, Working, At, Top
<1>8. Journaled'
  BY <1>2, <1>3 DEF SessionInv, Journaled, At, Top, Asked, JournalIsOfTheLiveDocument
<1>9. Stored'
  BY <1>2, <1>3, StoreStays DEF SessionInv, ThreadTyped, storage
<1>10. QED  BY <1>3, <1>4, <1>5, <1>6, <1>7, <1>8, <1>9 DEF SessionInv
-----------------------------------------------------------------------------
(* Loading *)

LEMMA FetchFailsKeeps ==
    ASSUME SessionInv, FetchFails
    PROVE  SessionInv'
<1>1. At("fetch") /\ op' = <<>> /\ strayed' = (strayed \/ Turning)
      /\ UNCHANGED <<page, history, index, docs, thread, storage, lost, late, torn, reset,
                     outlived, last>>
  BY DEF FetchFails, Turning
<1>2. PageTyped'
  BY <1>1 DEF SessionInv, PageTyped, Turning, At
<1>3. OnThePage'
  BY <1>1 DEF SessionInv, OnThePage, Turning, At
<1>4. ThreadTyped' /\ BoxTyped' /\ Injected' /\ Working' /\ Journaled' /\ Stored'
  BY <1>1, Rests DEF At
<1>5. QED  BY <1>1, <1>2, <1>3, <1>4, Empties DEF SessionInv

\* A command that is over leaves one that drains its journal, or none.
LEMMA EndsQuietly ==
    ASSUME SessionInv, op # <<>>, Returns, ~At("scripts"), ~Turning,
           UNCHANGED <<page, history, index, docs, thread, storage, flags>>
    PROVE  SessionInv'
<1>1. Stacked' /\ (op' # <<>> => Top'.at = "drain")
  BY Ends DEF SessionInv
<1>2. OnThePage'
  BY <1>1, PageStays DEF SessionInv, flags
<1>3. ThreadTyped' /\ BoxTyped' /\ Injected' /\ Working' /\ Journaled' /\ Stored'
  BY <1>1, Rests DEF flags
<1>4. QED  BY <1>1, <1>2, <1>3, Depend DEF SessionInv, flags

LEMMA DownloadsKeeps ==
    ASSUME SessionInv, Downloads
    PROVE  SessionInv'
  BY EndsQuietly DEF Downloads, At, Turning

LEMMA DrainedKeeps ==
    ASSUME SessionInv, Drained
    PROVE  SessionInv'
  BY EndsQuietly DEF Drained, At, Turning

\* Push puts the page at the end of what it keeps of the history.
LEMMA PushIsAtTheEnd ==
    ASSUME NEW u \in Urls, history \in Seq(Urls), index \in Nat,
           history # <<>> => index < Len(history), Push(u)
    PROVE  history' \in Seq(Urls) /\ history' # <<>> /\ index' \in Nat
           /\ index' < Len(history') /\ history'[index' + 1] = u
<1> DEFINE kept == IF history = <<>> THEN <<>> ELSE SubSeq(history, 1, index + 1)
<1>1. kept \in Seq(Urls)
  <2>1. ASSUME history # <<>>, NEW i \in 1..index + 1 PROVE history[i] \in Urls
    <3>1. i \in 1..Len(history)
      BY <2>1
    <3>2. QED  BY <3>1, ElementOfSeq
  <2>2. ASSUME history # <<>> PROVE SubSeq(history, 1, index + 1) \in Seq(Urls)
    BY <2>1, <2>2, SubSeqProperties
  <2>3. QED  BY <2>2, EmptySeq
<1>2. history' = Append(kept, u) /\ index' = Len(history') - 1
  BY DEF Push
<1> HIDE DEF kept
<1>3. history' \in Seq(Urls) /\ history' # <<>> /\ Len(kept) \in Nat /\ Len(history') = Len(kept) + 1
      /\ history'[Len(kept) + 1] = u
  BY <1>1, <1>2, AppendProperties, LenProperties
<1>4. QED  BY <1>2, <1>3

LEMMA OpensKeeps ==
    ASSUME SessionInv, NEW u \in Urls, Opens(u)
    PROVE  SessionInv'
<1>1. op # <<>> /\ Top.at \in {"fetch", "load"} /\ u \in Final(Top) /\ lost' = TRUE
      /\ docs < MaxDocs /\ docs' = docs + 1 /\ page' = [url |-> u, doc |-> docs + 1]
      /\ strayed' = (strayed /\ Top.do = "reload")
      /\ UNCHANGED <<thread, storage, late, torn, reset, outlived, last>>
  BY DEF Opens
<1>2. op' = [op EXCEPT ![1] = [Top EXCEPT !.at = "seed", !.url = u]]
  BY TopIsFirst DEF Opens, SessionInv
<1>3. Framed(Top) /\ Top.do \notin {"evaluate", "act"} /\ Framed([Top EXCEPT !.at = "seed", !.url = u])
  BY <1>1, TopIsFirst DEF SessionInv, Framed, Frames
<1>4. Stacked' /\ op' # <<>> /\ Top' = [Top EXCEPT !.at = "seed", !.url = u]
      /\ Top'.at = "seed" /\ Top'.url = u
  <2> DEFINE g == [Top EXCEPT !.at = "seed", !.url = u]
  <2>1. g.do = Top.do /\ g.at = "seed" /\ g.url = u
    BY <1>3 DEF Framed, Frames
  <2> HIDE DEF g
  <2>2. Framed(g) /\ op' = [op EXCEPT ![1] = g]
    BY <1>2, <1>3 DEF g
  <2>3. Stacked' /\ op' # <<>> /\ Top' = g
    BY <1>1, <2>1, <2>2, Turns DEF SessionInv
  <2>4. QED  BY <2>1, <2>3 DEF g
<1>5. page' \in Documents /\ page' # None /\ page'.url = u /\ docs' \in 0..MaxDocs
  BY <1>1, NoneAssumption, BoundsAssumption DEF SessionInv, PageTyped, Documents
<1>6. /\ history' \in Seq(Urls) /\ history' # <<>> /\ index' \in Nat /\ index' < Len(history')
      /\ strayed' \/ history'[index' + 1] = u
  <2>1. CASE Top.do \in {"navigate", "post"}
    <3>1. Push(u)
      BY <2>1 DEF Opens
    <3>2. QED  BY <3>1, PushIsAtTheEnd DEF SessionInv, PageTyped
  <2>2. CASE Top.do \notin {"navigate", "post"}
    <3>1. UNCHANGED <<history, index>> /\ At("fetch") /\ Top.url = u /\ Top.do \in {"back", "forward", "reload"}
      BY <1>1, <1>3, <2>2 DEF Opens, Final, At, Framed, Frames
    <3>2. CASE Turning
      BY <3>1, <3>2 DEF SessionInv, OnThePage, PageTyped
    <3>3. CASE ~Turning
      BY <1>1, <3>1, <3>3 DEF SessionInv, OnThePage, PageTyped, Turning
    <3>4. QED  BY <3>2, <3>3
  <2>3. QED  BY <2>1, <2>2
<1>7. PageTyped' /\ OnThePage'
  BY <1>1, <1>4, <1>5, <1>6 DEF SessionInv, PageTyped, OnThePage, Turning, At, Top
<1>8. ThreadTyped' /\ BoxTyped'
  BY <1>1, Depend DEF SessionInv, ThreadTyped, thread
<1>9. Injected' /\ Working'
  BY <1>1, <1>4, <1>5 DEF SessionInv, Injected, Injecting, Working, At, Top, thread
<1>10. Journaled' /\ Stored'
  BY <1>1, <1>4, JournalStays, StoreStays DEF SessionInv, ThreadTyped, thread, storage
<1>11. QED  BY <1>4, <1>7, <1>8, <1>9, <1>10 DEF SessionInv

\* A step of an injection: the innermost command goes on, and nothing but the thread and
\* what it has changes.
LEMMA GoesOn ==
    ASSUME SessionInv, op # <<>>, NEW g, Framed(g), g.do = Top.do, op' = [op EXCEPT ![1] = g],
           g.at # "fetch", ~Turning, UNCHANGED <<page, history, index, docs, strayed>>
    PROVE  /\ Stacked' /\ PageTyped' /\ OnThePage'
           /\ op' # <<>> /\ Top' = g
<1>1. Stacked' /\ op' # <<>> /\ Top' = g
  BY Turns DEF SessionInv
<1>2. OnThePage'
  BY <1>1, PageStays DEF SessionInv
<1>3. QED  BY <1>1, <1>2, Depend DEF SessionInv

LEMMA SeedKeeps ==
    ASSUME SessionInv, Seed
    PROVE  SessionInv'
<1> DEFINE g == [Top EXCEPT !.at = "locate", !.seed = bucket[Top.url].n, !.late = (box # <<>>)]
<1>1. At("seed") /\ op # <<>> /\ op' = [op EXCEPT ![1] = g]
      /\ UNCHANGED <<page, history, index, docs, thread, storage, strayed, lost, late, torn,
                     reset, outlived, last>>
  BY TopIsFirst DEF SessionInv, Seed, At, flags
<1>2. Framed(Top) /\ Top.url \in Urls /\ Top.at = "seed" /\ Top \in Frames
  BY <1>1, TopIsFirst DEF SessionInv, At, Framed
<1>3. Framed(g) /\ g.do = Top.do /\ g.url = Top.url /\ g.at = "locate"
      /\ g.seed = bucket[Top.url].n /\ g.late = (box # <<>>)
  BY <1>2 DEF SessionInv, BoxTyped, Framed, Frames
<1> HIDE DEF g
<1>4. Stacked' /\ PageTyped' /\ OnThePage' /\ op' # <<>> /\ Top' = g
  BY <1>1, <1>2, <1>3, GoesOn DEF Turning, At
<1>5. ThreadTyped' /\ BoxTyped'
  BY <1>1, Depend DEF SessionInv
<1>6. Injected' /\ Working'
  BY <1>1, <1>3, <1>4 DEF SessionInv, Injected, Injecting, Working, At, Top, thread
<1>7. Journaled'
  BY <1>1, <1>3, <1>4, JournalStays DEF SessionInv, thread
<1>8. ASSUME ~Top'.late PROVE Top'.seed = last[Top'.url]
  <2>1. box = <<>>
    BY <1>3, <1>4, <1>8
  <2>2. DOMAIN box = {}
    BY <2>1, EmptySeq, LenProperties DEF SessionInv, BoxTyped
  <2>3. bucket[Top.url].n = last[Top.url]
    BY <1>2, <2>2 DEF SessionInv, Stored
  <2>4. last' = last
    BY <1>1
  <2>5. QED  BY <1>3, <1>4, <2>3, <2>4
<1>9. Stored'
  BY <1>1, <1>8 DEF SessionInv, Stored, StorageIsKept, Newest, storage, thread
<1>10. QED  BY <1>4, <1>5, <1>6, <1>7, <1>9 DEF SessionInv

LEMMA SetPageUrlKeeps ==
    ASSUME SessionInv, SetPageUrl
    PROVE  SessionInv'
<1> DEFINE g == [Top EXCEPT !.at = "clear"]
<1>1. At("locate") /\ ~busy /\ op # <<>> /\ op' = [op EXCEPT ![1] = g]
      /\ site' = Top.url /\ map' = Top.seed /\ late' = Top.late /\ reset' = FALSE
      /\ UNCHANGED <<page, history, index, docs, busy, live, timers, journal, storage,
                     strayed, lost, torn, outlived, last>>
  BY TopIsFirst DEF SessionInv, SetPageUrl, Advances, At
<1>2. Framed(Top) /\ Top.url \in Urls /\ Top.at = "locate" /\ Top \in Frames
  BY <1>1, TopIsFirst DEF SessionInv, At, Framed
<1>3. Framed(g) /\ g.do = Top.do /\ g.url = Top.url /\ g.at = "clear"
  BY <1>2 DEF Framed, Frames
<1> HIDE DEF g
<1>4. Stacked' /\ PageTyped' /\ OnThePage' /\ op' # <<>> /\ Top' = g
  BY <1>1, <1>2, <1>3, GoesOn DEF Turning, At
<1>5. ThreadTyped' /\ BoxTyped'
  BY <1>1, <1>2, Depend DEF SessionInv, ThreadTyped, Frames
<1>6. Injected' /\ Working'
  BY <1>1, <1>2, <1>3, <1>4 DEF SessionInv, Injected, Injecting, Working, At, Top
<1>7. Journaled'
  BY <1>1, <1>3, <1>4, JournalStays DEF SessionInv
<1>8. Stored'
  BY <1>1, <1>3, <1>4 DEF SessionInv, Stored, StorageIsKept, Newest, storage, At, Top
<1>9. QED  BY <1>4, <1>5, <1>6, <1>7, <1>8 DEF SessionInv

LEMMA ClearJournalKeeps ==
    ASSUME SessionInv, ClearJournal
    PROVE  SessionInv'
<1> DEFINE g == [Top EXCEPT !.at = "replace"]
<1>1. At("clear") /\ op # <<>> /\ op' = [op EXCEPT ![1] = g] /\ journal' = <<>>
      /\ UNCHANGED <<page, history, index, docs, busy, live, site, map, timers, storage,
                     strayed, lost, late, torn, reset, outlived, last>>
  BY TopIsFirst DEF SessionInv, ClearJournal, Advances, At, flags
<1>2. Framed(Top) /\ Top.at = "clear" /\ Top \in Frames
  BY <1>1, TopIsFirst DEF SessionInv, At
<1>3. Framed(g) /\ g.do = Top.do /\ g.url = Top.url /\ g.at = "replace"
  BY <1>2 DEF Framed, Frames
<1> HIDE DEF g
<1>4. Stacked' /\ PageTyped' /\ OnThePage' /\ op' # <<>> /\ Top' = g
  BY <1>1, <1>2, <1>3, GoesOn DEF Turning, At
<1>5. ThreadTyped' /\ BoxTyped'
  BY <1>1, EmptySeq, Depend DEF SessionInv, ThreadTyped
<1>6. Injected' /\ Working'
  BY <1>1, <1>2, <1>3, <1>4 DEF SessionInv, Injected, Injecting, Working, At, Top
<1>7. Journaled'
  BY <1>1 DEF Journaled, Asked, JournalIsOfTheLiveDocument
<1>8. Stored'
  BY <1>1, <1>3, <1>4, StoreStays DEF SessionInv, ThreadTyped, storage
<1>9. QED  BY <1>4, <1>5, <1>6, <1>7, <1>8 DEF SessionInv

LEMMA SetDocumentKeeps ==
    ASSUME SessionInv, SetDocument \/ SetDocumentFails
    PROVE  SessionInv'
<1> DEFINE g == [Top EXCEPT !.at = "scripts"]
<1>1. At("replace") /\ op # <<>> /\ op' = [op EXCEPT ![1] = g] /\ ~busy /\ busy' = TRUE
      /\ UNCHANGED <<page, history, index, docs, site, map, timers, journal, storage,
                     strayed, late, torn, reset, outlived, last>>
      /\ ((live' = page /\ lost' = FALSE) \/ UNCHANGED <<live, lost>>)
  BY TopIsFirst DEF SessionInv, SetDocument, SetDocumentFails, Advances, At, flags
<1>2. Framed(Top) /\ Top.at = "replace" /\ Top \in Frames
      /\ page # None /\ page.url = Top.url /\ site = Top.url /\ ~reset /\ journal = <<>>
  BY <1>1, TopIsFirst DEF SessionInv, At, Injected, Injecting, Journaled
<1>3. Framed(g) /\ g.do = Top.do /\ g.url = Top.url /\ g.at = "scripts"
  BY <1>2 DEF Framed, Frames
<1> HIDE DEF g
<1>4. Stacked' /\ PageTyped' /\ OnThePage' /\ op' # <<>> /\ Top' = g
  BY <1>1, <1>2, <1>3, GoesOn DEF Turning, At
<1>5. ThreadTyped' /\ BoxTyped'
  BY <1>1, <1>2, Depend DEF SessionInv, ThreadTyped, PageTyped
<1>6. Injected' /\ Working'
  BY <1>1, <1>2, <1>3, <1>4 DEF SessionInv, Injected, Injecting, Working, At, Top
<1>7. Journaled'
  BY <1>1, <1>2 DEF Journaled, Asked, JournalIsOfTheLiveDocument
<1>8. Stored'
  BY <1>1, <1>3, <1>4, StoreStays DEF SessionInv, ThreadTyped, storage
<1>9. QED  BY <1>4, <1>5, <1>6, <1>7, <1>8 DEF SessionInv
-----------------------------------------------------------------------------
(* The JS thread at work *)

\* What a script or the bridge does leaves the session and its commands alone.
LEMMA SessionStays ==
    ASSUME SessionInv, UNCHANGED <<session, strayed>>
    PROVE  Stacked' /\ PageTyped' /\ OnThePage'
  BY Depend DEF SessionInv, session, Stacked, Framed, Asked, OnThePage, Turning, At, Top

LEMMA TimersTyped ==
    ASSUME SessionInv, NEW d \in {live} \cup timers
    PROVE  d \in Documents /\ (Fired(d) => timers' \subseteq Documents)
  BY DEF SessionInv, ThreadTyped, Fired

LEMMA WritesKeeps ==
    ASSUME SessionInv, NEW d \in {live} \cup timers, Writes(d)
    PROVE  SessionInv'
<1>1. busy /\ map # None /\ d.url # None /\ Fired(d)
      /\ outlived' = (outlived \/ lost \/ d # live)
      /\ UNCHANGED <<session, busy, live, site, journal, bucket, strayed, lost, late, torn, reset>>
  BY DEF Writes, Runs
<1>2. PICK n \in 1..MaxWrites :
          /\ \A u \in Urls : last[u] < n
          /\ map' = n
          /\ box' = Append(box, [to |-> site, n |-> n, by |-> d.url])
          /\ last' = [last EXCEPT ![site] = n]
  BY DEF Writes
<1> DEFINE m == [to |-> site, n |-> n, by |-> d.url]
<1>3. site \in Urls /\ page # None /\ d.url \in Urls /\ d \in Documents /\ timers' \subseteq Documents
  BY <1>1, TimersTyped DEF SessionInv, Injected, Documents
<1>4. m \in [to : Urls, n : 1..MaxWrites, by : Urls] /\ m.to = site /\ m.n = n /\ m.by = d.url
      /\ n \in 0..MaxWrites
  BY <1>3
<1> HIDE DEF m
<1>5. Len(box) \in Nat /\ DOMAIN box = 1..Len(box) /\ DOMAIN box' = 1..Len(box) + 1
      /\ box' \in Seq([to : Urls, n : 1..MaxWrites, by : Urls])
      /\ (\A i \in 1..Len(box) : box'[i] = box[i]) /\ box'[Len(box) + 1] = m
  BY <1>2, <1>4, AppendProperties, LenProperties DEF SessionInv, BoxTyped, m
<1>6. BoxTyped'
  BY <1>1, <1>2, <1>4, <1>5 DEF SessionInv, BoxTyped
<1>7. ThreadTyped'
  BY <1>1, <1>2, <1>3, <1>4 DEF SessionInv, ThreadTyped
<1>8. Injected' /\ Working' /\ Journaled'
  BY <1>1, <1>2, <1>3 DEF SessionInv, Injected, Injecting, Working, Journaled, At, Top, session,
      JournalIsOfTheLiveDocument, Asked
<1>9. \A u \in Urls : (\A i \in DOMAIN box' : box'[i].to # u) => bucket'[u].n = last'[u]
  <2> SUFFICES ASSUME NEW u \in Urls, \A i \in DOMAIN box' : box'[i].to # u
               PROVE  bucket'[u].n = last'[u]
    OBVIOUS
  <2>1. u # site
    BY <1>4, <1>5
  <2>2. \A i \in DOMAIN box : box[i].to # u
    BY <1>5
  <2>3. bucket[u].n = last[u]
    BY <2>2 DEF SessionInv, Stored
  <2>4. QED  BY <1>1, <1>2, <2>1, <2>3 DEF SessionInv, BoxTyped
<1>10. \A i \in DOMAIN box' : Newest(i)' => box'[i].n = last'[box'[i].to]
  <2> SUFFICES ASSUME NEW i \in DOMAIN box', \A j \in DOMAIN box' : j > i => box'[j].to # box'[i].to
               PROVE  box'[i].n = last'[box'[i].to]
    BY DEF Newest
  <2>1. CASE i = Len(box) + 1
    BY <1>2, <1>3, <1>4, <1>5, <2>1 DEF SessionInv, BoxTyped
  <2>2. CASE i \in 1..Len(box)
    <3>1. box'[i] = box[i] /\ box[i].to # site
      BY <1>4, <1>5, <2>2
    <3>2. Newest(i)
      BY <1>5, <2>2 DEF Newest
    <3>3. box[i].n = last[box[i].to]
      BY <1>5, <2>2, <3>2 DEF SessionInv, Stored
    <3>4. box[i] \in [to : Urls, n : 1..MaxWrites, by : Urls]
      BY <2>2, ElementOfSeq DEF SessionInv, BoxTyped
    <3>5. QED  BY <1>2, <3>1, <3>3, <3>4 DEF SessionInv, BoxTyped
  <2>3. QED  BY <1>5, <2>1, <2>2
<1>11. StorageIsKept'
  <2>1. map' = last'[site']
    BY <1>1, <1>2, <1>3 DEF SessionInv, BoxTyped
  <2>2. ASSUME ~outlived' PROVE d.url = site
    <3>1. site # None /\ ~lost /\ d = live
      BY <1>1, <1>3, <2>2, NoneAssumption DEF SessionInv, ThreadTyped
    <3>2. QED  BY <1>3, <3>1 DEF SessionInv, Injected
  <2>3. ASSUME ~outlived', NEW i \in DOMAIN box' PROVE box'[i].by = box'[i].to
    <3>1. CASE i = Len(box) + 1
      BY <1>4, <1>5, <2>2, <2>3, <3>1
    <3>2. CASE i \in 1..Len(box)
      BY <1>1, <1>5, <2>3, <3>2 DEF SessionInv, Stored, StorageIsKept
    <3>3. QED  BY <1>5, <2>3, <3>1, <3>2
  <2>4. ASSUME ~outlived' PROVE \A u \in Urls : bucket'[u].by = u
    BY <1>1, <2>4 DEF SessionInv, Stored, StorageIsKept
  <2>5. QED  BY <2>1, <2>3, <2>4 DEF StorageIsKept
<1>12. ~(At("locate")' /\ ~Top'.late /\ ~torn')
  BY <1>1 DEF SessionInv, Working, At, Top, session
<1>13. Stored'
  BY <1>9, <1>10, <1>11, <1>12 DEF Stored
<1>14. QED  BY <1>1, <1>6, <1>7, <1>8, <1>13, SessionStays DEF SessionInv

LEMMA AsksKeeps ==
    ASSUME SessionInv, NEW d \in {live} \cup timers, NEW do \in {"navigate", "post", "reload"},
           NEW u \in Urls \cup {None}, Asks(d, do, u)
    PROVE  SessionInv'
<1> DEFINE m == [do |-> do, url |-> u, by |-> live.doc]
<1>1. busy /\ (do = "reload" <=> u = None) /\ journal' = Append(journal, m)
      /\ UNCHANGED <<session, busy, live, site, map, storage, strayed, lost, late, torn, reset,
                     outlived, last>>
      /\ timers' \subseteq Documents
  BY TimersTyped DEF Asks, Runs, flags
<1>2. m \in Requests /\ m.do = do /\ m.url = u /\ m.by = live.doc
  BY DEF SessionInv, ThreadTyped, Requests, Documents
<1> HIDE DEF m
<1>3. journal' \in Seq(Requests) /\ DOMAIN journal = 1..Len(journal) /\ DOMAIN journal' = 1..Len(journal) + 1
      /\ Len(journal) \in Nat
      /\ (\A i \in 1..Len(journal) : journal'[i] = journal[i]) /\ journal'[Len(journal) + 1] = m
  BY <1>1, <1>2, AppendProperties, LenProperties DEF SessionInv, ThreadTyped
<1>4. ThreadTyped' /\ BoxTyped'
  BY <1>1, <1>3, Depend DEF SessionInv, ThreadTyped
<1>5. Injected' /\ Working'
  BY <1>1 DEF SessionInv, Injected, Injecting, Working, At, Top, session
<1>6. Asked(journal)' /\ JournalIsOfTheLiveDocument'
  <2> SUFFICES ASSUME NEW i \in DOMAIN journal'
               PROVE  /\ journal'[i].do = "reload" <=> journal'[i].url = None
                      /\ journal'[i].by = live'.doc
    BY DEF Asked, JournalIsOfTheLiveDocument
  <2>1. CASE i = Len(journal) + 1
    BY <1>1, <1>2, <1>3, <2>1
  <2>2. CASE i \in 1..Len(journal)
    BY <1>1, <1>3, <2>2 DEF SessionInv, Journaled, Asked, JournalIsOfTheLiveDocument
  <2>3. QED  BY <1>3, <2>1, <2>2
<1>7. Journaled'
  BY <1>1, <1>6 DEF SessionInv, Journaled, Injected, At, Top, session
<1>8. Stored'
  BY <1>1 DEF SessionInv, Stored, StorageIsKept, Newest, At, Top, session, storage
<1>9. QED  BY <1>1, <1>4, <1>5, <1>7, <1>8, SessionStays DEF SessionInv

LEMMA SetsTimerKeeps ==
    ASSUME SessionInv, SetsTimer
    PROVE  SessionInv'
<1>1. timers' = timers \cup {live}
      /\ UNCHANGED <<session, busy, live, site, map, journal, storage, strayed, lost, late, torn,
                     reset, outlived, last>>
  BY DEF SetsTimer, flags
<1>2. ThreadTyped' /\ BoxTyped'
  BY <1>1, Depend DEF SessionInv, ThreadTyped
<1>3. Injected' /\ Working' /\ Journaled'
  BY <1>1 DEF SessionInv, Injected, Injecting, Working, Journaled, At, Top, session,
      JournalIsOfTheLiveDocument, Asked
<1>4. Stored'
  BY <1>1 DEF SessionInv, Stored, StorageIsKept, Newest, At, Top, session, storage
<1>5. QED  BY <1>1, <1>2, <1>3, <1>4, SessionStays DEF SessionInv

\* The command whose script is over takes the journal along.
LEMMA DrainBegins ==
    ASSUME SessionInv, At("scripts"), busy' = FALSE, journal' = <<>>,
           op' = [op EXCEPT ![1].at = "drain", ![1].list = journal],
           timers' \subseteq timers,
           \/ UNCHANGED <<site, map, reset>>
           \/ site' = None /\ map' = None /\ reset' = TRUE,
           UNCHANGED <<page, history, index, docs, live, storage,
                       strayed, lost, late, torn, outlived, last>>
    PROVE  SessionInv'
<1> DEFINE g == [Top EXCEPT !.at = "drain", !.list = journal]
<1>1. op # <<>> /\ op' = [op EXCEPT ![1] = g]
  BY TopIsFirst DEF SessionInv, At
<1>2. Framed(Top) /\ Top.at = "scripts" /\ Top \in Frames
  BY <1>1, TopIsFirst DEF SessionInv, At
<1>3. Framed(g) /\ g.do = Top.do /\ g.at = "drain"
  BY <1>2 DEF Framed, Frames, SessionInv, ThreadTyped, Journaled
<1> HIDE DEF g
<1>4. Stacked' /\ PageTyped' /\ OnThePage' /\ op' # <<>> /\ Top' = g
  BY <1>1, <1>2, <1>3, GoesOn DEF Turning, At
<1>5. ThreadTyped' /\ BoxTyped'
  BY <1>1, EmptySeq, Depend DEF SessionInv, ThreadTyped
<1>6. Injected' /\ Working'
  BY <1>1, <1>3, <1>4 DEF SessionInv, Injected, Injecting, Working, At, Top
<1>7. Journaled'
  BY DEF Journaled, Asked, JournalIsOfTheLiveDocument
<1>8. Stored'
  BY <1>1, <1>3, <1>4 DEF SessionInv, Stored, StorageIsKept, Newest, At, Top, storage
<1>9. QED  BY <1>4, <1>5, <1>6, <1>7, <1>8 DEF SessionInv

LEMMA ThreadAnswersKeeps ==
    ASSUME SessionInv, ThreadAnswers
    PROVE  SessionInv'
<1>1. busy /\ busy' = FALSE
      /\ UNCHANGED <<page, history, index, docs, live, site, map, timers, storage, flags>>
  BY DEF ThreadAnswers
<1>2. CASE At("scripts") /\ Reconciles(Top)
  BY <1>1, <1>2, DrainBegins DEF ThreadAnswers, flags
<1>3. CASE ~At("scripts")
  <2>1. UNCHANGED <<op, journal>> /\ UNCHANGED <<strayed, lost, late, torn, reset, outlived, last>> /\ torn
    BY <1>1, <1>3 DEF ThreadAnswers, flags, SessionInv, Working
  <2>2. ThreadTyped' /\ BoxTyped'
    BY <1>1, <2>1, Depend DEF SessionInv, ThreadTyped
  <2>3. Injected' /\ Working' /\ Journaled'
    BY <1>1, <1>3, <2>1 DEF SessionInv, Injected, Injecting, Working, Journaled, At, Top,
        JournalIsOfTheLiveDocument, Asked
  <2>4. Stored'
    BY <1>1, <2>1 DEF SessionInv, Stored, StorageIsKept, Newest, At, Top, storage
  <2>5. QED  BY <1>1, <2>1, <2>2, <2>3, <2>4, SessionStays DEF SessionInv, session
<1>4. CASE At("scripts") /\ ~Reconciles(Top)
  <2>1. op # <<>> /\ Returns /\ journal' = journal
        /\ UNCHANGED <<strayed, lost, late, torn, reset, outlived, last>>
    BY <1>1, <1>4 DEF ThreadAnswers, At, flags
  <2>2. Stacked' /\ (op' # <<>> => Top'.at = "drain")
    BY <2>1, Ends DEF SessionInv
  <2>3. OnThePage'
    BY <1>1, <1>4, <2>1, <2>2, PageStays DEF SessionInv, Turning, At
  <2>4. ThreadTyped' /\ BoxTyped' /\ PageTyped'
    BY <1>1, <2>1, Depend DEF SessionInv, ThreadTyped
  <2>5. Injected' /\ Working'
    BY <1>1, <2>1, <2>2 DEF SessionInv, Injected, Injecting, Working, At, Top
  <2>6. Journaled'
    BY <1>1, <2>1, <2>2, JournalStays DEF SessionInv
  <2>7. Stored'
    BY <1>1, <2>1, <2>2, StoreStays DEF SessionInv, ThreadTyped, storage
  <2>8. QED  BY <2>2, <2>3, <2>4, <2>5, <2>6, <2>7 DEF SessionInv
<1>5. QED  BY <1>2, <1>3, <1>4

LEMMA EvaluationTimesOutKeeps ==
    ASSUME SessionInv, EvaluationTimesOut
    PROVE  SessionInv'
  BY DrainBegins DEF EvaluationTimesOut

LEMMA CarriesOutKeeps ==
    ASSUME SessionInv, CarriesOut
    PROVE  SessionInv'
<1> DEFINE m == Head(Top.list)
           g == [Top EXCEPT !.list = Tail(Top.list)]
<1>1. At("drain") /\ op # <<>> /\ Top.list # <<>> /\ [op EXCEPT ![1].list = Tail(@)] = [op EXCEPT ![1] = g]
      /\ UNCHANGED <<page, history, index, docs, thread, storage, strayed, lost, late, torn,
                     reset, outlived, last>>
  BY TopIsFirst DEF SessionInv, CarriesOut, At, flags
<1>2. Framed(Top) /\ Top.at = "drain" /\ Top \in Frames /\ Top.list \in Seq(Requests)
  BY <1>1, TopIsFirst DEF SessionInv, At, Frames
<1>3. Tail(Top.list) \in Seq(Requests) /\ m \in Requests /\ m = Top.list[1] /\ Asked(Tail(Top.list))
      /\ (m.do = "reload" <=> m.url = None)
  <2>1. Len(Top.list) \in Nat \ {0} /\ DOMAIN Top.list = 1..Len(Top.list)
    BY <1>1, <1>2, EmptySeq, LenProperties
  <2>2. m \in Requests /\ Tail(Top.list) \in Seq(Requests) /\ Len(Tail(Top.list)) = Len(Top.list) - 1
        /\ \A i \in 1..Len(Tail(Top.list)) : Tail(Top.list)[i] = Top.list[i + 1]
    BY <1>1, <1>2, <2>1, HeadTailProperties
  <2>3. DOMAIN Tail(Top.list) = 1..Len(Tail(Top.list))
    BY <2>2, LenProperties
  <2>4. m = Top.list[1]
    BY <1>1, <1>2
  <2>5. Asked(Top.list)
    BY <1>2 DEF Framed
  <2>6. QED  BY <2>1, <2>2, <2>3, <2>4, <2>5 DEF Asked
<1>4. Framed(g) /\ g.at = "drain" /\ g.do = Top.do
  BY <1>2, <1>3 DEF Framed, Frames
<1>5. CASE m.do = "reload" /\ page = None
  <2>1. op' = <<>>
    BY <1>5 DEF CarriesOut
  <2>2. OnThePage'
    BY <1>1, <1>2, <2>1, PageStays DEF SessionInv, Turning, At
  <2>3. ThreadTyped' /\ BoxTyped' /\ Injected' /\ Working' /\ Journaled' /\ Stored'
    BY <1>1, <1>2, <2>1, Rests DEF At
  <2>4. QED  BY <1>1, <2>1, <2>2, <2>3, Empties, Depend DEF SessionInv
<1>6. CASE m.do = "reload" /\ page # None
  <2> DEFINE f == Frame("reload", "fetch", page.url)
  <2>1. op' = <<f>> \o [op EXCEPT ![1] = g]
    BY <1>1, <1>6 DEF CarriesOut
  <2>2. page.url \in Urls
    BY <1>6 DEF SessionInv, PageTyped
  <2>3. Framed(f) /\ f.at = "fetch" /\ f.do = "reload" /\ f.url = page.url
    BY <2>2, FrameOf
  <2> HIDE DEF f, g
  <2>4. Stacked' /\ op' # <<>> /\ Top' = f
    BY <1>1, <1>4, <2>1, <2>3, BeginsInside DEF SessionInv
  <2>5. OnThePage'
    BY <1>1, <1>2, <1>6, <2>3, <2>4 DEF SessionInv, OnThePage, Turning, At
  <2>6. ThreadTyped' /\ BoxTyped' /\ Injected' /\ Working' /\ Journaled' /\ Stored'
    BY <1>1, <1>2, <2>3, <2>4, Rests DEF At
  <2>7. QED  BY <1>1, <2>4, <2>5, <2>6, Depend DEF SessionInv
<1>7. CASE m.do # "reload"
  <2> DEFINE f == Navigation(m.do, m.url)
  <2>1. op' = <<f>> \o [op EXCEPT ![1] = g]
    BY <1>1, <1>7 DEF CarriesOut
  <2>2. m.do \in {"navigate", "post"} /\ m.url \in Urls
    BY <1>3, <1>7 DEF Requests
  <2>3. Framed(f) /\ f.at \in {"fetch", "load"} /\ f.do \in {"navigate", "post"}
    BY <2>2, NavigationOf
  <2> HIDE DEF f, g, m
  <2>4. Stacked' /\ op' # <<>> /\ Top' = f
    <3>1. f.do \in {"navigate", "post", "reload"} /\ Stacked
      BY <2>3 DEF SessionInv
    <3>2. QED  BY <1>1, <1>4, <2>1, <2>3, <3>1, BeginsInside
  <2>5. OnThePage'
    BY <1>1, <1>2, <2>3, <2>4, PageStays DEF SessionInv, Turning, At
  <2>6. ThreadTyped' /\ BoxTyped' /\ Injected' /\ Working' /\ Journaled' /\ Stored'
    BY <1>1, <1>2, <2>3, <2>4, Rests DEF At
  <2>7. QED  BY <1>1, <2>4, <2>5, <2>6, Depend DEF SessionInv
<1>8. QED  BY <1>5, <1>6, <1>7

\* The action that is given up is the outermost command, so it is not a step in the
\* history that is given up with it.
LEMMA GivesUpKeeps ==
    ASSUME SessionInv, GivesUp
    PROVE  SessionInv'
<1>1. op # <<>> /\ op[Len(op)].do = "act" /\ op' = <<>> /\ torn' = (torn \/ busy)
      /\ UNCHANGED <<page, history, index, docs, thread, storage, strayed, lost, late, reset,
                     outlived, last>>
  BY DEF GivesUp
<1>2. ~Turning
  <2>1. Len(op) \in Nat \ {0} /\ Top = op[1]
    BY <1>1, TopIsFirst DEF SessionInv
  <2>2. ASSUME Len(op) > 1 PROVE op[1].do \in {"navigate", "post", "reload"}
    BY <2>1, <2>2, 1 \in 1..Len(op) - 1 DEF SessionInv, Stacked
  <2>3. Len(op) > 1 \/ Len(op) = 1
    BY <2>1
  <2>4. CASE Len(op) = 1
    BY <1>1, <2>1, <2>4 DEF Turning
  <2>5. CASE Len(op) > 1
    BY <2>1, <2>2, <2>5 DEF Turning
  <2>6. QED  BY <2>3, <2>4, <2>5
<1>3. PageTyped' /\ BoxTyped' /\ Stacked'
  BY <1>1, Depend, Empties DEF SessionInv
<1>4. ThreadTyped'
  BY <1>1 DEF SessionInv, ThreadTyped, thread
<1>5. OnThePage'
  BY <1>1, <1>2, PageStays DEF SessionInv
<1>6. Injected' /\ Working'
  BY <1>1 DEF SessionInv, Injected, Injecting, Working, At, thread
<1>7. Journaled'
  BY <1>1, JournalStays DEF SessionInv, thread
<1>8. Stored'
  BY <1>1, StoreStays DEF SessionInv, ThreadTyped, thread, storage
<1>9. QED  BY <1>3, <1>4, <1>5, <1>6, <1>7, <1>8 DEF SessionInv
-----------------------------------------------------------------------------
(* The bridge of localStorage *)

LEMMA SyncKeeps ==
    ASSUME SessionInv, Sync
    PROVE  SessionInv'
<1> DEFINE m == Head(box)
<1>1. box # <<>> /\ bucket' = [bucket EXCEPT ![m.to] = [n |-> m.n, by |-> m.by]] /\ box' = Tail(box)
      /\ UNCHANGED <<session, thread, strayed, lost, late, torn, reset, outlived, last>>
  BY DEF Sync, flags
<1>2. Len(box) \in Nat \ {0} /\ DOMAIN box = 1..Len(box) /\ m = box[1]
      /\ m \in [to : Urls, n : 1..MaxWrites, by : Urls]
  <2>1. box \in Seq([to : Urls, n : 1..MaxWrites, by : Urls])
    BY DEF SessionInv, BoxTyped
  <2>2. Len(box) \in Nat \ {0} /\ DOMAIN box = 1..Len(box)
    BY <1>1, <2>1, EmptySeq, LenProperties
  <2>3. m = box[1]
    BY <2>1, <2>2
  <2>4. m \in [to : Urls, n : 1..MaxWrites, by : Urls]
    <3>1. 1 \in 1..Len(box)
      BY <2>2
    <3>2. box[1] \in [to : Urls, n : 1..MaxWrites, by : Urls]
      BY <2>1, <3>1, ElementOfSeq
    <3>3. QED  BY <2>3, <3>2
  <2>5. QED  BY <2>2, <2>3, <2>4
<1>3. box' \in Seq([to : Urls, n : 1..MaxWrites, by : Urls]) /\ DOMAIN box' = 1..Len(box) - 1
      /\ \A i \in 1..Len(box) - 1 : box'[i] = box[i + 1]
  BY <1>1, <1>2, LenProperties, HeadTailProperties DEF SessionInv, BoxTyped
<1> HIDE DEF m
<1>4. bucket' \in [Urls -> [n : 0..MaxWrites, by : Urls]] /\ m.to \in Urls
      /\ bucket'[m.to].n = m.n /\ bucket'[m.to].by = m.by
      /\ \A u \in Urls : u # m.to => bucket'[u] = bucket[u]
  BY <1>1, <1>2 DEF SessionInv, BoxTyped
<1>5. ThreadTyped' /\ BoxTyped'
  BY <1>1, <1>3, <1>4, Depend DEF SessionInv, BoxTyped
<1>6. Injected' /\ Working' /\ Journaled'
  BY <1>1 DEF SessionInv, Injected, Injecting, Working, Journaled, At, Top, session, thread,
      JournalIsOfTheLiveDocument, Asked
<1>7. \A u \in Urls : (\A i \in DOMAIN box' : box'[i].to # u) => bucket'[u].n = last'[u]
  <2> SUFFICES ASSUME NEW u \in Urls, \A i \in DOMAIN box' : box'[i].to # u
               PROVE  bucket'[u].n = last[u]
    BY <1>1
  <2>1. \A j \in DOMAIN box : j > 1 => box[j].to # u
    <3> SUFFICES ASSUME NEW j \in DOMAIN box, j > 1 PROVE box[j].to # u
      OBVIOUS
    <3>1. j - 1 \in DOMAIN box' /\ box'[j - 1] = box[j]
      BY <1>2, <1>3
    <3>2. QED  BY <3>1
  <2>2. CASE u = m.to
    <3>1. Newest(1) /\ 1 \in DOMAIN box
      BY <1>2, <2>1, <2>2 DEF Newest
    <3>2. m.n = last[m.to]
      BY <1>2, <3>1 DEF SessionInv, Stored
    <3>3. QED  BY <1>4, <2>2, <3>2
  <2>3. CASE u # m.to
    <3>1. \A i \in DOMAIN box : box[i].to # u
      BY <1>2, <2>1, <2>3
    <3>2. QED  BY <1>4, <2>3, <3>1 DEF SessionInv, Stored
  <2>4. QED  BY <2>2, <2>3
<1>8. \A i \in DOMAIN box' : Newest(i)' => box'[i].n = last'[box'[i].to]
  <2> SUFFICES ASSUME NEW i \in DOMAIN box', \A j \in DOMAIN box' : j > i => box'[j].to # box'[i].to
               PROVE  box'[i].n = last[box'[i].to]
    BY <1>1 DEF Newest
  <2>1. i + 1 \in DOMAIN box /\ box'[i] = box[i + 1]
    BY <1>2, <1>3
  <2>2. Newest(i + 1)
    <3> SUFFICES ASSUME NEW j \in DOMAIN box, j > i + 1 PROVE box[j].to # box[i + 1].to
      BY DEF Newest
    <3>1. j - 1 \in DOMAIN box' /\ box'[j - 1] = box[j] /\ j - 1 > i
      BY <1>2, <1>3
    <3>2. QED  BY <2>1, <3>1
  <2>3. QED  BY <2>1, <2>2 DEF SessionInv, Stored
<1>9. StorageIsKept'
  <2>1. map' # None /\ ~late' /\ ~torn' => map' = last'[site']
    BY <1>1 DEF SessionInv, Stored, StorageIsKept, thread
  <2>2. ASSUME ~outlived', NEW i \in DOMAIN box' PROVE box'[i].by = box'[i].to
    <3>1. i + 1 \in DOMAIN box /\ box'[i] = box[i + 1]
      BY <1>2, <1>3
    <3>2. QED  BY <1>1, <2>2, <3>1 DEF SessionInv, Stored, StorageIsKept
  <2>3. ASSUME ~outlived', NEW u \in Urls PROVE bucket'[u].by = u
    <3>1. 1 \in DOMAIN box
      BY <1>2
    <3>2. m.by = m.to /\ bucket[u].by = u
      BY <1>1, <1>2, <2>3, <3>1 DEF SessionInv, Stored, StorageIsKept
    <3>3. QED  BY <1>4, <3>2
  <2>4. QED  BY <2>1, <2>2, <2>3 DEF StorageIsKept
<1>10. Stored'
  BY <1>1, <1>7, <1>8, <1>9 DEF SessionInv, Stored, At, Top, session
<1>11. QED  BY <1>1, <1>5, <1>6, <1>10, SessionStays DEF SessionInv
-----------------------------------------------------------------------------
(* Theorems *)

LEMMA NextKeepsSessionInv == SessionInv /\ [SessionNext]_sessionVars => SessionInv'
<1> SUFFICES ASSUME SessionInv, [SessionNext]_sessionVars
             PROVE  SessionInv'
  OBVIOUS
<1>1. CASE \E do \in {"navigate", "post"}, u \in Urls : Goto(do, u)
  BY <1>1, GotoKeeps
<1>2. CASE GoBack \/ GoForward
  BY <1>2, GoBackKeeps
<1>3. CASE GoForwardFromNothing
  BY <1>3, GoForwardFromNothingKeeps
<1>4. CASE Reload
  BY <1>4, ReloadKeeps
<1>5. CASE Evaluate \/ NativeAct
  BY <1>5, ScriptBegins
<1>6. CASE FetchFails
  BY <1>6, FetchFailsKeeps
<1>7. CASE Downloads
  BY <1>7, DownloadsKeeps
<1>8. CASE \E u \in Urls : Opens(u)
  BY <1>8, OpensKeeps
<1>9. CASE Seed
  BY <1>9, SeedKeeps
<1>10. CASE SetPageUrl
  BY <1>10, SetPageUrlKeeps
<1>11. CASE ClearJournal
  BY <1>11, ClearJournalKeeps
<1>12. CASE SetDocument \/ SetDocumentFails
  BY <1>12, SetDocumentKeeps
<1>13. CASE \E d \in {live} \cup timers : Writes(d)
  BY <1>13, WritesKeeps
<1>14. CASE \E d \in {live} \cup timers :
               \E do \in {"navigate", "post", "reload"}, u \in Urls \cup {None} : Asks(d, do, u)
  BY <1>14, AsksKeeps
<1>15. CASE SetsTimer
  BY <1>15, SetsTimerKeeps
<1>16. CASE ThreadAnswers
  BY <1>16, ThreadAnswersKeeps
<1>17. CASE EvaluationTimesOut
  BY <1>17, EvaluationTimesOutKeeps
<1>18. CASE CarriesOut
  BY <1>18, CarriesOutKeeps
<1>19. CASE Drained
  BY <1>19, DrainedKeeps
<1>20. CASE GivesUp
  BY <1>20, GivesUpKeeps
<1>21. CASE Sync
  BY <1>21, SyncKeeps
<1>22. CASE UNCHANGED sessionVars
  <2>1. UNCHANGED <<session, thread, storage, strayed, lost, late, torn, reset, outlived, last>>
        /\ UNCHANGED <<page, history, index, docs>>
    BY <1>22 DEF sessionVars, flags, session
  <2>2. Stacked' /\ OnThePage' /\ PageTyped' /\ ThreadTyped' /\ BoxTyped'
    BY <2>1, SessionStays, Depend DEF SessionInv
  <2>3. Injected' /\ Working' /\ Journaled'
    BY <2>1 DEF SessionInv, Injected, Injecting, Working, Journaled, At, Top, session, thread,
        JournalIsOfTheLiveDocument, Asked
  <2>4. Stored'
    BY <2>1 DEF SessionInv, Stored, StorageIsKept, Newest, At, Top, session, thread, storage
  <2>5. QED  BY <2>2, <2>3, <2>4 DEF SessionInv
<1>23. QED
  BY <1>1, <1>2, <1>3, <1>4, <1>5, <1>6, <1>7, <1>8, <1>9, <1>10, <1>11, <1>12, <1>13, <1>14,
     <1>15,
     <1>16, <1>17, <1>18, <1>19, <1>20, <1>21, <1>22 DEF SessionNext

\* What the session and the JS thread have of each other, in every state.
LEMMA SessionInvariant == SessionSpec => []SessionInv
<1>1. SessionInit => SessionInv
  BY InitSessionInv
<1>2. SessionInv /\ [SessionNext]_sessionVars => SessionInv'
  BY NextKeepsSessionInv
<1>3. QED  BY <1>1, <1>2, PTL DEF SessionSpec

\* Types: however often back, forward and navigations of scripts alternate, the index
\* is one of the history's (Session::go_back, go_forward, post).
THEOREM SessionTypeCorrect == SessionSpec => []SessionTypeOK
<1>1. SessionInv => SessionTypeOK
  BY DEF SessionInv, SessionTypeOK, PageTyped, ThreadTyped, BoxTyped, Stacked
<1>2. QED  BY <1>1, SessionInvariant, PTL

\* Between commands the page is the one the history is at and the document the JS
\* thread has, at the page's URL, unless a step back or forward failed, an injection was
\* cut short, or an evaluation timed out, which leaves the page and takes the URL
\* (Session::navigate, reload, reconcile_native_mutations, native_act_guarded, Eval).
THEOREM SessionAgreesOnThePage == SessionSpec => []AgreesOnThePage
<1>1. SessionInv => AgreesOnThePage
  BY DEF SessionInv, AgreesOnThePage, OnThePage, Turning, Injected, At
<1>2. QED  BY <1>1, SessionInvariant, PTL

\* No request of a page that is gone sends its successor away, whatever goes on running
\* on the JS thread (JsRuntime::set_document_with_scripts).
THEOREM JournalIsNeverStale == SessionSpec => []JournalIsOfTheLiveDocument
<1>1. SessionInv => JournalIsOfTheLiveDocument
  BY DEF SessionInv, Journaled
<1>2. QED  BY <1>1, SessionInvariant, PTL

\* Until a script outlives its page, localStorage is kept by origin, and a page finds
\* what was last written for its own (Session::handle_local_storage_sync,
\* inject_dom_snapshot).
THEOREM StorageIsAlwaysKept == SessionSpec => []StorageIsKept
<1>1. SessionInv => StorageIsKept
  BY DEF SessionInv, Stored
<1>2. QED  BY <1>1, SessionInvariant, PTL
=============================================================================
