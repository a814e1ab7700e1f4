---------------------------- MODULE GhostOwnership ----------------------------
(***************************************************************************)
(* The Ghost browser child under a local supervisor: who may operate the   *)
(* browser (mcp/ghost/handoff.rs, State), the tabs and the element refs a  *)
(* snapshot hands out (mcp/ghost.rs, GhostTab and Runtime), and the main   *)
(* loop that admits one operation at a time while it keeps listening to    *)
(* the agent and to the host (run_ghost_stdio).                            *)
(*                                                                         *)
(* This module is the controlled mode (a task and a control descriptor are *)
(* given), with requests that pass the scope checks; a request the gates   *)
(* refuse changes nothing here.  Request IDs, duplicates and replies are   *)
(* added by GhostSession.                                                  *)
(***************************************************************************)
EXTENDS Naturals, FiniteSets

CONSTANTS HandoffIds,   \* the handoff IDs the host may mint
          MaxTab,       \* bound: tabs opened in the life of the process
          MaxGen,       \* bound: per-tab invalidations beyond one for each transfer
          None          \* absent handoff, pending request or operation

ASSUME TabsAssumption == MaxTab \in Nat /\ MaxGen \in Nat
ASSUME NoneAssumption == None \notin HandoffIds

VARIABLES phase,          \* State.phase
          epoch,          \* State.epoch, the control epoch
          handoff,        \* State.handoff
          usedHandoffs,   \* State.used_handoffs
          pending,        \* State.pending: the handoff waiting for the operation
          fresh,          \* State.fresh: tabs still to be observed after a resume
          inventory,      \* State.inventory: browser_tabs still owed after a resume
          runtime,        \* Runtime: open tabs and their live refs
          op              \* the admitted operation in flight, or None

stateVars == <<handoff, usedHandoffs, fresh, inventory>>
vars == <<phase, epoch, pending, stateVars, runtime, op>>

Phases == {"Agent", "Pausing", "Human", "Refresh", "Closed"}
Channels == {"agent", "human"}
TabIds == 1..MaxTab

\* The tools; browser_click and browser_fill are both "act".  Every tool but
\* "tabs" and "new" names a tab, and "act" also a ref.
NoTabTools == {"tabs", "new"}
TabTools == {"close", "snapshot", "navigate"}

(***************************************************************************)
(* The runtime.  A ref is named by its tab and by the tab's generation     *)
(* (GhostTab.epoch) at the snapshot that issued it, so refs is the set of  *)
(* generations whose refs the tab still accepts.  Two history fields: seen *)
(* is the control epoch in which the tab was last opened or successfully   *)
(* observed, spent the generations whose refs were issued and then voided. *)
(***************************************************************************)
GhostTabs == [gen : Nat, refs : SUBSET Nat, seen : Nat, spent : SUBSET Nat]

Runtimes == [open : SUBSET TabIds, next : 1..(MaxTab + 1), tab : [TabIds -> GhostTabs]]

NewTab(e) == [gen |-> 0, refs |-> {}, seen |-> e, spent |-> {}]

NoTabs == [open |-> {}, next |-> 1, tab |-> [t \in TabIds |-> NewTab(0)]]

\* Variant: the generation counts down from zero.
InvalidateDownwards(tab) ==
    [gen |-> tab.gen - 1, refs |-> {}, seen |-> tab.seen, spent |-> tab.spent \cup tab.refs]

\* GhostTab::invalidate.
Invalidate(tab) ==
    [gen |-> tab.gen + 1, refs |-> {}, seen |-> tab.seen, spent |-> tab.spent \cup tab.refs]

\* GhostTab::snapshot invalidates first and registers the new refs under the
\* generation it has just opened.
Observe(tab, e) ==
    [gen   |-> Invalidate(tab).gen,
     refs  |-> {Invalidate(tab).gen},
     seen  |-> e,
     spent |-> Invalidate(tab).spent]

WithTab(rt, t, tab) ==
    [open |-> rt.open, next |-> rt.next, tab |-> [rt.tab EXCEPT ![t] = tab]]

Opened(rt, e) ==
    [open |-> rt.open \cup {rt.next},
     next |-> rt.next + 1,
     tab  |-> [rt.tab EXCEPT ![rt.next] = NewTab(e)]]

Dropped(rt, t) ==
    [open |-> rt.open \ {t},
     next |-> rt.next,
     tab  |-> [rt.tab EXCEPT ![t] = Invalidate(rt.tab[t])]]

\* handoff::invalidate, on every open tab.
InvalidateAll(rt) ==
    [open |-> rt.open,
     next |-> rt.next,
     tab  |-> [t \in TabIds |-> IF t \in rt.open THEN Invalidate(rt.tab[t]) ELSE rt.tab[t]]]

Outcome(rt, result) == [rt |-> rt, result |-> result]

(***************************************************************************)
(* Runtime::call: what an operation o can leave behind when it runs to its *)
(* own end, and whether it reports success ("ok"), a failure known to have *)
(* had no lasting effect ("err") or an uncertain one.  Bad arguments, an   *)
(* unknown tab and a stale ref are refused before anything is touched.  An *)
(* error of the engine is uncertain unless it says it did not act.         *)
(***************************************************************************)
CallOutcomes(rt, o) ==
    LET t == o.tab
        voided == WithTab(rt, t, Invalidate(rt.tab[t]))
        observed == WithTab(rt, t, Observe(rt.tab[t], epoch))
    IN  {Outcome(rt, "err")} \cup
        CASE o.name = "tabs" -> {Outcome(rt, "ok")}
          [] o.name = "new" -> {Outcome(Opened(rt, epoch), "ok")}
          [] o.name = "close" /\ t \in rt.open -> {Outcome(Dropped(rt, t), r) : r \in {"ok", "err"}}
          [] o.name = "snapshot" /\ t \in rt.open ->
                {Outcome(observed, "ok")} \cup {Outcome(voided, r) : r \in {"err", "uncertain"}}
          [] o.name = "navigate" /\ t \in rt.open -> {Outcome(voided, r) : r \in {"ok", "uncertain"}}
          [] o.name = "act" /\ t \in rt.open /\ o.gen \in rt.tab[t].refs ->
                {Outcome(voided, r) : r \in {"ok", "err", "uncertain"}}
          [] OTHER -> {}

\* What an operation that is interrupted may already have done.
PartialOutcomes(rt, o) ==
    CASE o.name = "close" /\ o.tab \in rt.open -> {rt, Dropped(rt, o.tab)}
      [] o.name \in {"snapshot", "navigate"} /\ o.tab \in rt.open ->
            {rt, WithTab(rt, o.tab, Invalidate(rt.tab[o.tab]))}
      [] OTHER -> {rt}

\* The calls a client can write: a ref it presents was issued to somebody,
\* now or under an earlier generation of the tab.
Calls(rt) ==
    [name : NoTabTools, tab : {None}, gen : {None}]
    \cup [name : TabTools, tab : TabIds, gen : {None}]
    \cup UNION {[name : {"act"}, tab : {t}, gen : rt.tab[t].refs \cup rt.tab[t].spent] :
                   t \in TabIds}

(***************************************************************************)
(* The agent's gate and its observations (State::agent_gate, observed).    *)
(***************************************************************************)
AgentGate(name, ep) ==
    /\ ep = epoch
    /\ \/ phase = "Agent"
       \/ phase = "Refresh" /\ name \in {"snapshot", "tabs"}

FreshAfter(o) == IF o.name = "snapshot" THEN fresh \ {o.tab} ELSE fresh
InventoryAfter(o) == inventory /\ o.name \notin {"snapshot", "tabs"}

\* State::observed, called with the outcome of every agent operation.
Observed(o, success) ==
    IF phase = "Refresh" /\ success
    THEN /\ fresh' = FreshAfter(o)
         /\ inventory' = InventoryAfter(o)
         /\ phase' = IF fresh' = {} /\ ~inventory' THEN "Agent" ELSE "Refresh"
    ELSE UNCHANGED <<fresh, inventory, phase>>

-----------------------------------------------------------------------------
Init ==
    /\ phase = "Agent" /\ epoch = 0
    /\ handoff = None /\ usedHandoffs = {} /\ pending = None
    /\ fresh = {} /\ inventory = FALSE
    /\ runtime = NoTabs
    /\ op = None

Idle == phase # "Closed" /\ op = None

\* The operation is pinned and its deadline armed; nothing else touches the
\* runtime until it settles, so its effect is taken when it does.
Start(ch, call, ep) ==
    /\ call.name = "new" => runtime.next <= MaxTab
    /\ call.name \notin NoTabTools => runtime.tab[call.tab].gen < MaxGen + epoch
    /\ op' = [ch |-> ch, ep |-> ep, name |-> call.name, tab |-> call.tab, gen |-> call.gen]
    /\ UNCHANGED <<phase, epoch, pending, stateVars, runtime>>

\* A tools/call from the agent, written for control epoch ep.
AgentCall(call, ep) == Idle /\ AgentGate(call.name, ep) /\ Start("agent", call, ep)

\* ghost/human: the same tools, through the host's channel.
HumanCall(h, call) ==
    /\ Idle /\ phase = "Human" /\ h = handoff
    /\ Start("human", call, epoch)

HandoffAllowed(h) == phase \in {"Agent", "Refresh"} /\ h \notin usedHandoffs

\* Variant: a handoff that finds the loop idle is left pending too.
BeginHandoffWhenIdle(h) ==
    /\ HandoffAllowed(h)
    /\ usedHandoffs' = usedHandoffs \cup {h}
    /\ handoff' = h
    /\ phase' = "Pausing"
    /\ pending' = h
    /\ UNCHANGED <<epoch, fresh, inventory, runtime, op>>

\* Variant: the human owns the browser as soon as the pause is requested.
BeginHandoffAtOnce(h) ==
    /\ op # None /\ HandoffAllowed(h)
    /\ usedHandoffs' = usedHandoffs \cup {h}
    /\ handoff' = h
    /\ phase' = "Human"
    /\ pending' = h
    /\ UNCHANGED <<epoch, fresh, inventory, runtime, op>>

\* State::begin_handoff while an operation runs: nothing is acknowledged yet.
BeginHandoff(h) ==
    /\ op # None /\ HandoffAllowed(h)
    /\ usedHandoffs' = usedHandoffs \cup {h}
    /\ handoff' = h
    /\ phase' = "Pausing"
    /\ pending' = h
    /\ UNCHANGED <<epoch, fresh, inventory, runtime, op>>

\* State::finish_handoff on the runtime an operation left behind.
FinishHandoff(rt) ==
    /\ runtime' = InvalidateAll(rt)
    /\ epoch' = epoch + 1
    /\ phase' = "Human"
    /\ pending' = None

\* ghost/handoff while idle begins and finishes in one step.
IdleHandoff(h) ==
    /\ Idle /\ HandoffAllowed(h)
    /\ usedHandoffs' = usedHandoffs \cup {h}
    /\ handoff' = h
    /\ FinishHandoff(runtime)
    /\ UNCHANGED <<fresh, inventory, op>>

\* Variant: a resume is not refused BUSY while the host's operation runs.
ResumeWhileBusy(h) ==
    /\ phase = "Human" /\ h = handoff
    /\ runtime' = InvalidateAll(runtime)
    /\ epoch' = epoch + 1
    /\ phase' = "Refresh"
    /\ fresh' = runtime.open
    /\ inventory' = (runtime.open = {})
    /\ UNCHANGED <<handoff, usedHandoffs, pending, op>>

\* Variant: the refs of the human's snapshots survive the resume.
ResumeKeepingRefs(h) ==
    /\ Idle /\ phase = "Human" /\ h = handoff
    /\ epoch' = epoch + 1
    /\ phase' = "Refresh"
    /\ fresh' = runtime.open
    /\ inventory' = (runtime.open = {})
    /\ UNCHANGED <<handoff, usedHandoffs, pending, runtime, op>>

\* State::resume.  A resume that arrives during an operation is refused BUSY.
Resume(h) ==
    /\ Idle /\ phase = "Human" /\ h = handoff
    /\ runtime' = InvalidateAll(runtime)
    /\ epoch' = epoch + 1
    /\ phase' = "Refresh"
    /\ fresh' = runtime.open
    /\ inventory' = (runtime.open = {})
    /\ UNCHANGED <<handoff, usedHandoffs, pending, op>>

\* The operation ends by itself with a certain result and no handoff waits.
Settle ==
    /\ op # None /\ pending = None
    /\ \E out \in CallOutcomes(runtime, op) :
          /\ out.result # "uncertain"
          /\ runtime' = out.rt
          /\ IF op.ch = "agent"
             THEN Observed(op, out.result = "ok")
             ELSE UNCHANGED <<fresh, inventory, phase>>
    /\ op' = None
    /\ UNCHANGED <<epoch, handoff, usedHandoffs, pending>>

\* The operation a handoff was waiting for ends: the transfer completes.
SettleAndTransfer ==
    /\ op # None /\ pending # None
    /\ \E out \in CallOutcomes(runtime, op) :
          /\ out.result # "uncertain"
          /\ FinishHandoff(out.rt)
    /\ op' = None
    /\ UNCHANGED stateVars

\* Every tab is invalidated when the session loop is left.
LeaveSession(rt) ==
    /\ phase' = "Closed"
    /\ pending' = None
    /\ op' = None
    /\ runtime' = InvalidateAll(rt)
    /\ UNCHANGED <<epoch, stateVars>>

\* The operation reports an uncertain effect, or the deadline, a signal, a
\* cancellation or the loss of a channel interrupts it: a waiting handoff is
\* aborted and the child ends.
Uncertain ==
    /\ op # None
    /\ \E rt \in PartialOutcomes(runtime, op)
                \cup {out.rt : out \in {c \in CallOutcomes(runtime, op) : c.result = "uncertain"}} :
          LeaveSession(rt)

\* A signal, the end of either channel or a failed write to the host, while
\* no operation runs.
Stop == Idle /\ LeaveSession(runtime)

Next ==
    \/ \E call \in Calls(runtime), ep \in 0..epoch : AgentCall(call, ep)
    \/ \E h \in HandoffIds, call \in Calls(runtime) : HumanCall(h, call)
    \/ \E h \in HandoffIds : BeginHandoff(h) \/ IdleHandoff(h) \/ Resume(h)
    \/ Settle
    \/ SettleAndTransfer
    \/ Uncertain
    \/ Stop

Spec == Init /\ [][Next]_vars

\* Every admitted operation has a deadline of at most 30 s, and the select
\* polls it first: an operation in flight settles or is interrupted.
FairSpec == Spec /\ WF_vars(Settle \/ SettleAndTransfer \/ Uncertain)
-----------------------------------------------------------------------------
(* Properties *)

Ops == [ch : Channels, ep : Nat, name : NoTabTools \cup TabTools \cup {"act"},
        tab : TabIds \cup {None}, gen : Nat \cup {None}]

\* Type invariant of State, Runtime and the operation slot.
TypeOK ==
    /\ phase \in Phases
    /\ epoch \in Nat
    /\ handoff \in HandoffIds \cup {None}
    /\ usedHandoffs \subseteq HandoffIds
    /\ pending \in HandoffIds \cup {None}
    /\ fresh \subseteq TabIds
    /\ inventory \in BOOLEAN
    /\ runtime \in Runtimes
    /\ op \in Ops \cup {None}

\* One driver at a time: an operation of the agent runs only while the agent
\* may still hold the browser (a pause waits for it), an operation of the host
\* only while the human owns it (agent_gate, validate and the BUSY arms).
ExclusiveControl ==
    op # None => IF op.ch = "agent" THEN phase \in {"Agent", "Refresh", "Pausing"}
                                    ELSE phase = "Human"

\* A pause always has an operation that will complete it: the loop hands over
\* or aborts only when an operation ends, so a pause without one would hang.
PauseHasOperation ==
    (phase = "Pausing" <=> pending # None) /\ (pending # None => op # None)

\* An operation admitted for one control epoch never outlives that epoch: no
\* transfer happens under it, and a call written for an older epoch is not let
\* in (agent_gate's CONTROL_EPOCH_MISMATCH, finish_handoff after the outcome).
OperationInItsEpoch == op # None => op.ep = epoch

\* The browser changes hands only between operations, at a moment that is certain to
\* come: one driver, a pause that waits for an operation, no operation of an older
\* epoch (agent_gate, begin_handoff, finish_handoff).
ControlIsExclusive == ExclusiveControl /\ PauseHasOperation /\ OperationInItsEpoch

\* Old refs cannot cross an ownership boundary: a ref an open tab accepts was
\* issued in the current control epoch (invalidate in finish_handoff, resume).
RefsOfThisEpoch == \A t \in runtime.open : runtime.tab[t].refs # {} => runtime.tab[t].seen = epoch

\* A ref that was voided once is never accepted again, although snapshots of
\* the same page number its elements alike (the generation in the ref's name).
NoRefRevival == \A t \in runtime.open : runtime.tab[t].refs \cap runtime.tab[t].spent = {}

\* The agent is back in full control only when every open tab was opened or
\* successfully observed in the current epoch: a resume is never complete with
\* a tab the human may have changed unseen (fresh, observed).
AgentSawEveryTab == phase = "Agent" => \A t \in runtime.open : runtime.tab[t].seen = epoch

\* After a change of hands nothing seen before it is acted upon: neither a ref of an
\* older epoch, nor a ref voided once, nor a tab not looked at again (invalidate,
\* observed).
NothingStaleIsUsed == RefsOfThisEpoch /\ NoRefRevival /\ AgentSawEveryTab

\* A requested pause ends: the browser is handed to the human or the child
\* closes, whatever operation was running and however the host behaves.
PauseSettles == phase = "Pausing" ~> phase \in {"Human", "Closed"}

Owner == CASE phase = "Human" -> "human" [] phase = "Closed" -> "nobody" [] OTHER -> "agent"

Abstract == INSTANCE Ownership WITH owner <- Owner, working <- op # None

\* The child implements the supervisor's promise.
ImplementsOwnership == Abstract!Spec
=============================================================================
