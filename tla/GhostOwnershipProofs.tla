------------------------- MODULE GhostOwnershipProofs -------------------------
(***************************************************************************)
(* Proofs about GhostOwnership, for every set of handoff IDs and every     *)
(* bound: its safety properties, and that it implements Ownership.  The    *)
(* last part is about GhostSession, for any request IDs: a request acts    *)
(* once, what the two sides are told is true, and Ownership is still what  *)
(* the whole implements.                                                   *)
(***************************************************************************)
EXTENDS GhostSession, FiniteSetTheorems, TLAPS

\* The refs of one tab: none is newer than the tab's generation, and none is
\* both accepted and spent.
TabInv(tab) ==
    /\ \A g \in tab.refs \cup tab.spent : g <= tab.gen
    /\ tab.refs \cap tab.spent = {}

\* What is true of a whole runtime in control epoch e.
RuntimeInv(rt, e) ==
    /\ rt \in Runtimes
    /\ \A t \in TabIds : TabInv(rt.tab[t])
    /\ \A t \in rt.open : rt.tab[t].refs # {} => rt.tab[t].seen = e

\* A tab that is not in fresh has been observed since the resume.
RefreshInv ==
    phase = "Refresh" => \A t \in runtime.open : runtime.tab[t].seen = epoch \/ t \in fresh

\* The loop admits browser_new only while a tab ID is left to the model.
RoomForNew == op # None => (op.name = "new" => runtime.next <= MaxTab)

\* The inductive invariant: the properties, and what they rest on.
IInv ==
    /\ TypeOK
    /\ ExclusiveControl
    /\ PauseHasOperation
    /\ OperationInItsEpoch
    /\ AgentSawEveryTab
    /\ RuntimeInv(runtime, epoch)
    /\ RefreshInv
    /\ RoomForNew

-----------------------------------------------------------------------------
(* A tab that is invalidated accepts no ref and stays well formed; one     *)
(* that is observed accepts only refs of a generation never used before    *)
(* (GhostTab::invalidate and snapshot).                                    *)
LEMMA TabFacts ==
    ASSUME NEW tab \in GhostTabs, TabInv(tab), NEW e \in Nat
    PROVE  /\ Invalidate(tab) \in GhostTabs /\ TabInv(Invalidate(tab))
           /\ Invalidate(tab).refs = {} /\ Invalidate(tab).seen = tab.seen
           /\ Observe(tab, e) \in GhostTabs /\ TabInv(Observe(tab, e))
           /\ Observe(tab, e).seen = e
           /\ NewTab(e) \in GhostTabs /\ TabInv(NewTab(e))
           /\ NewTab(e).refs = {} /\ NewTab(e).seen = e
<1>1. /\ Invalidate(tab) \in GhostTabs
      /\ Invalidate(tab).refs = {} /\ Invalidate(tab).seen = tab.seen
      /\ Invalidate(tab).gen = tab.gen + 1
      /\ Invalidate(tab).spent = tab.spent \cup tab.refs
  BY DEF Invalidate, GhostTabs
<1>2. \A g \in Invalidate(tab).spent : g <= tab.gen /\ g \in Nat
  BY <1>1 DEF TabInv, GhostTabs
<1>3. tab.gen \in Nat
  BY DEF GhostTabs
<1>4. TabInv(Invalidate(tab))
  BY <1>1, <1>2, <1>3 DEF TabInv
<1>5. /\ Observe(tab, e) \in GhostTabs
      /\ Observe(tab, e).seen = e
      /\ Observe(tab, e).gen = tab.gen + 1
      /\ Observe(tab, e).refs = {tab.gen + 1}
      /\ Observe(tab, e).spent = Invalidate(tab).spent
  BY <1>1, <1>3 DEF Observe, GhostTabs
<1>6. TabInv(Observe(tab, e))
  BY <1>2, <1>3, <1>5 DEF TabInv
<1>7. /\ NewTab(e) \in GhostTabs /\ TabInv(NewTab(e))
      /\ NewTab(e).refs = {} /\ NewTab(e).seen = e
  BY DEF NewTab, GhostTabs, TabInv
<1> QED BY <1>1, <1>4, <1>5, <1>6, <1>7

(* Replacing one open tab by a well-formed tab that is voided, or seen in  *)
(* the current epoch, keeps the runtime well formed.                       *)
LEMMA WithTabFacts ==
    ASSUME NEW e \in Nat, NEW rt, RuntimeInv(rt, e), NEW t \in TabIds,
           NEW tab \in GhostTabs, TabInv(tab), tab.refs = {} \/ tab.seen = e
    PROVE  /\ RuntimeInv(WithTab(rt, t, tab), e)
           /\ WithTab(rt, t, tab).open = rt.open
           /\ WithTab(rt, t, tab).next = rt.next
           /\ WithTab(rt, t, tab).tab[t] = tab
           /\ \A u \in TabIds \ {t} : WithTab(rt, t, tab).tab[u] = rt.tab[u]
<1>1. rt \in Runtimes
  BY DEF RuntimeInv
<1>2. /\ WithTab(rt, t, tab) \in Runtimes
      /\ WithTab(rt, t, tab).open = rt.open
      /\ WithTab(rt, t, tab).next = rt.next
      /\ WithTab(rt, t, tab).tab[t] = tab
      /\ \A u \in TabIds \ {t} : WithTab(rt, t, tab).tab[u] = rt.tab[u]
  BY <1>1 DEF WithTab, Runtimes
<1>3. rt.open \subseteq TabIds
  BY <1>1 DEF Runtimes
<1> QED BY <1>2, <1>3 DEF RuntimeInv

(* handoff::invalidate leaves every open tab without a ref, whatever epoch *)
(* comes next.                                                             *)
LEMMA InvalidateAllFacts ==
    ASSUME NEW e \in Nat, NEW f \in Nat, NEW rt, RuntimeInv(rt, e)
    PROVE  /\ RuntimeInv(InvalidateAll(rt), f)
           /\ InvalidateAll(rt).open = rt.open
           /\ InvalidateAll(rt).next = rt.next
<1>1. rt \in Runtimes /\ rt.open \subseteq TabIds /\ \A t \in TabIds : rt.tab[t] \in GhostTabs
  BY DEF RuntimeInv, Runtimes
<1>2. \A t \in TabIds : /\ Invalidate(rt.tab[t]) \in GhostTabs
                        /\ TabInv(Invalidate(rt.tab[t]))
                        /\ Invalidate(rt.tab[t]).refs = {}
  BY <1>1, TabFacts DEF RuntimeInv
<1>3. /\ InvalidateAll(rt) \in Runtimes
      /\ InvalidateAll(rt).open = rt.open
      /\ InvalidateAll(rt).next = rt.next
      /\ \A t \in TabIds : InvalidateAll(rt).tab[t] =
            IF t \in rt.open THEN Invalidate(rt.tab[t]) ELSE rt.tab[t]
  BY <1>1, <1>2 DEF InvalidateAll, Runtimes
<1> QED BY <1>1, <1>2, <1>3 DEF RuntimeInv

LEMMA OpenedFacts ==
    ASSUME NEW e \in Nat, NEW rt, RuntimeInv(rt, e), rt.next <= MaxTab
    PROVE  /\ RuntimeInv(Opened(rt, e), e)
           /\ \A t \in Opened(rt, e).open :
                 \/ Opened(rt, e).tab[t].seen = e
                 \/ t \in rt.open /\ Opened(rt, e).tab[t].seen = rt.tab[t].seen
<1>1. rt \in Runtimes /\ rt.open \subseteq TabIds /\ rt.next \in TabIds
      /\ rt.next \in Nat /\ MaxTab \in Nat
  BY TabsAssumption DEF RuntimeInv, Runtimes, TabIds
<1>2. NewTab(e) \in GhostTabs /\ TabInv(NewTab(e)) /\ NewTab(e).seen = e
  BY DEF NewTab, GhostTabs, TabInv
<1>3. Opened(rt, e).tab \in [TabIds -> GhostTabs]
  BY <1>1, <1>2 DEF Opened, Runtimes
<1>4. /\ Opened(rt, e).open = rt.open \cup {rt.next}
      /\ Opened(rt, e).next = rt.next + 1
  BY DEF Opened
<1>5. Opened(rt, e) \in Runtimes
  BY <1>1, <1>3, <1>4 DEF Opened, Runtimes, TabIds
<1>6. /\ Opened(rt, e).tab[rt.next] = NewTab(e)
      /\ \A t \in TabIds \ {rt.next} : Opened(rt, e).tab[t] = rt.tab[t]
  BY <1>1 DEF Opened, Runtimes
<1>7. RuntimeInv(Opened(rt, e), e)
  BY <1>1, <1>2, <1>4, <1>5, <1>6 DEF RuntimeInv
<1> QED BY <1>1, <1>2, <1>4, <1>6, <1>7

LEMMA DroppedFacts ==
    ASSUME NEW e \in Nat, NEW rt, RuntimeInv(rt, e), NEW t \in TabIds
    PROVE  /\ RuntimeInv(Dropped(rt, t), e)
           /\ Dropped(rt, t).open = rt.open \ {t}
           /\ Dropped(rt, t).next = rt.next
           /\ \A u \in TabIds \ {t} : Dropped(rt, t).tab[u] = rt.tab[u]
<1>1. rt \in Runtimes /\ rt.open \subseteq TabIds /\ rt.tab[t] \in GhostTabs
  BY DEF RuntimeInv, Runtimes
<1>2. Invalidate(rt.tab[t]) \in GhostTabs /\ TabInv(Invalidate(rt.tab[t]))
  BY <1>1, TabFacts DEF RuntimeInv
<1>3. /\ Dropped(rt, t) \in Runtimes
      /\ Dropped(rt, t).open = rt.open \ {t}
      /\ Dropped(rt, t).next = rt.next
      /\ Dropped(rt, t).tab[t] = Invalidate(rt.tab[t])
      /\ \A u \in TabIds \ {t} : Dropped(rt, t).tab[u] = rt.tab[u]
  BY <1>1, <1>2 DEF Dropped, Runtimes
<1> QED BY <1>1, <1>2, <1>3 DEF RuntimeInv
(* Runtime::call, whatever the operation does: the runtime stays well      *)
(* formed, no open tab loses the knowledge the driver has of it, and a     *)
(* successful snapshot means its tab is open and was observed just now.    *)
LEMMA CallFacts ==
    ASSUME NEW rt, epoch \in Nat, RuntimeInv(rt, epoch), NEW o \in Ops,
           o.name = "new" => rt.next <= MaxTab,
           NEW out \in CallOutcomes(rt, o)
    PROVE  /\ RuntimeInv(out.rt, epoch)
           /\ \A t \in out.rt.open :
                 \/ out.rt.tab[t].seen = epoch
                 \/ t \in rt.open /\ out.rt.tab[t].seen = rt.tab[t].seen
           /\ o.name = "snapshot" /\ out.result = "ok" /\ o.tab \in out.rt.open
                 => out.rt.tab[o.tab].seen = epoch
<1> DEFINE t == o.tab
           voided == WithTab(rt, t, Invalidate(rt.tab[t]))
           observed == WithTab(rt, t, Observe(rt.tab[t], epoch))
<1>1. rt \in Runtimes /\ rt.open \subseteq TabIds
  BY DEF RuntimeInv, Runtimes
<1>2. ASSUME t \in rt.open
      PROVE  /\ RuntimeInv(voided, epoch) /\ voided.open = rt.open
             /\ \A u \in rt.open : voided.tab[u].seen = rt.tab[u].seen
             /\ RuntimeInv(observed, epoch) /\ observed.open = rt.open
             /\ \A u \in rt.open : observed.tab[u].seen = rt.tab[u].seen \/ u = t
             /\ observed.tab[t].seen = epoch
             /\ RuntimeInv(Dropped(rt, t), epoch)
             /\ Dropped(rt, t).open = rt.open \ {t}
             /\ \A u \in rt.open \ {t} : Dropped(rt, t).tab[u].seen = rt.tab[u].seen
  <2>1. t \in TabIds /\ rt.tab[t] \in GhostTabs /\ TabInv(rt.tab[t])
    BY <1>1, <1>2 DEF RuntimeInv, Runtimes
  <2>2. /\ Invalidate(rt.tab[t]) \in GhostTabs /\ TabInv(Invalidate(rt.tab[t]))
        /\ Invalidate(rt.tab[t]).refs = {}
        /\ Invalidate(rt.tab[t]).seen = rt.tab[t].seen
        /\ Observe(rt.tab[t], epoch) \in GhostTabs /\ TabInv(Observe(rt.tab[t], epoch))
        /\ Observe(rt.tab[t], epoch).seen = epoch
    BY <2>1, TabFacts
  <2>3. /\ RuntimeInv(voided, epoch) /\ voided.open = rt.open
        /\ voided.tab[t] = Invalidate(rt.tab[t])
        /\ \A u \in TabIds \ {t} : voided.tab[u] = rt.tab[u]
    BY <2>1, <2>2, WithTabFacts
  <2>4. /\ RuntimeInv(observed, epoch) /\ observed.open = rt.open
        /\ observed.tab[t] = Observe(rt.tab[t], epoch)
        /\ \A u \in TabIds \ {t} : observed.tab[u] = rt.tab[u]
    BY <2>1, <2>2, WithTabFacts
  <2>5. /\ RuntimeInv(Dropped(rt, t), epoch)
        /\ Dropped(rt, t).open = rt.open \ {t}
        /\ \A u \in TabIds \ {t} : Dropped(rt, t).tab[u] = rt.tab[u]
    BY <2>1, DroppedFacts
  <2> HIDE DEF voided, observed
  <2> QED BY <1>1, <2>2, <2>3, <2>4, <2>5
<1>3. \/ out.rt = rt /\ ~(o.name = "snapshot" /\ out.result = "ok")
      \/ o.name = "new" /\ out.rt = Opened(rt, epoch)
      \/ t \in rt.open /\ out.rt = Dropped(rt, t) /\ o.name # "snapshot"
      \/ t \in rt.open /\ out.rt = voided /\ ~(o.name = "snapshot" /\ out.result = "ok")
      \/ t \in rt.open /\ out.rt = observed
  BY DEF CallOutcomes, Outcome, Ops, NoTabTools, TabTools
<1> HIDE DEF voided, observed
<1>4. CASE o.name = "new" /\ out.rt = Opened(rt, epoch)
  BY <1>4, OpenedFacts
<1> QED BY <1>2, <1>3, <1>4

(* The same for an operation that is interrupted.                          *)
LEMMA PartialFacts ==
    ASSUME epoch \in Nat, RuntimeInv(runtime, epoch), NEW o,
           NEW rt \in PartialOutcomes(runtime, o)
    PROVE  RuntimeInv(rt, epoch)
<1>1. runtime \in Runtimes /\ runtime.open \subseteq TabIds
  BY DEF RuntimeInv, Runtimes
<1>2. ASSUME o.tab \in runtime.open
      PROVE  /\ RuntimeInv(WithTab(runtime, o.tab, Invalidate(runtime.tab[o.tab])), epoch)
             /\ RuntimeInv(Dropped(runtime, o.tab), epoch)
  <2>1. /\ o.tab \in TabIds /\ runtime.tab[o.tab] \in GhostTabs
        /\ TabInv(runtime.tab[o.tab])
    BY <1>1, <1>2 DEF RuntimeInv, Runtimes
  <2>2. /\ Invalidate(runtime.tab[o.tab]) \in GhostTabs
        /\ TabInv(Invalidate(runtime.tab[o.tab]))
        /\ Invalidate(runtime.tab[o.tab]).refs = {}
    BY <2>1, TabFacts
  <2> QED BY <2>1, <2>2, WithTabFacts, DroppedFacts
<1> QED BY <1>2 DEF PartialOutcomes
-----------------------------------------------------------------------------
LEMMA InitIInv == Init => IInv
<1> SUFFICES ASSUME Init PROVE IInv
  OBVIOUS
<1> USE TabsAssumption DEF Init
<1>1. NoTabs \in Runtimes /\ NoTabs.open = {}
  BY DEF NoTabs, Runtimes, GhostTabs, NewTab, TabIds
<1>2. RuntimeInv(NoTabs, 0)
  BY <1>1 DEF RuntimeInv, TabInv, NoTabs, NewTab
<1>3. TypeOK
  BY <1>1 DEF TypeOK, Phases
<1> QED
  BY <1>1, <1>2, <1>3 DEF IInv, ExclusiveControl, PauseHasOperation, OperationInItsEpoch,
     AgentSawEveryTab, RefreshInv, RoomForNew

(* Every step preserves the inductive invariant.  Starting an operation    *)
(* touches only the operation slot; a settling one changes the runtime as  *)
(* CallFacts says; a transfer voids every ref in the step that opens the   *)
(* new epoch.                                                              *)
LEMMA NextIInv == IInv /\ [Next]_vars => IInv'
<1> SUFFICES ASSUME IInv, [Next]_vars PROVE IInv'
  OBVIOUS
<1> USE TabsAssumption, NoneAssumption
<1>0. /\ TypeOK /\ epoch \in Nat /\ runtime \in Runtimes /\ RuntimeInv(runtime, epoch)
      /\ runtime.open \subseteq TabIds /\ epoch + 1 \in Nat
  BY DEF IInv, TypeOK, Runtimes
<1>1. ASSUME NEW ch \in Channels, NEW call \in Calls(runtime), NEW ep \in 0..epoch,
             Idle, Start(ch, call, ep), ep = epoch,
             IF ch = "agent" THEN phase \in {"Agent", "Refresh"} ELSE phase = "Human"
      PROVE  IInv'
  <2>1. /\ call.name \in NoTabTools \cup TabTools \cup {"act"}
        /\ call.tab \in TabIds \cup {None} /\ call.gen \in Nat \cup {None}
    BY <1>0 DEF Calls, Runtimes, GhostTabs
  <2>2. op' \in Ops /\ op'.ch = ch /\ op'.ep = epoch /\ op'.name = call.name
    BY <1>0, <1>1, <2>1 DEF Start, Ops
  <2>3. /\ UNCHANGED <<phase, epoch, pending, handoff, usedHandoffs, fresh, inventory, runtime>>
        /\ pending = None /\ (call.name = "new" => runtime.next <= MaxTab)
    BY <1>1 DEF Start, stateVars, Idle, IInv, PauseHasOperation
  <2> QED
    BY <1>1, <2>2, <2>3 DEF IInv, TypeOK, ExclusiveControl, PauseHasOperation,
       OperationInItsEpoch, AgentSawEveryTab, RefreshInv, RoomForNew,
       Idle, Channels
<1>2. ASSUME NEW call \in Calls(runtime), NEW ep \in 0..epoch, AgentCall(call, ep)
      PROVE  IInv'
  BY <1>1, <1>2 DEF AgentCall, AgentGate, Channels
<1>3. ASSUME NEW h \in HandoffIds, NEW call \in Calls(runtime), HumanCall(h, call)
      PROVE  IInv'
  BY <1>0, <1>1, <1>3 DEF HumanCall, Channels
<1>4. ASSUME NEW h \in HandoffIds, BeginHandoff(h)
      PROVE  IInv'
  <2>1. /\ op # None /\ phase \in {"Agent", "Refresh"} /\ phase' = "Pausing" /\ pending' = h
        /\ handoff' = h /\ usedHandoffs' = usedHandoffs \cup {h}
        /\ UNCHANGED <<epoch, fresh, inventory, runtime, op>>
    BY <1>4 DEF BeginHandoff, HandoffAllowed
  <2>2. op.ch = "agent"
    BY <2>1 DEF IInv, ExclusiveControl
  <2>3. TypeOK'
    BY <2>1, <1>0 DEF TypeOK, Phases
  <2> QED
    BY <2>1, <2>2, <2>3 DEF IInv, ExclusiveControl, PauseHasOperation,
       OperationInItsEpoch, AgentSawEveryTab, RefreshInv, RoomForNew
<1>5. ASSUME NEW rt, RuntimeInv(rt, epoch), FinishHandoff(rt),
             handoff' \in HandoffIds \cup {None}, usedHandoffs' \subseteq HandoffIds,
             UNCHANGED <<fresh, inventory>>, op' = None,
             phase \in {"Agent", "Refresh", "Pausing"}
      PROVE  IInv'
  <2>1. RuntimeInv(runtime', epoch')
    BY <1>0, <1>5, InvalidateAllFacts DEF FinishHandoff
  <2>2. TypeOK'
    BY <1>0, <1>5, <2>1 DEF FinishHandoff, TypeOK, RuntimeInv, Phases
  <2> QED
    BY <1>5, <2>1, <2>2 DEF FinishHandoff, IInv, ExclusiveControl, PauseHasOperation,
       OperationInItsEpoch, AgentSawEveryTab, RefreshInv, RoomForNew
<1>6. ASSUME NEW h \in HandoffIds, IdleHandoff(h)
      PROVE  IInv'
  BY <1>0, <1>5, <1>6 DEF IdleHandoff, HandoffAllowed, Idle, TypeOK
<1>7. ASSUME NEW h \in HandoffIds, Resume(h)
      PROVE  IInv'
  <2>1. /\ op = None /\ phase = "Human" /\ op' = None /\ phase' = "Refresh"
        /\ epoch' = epoch + 1 /\ fresh' = runtime.open /\ inventory' = (runtime.open = {})
        /\ runtime' = InvalidateAll(runtime) /\ UNCHANGED <<handoff, usedHandoffs, pending>>
    BY <1>7 DEF Resume, Idle
  <2>2. RuntimeInv(runtime', epoch') /\ runtime'.open = runtime.open
    BY <1>0, <2>1, InvalidateAllFacts
  <2>3. TypeOK'
    BY <1>0, <2>1, <2>2 DEF TypeOK, RuntimeInv, Phases
  <2> QED
    BY <2>1, <2>2, <2>3 DEF IInv, ExclusiveControl, PauseHasOperation,
       OperationInItsEpoch, AgentSawEveryTab, RefreshInv, RoomForNew
<1>8. ASSUME Settle
      PROVE  IInv'
  <2>1. PICK out \in CallOutcomes(runtime, op) :
           /\ runtime' = out.rt
           /\ IF op.ch = "agent" THEN Observed(op, out.result = "ok")
                                 ELSE UNCHANGED <<fresh, inventory, phase>>
    BY <1>8 DEF Settle
  <2>2. /\ op # None /\ op \in Ops /\ pending = None /\ op' = None
        /\ UNCHANGED <<epoch, handoff, usedHandoffs, pending>>
        /\ (op.name = "new" => runtime.next <= MaxTab)
    BY <1>8 DEF Settle, IInv, TypeOK, RoomForNew
  <2>3. /\ RuntimeInv(runtime', epoch)
        /\ \A t \in runtime'.open :
              \/ runtime'.tab[t].seen = epoch
              \/ t \in runtime.open /\ runtime'.tab[t].seen = runtime.tab[t].seen
        /\ op.name = "snapshot" /\ out.result = "ok" /\ op.tab \in runtime'.open
              => runtime'.tab[op.tab].seen = epoch
    BY <1>0, <2>1, <2>2, CallFacts
  <2>4. \/ UNCHANGED <<fresh, inventory, phase>>
        \/ /\ phase = "Refresh" /\ out.result = "ok"
           /\ fresh' = FreshAfter(op) /\ inventory' = InventoryAfter(op)
           /\ phase' = IF fresh' = {} /\ ~inventory' THEN "Agent" ELSE "Refresh"
    BY <2>1 DEF Observed
  <2>5. TypeOK'
    BY <1>0, <2>2, <2>3, <2>4 DEF TypeOK, RuntimeInv, Phases, FreshAfter, InventoryAfter
  <2>6. phase' = "Refresh" =>
           \A t \in runtime'.open : runtime'.tab[t].seen = epoch \/ t \in fresh'
    BY <2>3, <2>4 DEF IInv, RefreshInv, FreshAfter
  <2>7. phase' = "Agent" => \A t \in runtime'.open : runtime'.tab[t].seen = epoch
    BY <2>3, <2>4 DEF IInv, RefreshInv, AgentSawEveryTab, FreshAfter
  <2>8. (phase' = phase \/ (phase = "Refresh" /\ phase' \in {"Agent", "Refresh"}))
    BY <2>4
  <2> QED
    BY <2>2, <2>3, <2>5, <2>6, <2>7, <2>8 DEF IInv, ExclusiveControl, PauseHasOperation,
       OperationInItsEpoch, AgentSawEveryTab, RefreshInv, RoomForNew
<1>9. ASSUME SettleAndTransfer
      PROVE  IInv'
  <2>1. PICK out \in CallOutcomes(runtime, op) : FinishHandoff(out.rt)
    BY <1>9 DEF SettleAndTransfer
  <2>2. /\ op # None /\ op \in Ops /\ pending # None /\ op' = None /\ phase = "Pausing"
        /\ UNCHANGED <<handoff, usedHandoffs, fresh, inventory>>
        /\ (op.name = "new" => runtime.next <= MaxTab)
    BY <1>9 DEF SettleAndTransfer, stateVars, IInv, TypeOK, RoomForNew, PauseHasOperation
  <2>3. RuntimeInv(out.rt, epoch)
    BY <1>0, <2>2, CallFacts
  <2> QED
    BY <1>0, <1>5, <2>1, <2>2, <2>3 DEF TypeOK
<1>10. ASSUME NEW rt, RuntimeInv(rt, epoch), LeaveSession(rt)
       PROVE  IInv'
  <2>1. RuntimeInv(runtime', epoch')
    BY <1>0, <1>10, InvalidateAllFacts DEF LeaveSession
  <2>2. TypeOK'
    BY <1>0, <1>10, <2>1 DEF LeaveSession, stateVars, TypeOK, RuntimeInv, Phases
  <2> QED
    BY <1>10, <2>1, <2>2 DEF LeaveSession, IInv, ExclusiveControl, PauseHasOperation,
       OperationInItsEpoch, AgentSawEveryTab, RefreshInv, RoomForNew
<1>11. ASSUME Uncertain
       PROVE  IInv'
  <2>1. op # None /\ op \in Ops /\ (op.name = "new" => runtime.next <= MaxTab)
    BY <1>11 DEF Uncertain, IInv, TypeOK, RoomForNew
  <2>2. CASE \E rt \in PartialOutcomes(runtime, op) : LeaveSession(rt)
    BY <1>0, <1>10, <2>2, PartialFacts
  <2>3. CASE \E out \in CallOutcomes(runtime, op) : LeaveSession(out.rt)
    BY <1>0, <1>10, <2>1, <2>3, CallFacts
  <2> QED BY <1>11, <2>2, <2>3 DEF Uncertain
<1>12. ASSUME Stop
       PROVE  IInv'
  BY <1>0, <1>10, <1>12 DEF Stop
<1>13. ASSUME UNCHANGED vars
       PROVE  IInv'
  BY <1>13 DEF vars, stateVars, IInv, TypeOK, ExclusiveControl, PauseHasOperation,
     OperationInItsEpoch, AgentSawEveryTab, RefreshInv, RoomForNew
<1> QED
  BY <1>2, <1>3, <1>4, <1>6, <1>7, <1>8, <1>9, <1>11, <1>12, <1>13 DEF Next

\* The inductive invariant holds in every reachable state, whatever the handoff
\* IDs and the bounds: the loop of run_ghost_stdio never leaves it.
THEOREM Invariance == Spec => []IInv
  BY InitIInv, NextIInv, PTL DEF Spec

\* The variables of the supervisor keep their types.
THEOREM TypeCorrect == Spec => []TypeOK
<1>1. IInv => TypeOK
  BY DEF IInv
<1> QED BY <1>1, Invariance, PTL

\* Agent operations run only while the agent may hold the browser, operations of
\* the host only while the human owns it, and each within the control epoch it
\* was admitted in; a pause is always waiting for an operation that will end it.
THEOREM OneDriver == Spec => []ControlIsExclusive
<1>1. IInv => ControlIsExclusive
  BY DEF IInv, ControlIsExclusive
<1> QED BY <1>1, Invariance, PTL

\* No ref crosses an ownership boundary, none that was voided is accepted again,
\* and the agent regains full control only over tabs it has observed in this epoch.
THEOREM NothingStale == Spec => []NothingStaleIsUsed
<1>1. IInv => RefsOfThisEpoch /\ NoRefRevival
  BY DEF IInv, TypeOK, Runtimes, RuntimeInv, TabInv, RefsOfThisEpoch, NoRefRevival
<1>2. IInv => NothingStaleIsUsed
  BY <1>1 DEF IInv, NothingStaleIsUsed
<1> QED BY <1>2, Invariance, PTL

-----------------------------------------------------------------------------
(* The child implements Ownership: starting an operation is Begin, a plain *)
(* end of one is End, each of the three ways to change phase to or from    *)
(* Human is HandOver, and leaving the session is Withdraw.                 *)
LEMMA InitRefines == Init => Abstract!Init
  BY DEF Init, Abstract!Init, Owner

LEMMA NextRefines == IInv /\ [Next]_vars => [Abstract!Next]_(Abstract!vars)
<1> SUFFICES ASSUME IInv, [Next]_vars PROVE [Abstract!Next]_(Abstract!vars)
  OBVIOUS
<1> USE DEF Owner, Abstract!Next, Abstract!vars
<1>1. ASSUME NEW ch, NEW call, NEW ep, Idle, Start(ch, call, ep)
      PROVE  [Abstract!Next]_(Abstract!vars)
  BY <1>1 DEF Idle, Start, Abstract!Begin
<1>2. ASSUME NEW call, NEW ep, AgentCall(call, ep)
      PROVE  [Abstract!Next]_(Abstract!vars)
  BY <1>1, <1>2 DEF AgentCall
<1>3. ASSUME NEW h, NEW call, HumanCall(h, call)
      PROVE  [Abstract!Next]_(Abstract!vars)
  BY <1>1, <1>3 DEF HumanCall
<1>4. ASSUME NEW h, BeginHandoff(h)
      PROVE  [Abstract!Next]_(Abstract!vars)
  BY <1>4 DEF BeginHandoff, HandoffAllowed
<1>5. ASSUME NEW rt, FinishHandoff(rt), op' = None, phase \in {"Agent", "Refresh", "Pausing"}
      PROVE  Abstract!Next
  BY <1>5 DEF FinishHandoff, Abstract!HandOver
<1>6. ASSUME NEW h, IdleHandoff(h)
      PROVE  [Abstract!Next]_(Abstract!vars)
  BY <1>5, <1>6 DEF IdleHandoff, Idle, HandoffAllowed
<1>7. ASSUME NEW h, Resume(h)
      PROVE  [Abstract!Next]_(Abstract!vars)
  BY <1>7 DEF Resume, Idle, Abstract!HandOver
<1>8. ASSUME Settle
      PROVE  [Abstract!Next]_(Abstract!vars)
  <2>1. op # None /\ op' = None /\ epoch' = epoch
        /\ (phase' = phase \/ (phase = "Refresh" /\ phase' \in {"Agent", "Refresh"}))
    BY <1>8 DEF Settle, Observed
  <2> QED BY <2>1 DEF Abstract!End
<1>9. ASSUME SettleAndTransfer
      PROVE  [Abstract!Next]_(Abstract!vars)
  <2>1. phase = "Pausing"
    BY <1>9 DEF SettleAndTransfer, IInv, PauseHasOperation
  <2> QED BY <1>5, <1>9, <2>1 DEF SettleAndTransfer
<1>10. ASSUME NEW rt, LeaveSession(rt), phase # "Closed"
       PROVE  [Abstract!Next]_(Abstract!vars)
  BY <1>10 DEF LeaveSession, Abstract!Withdraw
<1>11. ASSUME Uncertain
       PROVE  [Abstract!Next]_(Abstract!vars)
  <2>1. phase # "Closed"
    BY <1>11 DEF Uncertain, IInv, ExclusiveControl
  <2> QED BY <1>10, <1>11, <2>1 DEF Uncertain
<1>12. ASSUME Stop
       PROVE  [Abstract!Next]_(Abstract!vars)
  BY <1>10, <1>12 DEF Stop, Idle
<1>13. ASSUME UNCHANGED vars
       PROVE  [Abstract!Next]_(Abstract!vars)
  BY <1>13 DEF vars, stateVars
<1> QED
  BY <1>2, <1>3, <1>4, <1>6, <1>7, <1>8, <1>9, <1>11, <1>12, <1>13 DEF Next

\* Whatever a client of the child observes, a client of Ownership could observe.
THEOREM Refinement == Spec => ImplementsOwnership
  BY InitRefines, NextRefines, Invariance, PTL DEF Spec, ImplementsOwnership, Abstract!Spec

-----------------------------------------------------------------------------
(* The request channels *)

LedgerTypes ==
    /\ agentLog \in [AgentIds -> AgentEntries \cup {None}]
    /\ hostLog \in [HostIds -> HostEntries \cup {None}]
    /\ opId \in AgentIds \cup HostIds \cup {None}
    /\ pendingId \in HostIds \cup {None}
    /\ runs \in [AgentIds \cup HostIds -> Nat]

\* A result belongs to the epoch its request was written for, and a request in flight
\* is the operation's.
AgentEntry(id) ==
    agentLog[id] # None =>
        /\ agentLog[id].result => agentLog[id].gated /\ agentLog[id].said = agentLog[id].ep
        /\ agentLog[id].state = "inflight" =>
              op # None /\ op.ch = "agent" /\ opId = id /\ agentLog[id].ep = epoch

HostEntry(id) ==
    hostLog[id] = "inflight" =>
        \/ op # None /\ op.ch = "human" /\ opId = id
        \/ pending # None /\ pendingId = id

\* The operation has a request to answer, and a pause another.
Answerable ==
    /\ op # None => IF op.ch = "agent"
                    THEN opId \in AgentIds /\ agentLog[opId] # None /\ agentLog[opId].state = "inflight"
                    ELSE opId \in HostIds /\ hostLog[opId] = "inflight"
    /\ pending # None <=> pendingId # None
    /\ pendingId # None => hostLog[pendingId] = "inflight"

\* What is not in a ledger has never run.
Once ==
    /\ \A id \in AgentIds : agentLog[id] = None => runs[id] = 0
    /\ \A id \in HostIds : hostLog[id] = None => runs[id] = 0
    /\ \A id \in AgentIds \cup HostIds : runs[id] \in {0, 1}

Acks == {id \in HostIds : hostLog[id] \in {"transferred", "resumed"}}

LInv ==
    /\ IInv /\ LedgerTypes
    /\ \A id \in AgentIds : AgentEntry(id)
    /\ \A id \in HostIds : HostEntry(id)
    /\ Answerable /\ Once
    /\ Cardinality(Acks) = epoch

LEMMA InitLInv == SessionInit => LInv
<1> SUFFICES ASSUME SessionInit PROVE LInv
  OBVIOUS
<1>1. IInv /\ op = None /\ pending = None /\ epoch = 0
  BY InitIInv DEF SessionInit, Init
<1>2. Acks = {}
  BY NoIdAssumption DEF SessionInit, Acks, HostEntries
<1>3. Cardinality(Acks) = epoch
  BY <1>1, <1>2, FS_EmptySet
<1>4. \A id \in HostIds : HostEntry(id)
  BY NoIdAssumption DEF SessionInit, HostEntry, HostEntries
<1>5. QED
  BY <1>1, <1>3, <1>4 DEF SessionInit, LInv, LedgerTypes, AgentEntry, Answerable, Once

\* The acknowledgements count the transfers.
LEMMA AcksKept ==
    ASSUME LInv, NEW e \in {0, 1}, epoch' = epoch + e,
           \/ e = 0 /\ Acks' = Acks
           \/ e = 1 /\ \E id \in HostIds \ Acks : Acks' = Acks \cup {id}
    PROVE  Cardinality(Acks') = epoch'
<1>1. IsFiniteSet(Acks)
  BY IdsAssumption, FS_Subset DEF Acks
<1>2. epoch \in Nat /\ Cardinality(Acks) = epoch
  BY DEF LInv, IInv, TypeOK
<1>3. CASE e = 0
  BY <1>2, <1>3
<1>4. CASE e = 1
  <2>1. PICK id \in HostIds \ Acks : Acks' = Acks \cup {id}
    BY <1>4
  <2>2. Cardinality(Acks \cup {id}) = Cardinality(Acks) + 1
    BY <1>1, <2>1, FS_AddElement
  <2>3. QED  BY <1>2, <1>4, <2>1, <2>2
<1>5. QED  BY <1>3, <1>4

\* A request of the agent that is answered on the spot.
LEMMA AgentSpot ==
    ASSUME LInv, NEW id \in AgentIds, NEW entry \in AgentEntries, agentLog[id] = None,
           agentLog' = [agentLog EXCEPT ![id] = entry], entry.state = "done", ~entry.result,
           UNCHANGED <<vars, hostLog, opId, pendingId, runs>>
    PROVE  LInv'
<1>1. agentLog'[id] = entry /\ \A i \in AgentIds \ {id} : agentLog'[i] = agentLog[i]
  BY DEF LInv, LedgerTypes
<1>2. IInv' /\ UNCHANGED <<op, pending, epoch>>
  BY NextIInv DEF LInv, vars
<1>3. LedgerTypes'
  BY DEF LInv, LedgerTypes
<1>4. \A i \in AgentIds : AgentEntry(i)'
  BY <1>1, <1>2 DEF LInv, AgentEntry
<1>5. \A i \in HostIds : HostEntry(i)'
  BY <1>2 DEF LInv, HostEntry
<1>6. Answerable' /\ Once'
  BY <1>1, <1>2 DEF LInv, Answerable, Once, LedgerTypes
<1>7. Cardinality(Acks') = epoch'
  BY <1>2 DEF LInv, Acks
<1>8. QED  BY <1>2, <1>3, <1>4, <1>5, <1>6, <1>7 DEF LInv

\* A tools/call that is admitted.
LEMMA AgentStartsKeeps ==
    ASSUME LInv, IInv', NEW id \in AgentIds, NEW call \in Calls(runtime), NEW ep \in 0..epoch,
           AgentStarts(id, call, ep)
    PROVE  LInv'
<1> DEFINE entry == CallEntry(call.name, ep)
<1>1. /\ op = None /\ op'.ch = "agent" /\ ep = epoch /\ UNCHANGED <<epoch, pending, hostLog, pendingId>>
      /\ agentLog[id] = None /\ agentLog' = [agentLog EXCEPT ![id] = entry]
      /\ opId' = id /\ runs' = [runs EXCEPT ![id] = @ + 1]
  BY DEF AgentStarts, AgentCall, Start, Idle, AgentGate, Begins
<1>2. op' # None
  <2>1. call.tab \in TabIds \cup {None} /\ call.gen \in Nat \cup {None}
        /\ call.name \in NoTabTools \cup TabTools \cup {"act"}
    BY DEF LInv, IInv, TypeOK, Runtimes, GhostTabs, Calls
  <2>2. op' \in Ops
    BY <2>1 DEF AgentStarts, AgentCall, Start, Ops, Channels
  <2>3. QED  BY <2>2, NoIdAssumption
<1>3. entry \in AgentEntries /\ entry # None /\ entry.state = "inflight" /\ entry.gated
      /\ entry.ep = epoch /\ entry.said = epoch
  <2>1. entry \in AgentEntries
    BY <1>1 DEF CallEntry, AgentEntries, LInv, IInv, TypeOK
  <2>2. QED  BY <1>1, <2>1, NoIdAssumption DEF CallEntry
<1> HIDE DEF entry
<1>4. agentLog'[id] = entry /\ \A i \in AgentIds \ {id} : agentLog'[i] = agentLog[i]
  BY <1>1 DEF LInv, LedgerTypes
<1>5. LedgerTypes'
  BY <1>1, <1>3 DEF LInv, LedgerTypes
<1>6. \A i \in AgentIds : AgentEntry(i)'
  BY <1>1, <1>2, <1>3, <1>4 DEF LInv, AgentEntry
<1>7. \A i \in HostIds : HostEntry(i)'
  BY <1>1 DEF LInv, HostEntry
<1>8. Answerable'
  BY <1>1, <1>2, <1>3, <1>4 DEF LInv, Answerable
<1>9. Once'
  BY <1>1, <1>3, <1>4, IdsAssumption DEF LInv, Once, LedgerTypes
<1>10. Cardinality(Acks') = epoch'
  BY <1>1 DEF LInv, Acks
<1>11. QED  BY <1>5, <1>6, <1>7, <1>8, <1>9, <1>10 DEF LInv

\* A request of the host that is answered on the spot.
LEMMA HostAnsweredKeeps ==
    ASSUME LInv, IInv', NEW id \in HostIds, HostAnswered(id)
    PROVE  LInv'
<1>1. /\ UNCHANGED <<op, pending, epoch, agentLog, opId, pendingId, runs>>
      /\ hostLog[id] = None /\ hostLog' = [hostLog EXCEPT ![id] = "answered"]
  BY DEF HostAnswered, Begins, vars
<1>2. hostLog'[id] = "answered" /\ \A i \in HostIds \ {id} : hostLog'[i] = hostLog[i]
  BY <1>1 DEF LInv, LedgerTypes
<1>3. LedgerTypes'
  BY <1>1 DEF LInv, LedgerTypes, HostEntries
<1>4. \A i \in AgentIds : AgentEntry(i)'
  BY <1>1 DEF LInv, AgentEntry
<1>5. \A i \in HostIds : HostEntry(i)'
  BY <1>1, <1>2 DEF LInv, HostEntry
<1>6. None # "inflight" /\ None # "answered" /\ None # "transferred" /\ None # "resumed"
  BY NoIdAssumption DEF HostEntries
<1>7. Answerable' /\ Once'
  BY <1>1, <1>2, <1>6 DEF LInv, Answerable, Once, LedgerTypes
<1>8. Acks' = Acks
  BY <1>1, <1>2, <1>6 DEF Acks
<1>9. QED  BY <1>1, <1>3, <1>4, <1>5, <1>7, <1>8 DEF LInv

\* Between operations nobody waits.
LEMMA IdleFacts == LInv /\ op = None => /\ pending = None /\ pendingId = None
                                        /\ \A i \in HostIds : hostLog[i] # "inflight"
                                        /\ \A i \in AgentIds : agentLog[i] # None => agentLog[i].state # "inflight"
BY DEF LInv, IInv, PauseHasOperation, Answerable, HostEntry, AgentEntry

\* A transfer while the loop is idle is acknowledged at once.
LEMMA TransferKeeps ==
    ASSUME LInv, IInv', NEW id \in HostIds, NEW h \in HandoffIds,
           HostIdleHandoff(id, h) \/ HostResume(id, h)
    PROVE  LInv'
<1>1. /\ op = None /\ op' = None /\ epoch' = epoch + 1 /\ hostLog[id] = None
      /\ UNCHANGED <<agentLog, opId, pendingId, runs>>
  BY DEF HostIdleHandoff, HostResume, IdleHandoff, Resume, FinishHandoff, Idle, Begins
<1>2. PICK what \in {"transferred", "resumed"} : hostLog' = [hostLog EXCEPT ![id] = what]
  BY DEF HostIdleHandoff, HostResume
<1>3. hostLog'[id] = what /\ \A i \in HostIds \ {id} : hostLog'[i] = hostLog[i]
  BY <1>2 DEF LInv, LedgerTypes
<1>4. pending' = None
  BY <1>1 DEF IInv, PauseHasOperation
<1>5. LedgerTypes'
  BY <1>1, <1>2 DEF LInv, LedgerTypes, HostEntries
<1>6. \A i \in AgentIds : AgentEntry(i)'
  BY <1>1, IdleFacts DEF LInv, AgentEntry
<1>7. \A i \in HostIds : HostEntry(i)'
  BY <1>1, <1>3, IdleFacts DEF HostEntry
<1>8. None # "transferred" /\ None # "resumed"
  BY NoIdAssumption DEF HostEntries
<1>9. Answerable' /\ Once'
  BY <1>1, <1>3, <1>4, <1>8, IdleFacts DEF LInv, Answerable, Once
<1>10. Acks' = Acks \cup {id} /\ id \notin Acks
  BY <1>1, <1>3, <1>8 DEF Acks
<1>11. Cardinality(Acks') = epoch'
  BY <1>1, <1>10, AcksKept
<1>12. QED  BY <1>5, <1>6, <1>7, <1>9, <1>11 DEF LInv

\* A handoff that finds an operation waits for it.
LEMMA BeginKeeps ==
    ASSUME LInv, IInv', NEW id \in HostIds, NEW h \in HandoffIds, HostBeginHandoff(id, h)
    PROVE  LInv'
<1>1. /\ op # None /\ phase # "Pausing" /\ pending' = h /\ UNCHANGED <<op, epoch, agentLog, opId, runs>>
      /\ hostLog[id] = None /\ hostLog' = [hostLog EXCEPT ![id] = "inflight"] /\ pendingId' = id
  BY DEF HostBeginHandoff, BeginHandoff, HandoffAllowed, Begins
<1>2. hostLog'[id] = "inflight" /\ \A i \in HostIds \ {id} : hostLog'[i] = hostLog[i]
  BY <1>1 DEF LInv, LedgerTypes
<1>3. pending = None /\ pendingId = None /\ pending' # None /\ id # None
  BY <1>1, NoneAssumption, NoIdAssumption DEF LInv, IInv, PauseHasOperation, Answerable
<1>4. LedgerTypes'
  BY <1>1 DEF LInv, LedgerTypes, HostEntries
<1>5. \A i \in AgentIds : AgentEntry(i)'
  BY <1>1 DEF LInv, AgentEntry
<1>6. \A i \in HostIds : HostEntry(i)'
  BY <1>1, <1>2, <1>3 DEF LInv, HostEntry
<1>7. None # "inflight"
  BY NoIdAssumption DEF HostEntries
<1>8. Answerable' /\ Once'
  BY <1>1, <1>2, <1>3, <1>7 DEF LInv, Answerable, Once
<1>9. Acks' = Acks
  BY <1>1, <1>2, NoIdAssumption DEF Acks, HostEntries
<1>10. QED  BY <1>1, <1>4, <1>5, <1>6, <1>8, <1>9 DEF LInv

\* A call of the host that is admitted.
LEMMA HostStartsKeeps ==
    ASSUME LInv, IInv', NEW id \in HostIds, NEW h \in HandoffIds, NEW call \in Calls(runtime),
           HostStarts(id, h, call)
    PROVE  LInv'
<1>1. /\ op = None /\ op'.ch = "human" /\ UNCHANGED <<epoch, pending, agentLog, pendingId>>
      /\ hostLog[id] = None /\ hostLog' = [hostLog EXCEPT ![id] = "inflight"]
      /\ opId' = id /\ runs' = [runs EXCEPT ![id] = @ + 1]
  BY DEF HostStarts, HumanCall, Start, Idle, Begins
<1>2. op' # None
  <2>1. call.tab \in TabIds \cup {None} /\ call.gen \in Nat \cup {None}
        /\ call.name \in NoTabTools \cup TabTools \cup {"act"} /\ epoch \in Nat
    BY DEF LInv, IInv, TypeOK, Runtimes, GhostTabs, Calls
  <2>2. op' \in Ops
    BY <2>1 DEF HostStarts, HumanCall, Start, Ops, Channels
  <2>3. QED  BY <2>2, NoIdAssumption
<1>3. hostLog'[id] = "inflight" /\ \A i \in HostIds \ {id} : hostLog'[i] = hostLog[i]
  BY <1>1 DEF LInv, LedgerTypes
<1>4. LedgerTypes'
  BY <1>1 DEF LInv, LedgerTypes, HostEntries
<1>5. \A i \in AgentIds : AgentEntry(i)'
  BY <1>1, IdleFacts DEF LInv, AgentEntry
<1>6. \A i \in HostIds : HostEntry(i)'
  BY <1>1, <1>2, <1>3, IdleFacts DEF HostEntry
<1>7. None # "inflight"
  BY NoIdAssumption DEF HostEntries
<1>8. Answerable'
  BY <1>1, <1>2, <1>3, IdleFacts DEF LInv, Answerable
<1>9. Once'
  BY <1>1, <1>3, <1>7, IdsAssumption DEF LInv, Once, LedgerTypes
<1>10. Acks' = Acks
  BY <1>1, <1>3, NoIdAssumption DEF Acks, HostEntries
<1>11. QED  BY <1>1, <1>4, <1>5, <1>6, <1>8, <1>9, <1>10 DEF LInv

\* However an operation ends, its request is answered, and so is the handoff that
\* waited for it.
LEMMA OpEnds ==
    ASSUME LInv, IInv', op # None, op' = None, pending' = None, opId' = None, pendingId' = None,
           UNCHANGED runs, agentLog' = AgentLogAfterOp,
           hostLog' \in [HostIds -> HostEntries \cup {None}],
           \A i \in HostIds : hostLog'[i] # "inflight" /\ (hostLog'[i] = None => hostLog[i] = None),
           Cardinality(Acks') = epoch'
    PROVE  LInv'
<1>1. epoch \in Nat
  BY DEF LInv, IInv, TypeOK
<1>2. CASE op.ch = "agent"
  <2> DEFINE entry == Finished(agentLog[opId])
  <2>1. /\ opId \in AgentIds /\ agentLog[opId] \in AgentEntries /\ agentLog[opId].ep = epoch
        /\ agentLog[opId].result => agentLog[opId].gated
    BY <1>2 DEF LInv, Answerable, LedgerTypes, AgentEntry
  <2>2. /\ entry \in AgentEntries /\ entry.state = "done" /\ entry.said = epoch /\ entry.ep = epoch
        /\ entry.result => entry.gated
    BY <1>1, <2>1 DEF Finished, AgentEntries
  <2>3. agentLog' = [agentLog EXCEPT ![opId] = entry]
    BY <1>2 DEF AgentLogAfterOp
  <2> HIDE DEF entry
  <2>4. agentLog'[opId] = entry /\ \A i \in AgentIds \ {opId} : agentLog'[i] = agentLog[i]
    BY <2>3, <2>1 DEF LInv, LedgerTypes
  <2>5. LedgerTypes'
    BY <2>2, <2>3 DEF LInv, LedgerTypes
  <2>6. \A i \in AgentIds : AgentEntry(i)'
    BY <2>2, <2>4 DEF LInv, AgentEntry
  <2>7. \A i \in HostIds : HostEntry(i)'
    BY DEF HostEntry
  <2>8. entry # None
    BY <2>2, NoIdAssumption
  <2>9. Answerable' /\ Once'
    BY <2>1, <2>4, <2>8 DEF LInv, Answerable, Once
  <2>10. QED  BY <2>5, <2>6, <2>7, <2>9 DEF LInv
<1>3. CASE op.ch # "agent"
  <2>1. UNCHANGED agentLog
    BY <1>3 DEF AgentLogAfterOp
  <2>2. LedgerTypes'
    BY <2>1 DEF LInv, LedgerTypes
  <2>3. \A i \in AgentIds : AgentEntry(i)'
    BY <1>3, <2>1 DEF LInv, AgentEntry
  <2>4. \A i \in HostIds : HostEntry(i)'
    BY DEF HostEntry
  <2>5. Answerable' /\ Once'
    BY <2>1 DEF LInv, Answerable, Once
  <2>6. QED  BY <2>2, <2>3, <2>4, <2>5 DEF LInv
<1>4. QED  BY <1>2, <1>3

\* The host's ledger once the operation's own request has been answered.
LEMMA AfterOp ==
    ASSUME LInv, op # None
    PROVE  /\ HostLogAfterOp \in [HostIds -> HostEntries \cup {None}]
           /\ \A i \in HostIds : /\ HostLogAfterOp[i] = "inflight" => pendingId = i /\ pending # None
                                 /\ HostLogAfterOp[i] = None <=> hostLog[i] = None
                                 /\ HostLogAfterOp[i] \in {"transferred", "resumed"} <=> i \in Acks
           /\ pending # None => op.ch = "agent" /\ HostLogAfterOp = hostLog
<1>1. pending # None => op.ch = "agent"
  BY DEF LInv, IInv, PauseHasOperation, ExclusiveControl
<1>2. op.ch \in Channels
  BY DEF LInv, IInv, TypeOK, Ops
<1>3. CASE op.ch = "agent"
  BY <1>3 DEF HostLogAfterOp, LInv, LedgerTypes, HostEntry, Acks
<1>4. CASE op.ch = "human"
  <2>1. opId \in HostIds /\ hostLog[opId] = "inflight"
    BY <1>4 DEF LInv, Answerable
  <2>2. HostLogAfterOp = [hostLog EXCEPT ![opId] = "answered"]
    BY <1>4 DEF HostLogAfterOp
  <2>3. HostLogAfterOp[opId] = "answered"
        /\ \A i \in HostIds \ {opId} : HostLogAfterOp[i] = hostLog[i]
    BY <2>1, <2>2 DEF LInv, LedgerTypes
  <2>4. HostLogAfterOp \in [HostIds -> HostEntries \cup {None}]
    BY <2>2 DEF LInv, LedgerTypes, HostEntries
  <2>5. None # "inflight" /\ None # "answered"
    BY NoIdAssumption DEF HostEntries
  <2> HIDE DEF HostLogAfterOp
  <2>6. QED  BY <1>1, <1>4, <2>1, <2>3, <2>4, <2>5 DEF LInv, HostEntry, Acks
<1>5. QED  BY <1>2, <1>3, <1>4 DEF Channels

\* And once the pause has been, with what.
LEMMA AfterPause ==
    ASSUME LInv, op # None, NEW answer \in {"transferred", "answered"}
    PROVE  /\ HostLogAfterPause(answer) \in [HostIds -> HostEntries \cup {None}]
           /\ \A i \in HostIds :
                 /\ HostLogAfterPause(answer)[i] # "inflight"
                 /\ HostLogAfterPause(answer)[i] = None <=> hostLog[i] = None
                 /\ HostLogAfterPause(answer)[i] \in {"transferred", "resumed"}
                       <=> i \in Acks \/ (pending # None /\ i = pendingId /\ answer = "transferred")
           /\ pending # None => pendingId \in HostIds \ Acks
<1>1. pending # None => pendingId \in HostIds /\ hostLog[pendingId] = "inflight"
  BY DEF LInv, Answerable, LedgerTypes
<1>2. None # "inflight" /\ None # "answered" /\ None # "transferred"
  BY NoIdAssumption DEF HostEntries
<1>3. pending # None => pendingId \in HostIds \ Acks
  BY <1>1 DEF Acks
<1>4. CASE pendingId = None
  <2>1. pending = None /\ HostLogAfterPause(answer) = HostLogAfterOp
    BY <1>4 DEF HostLogAfterPause, LInv, Answerable
  <2>2. QED  BY <1>3, <2>1, AfterOp
<1>5. CASE pendingId # None
  <2>1. pending # None
    BY <1>5 DEF LInv, Answerable
  <2>2. HostLogAfterPause(answer) = [HostLogAfterOp EXCEPT ![pendingId] = answer]
    BY <1>5 DEF HostLogAfterPause
  <2>3. HostLogAfterOp = hostLog /\ hostLog \in [HostIds -> HostEntries \cup {None}]
    BY <2>1, AfterOp
  <2>4. HostLogAfterPause(answer)[pendingId] = answer
        /\ \A i \in HostIds \ {pendingId} : HostLogAfterPause(answer)[i] = hostLog[i]
    BY <1>1, <2>1, <2>2, <2>3
  <2>5. HostLogAfterPause(answer) \in [HostIds -> HostEntries \cup {None}]
    BY <2>2, <2>3 DEF HostEntries
  <2>6. \A i \in HostIds \ {pendingId} : hostLog[i] # "inflight"
    BY <2>3, AfterOp
  <2> HIDE DEF HostLogAfterPause
  <2>7. QED  BY <1>1, <1>2, <1>3, <2>1, <2>4, <2>5, <2>6 DEF Acks
<1>6. QED  BY <1>4, <1>5

LEMMA EndKeeps ==
    ASSUME LInv, IInv', OperationSettles \/ OperationTransfers \/ OperationUncertain
    PROVE  LInv'
<1>1. /\ op # None /\ op' = None /\ opId' = None /\ agentLog' = AgentLogAfterOp /\ UNCHANGED runs
      /\ pending' = None /\ epoch \in Nat
  BY DEF OperationSettles, OperationTransfers, OperationUncertain, Settle, SettleAndTransfer,
         FinishHandoff, Uncertain, LeaveSession, LInv, IInv, TypeOK
<1>2. CASE OperationSettles
  <2>1. pending = None /\ pendingId = None /\ pendingId' = None /\ epoch' = epoch
        /\ hostLog' = HostLogAfterOp
    BY <1>2 DEF OperationSettles, Settle, LInv, Answerable
  <2>2. /\ hostLog' \in [HostIds -> HostEntries \cup {None}]
        /\ \A i \in HostIds : hostLog'[i] # "inflight" /\ (hostLog'[i] = None => hostLog[i] = None)
        /\ Acks' = Acks
    BY <1>1, <2>1, AfterOp DEF Acks
  <2>3. Cardinality(Acks') = epoch'
    BY <2>1, <2>2 DEF LInv
  <2>4. QED  BY <1>1, <2>1, <2>2, <2>3, OpEnds
<1>3. CASE OperationTransfers
  <2>1. pending # None /\ pendingId' = None /\ epoch' = epoch + 1
        /\ hostLog' = HostLogAfterPause("transferred")
    BY <1>3 DEF OperationTransfers, SettleAndTransfer, FinishHandoff
  <2>2. /\ hostLog' \in [HostIds -> HostEntries \cup {None}]
        /\ \A i \in HostIds : hostLog'[i] # "inflight" /\ (hostLog'[i] = None => hostLog[i] = None)
        /\ Acks' = Acks \cup {pendingId} /\ pendingId \in HostIds \ Acks
    BY <1>1, <2>1, AfterPause DEF Acks
  <2>3. Cardinality(Acks') = epoch'
    BY <2>1, <2>2, AcksKept
  <2>4. QED  BY <1>1, <2>1, <2>2, <2>3, OpEnds
<1>4. CASE OperationUncertain
  <2>1. pendingId' = None /\ epoch' = epoch /\ hostLog' = HostLogAfterPause("answered")
    BY <1>4 DEF OperationUncertain, Uncertain, LeaveSession
  <2>2. /\ hostLog' \in [HostIds -> HostEntries \cup {None}]
        /\ \A i \in HostIds : hostLog'[i] # "inflight" /\ (hostLog'[i] = None => hostLog[i] = None)
        /\ Acks' = Acks
    BY <1>1, <2>1, AfterPause DEF Acks
  <2>3. Cardinality(Acks') = epoch'
    BY <2>1, <2>2 DEF LInv
  <2>4. QED  BY <1>1, <2>1, <2>2, <2>3, OpEnds
<1>5. QED  BY <1>2, <1>3, <1>4

\* A cancellation answers three requests at once.
LEMMA CancelKeeps ==
    ASSUME LInv, IInv', NEW id \in HostIds, NEW ch, NEW target, HostCancel(id, ch, target)
    PROVE  LInv'
<1>1. /\ op # None /\ op' = None /\ opId' = None /\ agentLog' = AgentLogAfterOp /\ UNCHANGED runs
      /\ pending' = None /\ pendingId' = None /\ epoch' = epoch /\ hostLog[id] = None
      /\ hostLog' = [HostLogAfterPause("answered") EXCEPT ![id] = "answered"]
  BY DEF HostCancel, Uncertain, LeaveSession, Begins
<1>2. HostLogAfterPause("answered") \in [HostIds -> HostEntries \cup {None}]
  BY <1>1, AfterPause
<1>3. hostLog'[id] = "answered" /\ \A i \in HostIds \ {id} : hostLog'[i] = HostLogAfterPause("answered")[i]
  BY <1>1, <1>2
<1>4. hostLog' \in [HostIds -> HostEntries \cup {None}]
  BY <1>1, <1>2 DEF HostEntries
<1>5. \A i \in HostIds : /\ HostLogAfterPause("answered")[i] # "inflight"
                         /\ HostLogAfterPause("answered")[i] = None <=> hostLog[i] = None
                         /\ HostLogAfterPause("answered")[i] \in {"transferred", "resumed"} <=> i \in Acks
  BY <1>1, AfterPause
<1>6. id \notin Acks
  BY <1>1, NoIdAssumption DEF Acks, HostEntries
<1>7. \A i \in HostIds : hostLog'[i] # "inflight" /\ (hostLog'[i] = None => hostLog[i] = None)
  BY <1>1, <1>3, <1>5
<1>8. Acks' = Acks
  BY <1>3, <1>5, <1>6 DEF Acks
<1>9. Cardinality(Acks') = epoch'
  BY <1>1, <1>8 DEF LInv
<1>10. QED  BY <1>1, <1>4, <1>7, <1>9, OpEnds

\* The ledgers go with the steps of GhostOwnership.
LEMMA OwnershipStep == SessionNext => [Next]_vars
<1> SUFFICES ASSUME SessionNext PROVE [Next]_vars
  OBVIOUS
<1>1. ASSUME NEW id \in AgentIds, NEW call \in Calls(runtime), NEW ep \in 0..epoch,
             AgentStarts(id, call, ep)
      PROVE  Next
  BY <1>1 DEF AgentStarts, Next
<1>2. ASSUME NEW id \in AgentIds,
             AgentControl(id) \/ \E observes \in BOOLEAN, ep \in 0..epoch : AgentRefused(id, observes, ep)
      PROVE  UNCHANGED vars
  BY <1>2 DEF AgentControl, AgentRefused
<1>3. ASSUME NEW id \in HostIds, HostAnswered(id) PROVE UNCHANGED vars
  BY <1>3 DEF HostAnswered
<1>4. ASSUME NEW id \in HostIds, NEW h \in HandoffIds,
             HostIdleHandoff(id, h) \/ HostBeginHandoff(id, h) \/ HostResume(id, h)
      PROVE  Next
  BY <1>4 DEF HostIdleHandoff, HostBeginHandoff, HostResume, Next
<1>5. ASSUME NEW id \in HostIds, NEW h \in HandoffIds, NEW call \in Calls(runtime),
             HostStarts(id, h, call)
      PROVE  Next
  BY <1>5 DEF HostStarts, Next
<1>6. ASSUME NEW id \in HostIds, NEW ch \in Channels, NEW target, HostCancel(id, ch, target)
      PROVE  Next
  BY <1>6 DEF HostCancel, Next
<1>7. CASE Ends \/ SessionStop
  BY <1>7 DEF Ends, SessionStop, OperationSettles, OperationTransfers, OperationUncertain, Next
<1>8. QED  BY <1>1, <1>2, <1>3, <1>4, <1>5, <1>6, <1>7 DEF SessionNext

LEMMA NextLInv == LInv /\ [SessionNext]_allVars => LInv'
<1> SUFFICES ASSUME LInv, [SessionNext]_allVars PROVE LInv'
  OBVIOUS
<1>1. IInv'
  BY OwnershipStep, NextIInv DEF LInv, allVars
<1>2. ASSUME op = None, op' = None, epoch' = epoch, pending' = None, UNCHANGED ledgers PROVE LInv'
  <2>1. LedgerTypes' /\ Once' /\ Cardinality(Acks') = epoch'
    BY <1>2 DEF LInv, LedgerTypes, Once, Acks, ledgers
  <2>2. (\A id \in AgentIds : AgentEntry(id)') /\ (\A id \in HostIds : HostEntry(id)') /\ Answerable'
    BY <1>2, IdleFacts DEF LInv, AgentEntry, HostEntry, Answerable, ledgers
  <2>3. QED  BY <1>1, <2>1, <2>2 DEF LInv
<1>3. CASE SessionStop
  BY <1>2, <1>3 DEF SessionStop, Stop, Idle, LeaveSession
<1>4. CASE UNCHANGED allVars
  <2>1. UNCHANGED <<op, pending, epoch, ledgers>>
    BY <1>4 DEF allVars, vars
  <2>2. LedgerTypes' /\ Once' /\ Cardinality(Acks') = epoch'
    BY <2>1 DEF LInv, LedgerTypes, Once, Acks, ledgers
  <2>3. (\A id \in AgentIds : AgentEntry(id)') /\ (\A id \in HostIds : HostEntry(id)') /\ Answerable'
    BY <2>1 DEF LInv, AgentEntry, HostEntry, Answerable, ledgers
  <2>4. QED  BY <1>1, <2>2, <2>3 DEF LInv
<1>5. ASSUME NEW id \in AgentIds, NEW ep \in 0..epoch, NEW observes \in BOOLEAN,
             AgentRefused(id, observes, ep)
      PROVE  LInv'
  <2> DEFINE entry == [state |-> "done", gated |-> TRUE, ep |-> ep, observes |-> observes,
                       result |-> FALSE, said |-> epoch]
  <2>1. entry \in AgentEntries /\ entry.state = "done" /\ ~entry.result
    BY DEF LInv, IInv, TypeOK, AgentEntries
  <2>2. agentLog[id] = None /\ agentLog' = [agentLog EXCEPT ![id] = entry]
        /\ UNCHANGED <<vars, hostLog, opId, pendingId, runs>>
    BY <1>5 DEF AgentRefused, Begins
  <2> HIDE DEF entry
  <2>3. QED  BY <2>1, <2>2, AgentSpot
<1>6. ASSUME NEW id \in AgentIds, AgentControl(id) PROVE LInv'
  <2> DEFINE entry == [state |-> "done", gated |-> FALSE, ep |-> 0, observes |-> FALSE,
                       result |-> FALSE, said |-> epoch]
  <2>1. entry \in AgentEntries /\ entry.state = "done" /\ ~entry.result
    BY DEF LInv, IInv, TypeOK, AgentEntries
  <2>2. agentLog[id] = None /\ agentLog' = [agentLog EXCEPT ![id] = entry]
        /\ UNCHANGED <<vars, hostLog, opId, pendingId, runs>>
    BY <1>6 DEF AgentControl, Begins
  <2> HIDE DEF entry
  <2>3. QED  BY <2>1, <2>2, AgentSpot
<1>7. CASE Ends
  BY <1>1, <1>7, EndKeeps DEF Ends
<1>8. CASE SessionNext
  BY <1>1, <1>3, <1>5, <1>6, <1>7, <1>8, AgentStartsKeeps, HostAnsweredKeeps, TransferKeeps,
     BeginKeeps, HostStartsKeeps, CancelKeeps DEF SessionNext
<1>9. QED  BY <1>4, <1>8

THEOREM SessionInvariance == SessionSpec => []LInv
BY InitLInv, NextLInv, PTL DEF SessionSpec

\* The ledgers, duplicates and cancellations in front of the child change nothing of
\* what it promises: what two clients of the channels observe, two parties of Ownership
\* could observe (run_ghost_stdio).
THEOREM SessionRefinement ==
    SessionSpec => ImplementsOwnership /\ [](ControlIsExclusive /\ NothingStaleIsUsed)
<1>1. SessionInit => Init
  BY DEF SessionInit
<1>2. [SessionNext]_allVars => [Next]_vars
  BY OwnershipStep DEF allVars
<1>3. SessionSpec => Spec
  BY <1>1, <1>2, PTL DEF SessionSpec, Spec
<1>4. QED  BY <1>3, Refinement, OneDriver, NothingStale, PTL

\* The ledgers and what they wait for keep their types, for any request IDs.
THEOREM SessionTypes == SessionSpec => []SessionTypeOK
<1>1. LInv => SessionTypeOK
  BY DEF LInv, IInv, LedgerTypes, SessionTypeOK
<1>2. QED  BY <1>1, SessionInvariance, PTL

\* However often a request is delivered it acts once, and a result is told again only
\* within the epoch it was found in (Ledger::begin, reject_agent).
THEOREM ActsOnce == SessionSpec => []OnceAndInEpoch
<1>1. LInv => OnceAndInEpoch
  <2> SUFFICES ASSUME LInv PROVE OnceAndInEpoch
    OBVIOUS
  <2>1. ExecutedAtMostOnce
    BY DEF LInv, Once, ExecutedAtMostOnce
  <2>2. ASSUME NEW id \in Reserved(agentLog), agentLog[id].result, AnswerToDuplicate(id) = "recorded"
        PROVE  agentLog[id].said = epoch
    <3>1. id \in AgentIds /\ agentLog[id] # None
      BY DEF LInv, LedgerTypes, Reserved
    <3>2. agentLog[id].gated /\ agentLog[id].said = agentLog[id].ep
      BY <2>2, <3>1 DEF LInv, AgentEntry
    <3>3. ~GatedOut(agentLog[id])
      BY <2>2 DEF AnswerToDuplicate
    <3>4. agentLog[id].ep = epoch
      BY <3>2, <3>3 DEF GatedOut, AgentGate
    <3>5. QED  BY <3>2, <3>4
  <2>3. QED  BY <2>1, <2>2 DEF OnceAndInEpoch, ReplaysStayInEpoch
<1>2. QED  BY <1>1, SessionInvariance, PTL

\* A request in flight has an operation or a pause that will answer it, and the host
\* has been told of each transfer exactly once (run_ghost_stdio).
THEOREM Told == SessionSpec => []AnswersAreTrue
<1>1. LInv => AnswersAreTrue
  <2> SUFFICES ASSUME LInv PROVE AnswersAreTrue
    OBVIOUS
  <2>1. NoOrphanRequest
    BY DEF LInv, LedgerTypes, AgentEntry, HostEntry, NoOrphanRequest, Reserved
  <2>2. AcksCountTransfers
    BY DEF LInv, Acks, AcksCountTransfers
  <2>3. QED  BY <2>1, <2>2 DEF AnswersAreTrue
<1>2. QED  BY <1>1, SessionInvariance, PTL
=============================================================================
