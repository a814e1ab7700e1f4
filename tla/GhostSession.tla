----------------------------- MODULE GhostSession -----------------------------
(***************************************************************************)
(* The two request channels of a Ghost child in front of GhostOwnership:   *)
(* the request IDs, the ledger each channel keeps so that no ID is ever    *)
(* executed twice (mcp/ghost.rs, Ledger), and what a duplicate of an       *)
(* answered request receives (reject_agent).                               *)
(***************************************************************************)
EXTENDS GhostOwnership

CONSTANTS AgentIds,      \* request IDs the agent uses
          HostIds,       \* request IDs the host uses
          MaxRequests    \* MAX_REQUESTS, the IDs one ledger can hold

VARIABLES agentLog,   \* the agent's Ledger: request ID -> entry
          hostLog,    \* the host's Ledger: request ID -> entry
          opId,       \* the request the operation in flight answers
          pendingId,  \* the host request a pause will answer
          runs        \* history: how often each request has started an operation

ledgers == <<agentLog, hostLog, opId, pendingId, runs>>
allVars == <<vars, ledgers>>

(***************************************************************************)
(* Ledger entries.  An agent's entry keeps what the gate looks at when the *)
(* request comes again (the epoch it was written for, whether it is an     *)
(* observation; control requests are not gated) and whether its response   *)
(* is the result of an operation, and of which epoch.  A host's entry      *)
(* keeps what the response says of ownership.                              *)
(***************************************************************************)
AgentEntries == [state : {"inflight", "done"}, gated : BOOLEAN, ep : Nat,
                 observes : BOOLEAN, result : BOOLEAN, said : Nat]
HostEntries == {"inflight", "transferred", "resumed", "answered"}

\* Each side numbers its own requests.
ASSUME IdsAssumption == AgentIds \cap HostIds = {} /\ IsFiniteSet(HostIds)
ASSUME NoIdAssumption == None \notin AgentIds \cup HostIds \cup AgentEntries \cup HostEntries \cup Ops

Reserved(log) == {id \in DOMAIN log : log[id] # None}

\* Variant: an ID the ledger knows is accepted again.
BeginsAgain(log, id) == Cardinality(Reserved(log) \cup {id}) <= MaxRequests

\* Ledger::begin accepts a new ID while the ledger has room.  Entries are never
\* evicted.
Begins(log, id) == log[id] = None /\ Cardinality(Reserved(log)) < MaxRequests

CallEntry(name, ep) ==
    [state |-> "inflight", gated |-> TRUE, ep |-> ep,
     observes |-> name \in {"snapshot", "tabs"}, result |-> TRUE, said |-> epoch]

Finished(entry) == [entry EXCEPT !.state = "done", !.said = epoch]

(***************************************************************************)
(* What the agent hears when it repeats a request with the same ID and the *)
(* same payload: nothing more while the request is in flight, the gate's   *)
(* refusal of today, or the recorded response.                             *)
(***************************************************************************)
GatedOut(entry) ==
    entry.gated /\ ~AgentGate(IF entry.observes THEN "snapshot" ELSE "act", entry.ep)

AnswerToDuplicate(id) ==
    LET entry == agentLog[id]
    IN  IF entry.state = "inflight" THEN "shared"
        ELSE IF GatedOut(entry) THEN "refused"
        ELSE "recorded"

-----------------------------------------------------------------------------
SessionInit ==
    /\ Init
    /\ agentLog = [id \in AgentIds |-> None]
    /\ hostLog = [id \in HostIds |-> None]
    /\ opId = None /\ pendingId = None
    /\ runs = [id \in AgentIds \cup HostIds |-> 0]

\* A tools/call that passes the gate, the ledger and call_options.
AgentStarts(id, call, ep) ==
    /\ Begins(agentLog, id)
    /\ AgentCall(call, ep)
    /\ agentLog' = [agentLog EXCEPT ![id] = CallEntry(call.name, ep)]
    /\ opId' = id
    /\ runs' = [runs EXCEPT ![id] = @ + 1]
    /\ UNCHANGED <<hostLog, pendingId>>

\* A tools/call answered on the spot: refused by the gate, malformed, or BUSY.
\* Its ID is used up all the same.
AgentRefused(id, observes, ep) ==
    /\ phase # "Closed" /\ Begins(agentLog, id)
    /\ agentLog' = [agentLog EXCEPT ![id] =
          [state |-> "done", gated |-> TRUE, ep |-> ep, observes |-> observes,
           result |-> FALSE, said |-> epoch]]
    /\ UNCHANGED <<vars, hostLog, opId, pendingId, runs>>

\* initialize, ping, tools/list and unknown methods.
AgentControl(id) ==
    /\ phase # "Closed" /\ Begins(agentLog, id)
    /\ agentLog' = [agentLog EXCEPT ![id] =
          [state |-> "done", gated |-> FALSE, ep |-> 0, observes |-> FALSE,
           result |-> FALSE, said |-> epoch]]
    /\ UNCHANGED <<vars, hostLog, opId, pendingId, runs>>

\* A host request answered on the spot without effect: ghost/status, a request
\* validate refuses, BUSY, or a ghost/cancel that matches nothing.
HostAnswered(id) ==
    /\ phase # "Closed" /\ Begins(hostLog, id)
    /\ hostLog' = [hostLog EXCEPT ![id] = "answered"]
    /\ UNCHANGED <<vars, agentLog, opId, pendingId, runs>>

HostIdleHandoff(id, h) ==
    /\ Begins(hostLog, id)
    /\ IdleHandoff(h)
    /\ hostLog' = [hostLog EXCEPT ![id] = "transferred"]
    /\ UNCHANGED <<agentLog, opId, pendingId, runs>>

\* Variant: the pause remembers the handoff instead of the request.
HostBeginHandoffById(id, h) ==
    /\ Begins(hostLog, id)
    /\ BeginHandoff(h)
    /\ hostLog' = [hostLog EXCEPT ![id] = "inflight"]
    /\ pendingId' = h
    /\ UNCHANGED <<agentLog, opId, runs>>

HostBeginHandoff(id, h) ==
    /\ Begins(hostLog, id)
    /\ BeginHandoff(h)
    /\ hostLog' = [hostLog EXCEPT ![id] = "inflight"]
    /\ pendingId' = id
    /\ UNCHANGED <<agentLog, opId, runs>>

HostResume(id, h) ==
    /\ Begins(hostLog, id)
    /\ Resume(h)
    /\ hostLog' = [hostLog EXCEPT ![id] = "resumed"]
    /\ UNCHANGED <<agentLog, opId, pendingId, runs>>

HostStarts(id, h, call) ==
    /\ Begins(hostLog, id)
    /\ HumanCall(h, call)
    /\ hostLog' = [hostLog EXCEPT ![id] = "inflight"]
    /\ opId' = id
    /\ runs' = [runs EXCEPT ![id] = @ + 1]
    /\ UNCHANGED <<agentLog, pendingId>>

\* The ledgers once the operation's request is finished.
AgentLogAfterOp ==
    IF op.ch = "agent" THEN [agentLog EXCEPT ![opId] = Finished(@)] ELSE agentLog
HostLogAfterOp ==
    IF op.ch = "human" THEN [hostLog EXCEPT ![opId] = "answered"] ELSE hostLog
HostLogAfterPause(answer) ==
    IF pendingId # None THEN [HostLogAfterOp EXCEPT ![pendingId] = answer]
                        ELSE HostLogAfterOp

OperationSettles ==
    /\ Settle
    /\ agentLog' = AgentLogAfterOp /\ hostLog' = HostLogAfterOp
    /\ opId' = None
    /\ UNCHANGED <<pendingId, runs>>

OperationTransfers ==
    /\ SettleAndTransfer
    /\ agentLog' = AgentLogAfterOp /\ hostLog' = HostLogAfterPause("transferred")
    /\ opId' = None /\ pendingId' = None
    /\ UNCHANGED runs

\* Variant: the aborted handoff gets no answer.
OperationUncertainSilent ==
    /\ Uncertain
    /\ agentLog' = AgentLogAfterOp /\ hostLog' = HostLogAfterOp
    /\ opId' = None /\ pendingId' = None
    /\ UNCHANGED runs

\* Variant: the aborted handoff is acknowledged as a transfer.
OperationUncertainTransferred ==
    /\ Uncertain
    /\ agentLog' = AgentLogAfterOp /\ hostLog' = HostLogAfterPause("transferred")
    /\ opId' = None /\ pendingId' = None
    /\ UNCHANGED runs

\* The waiting handoff, if any, receives HANDOFF_ABORTED_UNCERTAIN.
OperationUncertain ==
    /\ Uncertain
    /\ agentLog' = AgentLogAfterOp /\ hostLog' = HostLogAfterPause("answered")
    /\ opId' = None /\ pendingId' = None
    /\ UNCHANGED runs

\* ghost/cancel naming the operation in flight by channel and request ID.
HostCancel(id, ch, target) ==
    /\ Begins(hostLog, id)
    /\ op # None /\ op.ch = ch /\ opId = target
    /\ Uncertain
    /\ agentLog' = AgentLogAfterOp
    /\ hostLog' = [HostLogAfterPause("answered") EXCEPT ![id] = "answered"]
    /\ opId' = None /\ pendingId' = None
    /\ UNCHANGED runs

SessionStop == Stop /\ UNCHANGED ledgers

Ends == OperationSettles \/ OperationTransfers \/ OperationUncertain

SessionNext ==
    \/ \E id \in AgentIds, call \in Calls(runtime), ep \in 0..epoch : AgentStarts(id, call, ep)
    \/ \E id \in AgentIds, observes \in BOOLEAN, ep \in 0..epoch : AgentRefused(id, observes, ep)
    \/ \E id \in AgentIds : AgentControl(id)
    \/ \E id \in HostIds : HostAnswered(id)
    \/ \E id \in HostIds, h \in HandoffIds :
          HostIdleHandoff(id, h) \/ HostBeginHandoff(id, h) \/ HostResume(id, h)
    \/ \E id \in HostIds, h \in HandoffIds, call \in Calls(runtime) : HostStarts(id, h, call)
    \/ \E id \in HostIds, ch \in Channels, target \in AgentIds \cup HostIds :
          HostCancel(id, ch, target)
    \/ Ends
    \/ SessionStop

SessionSpec == SessionInit /\ [][SessionNext]_allVars

\* As in GhostOwnership: the operation's deadline is polled first.
FairSessionSpec == SessionSpec /\ WF_allVars(Ends)

-----------------------------------------------------------------------------
(* Properties *)

\* Type invariant of the ledgers.
SessionTypeOK ==
    /\ TypeOK
    /\ agentLog \in [AgentIds -> AgentEntries \cup {None}]
    /\ hostLog \in [HostIds -> HostEntries \cup {None}]
    /\ opId \in AgentIds \cup HostIds \cup {None}
    /\ pendingId \in HostIds \cup {None}
    /\ runs \in [AgentIds \cup HostIds -> Nat]

\* However often a request is delivered, it starts at most one operation: IDs
\* are reserved before the operation starts and never evicted (Ledger::begin).
ExecutedAtMostOnce == \A id \in AgentIds \cup HostIds : runs[id] <= 1

\* A duplicate never carries a page or an action result over an ownership
\* boundary: a recorded result the agent can still be given is of this epoch.
ReplaysStayInEpoch ==
    \A id \in Reserved(agentLog) :
        agentLog[id].result /\ AnswerToDuplicate(id) = "recorded" => agentLog[id].said = epoch

\* A request acts once, and its result is told again only to the side it belongs to
\* (Ledger::begin, reject_agent).
OnceAndInEpoch == ExecutedAtMostOnce /\ ReplaysStayInEpoch

\* Nobody is left without an answer: a request in flight is the operation's or
\* the pause's, and those are answered when they end (run_ghost_stdio, the two
\* finish calls after the inner loop).
NoOrphanRequest ==
    /\ \A id \in Reserved(agentLog) :
          agentLog[id].state = "inflight" => op # None /\ op.ch = "agent" /\ opId = id
    /\ \A id \in Reserved(hostLog) :
          hostLog[id] = "inflight" =>
              \/ op # None /\ op.ch = "human" /\ opId = id
              \/ pending # None /\ pendingId = id

\* The host can count: every change of ownership has been acknowledged to
\* exactly one host request, and no acknowledgement is given for a pause that
\* was aborted.
AcksCountTransfers ==
    Cardinality({id \in HostIds : hostLog[id] \in {"transferred", "resumed"}}) = epoch

\* What the host is told is true and complete, whatever interrupts the loop
\* (run_ghost_stdio).
AnswersAreTrue == NoOrphanRequest /\ AcksCountTransfers

\* Every request that started an operation, and every requested pause, is
\* answered in the end, also when the child closes.
EveryRequestAnswered ==
    /\ \A id \in AgentIds : agentLog[id] # None ~> agentLog[id] # None /\ agentLog[id].state = "done"
    /\ \A id \in HostIds : hostLog[id] = "inflight" ~> hostLog[id] # "inflight"
=============================================================================
