--------------------------- MODULE FetchBridgeProofs ---------------------------
(***************************************************************************)
(* Theorems about FetchBridge, for any connections, sessions, frames and   *)
(* requests: what a page hears of a request is what was decided of it, and *)
(* it hears it once.                                                       *)
(***************************************************************************)
EXTENDS FetchBridge, FiniteSetTheorems, TLAPS

\* What the theorem needs of the types.
Typed ==
    /\ at \in [Requests -> Stages]
    /\ from \in [Requests -> Origins \cup {None}]
    /\ decision \in [Requests -> Decisions \cup {None}]
    /\ reply \in [Requests -> Replies \cup {None}]
    /\ pending \subseteq Requests
    /\ registry \subseteq Requests
    /\ wire \subseteq Requests
    /\ DOMAIN heard = Requests

\* A request that is not issued yet has left no trace, and one that is has an origin.
Origin(r) ==
    /\ at[r] = "none" => r \notin pending /\ heard[r] = <<>>
    /\ at[r] # "none" => from[r] \in Origins

\* Where a request stands, what was decided of it, and what the network knows of it.
Standing(r) ==
    /\ r \in registry <=> at[r] = "paused"
    /\ at[r] \in {"none", "queued", "task", "paused"} => decision[r] = None /\ r \notin wire
    /\ at[r] = "decided" => r \notin wire
    /\ at[r] = "decided" /\ Is(r, Script) => decision[r] # None
    /\ at[r] = "sent" => r \in wire
    /\ r \in wire => decision[r] \in {None, "continue"}
    /\ at[r] \in {"replied", "deferred"} => reply[r] \in Told(r)

\* The page waits for a request, or has heard of it; what it heard other than its own
\* abort was the end of it.
Hearing(r) ==
    /\ r \in pending => heard[r] = <<>>
    /\ \/ heard[r] = <<>>
       \/ \E w \in Told(r) :
             /\ heard[r] = <<<<from[r].frame, w>>>>
             /\ w # "aborted" => at[r] = "over"

IInv == Typed /\ \A r \in Requests : Origin(r) /\ Standing(r) /\ Hearing(r)

LEMMA InitIInv == Init => IInv
BY DEF Init, IInv, Typed, Stages, Origin, Standing, Hearing

\* The inductive invariant implies the property.
LEMMA IInvObeys == IInv => DecisionIsObeyed
<1> SUFFICES ASSUME IInv, NEW r \in Requests
             PROVE  /\ r \in wire => r \notin registry /\ decision[r] \in {None, "continue"}
                    /\ Len(heard[r]) <= 1
                    /\ heard[r] # <<>> => heard[r][1][1] = from[r].frame /\ heard[r][1][2] \in Told(r)
  BY DEF DecisionIsObeyed
<1>1. r \in wire => r \notin registry /\ decision[r] \in {None, "continue"}
  BY DEF IInv, Standing
<1>2. CASE heard[r] = <<>>
  BY <1>1, <1>2
<1>3. CASE heard[r] # <<>>
  <2>1. PICK w \in Told(r) : heard[r] = <<<<from[r].frame, w>>>>
    BY <1>3 DEF IInv, Hearing
  <2>2. Len(heard[r]) = 1 /\ heard[r][1][1] = from[r].frame /\ heard[r][1][2] = w
    BY <2>1
  <2>3. QED  BY <1>1, <2>1, <2>2
<1>4. QED  BY <1>2, <1>3

-----------------------------------------------------------------------------
(* The steps *)

\* A step that leaves the requests alone.
LEMMA Elsewhere ==
    ASSUME IInv, UNCHANGED <<at, from, registry, decision, reply, pending, wire, heard>>
    PROVE  IInv'
BY DEF IInv, Typed, Origin, Standing, Hearing, Told, Is

\* A step of one request keeps what is said of the others, if what it changes is that
\* request's.
LEMMA OthersKept ==
    ASSUME IInv, NEW r \in Requests, NEW q \in Requests \ {r},
           UNCHANGED <<at[q], from[q], decision[q], reply[q], heard[q]>>,
           q \in registry' <=> q \in registry,
           q \in pending' <=> q \in pending,
           q \in wire' <=> q \in wire
    PROVE  Origin(q)' /\ Standing(q)' /\ Hearing(q)'
BY DEF IInv, Origin, Standing, Hearing, Told, Is

\* What a page has heard stays true of a request that goes on with its decision.
LEMMA HearingKept ==
    ASSUME IInv, NEW r \in Requests, UNCHANGED <<heard[r], from[r], decision[r]>>,
           r \in pending' => r \in pending, at[r] = "over" => at'[r] = "over"
    PROVE  Hearing(r)'
BY DEF IInv, Hearing, Told

\* A step of one request keeps the invariant if it keeps it for that request.
LEMMA OneRequest ==
    ASSUME IInv, NEW r \in Requests, Typed', Origin(r)', Standing(r)', Hearing(r)',
           \A q \in Requests \ {r} :
               /\ UNCHANGED <<at[q], from[q], decision[q], reply[q], heard[q]>>
               /\ (q \in registry' <=> q \in registry) /\ (q \in pending' <=> q \in pending)
               /\ (q \in wire' <=> q \in wire)
    PROVE  IInv'
<1>1. ASSUME NEW q \in Requests \ {r} PROVE Origin(q)' /\ Standing(q)' /\ Hearing(q)'
  BY <1>1, OthersKept
<1>2. QED  BY <1>1 DEF IInv

LEMMA DecideKeeps ==
    ASSUME IInv, NEW r \in Requests, NEW d \in Decisions, Decide(r, d)
    PROVE  IInv'
<1>1. at[r] = "paused" /\ r \notin wire /\ decision[r] = None
  BY DEF Decide, IInv, Standing
<1>2. Typed'
  BY DEF IInv, Typed, Decide, Reach, Stages, page, history
<1>3. /\ UNCHANGED <<from, reply, pending, wire, heard>>
      /\ registry' = registry \ {r}
      /\ at' = [at EXCEPT ![r] = "decided"] /\ decision' = [decision EXCEPT ![r] = d]
  BY DEF Decide, Reach, page, history
<1>4. at'[r] = "decided" /\ decision'[r] = d /\ d # None
  BY <1>3, NoneAssumption DEF IInv, Typed, Decisions
<1>5. Origin(r)' /\ Standing(r)'
  BY <1>1, <1>3, <1>4 DEF IInv, Typed, Origin, Standing, Is
<1>6. Hearing(r)'
  <2>1. CASE heard[r] = <<>>
    BY <2>1, <1>3 DEF Hearing
  <2>2. CASE heard[r] # <<>>
    <3>1. heard[r] = <<<<from[r].frame, "aborted">>>>
      BY <2>2, <1>1 DEF IInv, Hearing
    <3>2. QED  BY <3>1, <1>3, <2>2 DEF IInv, Hearing, Told
  <2>3. QED  BY <2>1, <2>2
<1>7. QED  BY <1>2, <1>3, <1>5, <1>6, OneRequest DEF IInv, Typed

LEMMA IssueKeeps ==
    ASSUME IInv, NEW r \in Requests, NEW s \in Sessions, NEW f \in Frames, NEW kind \in Script,
           NEW sync \in BOOLEAN, Issue(r, s, f, kind, sync)
    PROVE  IInv'
<1>1. /\ UNCHANGED <<registry, decision, reply, wire, heard>>
      /\ at' = [at EXCEPT ![r] = "queued"] /\ pending' = pending \cup {r}
      /\ from' = [from EXCEPT ![r] = [session |-> s, kind |-> kind, frame |-> f]]
  BY DEF Issue, Reach, history
<1>2. at[r] = "none" /\ heard[r] = <<>> /\ r \notin registry
  BY DEF Issue, IInv, Origin, Standing
<1>3. Typed'
  BY <1>1 DEF IInv, Typed, Stages, Origins, Kinds, Script
<1>4. Origin(r)' /\ Standing(r)' /\ Hearing(r)'
  BY <1>1, <1>2 DEF IInv, Typed, Origin, Standing, Hearing, Origins, Kinds, Script
<1>5. QED  BY <1>1, <1>3, <1>4, OneRequest DEF IInv, Typed

LEMMA NavigateKeeps ==
    ASSUME IInv, NEW r \in Requests, NEW s \in Sessions, Navigate(r, s)
    PROVE  IInv'
<1>1. /\ UNCHANGED <<decision, reply, pending, wire, heard>>
      /\ from' = [from EXCEPT ![r] = [session |-> s, kind |-> "nav", frame |-> None]]
      /\ \/ at' = [at EXCEPT ![r] = "paused"] /\ registry' = registry \cup {r}
         \/ at' = [at EXCEPT ![r] = "decided"] /\ registry' = registry
  BY DEF Navigate, Reach, history, page
<1>2. at[r] = "none" /\ heard[r] = <<>> /\ r \notin registry /\ r \notin pending
  BY DEF Navigate, IInv, Origin, Standing
<1>3. Typed'
  BY <1>1 DEF IInv, Typed, Stages, Origins, Kinds
<1>4. Origin(r)' /\ Standing(r)' /\ Hearing(r)'
  BY <1>1, <1>2 DEF IInv, Typed, Origin, Standing, Hearing, Origins, Kinds, Is, Script
<1>5. QED  BY <1>1, <1>3, <1>4, OneRequest DEF IInv, Typed

LEMMA TakeKeeps ==
    ASSUME IInv, NEW r \in Requests, Take(r)
    PROVE  IInv'
<1>1. /\ UNCHANGED <<from, registry, decision, reply, pending, wire, heard>>
      /\ at' = [at EXCEPT ![r] = "task"]
  BY DEF Take, Reach, history, page
<1>2. at[r] = "queued" /\ from[r] \in Origins /\ r \notin registry
  BY DEF Take, Reach, history, page, IInv, Origin, Standing, Typed
<1>3. Typed'
  BY <1>1, <1>2 DEF IInv, Typed, Stages, Origins, Kinds, Replies, Script
<1>4. Origin(r)' /\ Standing(r)'
  BY <1>1, <1>2, NoneAssumption
     DEF IInv, Typed, Origin, Standing, Is, Told, Replies, Decisions, Origins, Script, Kinds
<1>5. Hearing(r)'
  BY <1>1, <1>2, HearingKept DEF IInv, Typed
<1>6. QED  BY <1>1, <1>3, <1>4, <1>5, OneRequest DEF IInv, Typed

LEMMA InterceptKeeps ==
    ASSUME IInv, NEW r \in Requests, Intercept(r)
    PROVE  IInv'
<1>1. /\ UNCHANGED <<from, decision, pending, heard>>
      /\ \/ /\ at' = [at EXCEPT ![r] = "replied"] /\ reply' = [reply EXCEPT ![r] = "offline"]
            /\ UNCHANGED <<registry, wire>>
         \/ /\ at' = [at EXCEPT ![r] = "paused"] /\ registry' = registry \cup {r}
            /\ UNCHANGED <<reply, wire>>
         \/ /\ at' = [at EXCEPT ![r] = "sent"] /\ wire' = wire \cup {r}
            /\ UNCHANGED <<registry, reply>>
  BY DEF Intercept, Respond, Reach, page
<1>2. at[r] = "task" /\ from[r] \in Origins /\ r \notin registry
  BY DEF Intercept, Respond, Reach, page, IInv, Origin, Standing, Typed
<1>3. Typed'
  BY <1>1, <1>2 DEF IInv, Typed, Stages, Origins, Kinds, Replies, Script
<1>4. Origin(r)' /\ Standing(r)'
  BY <1>1, <1>2, NoneAssumption
     DEF IInv, Typed, Origin, Standing, Is, Told, Replies, Decisions, Origins, Script, Kinds
<1>5. Hearing(r)'
  BY <1>1, <1>2, HearingKept DEF IInv, Typed
<1>6. QED  BY <1>1, <1>3, <1>4, <1>5, OneRequest DEF IInv, Typed

LEMMA ObeyKeeps ==
    ASSUME IInv, NEW r \in Requests, Obey(r)
    PROVE  IInv'
<1>1. /\ UNCHANGED <<from, registry, decision, pending, heard>>
      /\ IF decision[r] = "continue"
         THEN wire' = wire \cup {r} /\ at' = [at EXCEPT ![r] = "sent"] /\ UNCHANGED reply
         ELSE /\ at' = [at EXCEPT ![r] = "replied"] /\ UNCHANGED wire
              /\ reply' = [reply EXCEPT ![r] = IF decision[r] = "fail" THEN "failed" ELSE "fulfilled"]
  BY DEF Obey, Respond, Reach, page
<1>2. at[r] = "decided" /\ from[r] \in Origins /\ r \notin registry /\ decision[r] \in Decisions
  BY DEF Obey, Respond, Reach, page, IInv, Origin, Standing, Typed
<1>3. Typed'
  BY <1>1, <1>2 DEF IInv, Typed, Stages, Origins, Kinds, Replies, Script
<1>4. Origin(r)' /\ Standing(r)'
  BY <1>1, <1>2, NoneAssumption
     DEF IInv, Typed, Origin, Standing, Is, Told, Replies, Decisions, Origins, Script, Kinds
<1>5. Hearing(r)'
  BY <1>1, <1>2, HearingKept DEF IInv, Typed
<1>6. QED  BY <1>1, <1>3, <1>4, <1>5, OneRequest DEF IInv, Typed

LEMMA AnsweredKeeps ==
    ASSUME IInv, NEW r \in Requests, Answered(r)
    PROVE  IInv'
<1>1. /\ UNCHANGED <<from, registry, decision, pending, wire, heard>>
      /\ at' = [at EXCEPT ![r] = "replied"] /\ reply' = [reply EXCEPT ![r] = "network"]
  BY DEF Answered, Respond, Reach, page, history
<1>2. at[r] = "sent" /\ from[r] \in Origins /\ r \notin registry /\ r \in wire
  BY DEF Answered, Respond, Reach, page, history, IInv, Origin, Standing, Typed
<1>3. Typed'
  BY <1>1, <1>2 DEF IInv, Typed, Stages, Origins, Kinds, Replies, Script
<1>4. Origin(r)' /\ Standing(r)'
  BY <1>1, <1>2, NoneAssumption
     DEF IInv, Typed, Origin, Standing, Is, Told, Replies, Decisions, Origins, Script, Kinds
<1>5. Hearing(r)'
  BY <1>1, <1>2, HearingKept DEF IInv, Typed
<1>6. QED  BY <1>1, <1>3, <1>4, <1>5, OneRequest DEF IInv, Typed

LEMMA LoadKeeps ==
    ASSUME IInv, NEW r \in Requests, Load(r)
    PROVE  IInv'
<1>1. /\ UNCHANGED <<from, registry, decision, reply, pending, heard>>
      /\ \/ at' = [at EXCEPT ![r] = "over"] /\ UNCHANGED wire
         \/ at' = [at EXCEPT ![r] = "loading"] /\ UNCHANGED wire
         \/ /\ decision[r] \in {"continue", None} /\ at' = [at EXCEPT ![r] = "loading"]
            /\ wire' = wire \cup {r}
  BY DEF Load, Reach, page
<1>2. at[r] = "decided" /\ from[r] \in Origins /\ r \notin registry
  BY DEF Load, Reach, page, IInv, Origin, Standing, Typed
<1>3. Typed'
  BY <1>1, <1>2 DEF IInv, Typed, Stages, Origins, Kinds, Replies, Script
<1>4. Origin(r)' /\ Standing(r)'
  BY <1>1, <1>2, NoneAssumption
     DEF IInv, Typed, Origin, Standing, Is, Told, Replies, Decisions, Origins, Script, Kinds
<1>5. Hearing(r)'
  BY <1>1, <1>2, HearingKept DEF IInv, Typed
<1>6. QED  BY <1>1, <1>3, <1>4, <1>5, OneRequest DEF IInv, Typed

LEMMA StylesheetKeeps ==
    ASSUME IInv, NEW r \in Requests, Stylesheet(r)
    PROVE  IInv'
<1>1. /\ UNCHANGED <<from, registry, decision, reply, pending, wire, heard>>
      /\ at' = [at EXCEPT ![r] = "sheet"]
  BY DEF Stylesheet, Reach, history, page
<1>2. at[r] = "loading" /\ from[r] \in Origins /\ r \notin registry
  BY DEF Stylesheet, Reach, history, page, IInv, Origin, Standing, Typed
<1>3. Typed'
  BY <1>1, <1>2 DEF IInv, Typed, Stages, Origins, Kinds, Replies, Script
<1>4. Origin(r)' /\ Standing(r)'
  BY <1>1, <1>2, NoneAssumption
     DEF IInv, Typed, Origin, Standing, Is, Told, Replies, Decisions, Origins, Script, Kinds
<1>5. Hearing(r)'
  BY <1>1, <1>2, HearingKept DEF IInv, Typed
<1>6. QED  BY <1>1, <1>3, <1>4, <1>5, OneRequest DEF IInv, Typed

LEMMA StylesheetCameKeeps ==
    ASSUME IInv, NEW r \in Requests, StylesheetCame(r)
    PROVE  IInv'
<1>1. /\ UNCHANGED <<from, registry, decision, reply, pending, wire, heard>>
      /\ at' = [at EXCEPT ![r] = "loading"]
  BY DEF StylesheetCame, Reach, history, page
<1>2. at[r] = "sheet" /\ from[r] \in Origins /\ r \notin registry
  BY DEF StylesheetCame, Reach, history, page, IInv, Origin, Standing, Typed
<1>3. Typed'
  BY <1>1, <1>2 DEF IInv, Typed, Stages, Origins, Kinds, Replies, Script
<1>4. Origin(r)' /\ Standing(r)'
  BY <1>1, <1>2, NoneAssumption
     DEF IInv, Typed, Origin, Standing, Is, Told, Replies, Decisions, Origins, Script, Kinds
<1>5. Hearing(r)'
  BY <1>1, <1>2, HearingKept DEF IInv, Typed
<1>6. QED  BY <1>1, <1>3, <1>4, <1>5, OneRequest DEF IInv, Typed

LEMMA LoadedKeeps ==
    ASSUME IInv, NEW r \in Requests, Loaded(r)
    PROVE  IInv'
<1>1. /\ UNCHANGED <<from, registry, decision, reply, pending, wire, heard>>
      /\ at' = [at EXCEPT ![r] = "over"]
  BY DEF Loaded, Reach, history, page
<1>2. at[r] = "loading" /\ from[r] \in Origins /\ r \notin registry
  BY DEF Loaded, Reach, history, page, IInv, Origin, Standing, Typed
<1>3. Typed'
  BY <1>1, <1>2 DEF IInv, Typed, Stages, Origins, Kinds, Replies, Script
<1>4. Origin(r)' /\ Standing(r)'
  BY <1>1, <1>2, NoneAssumption
     DEF IInv, Typed, Origin, Standing, Is, Told, Replies, Decisions, Origins, Script, Kinds
<1>5. Hearing(r)'
  BY <1>1, <1>2, HearingKept DEF IInv, Typed
<1>6. QED  BY <1>1, <1>3, <1>4, <1>5, OneRequest DEF IInv, Typed

\* A pump of frame f moves many requests at once: those it rejects (given), those it
\* settles (mine), those it puts by (later) or drops, and the others, left alone.
LEMMA PumpKeeps ==
    ASSUME IInv, NEW s \in Sessions, NEW f \in Frames, Pump(s, f)
    PROVE  IInv'
<1> DEFINE given == {r \in pending : Of(s, r) /\ from[r].frame = f /\ r \in aborted}
           came == {r \in Requests : Of(s, r) /\ at[r] \in {"replied", "deferred"}}
           mine == {r \in came \cap (pending \ given) : from[r].frame = f}
           later == came \cap (pending \ (given \cup mine))
<1>1. /\ UNCHANGED <<from, registry, decision, reply, wire>>
      /\ pending' = pending \ (given \cup mine)
      /\ at' = [r \in Requests |-> IF r \notin came THEN at[r]
                                   ELSE IF r \in later THEN "deferred" ELSE "over"]
      /\ heard' = [r \in Requests |->
                      IF r \in given THEN Append(heard[r], <<f, "aborted">>)
                      ELSE IF r \in mine THEN Append(heard[r], <<f, reply[r]>>) ELSE heard[r]]
  BY DEF Pump
<1>2. \A q \in Requests :
         /\ q \in came => at[q] \in {"replied", "deferred"}
         /\ q \in given => q \in pending /\ q \notin later /\ from[q].frame = f
         /\ q \in mine => q \in came /\ q \in pending /\ q \notin given /\ q \notin later
                          /\ from[q].frame = f
  OBVIOUS
<1>3. given \subseteq Requests /\ mine \subseteq pending
  BY DEF IInv, Typed
<1> HIDE DEF given, came, mine, later
<1>4. ASSUME NEW q \in Requests
      PROVE  at'[q] = at[q] \/ (at[q] \in {"replied", "deferred"} /\ at'[q] \in {"deferred", "over"})
  BY <1>1, <1>2
<1>5. Typed'
  <2>1. at' \in [Requests -> Stages]
    BY <1>1 DEF IInv, Typed, Stages
  <2>2. QED  BY <1>1, <2>1 DEF IInv, Typed
<1>6. ASSUME NEW q \in Requests PROVE Standing(q)'
  <2>1. at[q] # "paused" => at'[q] # "paused"
    BY <1>4
  <2>2. Told(q)' = Told(q)
    BY <1>1 DEF Told
  <2>3. Standing(q)
    BY DEF IInv
  <2>4. QED  BY <1>1, <1>4, <2>2, <2>3 DEF Standing, Is
<1>7. ASSUME NEW q \in Requests PROVE Hearing(q)' /\ Origin(q)'
  <2>1. Told(q)' = Told(q) /\ UNCHANGED <<from[q], reply[q]>>
    BY <1>1 DEF Told
  <2>2. Hearing(q) /\ Origin(q) /\ Standing(q)
    BY DEF IInv
  <2>3. CASE q \in given
    <3>1. heard[q] = <<>>
      BY <1>2, <2>2, <2>3 DEF Hearing
    <3>2. heard'[q] = <<<<from[q].frame, "aborted">>>> /\ q \notin pending'
      <4>1. heard'[q] = Append(<<>>, <<from[q].frame, "aborted">>)
        BY <1>1, <1>2, <2>3, <3>1
      <4>2. q \notin pending'
        BY <1>1, <2>3
      <4>3. QED  BY <4>1, <4>2
    <3>3. "aborted" \in Told(q)
      BY DEF Told
    <3>4. at'[q] # "none" /\ from[q] \in Origins
      BY <1>2, <1>4, <2>2, <2>3 DEF Origin
    <3>5. QED  BY <2>1, <3>2, <3>3, <3>4 DEF Hearing, Origin
  <2>4. CASE q \in mine
    <3>1. heard[q] = <<>> /\ reply[q] \in Told(q)
      BY <1>2, <2>2, <2>4 DEF Hearing, Standing
    <3>2. heard'[q] = <<<<from[q].frame, reply[q]>>>> /\ q \notin pending'
      <4>1. heard'[q] = Append(<<>>, <<from[q].frame, reply[q]>>)
        BY <1>1, <1>2, <2>4, <3>1
      <4>2. q \notin pending'
        BY <1>1, <2>4
      <4>3. QED  BY <4>1, <4>2
    <3>3. at'[q] = "over" /\ from[q] \in Origins
      BY <1>1, <1>2, <2>2, <2>4 DEF Origin
    <3>4. QED  BY <2>1, <3>1, <3>2, <3>3 DEF Hearing, Origin
  <2>5. CASE q \notin given \cup mine
    <3>1. heard'[q] = heard[q] /\ (q \in pending' <=> q \in pending)
      BY <1>1, <2>5
    <3>2. at[q] = "over" => at'[q] = "over"
      BY <1>4
    <3>3. Hearing(q)'
      BY <2>1, <2>2, <3>1, <3>2 DEF Hearing
    <3>4. Origin(q)'
      BY <1>4, <2>1, <2>2, <3>1 DEF Origin
    <3>5. QED  BY <3>3, <3>4
  <2>6. QED  BY <2>3, <2>4, <2>5
<1>8. QED  BY <1>5, <1>6, <1>7 DEF IInv

\* Every step keeps the inductive invariant.
LEMMA NextIInv == IInv /\ [Next]_vars => IInv'
<1> SUFFICES ASSUME IInv, [Next]_vars PROVE IInv'
  OBVIOUS
<1>1. ASSUME NEW c \in Conns, Disconnect(c) PROVE IInv'
  BY <1>1, Elsewhere DEF Disconnect, page, history
<1>2. ASSUME NEW c \in Conns, NEW withPatterns \in BOOLEAN, Enable(c, withPatterns) PROVE IInv'
  BY <1>2, Elsewhere DEF Enable, page, history
<1>3. ASSUME NEW r \in Requests, Announce(r) PROVE IInv'
  BY <1>3, Elsewhere DEF Announce, page, history
<1>4. ASSUME NEW r \in Requests, Abort(r) PROVE IInv'
  BY <1>4, Elsewhere DEF Abort, history
<1>5. CASE UNCHANGED vars
  BY <1>5, Elsewhere DEF vars, page, history
<1>6. ASSUME Next PROVE IInv'
  BY <1>1, <1>2, <1>3, <1>4, <1>6, DecideKeeps, IssueKeeps, NavigateKeeps, TakeKeeps,
     InterceptKeeps, ObeyKeeps, AnsweredKeeps, LoadKeeps, StylesheetKeeps, StylesheetCameKeeps,
     LoadedKeeps, PumpKeeps DEF Next
<1>7. QED  BY <1>5, <1>6

\* The inductive invariant holds in every reachable state.
THEOREM Invariance == Spec => []IInv
BY InitIInv, NextIInv, PTL DEF Spec

\* However pauses, decisions, aborts and pumps interleave, a paused request reaches the
\* network only by the client's leave, and the page hears what was decided, once and in
\* the frame that asked (Fetch domain, drain_pending_fetch_responses).
THEOREM Obeyed == Spec => []DecisionIsObeyed
BY Invariance, IInvObeys, PTL

-----------------------------------------------------------------------------
(* The counter *)

Bit(p) == IF p THEN 1 ELSE 0

\* Request r is one the counter stands for, apart from the stylesheets.
Working(r) ==
    from[r] # None /\ IF from[r].kind \in Script
                      THEN at[r] \in {"task", "paused", "decided", "sent"}
                      ELSE at[r] \in {"loading", "sheet"} /\ decision[r] # "fulfill"

\* Scripts' requests are the bridge's, and only navigations load.
Staged(r) ==
    /\ at[r] \in {"queued", "task", "sent", "replied", "deferred"} => from[r].kind \in Script
    /\ at[r] \in {"loading", "sheet"} => from[r].kind \notin Script

\* A thread waits for a request of its own that is still open.
Waits(s) == blocked[s] # None => blocked[s] \in pending /\ Of(s, blocked[s])

\* The types that the first invariant has no need of.
Sets ==
    /\ connected \subseteq Conns /\ enabled \subseteq Conns /\ patterns \in BOOLEAN
    /\ announced \subseteq Requests
    /\ blocked \in [Sessions -> Requests \cup {None}]
    /\ inFlight \in [Sessions -> Nat] /\ sheets \in [Sessions -> Nat]

CInv ==
    /\ IInv /\ Sets /\ WorkIsCounted
    /\ \A r \in Requests : Staged(r)
    /\ \A s \in Sessions : Waits(s)

LEMMA InitCInv == Init => CInv
<1> SUFFICES ASSUME Init PROVE CInv
  OBVIOUS
<1>1. Sets /\ (\A r \in Requests : Staged(r)) /\ (\A s \in Sessions : Waits(s))
  BY DEF Init, Sets, Staged, Waits
<1>2. ASSUME NEW s \in Sessions PROVE Work(s) = {} /\ Guards(s) = {}
  BY DEF Init, Work, Guards, Of
<1>3. ASSUME NEW s \in Sessions
      PROVE  inFlight[s] = Cardinality(Work(s)) + Cardinality(Guards(s)) + sheets[s]
  <2>1. Cardinality(Work(s)) = 0 /\ Cardinality(Guards(s)) = 0
    BY <1>2, FS_EmptySet
  <2>2. QED  BY <2>1 DEF Init
<1>4. QED  BY <1>1, <1>3, InitIInv DEF CInv, WorkIsCounted

\* Two finite sets that agree outside r differ by r.
LEMMA Recount ==
    ASSUME NEW W, NEW V, NEW r, IsFiniteSet(W), V \ {r} = W \ {r}
    PROVE  Cardinality(V) = Cardinality(W) + Bit(r \in V) - Bit(r \in W)
<1>1. Cardinality(W) \in Nat
  BY FS_CardinalityType
<1>2. CASE r \in V
  <2>1. V = W \cup {r}
    BY <1>2
  <2>2. QED  BY <1>1, <1>2, <2>1, FS_AddElement DEF Bit
<1>3. CASE r \notin V
  <2>1. V = W \ {r}
    BY <1>3
  <2>2. QED  BY <1>1, <1>3, <2>1, FS_RemoveElement DEF Bit
<1>4. QED  BY <1>2, <1>3

LEMMA WorkFinite ==
    ASSUME NEW s
    PROVE  /\ IsFiniteSet(Work(s)) /\ Cardinality(Work(s)) \in Nat
           /\ IsFiniteSet(Guards(s)) /\ Cardinality(Guards(s)) \in Nat
<1>1. Work(s) \in SUBSET Requests /\ Guards(s) \in SUBSET Requests
  BY DEF Work, Guards
<1>2. IsFiniteSet(Work(s)) /\ IsFiniteSet(Guards(s))
  BY <1>1, RequestsAssumption, FS_Subset
<1>3. QED  BY <1>2, FS_CardinalityType

\* The step of one request that keeps the counter: it moves by what the request's own
\* standing and the stylesheets move by.
LEMMA Moves ==
    ASSUME CInv, Typed', NEW r \in Requests, NEW s \in Sessions,
           from'[r] \in Origins, from'[r].session = s,
           from'[r] = from[r] \/ (~Working(r) /\ at[r] # "sheet"),
           \A q \in Requests \ {r} : UNCHANGED <<at[q], from[q], decision[q]>>,
           inFlight' \in [Sessions -> Int], sheets' \in [Sessions -> Nat],
           \A t \in Sessions \ {s} : UNCHANGED <<inFlight[t], sheets[t]>>,
           inFlight'[s] - inFlight[s] = sheets'[s] - sheets[s] + Bit(Working(r)') - Bit(Working(r))
                                           + Bit(at'[r] = "sheet") - Bit(at[r] = "sheet")
    PROVE  WorkIsCounted' /\ inFlight' \in [Sessions -> Nat]
<1>1. from'[r] # None
  BY NoneAssumption
<1>2. ASSUME NEW t \in Sessions
      PROVE  /\ Work(t)' \ {r} = Work(t) \ {r} /\ Guards(t)' \ {r} = Guards(t) \ {r}
             /\ r \in Work(t)' <=> t = s /\ Working(r)'
             /\ r \in Guards(t)' <=> t = s /\ at'[r] = "sheet"
             /\ r \in Work(t) <=> t = s /\ Working(r)
             /\ r \in Guards(t) <=> t = s /\ at[r] = "sheet"
  <2>1. ASSUME NEW q \in Requests \ {r}
        PROVE  (q \in Work(t)' <=> q \in Work(t)) /\ (q \in Guards(t)' <=> q \in Guards(t))
    BY <2>1 DEF Work, Guards, Of, Is
  <2>2. Work(t)' \ {r} = Work(t) \ {r} /\ Guards(t)' \ {r} = Guards(t) \ {r}
    BY <2>1 DEF Work, Guards
  <2>3. /\ r \in Work(t)' <=> t = s /\ Working(r)'
        /\ r \in Guards(t)' <=> t = s /\ at'[r] = "sheet"
    BY <1>1 DEF Work, Guards, Of, Is, Working
  <2>4. /\ r \in Work(t) <=> t = s /\ Working(r)
        /\ r \in Guards(t) <=> t = s /\ at[r] = "sheet"
    BY <1>1 DEF Work, Guards, Of, Is, Working
  <2>5. QED  BY <2>2, <2>3, <2>4
<1>3. inFlight \in [Sessions -> Nat] /\ sheets \in [Sessions -> Nat]
  BY DEF CInv, Sets
<1>4. ASSUME NEW t \in Sessions
      PROVE  /\ inFlight'[t] = Cardinality(Work(t)') + Cardinality(Guards(t)') + sheets'[t]
             /\ inFlight'[t] \in Nat
  <2>1. inFlight[t] = Cardinality(Work(t)) + Cardinality(Guards(t)) + sheets[t]
    BY DEF CInv, WorkIsCounted
  <2>2. /\ Cardinality(Work(t)) \in Nat /\ Cardinality(Work(t)') \in Nat
        /\ Cardinality(Guards(t)) \in Nat /\ Cardinality(Guards(t)') \in Nat
    <3>1. IsFiniteSet(Work(t)') /\ IsFiniteSet(Guards(t)')
      <4>1. Work(t)' \in SUBSET Requests /\ Guards(t)' \in SUBSET Requests
        BY DEF Work, Guards
      <4>2. QED  BY <4>1, RequestsAssumption, FS_Subset
    <3>2. QED  BY <3>1, WorkFinite, FS_CardinalityType
  <2>3. /\ Cardinality(Work(t)') =
              Cardinality(Work(t)) + Bit(r \in Work(t)') - Bit(r \in Work(t))
        /\ Cardinality(Guards(t)') =
              Cardinality(Guards(t)) + Bit(r \in Guards(t)') - Bit(r \in Guards(t))
    BY <1>2, WorkFinite, Recount
  <2>4. CASE t = s
    <3>1. inFlight'[t] \in Int /\ sheets'[t] \in Nat /\ inFlight[t] \in Nat /\ sheets[t] \in Nat
      BY <1>3
    <3>2. /\ Bit(r \in Work(t)') = Bit(Working(r)') /\ Bit(r \in Work(t)) = Bit(Working(r))
          /\ Bit(r \in Guards(t)') = Bit(at'[r] = "sheet")
          /\ Bit(r \in Guards(t)) = Bit(at[r] = "sheet")
      BY <1>2, <2>4 DEF Bit
    <3>3. /\ Bit(Working(r)') \in Int /\ Bit(Working(r)) \in Int
          /\ Bit(at'[r] = "sheet") \in Int /\ Bit(at[r] = "sheet") \in Int
      BY DEF Bit
    <3>4. inFlight'[t] = Cardinality(Work(t)') + Cardinality(Guards(t)') + sheets'[t]
      BY <2>1, <2>2, <2>3, <2>4, <3>1, <3>2, <3>3
    <3>5. QED  BY <2>2, <3>1, <3>4
  <2>5. CASE t # s
    <3>1. inFlight'[t] = inFlight[t] /\ sheets'[t] = sheets[t]
      BY <1>3, <2>5
    <3>2. /\ Cardinality(Work(t)') = Cardinality(Work(t))
          /\ Cardinality(Guards(t)') = Cardinality(Guards(t))
      BY <1>2, <2>2, <2>3, <2>5 DEF Bit
    <3>3. QED  BY <1>3, <2>1, <3>1, <3>2
  <2>6. QED  BY <2>4, <2>5
<1>5. inFlight' \in [Sessions -> Nat]
  BY <1>4
<1>6. WorkIsCounted'
  BY <1>4 DEF WorkIsCounted
<1>7. QED  BY <1>5, <1>6

\* A step of one request that leaves the counter and what it stands for alone.
LEMMA Steady ==
    ASSUME CInv, Typed', NEW r \in Requests, from'[r] \in Origins,
           from'[r] = from[r] \/ (~Working(r) /\ at[r] # "sheet"),
           \A q \in Requests \ {r} : UNCHANGED <<at[q], from[q], decision[q]>>,
           UNCHANGED <<inFlight, sheets>>,
           Working(r)' <=> Working(r), at'[r] = "sheet" <=> at[r] = "sheet"
    PROVE  WorkIsCounted' /\ inFlight' \in [Sessions -> Nat]
<1>1. PICK s \in Sessions : from'[r].session = s
  BY DEF Origins
<1>2. /\ inFlight' \in [Sessions -> Int] /\ sheets' \in [Sessions -> Nat]
      /\ inFlight[s] \in Int /\ sheets[s] \in Int
  BY DEF CInv, Sets
<1>3. inFlight'[s] - inFlight[s] = sheets'[s] - sheets[s] + Bit(Working(r)') - Bit(Working(r))
                                      + Bit(at'[r] = "sheet") - Bit(at[r] = "sheet")
  BY <1>2 DEF Bit
<1>4. QED  BY <1>1, <1>2, <1>3, Moves

\* Requests stay with those who can have them.
LEMMA StagedStep == CInv /\ Next => \A r \in Requests : Staged(r)'
<1> SUFFICES ASSUME CInv, Next, NEW q \in Requests PROVE Staged(q)'
  OBVIOUS
<1>1. Typed /\ Staged(q)
  BY DEF CInv, IInv
<1>2. ASSUME UNCHANGED <<at, from>> PROVE Staged(q)'
  BY <1>1, <1>2 DEF Staged
<1>3. ASSUME NEW r \in Requests, NEW to \in {"over", "replied", "paused", "decided"},
             at' = [at EXCEPT ![r] = to], from' = from, to = "replied" => Staged(r) /\ Is(r, Script)
      PROVE  Staged(q)'
  BY <1>1, <1>3 DEF Staged, Typed, Is
<1>4. ASSUME NEW c \in Conns,
             Disconnect(c) \/ \E withPatterns \in BOOLEAN : Enable(c, withPatterns)
      PROVE  Staged(q)'
  BY <1>2, <1>4 DEF Disconnect, Enable
<1>5. ASSUME NEW r \in Requests, NEW d \in Decisions, Decide(r, d) PROVE Staged(q)'
  BY <1>3, <1>5 DEF Decide, Reach
<1>6. ASSUME NEW r \in Requests, NEW s \in Sessions, NEW f \in Frames, NEW kind \in Script,
             NEW sync \in BOOLEAN, Issue(r, s, f, kind, sync)
      PROVE  Staged(q)'
  BY <1>1, <1>6 DEF Issue, Reach, Staged, Typed
<1>7. ASSUME NEW r \in Requests, NEW s \in Sessions, Navigate(r, s) PROVE Staged(q)'
  BY <1>1, <1>7 DEF Navigate, Reach, Staged, Typed
<1>8. ASSUME NEW s \in Sessions, NEW f \in Frames, Pump(s, f) PROVE Staged(q)'
  <2>1. /\ from' = from
        /\ at'[q] = at[q] \/ (at[q] \in {"replied", "deferred"} /\ at'[q] \in {"deferred", "over"})
    BY <1>8 DEF Pump
  <2>2. QED  BY <1>1, <2>1 DEF Staged
<1>9. ASSUME NEW r \in Requests,
             \/ Announce(r) \/ Abort(r) \/ Take(r) \/ Intercept(r) \/ Obey(r) \/ Answered(r)
             \/ Load(r) \/ Stylesheet(r) \/ StylesheetCame(r) \/ Loaded(r)
      PROVE  Staged(q)'
  <2>1. Staged(r)
    BY DEF CInv
  <2>2. CASE Announce(r) \/ Abort(r)
    BY <1>2, <2>2 DEF Announce, Abort
  <2>3. CASE Take(r) \/ Answered(r) \/ Intercept(r)
    BY <1>1, <2>1, <2>3 DEF Take, Answered, Intercept, Respond, Reach, Staged, Typed
  <2>4. CASE Obey(r)
    BY <1>1, <2>1, <2>4 DEF Obey, Respond, Reach, Staged, Typed, Is
  <2>5. CASE Load(r)
    BY <1>1, <2>1, <2>5 DEF Load, Reach, Staged, Typed, Is, Script
  <2>6. CASE Stylesheet(r) \/ StylesheetCame(r) \/ Loaded(r)
    BY <1>1, <2>1, <2>6 DEF Stylesheet, StylesheetCame, Loaded, Reach, Staged, Typed
  <2>7. QED  BY <1>9, <2>2, <2>3, <2>4, <2>5, <2>6
<1>10. QED  BY <1>4, <1>5, <1>6, <1>7, <1>8, <1>9 DEF Next

\* A thread goes on waiting for its own request, whatever other threads do.
LEMMA WaitsStep == CInv /\ Next => \A s \in Sessions : Waits(s)'
<1> SUFFICES ASSUME CInv, Next, NEW t \in Sessions PROVE Waits(t)'
  OBVIOUS
<1>1. Typed /\ Waits(t) /\ blocked \in [Sessions -> Requests \cup {None}]
  BY DEF CInv, IInv, Sets
<1>2. ASSUME UNCHANGED <<blocked, pending>>,
             \A r \in pending : from'[r] = from[r]
      PROVE  Waits(t)'
  BY <1>1, <1>2 DEF Waits, Of
<1>3. \A r \in Requests : at[r] = "none" => r \notin pending
  BY DEF CInv, IInv, Origin
<1>4. ASSUME NEW r \in Requests, NEW s \in Sessions, NEW f \in Frames, NEW kind \in Script,
             NEW sync \in BOOLEAN, Issue(r, s, f, kind, sync)
      PROVE  Waits(t)'
  <2>1. /\ pending' = pending \cup {r} /\ r \notin pending
        /\ from' = [from EXCEPT ![r] = [session |-> s, kind |-> kind, frame |-> f]]
        /\ blocked' = IF sync THEN [blocked EXCEPT ![s] = r] ELSE blocked
    BY <1>3, <1>4 DEF Issue
  <2>2. [session |-> s, kind |-> kind, frame |-> f] \in Origins
    BY DEF Origins, Kinds, Script
  <2>3. CASE sync /\ t = s
    BY <1>1, <2>1, <2>2, <2>3, NoneAssumption DEF Waits, Of, Typed
  <2>4. CASE ~sync \/ t # s
    <3>1. blocked'[t] = blocked[t]
      BY <1>1, <2>1, <2>4
    <3>2. blocked[t] # None => blocked[t] \in pending /\ blocked[t] # r
      BY <1>1, <2>1 DEF Waits
    <3>3. QED  BY <1>1, <2>1, <3>1, <3>2 DEF Waits, Of, Typed
  <2>5. QED  BY <2>3, <2>4
<1>5. ASSUME NEW s \in Sessions, NEW f \in Frames, Pump(s, f) PROVE Waits(t)'
  <2>1. /\ from' = from /\ blocked' = [blocked EXCEPT ![s] = None]
        /\ \A r \in pending : ~Of(s, r) => r \in pending'
    BY <1>5 DEF Pump
  <2>2. CASE t = s
    BY <1>1, <2>1, <2>2 DEF Waits
  <2>3. CASE t # s
    BY <1>1, <2>1, <2>3 DEF Waits, Of
  <2>4. QED  BY <2>2, <2>3
<1>6. ASSUME NEW r \in Requests, NEW s \in Sessions, Navigate(r, s) PROVE Waits(t)'
  BY <1>1, <1>2, <1>3, <1>6 DEF Navigate, page, Typed
<1>7. QED
  BY <1>2, <1>4, <1>5, <1>6
     DEF Next, Disconnect, Enable, Decide, Announce, Abort, Take, Intercept, Obey, Answered,
         Load, Stylesheet, StylesheetCame, Loaded, page

\* The step of one request that has been issued, if the counter takes what it should.
LEMMA Tallies ==
    ASSUME CInv, Typed', NEW r \in Requests, at[r] # "none", UNCHANGED from,
           \A q \in Requests \ {r} : UNCHANGED <<at[q], decision[q]>>,
           inFlight' \in [Sessions -> Int], sheets' \in [Sessions -> Nat],
           \A t \in Sessions \ {from[r].session} : UNCHANGED <<inFlight[t], sheets[t]>>,
           inFlight'[from[r].session] - inFlight[from[r].session] =
               sheets'[from[r].session] - sheets[from[r].session]
                 + Bit(Working(r)') - Bit(Working(r)) + Bit(at'[r] = "sheet") - Bit(at[r] = "sheet")
    PROVE  WorkIsCounted' /\ inFlight' \in [Sessions -> Nat]
<1>1. from'[r] = from[r] /\ from[r] \in Origins /\ from[r].session \in Sessions
  BY DEF CInv, IInv, Origin, Origins
<1>2. \A q \in Requests \ {r} : UNCHANGED <<at[q], from[q], decision[q]>>
  OBVIOUS
<1>3. QED  BY <1>1, <1>2, Moves

\* A request is counted on ...
LEMMA CountedOn ==
    ASSUME CInv, Typed', NEW r \in Requests, NEW to, at' = [at EXCEPT ![r] = to],
           at[r] \notin {"none", "sheet"}, to # "sheet", UNCHANGED <<from, decision, sheets>>,
           inFlight' = [inFlight EXCEPT ![from[r].session] = @ + 1],
           ~Working(r), Working(r)'
    PROVE  WorkIsCounted' /\ inFlight' \in [Sessions -> Nat] /\ sheets' \in [Sessions -> Nat]
<1>1. /\ from[r].session \in Sessions /\ at \in [Requests -> Stages]
      /\ inFlight \in [Sessions -> Nat] /\ sheets \in [Sessions -> Nat]
  BY DEF CInv, IInv, Sets, Typed, Origin, Origins
<1>2. /\ inFlight' \in [Sessions -> Int]
      /\ \A t \in Sessions \ {from[r].session} : UNCHANGED <<inFlight[t], sheets[t]>>
      /\ inFlight'[from[r].session] - inFlight[from[r].session] = 1
      /\ sheets'[from[r].session] - sheets[from[r].session] = 0
  BY <1>1
<1>3. /\ Bit(Working(r)') = 1 /\ Bit(Working(r)) = 0
      /\ Bit(at'[r] = "sheet") = 0 /\ Bit(at[r] = "sheet") = 0
  BY <1>1 DEF Bit
<1>4. \A q \in Requests \ {r} : UNCHANGED <<at[q], decision[q]>>
  BY <1>1
<1>5. inFlight'[from[r].session] - inFlight[from[r].session] =
           sheets'[from[r].session] - sheets[from[r].session]
             + Bit(Working(r)') - Bit(Working(r)) + Bit(at'[r] = "sheet") - Bit(at[r] = "sheet")
  <2>1. sheets'[from[r].session] - sheets[from[r].session]
          + Bit(Working(r)') - Bit(Working(r)) + Bit(at'[r] = "sheet") - Bit(at[r] = "sheet")
        = 0 + 1 - 0 + 0 - 0
    BY <1>2, <1>3, Zenon
  <2>2. 0 + 1 - 0 + 0 - 0 = 1
    OBVIOUS
  <2>3. QED  BY <1>2, <2>1, <2>2
<1>6. QED  BY <1>1, <1>2, <1>4, <1>5, Tallies

\* ... and off.
LEMMA CountedOff ==
    ASSUME CInv, Typed', NEW r \in Requests, NEW to, at' = [at EXCEPT ![r] = to],
           at[r] \notin {"none", "sheet"}, to # "sheet", UNCHANGED <<from, decision, sheets>>,
           inFlight' = [inFlight EXCEPT ![from[r].session] = @ - 1],
           Working(r), ~Working(r)'
    PROVE  WorkIsCounted' /\ inFlight' \in [Sessions -> Nat] /\ sheets' \in [Sessions -> Nat]
<1>1. /\ from[r].session \in Sessions /\ at \in [Requests -> Stages]
      /\ inFlight \in [Sessions -> Nat] /\ sheets \in [Sessions -> Nat]
  BY DEF CInv, IInv, Sets, Typed, Origin, Origins
<1>2. /\ inFlight' \in [Sessions -> Int]
      /\ \A t \in Sessions \ {from[r].session} : UNCHANGED <<inFlight[t], sheets[t]>>
      /\ inFlight'[from[r].session] - inFlight[from[r].session] = -1
      /\ sheets'[from[r].session] - sheets[from[r].session] = 0
  BY <1>1
<1>3. /\ Bit(Working(r)') = 0 /\ Bit(Working(r)) = 1
      /\ Bit(at'[r] = "sheet") = 0 /\ Bit(at[r] = "sheet") = 0
  BY <1>1 DEF Bit
<1>4. \A q \in Requests \ {r} : UNCHANGED <<at[q], decision[q]>>
  BY <1>1
<1>5. inFlight'[from[r].session] - inFlight[from[r].session] =
           sheets'[from[r].session] - sheets[from[r].session]
             + Bit(Working(r)') - Bit(Working(r)) + Bit(at'[r] = "sheet") - Bit(at[r] = "sheet")
  <2>1. sheets'[from[r].session] - sheets[from[r].session]
          + Bit(Working(r)') - Bit(Working(r)) + Bit(at'[r] = "sheet") - Bit(at[r] = "sheet")
        = 0 + 0 - 1 + 0 - 0
    BY <1>2, <1>3, Zenon
  <2>2. 0 + 0 - 1 + 0 - 0 = -1
    OBVIOUS
  <2>3. QED  BY <1>2, <2>1, <2>2
<1>6. QED  BY <1>1, <1>2, <1>4, <1>5, Tallies

\* A request goes on as it was counted.
LEMMA CountedStill ==
    ASSUME CInv, Typed', NEW r \in Requests, NEW to, at' = [at EXCEPT ![r] = to],
           at[r] \notin {"none", "sheet"}, to # "sheet", UNCHANGED <<from, inFlight, sheets>>,
           \A q \in Requests \ {r} : UNCHANGED decision[q],
           Working(r)' <=> Working(r)
    PROVE  WorkIsCounted' /\ inFlight' \in [Sessions -> Nat] /\ sheets' \in [Sessions -> Nat]
<1>1. at \in [Requests -> Stages] /\ from'[r] \in Origins /\ sheets \in [Sessions -> Nat]
  BY DEF CInv, IInv, Sets, Typed, Origin
<1>2. \A q \in Requests \ {r} : UNCHANGED <<at[q], from[q], decision[q]>>
  BY <1>1
<1>3. at'[r] = "sheet" <=> at[r] = "sheet"
  BY <1>1
<1>4. QED  BY <1>1, <1>2, <1>3, Steady

\* Steps that leave the requests that are counted, and the counter, as they are.
LEMMA Uncounted ==
    ASSUME CInv, UNCHANGED <<from, decision, inFlight, sheets>>,
           \A q \in Requests : \/ at'[q] = at[q]
                              \/ {at[q], at'[q]} \subseteq {"replied", "deferred", "over"}
    PROVE  WorkIsCounted' /\ inFlight' \in [Sessions -> Nat] /\ sheets' \in [Sessions -> Nat]
<1>1. ASSUME NEW s \in Sessions PROVE Work(s)' = Work(s) /\ Guards(s)' = Guards(s)
  BY DEF Work, Guards, Of, Is
<1>2. QED  BY <1>1 DEF CInv, Sets, WorkIsCounted

\* The counter moves with the requests.
LEMMA CountStep ==
    CInv /\ Next => WorkIsCounted' /\ inFlight' \in [Sessions -> Nat] /\ sheets' \in [Sessions -> Nat]
<1> DEFINE Goal == WorkIsCounted' /\ inFlight' \in [Sessions -> Nat] /\ sheets' \in [Sessions -> Nat]
<1> SUFFICES ASSUME CInv, Next PROVE Goal
  OBVIOUS
<1>1. Typed /\ Typed' /\ sheets \in [Sessions -> Nat]
  BY NextIInv DEF CInv, IInv, Sets
<1>2. \A r \in Requests : at[r] # "none" => from[r] \in Origins /\ from[r] # None
  BY NoneAssumption DEF CInv, IInv, Origin
<1>3. \A r \in Requests : Staged(r)
  BY DEF CInv
<1>4. ASSUME NEW c \in Conns,
             Disconnect(c) \/ \E withPatterns \in BOOLEAN : Enable(c, withPatterns)
      PROVE  Goal
  BY <1>4, Uncounted DEF Disconnect, Enable, history
<1>5. ASSUME NEW r \in Requests, NEW d \in Decisions, Decide(r, d) PROVE Goal
  <2>1. /\ at[r] = "paused" /\ at' = [at EXCEPT ![r] = "decided"] /\ UNCHANGED <<from, inFlight, sheets>>
        /\ decision' = [decision EXCEPT ![r] = d]
    BY <1>5 DEF Decide, Reach, history, CInv, IInv, Standing
  <2>2. Working(r)' <=> Working(r)
    BY <1>1, <2>1 DEF Working, Typed
  <2>3. QED  BY <1>1, <1>2, <2>1, <2>2, Steady DEF Typed
<1>6. ASSUME NEW r \in Requests, NEW s \in Sessions, NEW f \in Frames, NEW kind \in Script,
             NEW sync \in BOOLEAN, Issue(r, s, f, kind, sync)
      PROVE  Goal
  <2>1. /\ at[r] = "none" /\ at' = [at EXCEPT ![r] = "queued"]
        /\ from' = [from EXCEPT ![r] = [session |-> s, kind |-> kind, frame |-> f]]
        /\ UNCHANGED <<decision, inFlight, sheets>>
    BY <1>6 DEF Issue, Reach, history
  <2>2. from'[r] \in Origins /\ at'[r] = "queued"
    BY <1>1, <2>1 DEF Typed, Origins, Kinds, Script
  <2>3. ~Working(r)'
    BY <2>2 DEF Working
  <2>4. \A q \in Requests \ {r} : UNCHANGED <<at[q], from[q], decision[q]>>
    BY <1>1, <2>1 DEF Typed
  <2>5. ~Working(r)
    BY <2>1 DEF Working
  <2>6. (at'[r] = "sheet" <=> at[r] = "sheet") /\ at[r] # "sheet"
    BY <2>1, <2>2
  <2>7. QED  BY <1>1, <2>1, <2>2, <2>3, <2>4, <2>5, <2>6, Steady
<1>7. ASSUME NEW r \in Requests, NEW s \in Sessions, Navigate(r, s) PROVE Goal
  <2>1. /\ at[r] = "none"
        /\ from' = [from EXCEPT ![r] = [session |-> s, kind |-> "nav", frame |-> None]]
        /\ at' = [at EXCEPT ![r] = "paused"] \/ at' = [at EXCEPT ![r] = "decided"]
        /\ UNCHANGED <<decision, inFlight, sheets>>
    BY <1>7 DEF Navigate, Reach, history
  <2>2. from'[r] \in Origins /\ from'[r].kind \notin Script /\ at'[r] \in {"paused", "decided"}
    BY <1>1, <2>1 DEF Typed, Origins, Kinds, Script
  <2>3. ~Working(r)'
    BY <2>2 DEF Working
  <2>4. \A q \in Requests \ {r} : UNCHANGED <<at[q], from[q], decision[q]>>
    BY <1>1, <2>1 DEF Typed
  <2>5. ~Working(r)
    BY <2>1 DEF Working
  <2>6. (at'[r] = "sheet" <=> at[r] = "sheet") /\ at[r] # "sheet"
    BY <2>1, <2>2
  <2>7. QED  BY <1>1, <2>1, <2>2, <2>3, <2>4, <2>5, <2>6, Steady
<1>8. ASSUME NEW s \in Sessions, NEW f \in Frames, Pump(s, f) PROVE Goal
  <2>1. \A q \in Requests : \/ at'[q] = at[q]
                           \/ {at[q], at'[q]} \subseteq {"replied", "deferred", "over"}
    BY <1>8 DEF Pump
  <2>2. QED  BY <1>8, <2>1, Uncounted DEF Pump
<1>9. ASSUME NEW r \in Requests, Announce(r) \/ Abort(r) PROVE Goal
  BY <1>9, Uncounted DEF Announce, Abort, history
<1>10. ASSUME NEW r \in Requests, Take(r) PROVE Goal
  <2>1. /\ at[r] = "queued" /\ at' = [at EXCEPT ![r] = "task"] /\ UNCHANGED <<from, decision, sheets>>
        /\ inFlight' = [inFlight EXCEPT ![from[r].session] = @ + 1]
    BY <1>10 DEF Take, Reach, InFlight, history
  <2>2. ~Working(r) /\ Working(r)'
    BY <1>1, <1>2, <1>3, <2>1 DEF Working, Staged, Typed
  <2>3. QED  BY <1>1, <2>1, <2>2, CountedOn
<1>11. ASSUME NEW r \in Requests, Intercept(r) PROVE Goal
  <2>1. at[r] = "task" /\ UNCHANGED <<from, decision, sheets>>
    BY <1>11 DEF Intercept
  <2>2. Working(r)
    BY <1>2, <1>3, <2>1 DEF Working, Staged
  <2>3. CASE Respond(r, "offline")
    <3>1. /\ at' = [at EXCEPT ![r] = "replied"]
          /\ inFlight' = [inFlight EXCEPT ![from[r].session] = @ - 1]
      BY <2>3 DEF Respond, Reach, Ends
    <3>2. ~Working(r)'
      BY <1>1, <1>2, <1>3, <2>1, <3>1 DEF Working, Staged, Typed
    <3>3. QED  BY <1>1, <2>1, <2>2, <3>1, <3>2, CountedOff
  <2>4. ASSUME NEW to \in {"paused", "sent"}, Reach(r, to), UNCHANGED inFlight PROVE Goal
    <3>1. at' = [at EXCEPT ![r] = to]
      BY <2>4 DEF Reach
    <3>2. Working(r)'
      BY <1>1, <1>2, <1>3, <2>1, <2>4, <3>1 DEF Working, Staged, Typed
    <3>3. QED  BY <1>1, <2>1, <2>2, <2>4, <3>1, <3>2, CountedStill
  <2>5. QED  BY <1>11, <2>3, <2>4 DEF Intercept
<1>12. ASSUME NEW r \in Requests, Obey(r) PROVE Goal
  <2>1. at[r] = "decided" /\ from[r].kind \in Script /\ UNCHANGED <<from, decision, sheets>>
    BY <1>12 DEF Obey, Is
  <2>2. Working(r)
    BY <1>2, <2>1 DEF Working
  <2>3. CASE Reach(r, "sent") /\ UNCHANGED inFlight
    <3>1. at' = [at EXCEPT ![r] = "sent"]
      BY <2>3 DEF Reach
    <3>2. Working(r)'
      BY <1>1, <1>2, <2>1, <3>1 DEF Working, Typed
    <3>3. QED  BY <1>1, <2>1, <2>2, <2>3, <3>1, <3>2, CountedStill
  <2>4. CASE Reach(r, "replied") /\ Ends(from[r].session)
    <3>1. /\ at' = [at EXCEPT ![r] = "replied"]
          /\ inFlight' = [inFlight EXCEPT ![from[r].session] = @ - 1]
      BY <2>4 DEF Reach, Ends
    <3>2. ~Working(r)'
      BY <1>1, <2>1, <3>1 DEF Working, Typed
    <3>3. QED  BY <1>1, <2>1, <2>2, <3>1, <3>2, CountedOff
  <2>5. QED  BY <1>12, <2>3, <2>4 DEF Obey, Respond
<1>13. ASSUME NEW r \in Requests, Answered(r) PROVE Goal
  <2>1. /\ at[r] = "sent" /\ at' = [at EXCEPT ![r] = "replied"] /\ UNCHANGED <<from, decision, sheets>>
        /\ inFlight' = [inFlight EXCEPT ![from[r].session] = @ - 1]
    BY <1>13 DEF Answered, Respond, Reach, Ends, history
  <2>2. Working(r) /\ ~Working(r)'
    BY <1>1, <1>2, <1>3, <2>1 DEF Working, Staged, Typed
  <2>3. QED  BY <1>1, <2>1, <2>2, CountedOff
<1>14. ASSUME NEW r \in Requests, Load(r) PROVE Goal
  <2>1. /\ at[r] = "decided" /\ from[r].kind \notin Script /\ UNCHANGED <<from, decision, sheets>>
    BY <1>14 DEF Load, Is, Script
  <2>2. ~Working(r)
    BY <2>1 DEF Working
  <2>3. ASSUME NEW to \in {"over", "loading"}, Reach(r, to), UNCHANGED inFlight,
               to = "loading" => decision[r] = "fulfill"
        PROVE  Goal
    <3>1. at' = [at EXCEPT ![r] = to]
      BY <2>3 DEF Reach
    <3>2. ~Working(r)'
      BY <1>1, <2>1, <2>3, <3>1 DEF Working, Typed
    <3>3. QED  BY <1>1, <2>1, <2>2, <2>3, <3>1, <3>2, CountedStill
  <2>4. CASE /\ Reach(r, "loading") /\ InFlight(from[r].session, 1)
             /\ decision[r] \in {"continue", None}
    <3>1. /\ at' = [at EXCEPT ![r] = "loading"]
          /\ inFlight' = [inFlight EXCEPT ![from[r].session] = @ + 1]
      BY <2>4 DEF Reach, InFlight
    <3>2. Working(r)'
      BY <1>1, <1>2, <2>1, <2>4, <3>1, NoneAssumption DEF Working, Typed, Decisions
    <3>3. QED  BY <1>1, <2>1, <2>2, <3>1, <3>2, CountedOn
  <2>5. QED  BY <1>14, <2>3, <2>4 DEF Load
<1>15. ASSUME NEW r \in Requests, Loaded(r) PROVE Goal
  <2>1. /\ at[r] = "loading" /\ at' = [at EXCEPT ![r] = "over"] /\ UNCHANGED <<from, decision, sheets>>
        /\ IF decision[r] = "fulfill" THEN UNCHANGED inFlight
           ELSE inFlight' = [inFlight EXCEPT ![from[r].session] = @ - 1]
    BY <1>15 DEF Loaded, Reach, Ends, history
  <2>2. ~Working(r)' /\ (Working(r) <=> decision[r] # "fulfill")
    BY <1>1, <1>2, <1>3, <2>1 DEF Working, Staged, Typed
  <2>3. CASE decision[r] = "fulfill"
    BY <1>1, <2>1, <2>2, <2>3, CountedStill
  <2>4. CASE decision[r] # "fulfill"
    BY <1>1, <2>1, <2>2, <2>4, CountedOff
  <2>5. QED  BY <2>3, <2>4
<1>16. ASSUME NEW r \in Requests, Stylesheet(r) PROVE Goal
  <2> DEFINE t == from[r].session
  <2>1. /\ at[r] = "loading" /\ at' = [at EXCEPT ![r] = "sheet"] /\ UNCHANGED <<from, decision>>
        /\ inFlight' = [inFlight EXCEPT ![t] = @ + 2] /\ sheets' = [sheets EXCEPT ![t] = @ + 1]
    BY <1>16 DEF Stylesheet, Reach, InFlight
  <2>2. t \in Sessions /\ inFlight \in [Sessions -> Nat] /\ sheets \in [Sessions -> Nat]
    BY <1>2, <2>1 DEF Origins, CInv, Sets
  <2>3. /\ inFlight' \in [Sessions -> Int] /\ sheets' \in [Sessions -> Nat]
        /\ \A u \in Sessions \ {t} : UNCHANGED <<inFlight[u], sheets[u]>>
        /\ inFlight'[t] - inFlight[t] = 2 /\ sheets'[t] - sheets[t] = 1
    BY <2>1, <2>2
  <2>4. Bit(Working(r)') = Bit(Working(r)) /\ Bit(Working(r)) \in Int
    BY <1>1, <1>2, <1>3, <2>1 DEF Bit, Working, Staged, Typed
  <2>5. /\ Bit(at'[r] = "sheet") = 1 /\ Bit(at[r] = "sheet") = 0
        /\ \A q \in Requests \ {r} : UNCHANGED <<at[q], decision[q]>>
    BY <1>1, <2>1 DEF Bit, Typed
  <2>6. inFlight'[t] - inFlight[t] = sheets'[t] - sheets[t] + Bit(Working(r)') - Bit(Working(r))
                                        + Bit(at'[r] = "sheet") - Bit(at[r] = "sheet")
    BY <2>3, <2>4, <2>5
  <2>7. QED  BY <1>1, <2>1, <2>3, <2>5, <2>6, Tallies
<1>17. ASSUME NEW r \in Requests, StylesheetCame(r) PROVE Goal
  <2> DEFINE t == from[r].session
  <2>1. /\ at[r] = "sheet" /\ at' = [at EXCEPT ![r] = "loading"] /\ UNCHANGED <<from, decision, sheets>>
        /\ inFlight' = [inFlight EXCEPT ![t] = @ - 1]
    BY <1>17 DEF StylesheetCame, Reach, Ends, history
  <2>2. t \in Sessions /\ inFlight \in [Sessions -> Nat] /\ sheets \in [Sessions -> Nat]
    BY <1>2, <2>1 DEF Origins, CInv, Sets
  <2>3. /\ inFlight' \in [Sessions -> Int] /\ sheets' \in [Sessions -> Nat]
        /\ \A u \in Sessions \ {t} : UNCHANGED <<inFlight[u], sheets[u]>>
        /\ inFlight'[t] - inFlight[t] = -1 /\ sheets'[t] - sheets[t] = 0
    BY <2>1, <2>2
  <2>4. Bit(Working(r)') = Bit(Working(r)) /\ Bit(Working(r)) \in Int
    BY <1>1, <1>2, <1>3, <2>1 DEF Bit, Working, Staged, Typed
  <2>5. /\ Bit(at'[r] = "sheet") = 0 /\ Bit(at[r] = "sheet") = 1
        /\ \A q \in Requests \ {r} : UNCHANGED <<at[q], decision[q]>>
    BY <1>1, <2>1 DEF Bit, Typed
  <2>6. inFlight'[t] - inFlight[t] = sheets'[t] - sheets[t] + Bit(Working(r)') - Bit(Working(r))
                                        + Bit(at'[r] = "sheet") - Bit(at[r] = "sheet")
    BY <2>3, <2>4, <2>5
  <2>7. QED  BY <1>1, <2>1, <2>3, <2>5, <2>6, Tallies
<1>18. QED
  BY <1>4, <1>5, <1>6, <1>7, <1>8, <1>9, <1>10, <1>11, <1>12, <1>13, <1>14, <1>15, <1>16, <1>17
     DEF Next

\* The rest of the types.
LEMMA SetsStep ==
    CInv /\ Next => /\ connected' \subseteq Conns /\ enabled' \subseteq Conns /\ patterns' \in BOOLEAN
                    /\ announced' \subseteq Requests
                    /\ blocked' \in [Sessions -> Requests \cup {None}]
<1> SUFFICES ASSUME CInv, Next
             PROVE  /\ connected' \subseteq Conns /\ enabled' \subseteq Conns /\ patterns' \in BOOLEAN
                    /\ announced' \subseteq Requests
                    /\ blocked' \in [Sessions -> Requests \cup {None}]
  OBVIOUS
<1> DEFINE Goal == /\ connected' \subseteq Conns /\ enabled' \subseteq Conns /\ patterns' \in BOOLEAN
                   /\ announced' \subseteq Requests
                   /\ blocked' \in [Sessions -> Requests \cup {None}]
<1>1. Sets
  BY DEF CInv
<1>2. ASSUME UNCHANGED <<client, announced, blocked>> PROVE Goal
  BY <1>1, <1>2 DEF Sets, client
<1>3. ASSUME NEW c \in Conns,
             Disconnect(c) \/ \E withPatterns \in BOOLEAN : Enable(c, withPatterns)
      PROVE  Goal
  BY <1>1, <1>3 DEF Sets, Disconnect, Enable, page
<1>4. ASSUME NEW r \in Requests, NEW s \in Sessions, NEW f \in Frames, NEW kind \in Script,
             NEW sync \in BOOLEAN, Issue(r, s, f, kind, sync)
      PROVE  Goal
  BY <1>1, <1>4 DEF Sets, Issue, client
<1>5. ASSUME NEW r \in Requests, Announce(r) PROVE Goal
  BY <1>1, <1>5 DEF Sets, Announce, client, page
<1>6. ASSUME NEW r \in Requests, NEW s \in Sessions, Navigate(r, s) PROVE Goal
  BY <1>1, <1>6 DEF Sets, Navigate, client, page
<1>7. ASSUME NEW s \in Sessions, NEW f \in Frames, Pump(s, f) PROVE Goal
  BY <1>1, <1>7 DEF Sets, Pump, client
<1>8. ASSUME NEW r \in Requests, NEW d \in Decisions, Decide(r, d) PROVE Goal
  BY <1>2, <1>8 DEF Decide, page
<1>9. ASSUME NEW r \in Requests, Abort(r) PROVE Goal
  BY <1>2, <1>9 DEF Abort
<1>10. ASSUME NEW r \in Requests,
              \/ Take(r) \/ Intercept(r) \/ Obey(r) \/ Answered(r)
              \/ Load(r) \/ Stylesheet(r) \/ StylesheetCame(r) \/ Loaded(r)
       PROVE  Goal
  <2>1. UNCHANGED <<client, announced, page>>
    BY <1>10 DEF Take, Intercept, Obey, Answered, Load, Stylesheet, StylesheetCame, Loaded
  <2>2. QED  BY <1>2, <2>1 DEF page
<1> HIDE DEF Goal
<1>11. Goal
  BY <1>3, <1>4, <1>5, <1>6, <1>7, <1>8, <1>9, <1>10 DEF Next
<1>12. QED  BY <1>11 DEF Goal

LEMMA NextCInv == CInv /\ [Next]_vars => CInv'
<1> SUFFICES ASSUME CInv, [Next]_vars PROVE CInv'
  OBVIOUS
<1>1. CASE Next
  BY <1>1, NextIInv, SetsStep, CountStep, StagedStep, WaitsStep DEF CInv, Sets
<1>2. CASE UNCHANGED vars
  <2>1. IInv' /\ Sets' /\ (\A r \in Requests : Staged(r)') /\ (\A s \in Sessions : Waits(s)')
    BY <1>2, NextIInv DEF CInv, Sets, Staged, Waits, Of, vars, client, page, history
  <2>2. WorkIsCounted'
    BY <1>2, Uncounted DEF vars, history
  <2>3. QED  BY <2>1, <2>2 DEF CInv
<1>3. QED  BY <1>1, <1>2

THEOREM CountInvariance == Spec => []CInv
BY InitCInv, NextCInv, PTL DEF Spec

\* The registry holds the paused requests and no others, and a thread waits only for a
\* request that is still open.
THEOREM TypeCorrect == Spec => []TypeOK
<1>1. CInv => TypeOK
  <2> SUFFICES ASSUME CInv PROVE TypeOK
    OBVIOUS
  <2>1. registry = {r \in Requests : at[r] = "paused"}
    BY DEF CInv, IInv, Typed, Standing
  <2>2. QED  BY <2>1 DEF CInv, IInv, Typed, Sets, Waits, TypeOK
<1>2. QED  BY <1>1, CountInvariance, PTL

\* However requests, decisions, aborts and navigations interleave, the counter that
\* NetworkIdle reads is the work there is and the stylesheets fetched (in_flight).
THEOREM Counted == Spec => []WorkIsCounted
<1>1. CInv => WorkIsCounted
  BY DEF CInv
<1>2. QED  BY <1>1, CountInvariance, PTL
=============================================================================
