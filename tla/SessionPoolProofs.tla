--------------------------- MODULE SessionPoolProofs ---------------------------
(***************************************************************************)
(* Theorems about SessionPool, for any limit and any finite number of      *)
(* sessions and callers: the type invariant, the exactness of the tab      *)
(* counter, that no open session is lost from sight, and the bound on what *)
(* concurrent callers can add beyond the limit.  The second part is about  *)
(* CdpTargets, which is built on the pool: the registries of any number of *)
(* connections agree with the sessions of the browser, a child target is   *)
(* not replaced by the default session, a session is not closed under a    *)
(* command, and the server drives the pool as its specification says.      *)
(***************************************************************************)
EXTENDS CdpTargets, FiniteSetTheorems, TLAPS

\* Sessions in the list are there because they were created as such, not as tabs,
\* and nothing is to be closed before the list has been drained.
Apart ==
    /\ \A s \in pool \cup draining : session[s] # "none" /\ s \notin tabs
    /\ browser # "closed" => draining = {}

\* The inductive invariant.
IInv ==
    /\ PoolTypeOK /\ Apart
    /\ TabsCounted
    /\ OpenSessionsAreListed
    /\ BoundedOvershoot

-----------------------------------------------------------------------------
(* Sizes *)

LEMMA FiniteSubset ==
    ASSUME NEW S, IsFiniteSet(S), NEW T, T \subseteq S
    PROVE  IsFiniteSet(T) /\ Cardinality(T) \in Nat /\ Cardinality(T) <= Cardinality(S)
BY FS_Subset, FS_CardinalityType

LEMMA Sizes ==
    ASSUME PoolTypeOK
    PROVE  /\ IsFiniteSet(pool) /\ Cardinality(pool) \in Nat
           /\ IsFiniteSet(tabs) /\ Cardinality(tabs) \in Nat
           /\ IsFiniteSet(InProgress) /\ Cardinality(InProgress) \in Nat
           /\ Cardinality(Openers) \in Nat
           /\ Cardinality(InProgress) <= Cardinality(Openers)
<1>1. InProgress \subseteq Openers
  BY DEF InProgress
<1>2. pool \subseteq Sessions /\ tabs \subseteq Sessions
  BY DEF PoolTypeOK
<1>3. QED
  BY <1>1, <1>2, FiniteSubset, SessionsAssumption, OpenersAssumption, FS_CardinalityType

\* A set with one element more has at most one more, and exactly one more when the
\* element is new.
LEMMA SizeWithOneMore ==
    ASSUME NEW S, IsFiniteSet(S), NEW x
    PROVE  /\ Cardinality(S \cup {x}) \in Nat
           /\ Cardinality(S \cup {x}) <= Cardinality(S) + 1
           /\ x \notin S => Cardinality(S \cup {x}) = Cardinality(S) + 1
<1>1. Cardinality(S) \in Nat
  BY FS_CardinalityType
<1>2. CASE x \in S
  <2>1. S \cup {x} = S
    BY <1>2
  <2>2. Cardinality(S \cup {x}) = Cardinality(S)
    BY <2>1
  <2>3. QED  BY <1>1, <1>2, <2>2
<1>3. CASE x \notin S
  <2>1. Cardinality(S \cup {x}) = Cardinality(S) + 1
    BY <1>3, FS_AddElement
  <2>2. QED  BY <1>1, <2>1
<1>4. QED  BY <1>2, <1>3

\* A set without one of its elements has one less.
LEMMA SizeWithOneLess ==
    ASSUME NEW S, IsFiniteSet(S), NEW x \in S
    PROVE  IsFiniteSet(S \ {x}) /\ Cardinality(S \ {x}) = Cardinality(S) - 1
<1>1. IsFiniteSet(S \ {x})
  BY FS_RemoveElement
<1>2. Cardinality(S \ {x}) = Cardinality(S) - 1
  BY FS_RemoveElement
<1>3. QED  BY <1>1, <1>2

\* An opener that gets what it asked for is no longer in progress.
LEMMA OpenerDone ==
    ASSUME PoolTypeOK, NEW o \in Openers, opening[o] # "no",
           opening' = [opening EXCEPT ![o] = "no"]
    PROVE  Cardinality(InProgress') = Cardinality(InProgress) - 1
<1>1. InProgress' = InProgress \ {o} /\ o \in InProgress
  BY DEF InProgress, PoolTypeOK
<1>2. IsFiniteSet(InProgress)
  BY Sizes
<1>3. QED
  BY <1>1, <1>2, SizeWithOneLess

\* A step that admits nobody and adds nothing keeps the bound.
LEMMA NothingAdded ==
    ASSUME IInv, UNCHANGED <<tabCount, opening>>, pool' \subseteq pool
    PROVE  BoundedOvershoot'
<1>1. Cardinality(pool') \in Nat /\ Cardinality(pool') <= Cardinality(pool)
  BY Sizes, FiniteSubset DEF IInv
<1>2. InProgress' = InProgress
  BY DEF InProgress
<1>3. tabCount \in Nat /\ MaxSessions \in Nat
  BY MaxAssumption DEF IInv, PoolTypeOK
<1>4. QED
  BY <1>1, <1>2, <1>3, Sizes DEF IInv, BoundedOvershoot

-----------------------------------------------------------------------------
(* The initial states and the steps *)

LEMMA InitEstablishes == PoolInit => IInv
<1> SUFFICES ASSUME PoolInit PROVE IInv
  OBVIOUS
<1>1. PoolTypeOK /\ Apart /\ OpenSessionsAreListed
  BY DEF PoolInit, PoolTypeOK, Apart, OpenSessionsAreListed
<1>2. TabsCounted
  BY FS_EmptySet DEF PoolInit, TabsCounted
<1>3. BoundedOvershoot
  <2>1. InProgress = {} /\ pool = {} /\ tabCount = 0
    BY DEF PoolInit, InProgress
  <2>2. Cardinality(Openers) \in Nat /\ Cardinality(Openers) # 0
    BY OpenersAssumption, FS_EmptySet, FS_CardinalityType
  <2>3. QED
    BY <2>1, <2>2, FS_EmptySet, MaxAssumption DEF BoundedOvershoot
<1>4. QED
  BY <1>1, <1>2, <1>3 DEF IInv

LEMMA AdmitPreserves ==
    ASSUME IInv, NEW o \in Openers, NEW kind \in {"session", "tab"}, Admit(o, kind)
    PROVE  IInv'
<1>1. PoolTypeOK' /\ Apart' /\ OpenSessionsAreListed' /\ TabsCounted'
  BY DEF IInv, PoolTypeOK, Apart, OpenSessionsAreListed, TabsCounted, Admit
<1>2. BoundedOvershoot'
  <2>1. Cardinality(InProgress') \in Nat /\ Cardinality(InProgress') <= Cardinality(Openers)
    <3>1. InProgress' \subseteq Openers
      BY DEF InProgress
    <3>2. QED  BY <3>1, FiniteSubset, OpenersAssumption
  <2>2. /\ Cardinality(pool) + tabCount < MaxSessions
        /\ pool' = pool /\ tabCount' = tabCount
    BY DEF Admit, Admits
  <2>3. tabCount \in Nat /\ MaxSessions \in Nat /\ Cardinality(pool) \in Nat
    BY MaxAssumption, Sizes DEF IInv, PoolTypeOK
  <2>4. Cardinality(Openers) \in Nat
    BY Sizes DEF IInv
  <2>5. QED  BY <2>1, <2>2, <2>3, <2>4 DEF BoundedOvershoot
<1>3. QED  BY <1>1, <1>2 DEF IInv

LEMMA PushSessionPreserves ==
    ASSUME IInv, NEW o \in Openers, NEW s \in Sessions, PushSession(o, s)
    PROVE  IInv'
<1>1. PoolTypeOK' /\ Apart' /\ OpenSessionsAreListed' /\ TabsCounted'
  BY DEF IInv, PoolTypeOK, Apart, OpenSessionsAreListed, TabsCounted, PushSession
<1>2. BoundedOvershoot'
  <2>1. Cardinality(InProgress') = Cardinality(InProgress) - 1
    BY OpenerDone DEF IInv, PushSession
  <2>2. Cardinality(pool') \in Nat /\ Cardinality(pool') <= Cardinality(pool) + 1
    <3>1. IsFiniteSet(pool) /\ Cardinality(pool) \in Nat /\ pool' = pool \cup {s}
      BY Sizes DEF IInv, PushSession
    <3>2. Cardinality(pool \cup {s}) \in Nat /\ Cardinality(pool \cup {s}) <= Cardinality(pool) + 1
      BY <3>1, SizeWithOneMore
    <3>3. QED  BY <3>1, <3>2
  <2>3. tabCount' = tabCount /\ tabCount \in Nat /\ MaxSessions \in Nat
    BY MaxAssumption DEF IInv, PoolTypeOK, PushSession
  <2>4. QED
    BY <2>1, <2>2, <2>3, Sizes DEF IInv, BoundedOvershoot
<1>3. QED  BY <1>1, <1>2 DEF IInv

LEMMA CountTabPreserves ==
    ASSUME IInv, NEW o \in Openers, NEW s \in Sessions, CountTab(o, s)
    PROVE  IInv'
<1>1. PoolTypeOK' /\ Apart' /\ OpenSessionsAreListed'
  BY DEF IInv, PoolTypeOK, Apart, OpenSessionsAreListed, CountTab
<1>2. TabsCounted'
  <2>1. s \notin tabs
    BY DEF IInv, PoolTypeOK, CountTab
  <2>2. IsFiniteSet(tabs) /\ tabCount = Cardinality(tabs)
    BY Sizes DEF IInv, TabsCounted
  <2>3. tabs' = tabs \cup {s} /\ tabCount' = tabCount + 1
    BY DEF CountTab
  <2>4. Cardinality(tabs \cup {s}) = Cardinality(tabs) + 1
    BY <2>1, <2>2, SizeWithOneMore
  <2>5. QED  BY <2>2, <2>3, <2>4 DEF TabsCounted
<1>3. BoundedOvershoot'
  <2>1. Cardinality(InProgress') = Cardinality(InProgress) - 1
    BY OpenerDone DEF IInv, CountTab
  <2>2. tabCount' = tabCount + 1 /\ pool' = pool /\ tabCount \in Nat /\ MaxSessions \in Nat
    BY MaxAssumption DEF IInv, PoolTypeOK, CountTab
  <2>3. QED  BY <2>1, <2>2, Sizes DEF IInv, BoundedOvershoot
<1>4. QED  BY <1>1, <1>2, <1>3 DEF IInv

LEMMA CloseTabPreserves ==
    ASSUME IInv, NEW s \in Sessions, CloseTab(s)
    PROVE  IInv'
<1>1. tabCount' = tabCount - 1 /\ tabCount' = Cardinality(tabs') /\ tabCount' \in Nat
  <2>1. s \in tabs /\ tabs' = tabs \ {s} /\ tabCount' = tabCount - 1
    BY DEF CloseTab
  <2>2. IsFiniteSet(tabs') /\ Cardinality(tabs') = Cardinality(tabs) - 1
    <3>1. IsFiniteSet(tabs)
      BY Sizes DEF IInv
    <3>2. QED  BY <2>1, <3>1, SizeWithOneLess
  <2>3. QED  BY <2>1, <2>2, FS_CardinalityType DEF IInv, TabsCounted
<1>2. PoolTypeOK' /\ Apart' /\ OpenSessionsAreListed'
  BY <1>1 DEF IInv, PoolTypeOK, Apart, OpenSessionsAreListed, CloseTab
<1>3. BoundedOvershoot'
  <2>1. InProgress' = InProgress /\ pool' = pool
    BY DEF InProgress, CloseTab
  <2>2. tabCount \in Nat /\ MaxSessions \in Nat
    BY MaxAssumption DEF IInv, PoolTypeOK
  <2>3. QED  BY <1>1, <2>1, <2>2, Sizes DEF IInv, BoundedOvershoot
<1>4. QED  BY <1>1, <1>2, <1>3 DEF IInv, TabsCounted

\* Steps on one session: locking, reading, giving back and closing it.
LEMMA SessionStepPreserves ==
    ASSUME IInv, NEW s \in Sessions,
           Lock(s) \/ Unlock(s) \/ Share(s) \/ Unshare(s) \/ CloseSession(s) \/ CloseDrained(s)
    PROVE  IInv'
<1>1. UNCHANGED <<pool, tabCount, tabs, opening>>
  BY DEF Lock, Unlock, Share, Unshare, CloseSession, CloseDrained
<1>2. BoundedOvershoot' /\ TabsCounted'
  BY <1>1, NothingAdded DEF IInv, TabsCounted
<1>3. CASE Lock(s) \/ Unlock(s) \/ Share(s) \/ Unshare(s)
  BY <1>2, <1>3 DEF IInv, PoolTypeOK, Apart, OpenSessionsAreListed, Lock, Unlock, Share, Unshare
<1>4. CASE CloseSession(s)
  BY <1>2, <1>4 DEF IInv, PoolTypeOK, Apart, OpenSessionsAreListed, CloseSession
<1>5. CASE CloseDrained(s)
  BY <1>2, <1>5 DEF IInv, PoolTypeOK, Apart, OpenSessionsAreListed, CloseDrained
<1>6. QED  BY <1>3, <1>4, <1>5

\* Steps of the browser: reclaiming closed sessions, and its own end.
LEMMA BrowserStepPreserves ==
    ASSUME IInv, Cleanup \/ CloseBrowser \/ Drain
    PROVE  IInv'
<1>1. UNCHANGED <<tabCount, tabs, opening>> /\ pool' \subseteq pool
  BY DEF Cleanup, CloseBrowser, Drain
<1>2. BoundedOvershoot' /\ TabsCounted'
  BY <1>1, NothingAdded DEF IInv, TabsCounted
<1>3. CASE Cleanup
  BY <1>2, <1>3 DEF IInv, PoolTypeOK, Apart, OpenSessionsAreListed, Cleanup
<1>4. CASE CloseBrowser
  BY <1>2, <1>4 DEF IInv, PoolTypeOK, Apart, OpenSessionsAreListed, CloseBrowser
<1>5. CASE Drain
  BY <1>2, <1>5 DEF IInv, PoolTypeOK, Apart, OpenSessionsAreListed, Drain
<1>6. QED  BY <1>3, <1>4, <1>5

LEMMA StepPreserves == IInv /\ [PoolNext]_poolVars => IInv'
<1> SUFFICES ASSUME IInv, [PoolNext]_poolVars PROVE IInv'
  OBVIOUS
<1>1. CASE UNCHANGED poolVars
  BY <1>1 DEF IInv, PoolTypeOK, Apart, TabsCounted, OpenSessionsAreListed, BoundedOvershoot,
              InProgress, poolVars
<1>2. CASE PoolNext
  BY <1>2, AdmitPreserves, PushSessionPreserves, CountTabPreserves, CloseTabPreserves,
     SessionStepPreserves, BrowserStepPreserves DEF PoolNext
<1>3. QED  BY <1>1, <1>2

-----------------------------------------------------------------------------
(* Theorems *)

\* The inductive invariant holds of every reachable state.
THEOREM Invariance == PoolSpec => []IInv
BY InitEstablishes, StepPreserves, PTL DEF PoolSpec

\* Type correctness of the list, the counter and the sessions (browser.rs, tab.rs).
THEOREM TypeCorrect == PoolSpec => []PoolTypeOK
<1>1. IInv => PoolTypeOK
  BY DEF IInv
<1>2. QED  BY <1>1, Invariance, PTL

\* However many callers race through the unguarded capacity check (new_session_in,
\* new_tab_in), and however long, fewer sessions than callers exceed the limit.
THEOREM OvershootBound == PoolSpec => []BoundedOvershoot
<1>1. IInv => BoundedOvershoot
  BY DEF IInv
<1>2. QED  BY <1>1, Invariance, PTL

\* The tab counter is exact, so its unchecked decrement (Tab::close) never wraps.
THEOREM TabCounterExact == PoolSpec => []TabsCounted
<1>1. IInv => TabsCounted
  BY DEF IInv
<1>2. QED  BY <1>1, Invariance, PTL

\* Reclaiming (cleanup_closed_sessions) and closing (Browser::close) never lose an
\* open session from the browser's sight.
THEOREM NothingLost == PoolSpec => []OpenSessionsAreListed
<1>1. IInv => OpenSessionsAreListed
  BY DEF IInv
<1>2. QED  BY <1>1, Invariance, PTL

\* What the browser counts and lists is what there is.
THEOREM Exact == PoolSpec => []BooksAreExact
<1>1. IInv => BooksAreExact
  BY DEF IInv, BooksAreExact
<1>2. QED  BY <1>1, Invariance, PTL

-----------------------------------------------------------------------------
(* Connections and targets *)

Typed ==
    /\ counted = {c \in Conns : stage[c] = "http"}
    /\ stage \in [Conns -> Stages]
    /\ main \in [Conns -> Sessions \cup {None}]
    /\ registered \in [Conns -> SUBSET Sessions] /\ tomb \in [Conns -> SUBSET Sessions]
    /\ issued \in [Conns -> SUBSET Sessions] /\ aliases \in [Conns -> SUBSET Sessions]
    /\ task \in [Tasks -> TaskRecords]

\* A connection that has been admitted has a session, which is nobody's target.
Homed(c) ==
    /\ stage[c] \in {"live", "closing", "cleaning", "dropped"} => main[c] # None
    /\ main[c] # None =>
          session[main[c]] # "none" /\ \A d \in Conns : main[c] \notin issued[d]

\* A target that was announced is registered, detached or has its tombstone, and only
\* with its tombstone is it closed.
Listed(c) ==
    /\ registered[c] \subseteq issued[c] \ tomb[c] /\ tomb[c] \subseteq issued[c]
    /\ registered[c] \subseteq pool
    /\ \A s \in issued[c] : session[s] # "none" /\ (session[s] = "closed" => s \in tomb[c])
    /\ \A d \in Conns \ {c} : issued[c] \cap issued[d] = {}

\* A command for a target carries an id that its connection was told.
Addressed(t) ==
    LET k == task[t] IN
    k.at # "free" =>
        /\ k.conn \in Conns /\ main[k.conn] # None
        /\ k.at \in {"route", "missed"} /\ k.sid.kind = "own" => k.sid.of \in issued[k.conn]
        /\ k.at = "missed" /\ k.sid.kind = "own" => k.sid.of \notin registered[k.conn]
        /\ k.at \in {"find", "forget"} => k.sid.of \in issued[k.conn]
        /\ k.at \in {"enter", "running"} => k.on \in Sessions
        /\ k.at = "shut" => k.on \in tomb[k.conn]

\* A session that is about to be registered is open and nobody else's.
Fresh(t) ==
    At(t, "register") =>
        /\ task[t].on \in pool /\ session[task[t].on] = "open"
        /\ \A c \in Conns : main[c] # task[t].on /\ task[t].on \notin issued[c]
        /\ \A u \in Tasks \ {t} : At(u, "register") => task[u].on # task[t].on

\* Who an open session belongs to; a command that runs on it does not count.
Owned(s) ==
    session[s] = "open" =>
        \/ \E c \in Conns : main[c] = s /\ stage[c] \in {"live", "closing", "dropped"}
        \/ \E t \in Tasks : task[t].on = s /\ (At(t, "register") \/ At(t, "shut"))
        \/ \E c \in Conns : s \in issued[c] \ tomb[c]

TInv ==
    /\ IInv /\ Typed
    /\ \A c \in Conns : Homed(c) /\ Listed(c)
    /\ \A t \in Tasks : Addressed(t) /\ Fresh(t)
    /\ \A s \in pool : Owned(s)

LEMMA InitTInv == Init => TInv
<1> SUFFICES ASSUME Init PROVE TInv
  OBVIOUS
<1>1. IInv
  BY InitEstablishes DEF Init
<1>2. Free \in TaskRecords /\ Free.at = "free"
  BY DEF Free, Task, TaskRecords, MainSid, Sids
<1>3. Typed
  BY <1>2 DEF Init, Typed, Stages
<1>4. \A c \in Conns : Homed(c) /\ Listed(c)
  BY DEF Init, Homed, Listed
<1>5. \A t \in Tasks : Addressed(t) /\ Fresh(t)
  BY <1>2 DEF Init, Addressed, Fresh, At
<1>6. \A s \in pool : Owned(s)
  BY DEF Init, PoolInit
<1>7. QED  BY <1>1, <1>3, <1>4, <1>5, <1>6 DEF TInv

\* A step that moves connections only: nobody gains or loses a session.
LEMMA ConnStep ==
    ASSUME TInv, IInv', Typed', UNCHANGED <<session, pool, main, targetVars, task>>,
           \A c \in Conns :
              /\ stage'[c] \in {"live", "closing", "cleaning", "dropped"} => main[c] # None
              /\ stage[c] \in {"live", "closing", "dropped"}
                    => stage'[c] \in {"live", "closing", "dropped"}
    PROVE  TInv'
<1>1. \A c \in Conns : Homed(c)' /\ Listed(c)'
  BY DEF TInv, Homed, Listed, targetVars
<1>2. \A t \in Tasks : Addressed(t)' /\ Fresh(t)'
  BY DEF TInv, Addressed, Fresh, At, targetVars
<1>3. \A s \in pool' : Owned(s)'
  BY DEF TInv, Owned, At, targetVars
<1>4. QED  BY <1>1, <1>2, <1>3 DEF TInv

\* A step of a command that neither registers nor closes.
LEMMA TaskStep ==
    ASSUME TInv, IInv', NEW t \in Tasks, NEW k \in TaskRecords, task' = [task EXCEPT ![t] = k],
           UNCHANGED <<counted, session, pool, stage, main, targetVars>>,
           Addressed(t)', task[t].at \notin {"register", "shut"}, k.at # "register"
    PROVE  TInv'
<1>1. task'[t] = k /\ \A u \in Tasks \ {t} : task'[u] = task[u]
  BY DEF TInv, Typed
<1>2. Typed'
  BY DEF TInv, Typed, targetVars
<1>3. \A c \in Conns : Homed(c)' /\ Listed(c)'
  BY DEF TInv, Homed, Listed, targetVars
<1>4. ASSUME NEW u \in Tasks PROVE Addressed(u)' /\ Fresh(u)'
  <2>1. CASE u = t
    BY <1>1, <2>1 DEF Fresh, At
  <2>2. CASE u # t
    BY <1>1, <2>2 DEF TInv, Addressed, Fresh, At, targetVars
  <2>3. QED  BY <2>1, <2>2
<1>5. \A s \in pool' : Owned(s)'
  BY <1>1 DEF TInv, Owned, At, targetVars
<1>6. QED  BY <1>2, <1>3, <1>4, <1>5 DEF TInv

-----------------------------------------------------------------------------
(* Steps of connections *)

LEMMA ConnQuiet ==
    ASSUME TInv, IInv', NEW c \in Conns,
           \/ Accept(c) \/ HttpEnds(c) \/ Upgrade(c) \/ Connect(c) \/ ConnectRefused(c)
           \/ Ends(c) \/ PongFails(c)
    PROVE  TInv'
<1>1. UNCHANGED <<session, pool, main, targetVars, task>>
  BY DEF Accept, HttpEnds, Upgrade, Connect, ConnectRefused, Ends, PongFails, Admit, poolVars
<1>2. PICK st \in Stages : stage' = [stage EXCEPT ![c] = st]
  <2>1. CASE UNCHANGED stage
    BY <2>1 DEF TInv, Typed
  <2>2. CASE ~UNCHANGED stage
    BY <2>2 DEF Accept, HttpEnds, Upgrade, Connect, ConnectRefused, Ends, PongFails, StageTo, Stages
  <2>3. QED  BY <2>1, <2>2
<1>3. /\ stage[c] \in {"live", "closing", "dropped"} => st \in {"live", "closing", "dropped"}
      /\ st \in {"live", "closing", "cleaning", "dropped"}
            => stage[c] \in {"live", "closing", "cleaning", "dropped"}
  BY <1>2 DEF Accept, HttpEnds, Upgrade, Connect, ConnectRefused, Ends, PongFails, StageTo, TInv,
              Typed
<1>4. counted' = {d \in Conns : stage'[d] = "http"}
  BY <1>2 DEF Accept, HttpEnds, Upgrade, Connect, ConnectRefused, Ends, PongFails, StageTo, TInv,
              Typed
<1>5. Typed'
  BY <1>1, <1>2, <1>4 DEF TInv, Typed, targetVars
<1>6. QED  BY <1>1, <1>2, <1>3, <1>5, ConnStep DEF TInv, Typed, Homed

\* A session that is opened is new to everybody.
LEMMA ConnectedKeeps ==
    ASSUME TInv, IInv', NEW c \in Conns, NEW s \in Sessions, Connected(c, s)
    PROVE  TInv'
<1>1. /\ stage[c] = "upgraded" /\ stage' = [stage EXCEPT ![c] = "live"]
      /\ main' = [main EXCEPT ![c] = s] /\ session[s] = "none"
      /\ session' = [session EXCEPT ![s] = "open"] /\ pool' = pool \cup {s}
      /\ UNCHANGED <<counted, registered, tomb, issued, aliases, task>>
  BY DEF Connected, PushSession, StageTo, targetVars
<1>2. session \in [Sessions -> {"none", "open", "closed"}] /\ s # None
  BY NoneAssumption DEF TInv, IInv, PoolTypeOK
<1>3. Typed'
  BY <1>1 DEF TInv, Typed, Stages
<1>4. \A d \in Conns : s \notin issued[d]
  BY <1>1 DEF TInv, Listed
<1>5. ASSUME NEW d \in Conns PROVE Homed(d)' /\ Listed(d)'
  <2>1. Homed(d)'
    BY <1>1, <1>2, <1>4 DEF TInv, Typed, Homed
  <2>2. Listed(d)'
    BY <1>1, <1>2, <1>4 DEF TInv, Typed, Listed
  <2>3. QED  BY <2>1, <2>2
<1>6. ASSUME NEW t \in Tasks PROVE Addressed(t)' /\ Fresh(t)'
  BY <1>1, <1>2 DEF TInv, Typed, Addressed, Fresh, At
<1>7. ASSUME NEW r \in pool' PROVE Owned(r)'
  <2>1. CASE r = s
    BY <1>1, <2>1 DEF TInv, Typed, Owned
  <2>2. CASE r # s
    <3>1. r \in pool /\ r \in Sessions /\ session'[r] = session[r] /\ Owned(r)
      BY <1>1, <1>2, <2>2 DEF TInv, IInv, PoolTypeOK
    <3>2. QED  BY <1>1, <3>1 DEF TInv, Typed, Owned, At
  <2>3. QED  BY <2>1, <2>2
<1>8. QED  BY <1>3, <1>5, <1>6, <1>7 DEF TInv

\* Closing the main session touches no target.
LEMMA CloseMainKeeps ==
    ASSUME TInv, IInv', NEW c \in Conns, CloseMain(c)
    PROVE  TInv'
<1>1. /\ stage[c] = "closing" /\ stage' = [stage EXCEPT ![c] = "cleaning"]
      /\ session' = [session EXCEPT ![main[c]] = "closed"]
      /\ UNCHANGED <<counted, main, registered, tomb, issued, aliases, task, pool>>
  BY DEF CloseMain, CloseSession, StageTo, targetVars
<1>2. session \in [Sessions -> {"none", "open", "closed"}] /\ main[c] \in Sessions
  BY <1>1 DEF TInv, IInv, PoolTypeOK, Typed, Homed
<1>3. Typed'
  BY <1>1 DEF TInv, Typed, Stages
<1>4. ASSUME NEW d \in Conns PROVE Homed(d)' /\ Listed(d)'
  <2>1. Homed(d)'
    BY <1>1, <1>2 DEF TInv, Typed, Homed
  <2>2. Listed(d)'
    BY <1>1, <1>2 DEF TInv, Typed, Listed, Homed
  <2>3. QED  BY <2>1, <2>2
<1>5. ASSUME NEW t \in Tasks PROVE Addressed(t)' /\ Fresh(t)'
  BY <1>1, <1>2 DEF TInv, Typed, Addressed, Fresh, At
<1>6. ASSUME NEW r \in pool' PROVE Owned(r)'
  <2>1. r \in pool /\ r \in Sessions /\ Owned(r)
    BY <1>1 DEF TInv, IInv, PoolTypeOK
  <2>2. QED  BY <1>1, <1>2, <2>1 DEF TInv, Typed, Owned, At
<1>7. QED  BY <1>3, <1>4, <1>5, <1>6 DEF TInv

\* Reclaiming takes closed sessions only.
LEMMA CleanUpKeeps ==
    ASSUME TInv, IInv', NEW c \in Conns, CleanUp(c)
    PROVE  TInv'
<1>1. /\ stage[c] = "cleaning" /\ stage' = [stage EXCEPT ![c] = "gone"]
      /\ pool' \subseteq pool /\ \A s \in pool : session[s] = "open" => s \in pool'
      /\ UNCHANGED <<counted, session, main, registered, tomb, issued, aliases, task>>
  BY DEF CleanUp, Cleanup, StageTo, targetVars
<1>2. Typed'
  BY <1>1 DEF TInv, Typed, Stages
<1>3. ASSUME NEW d \in Conns PROVE Homed(d)' /\ Listed(d)'
  <2>1. \A s \in registered[d] : session[s] = "open"
    BY DEF TInv, IInv, PoolTypeOK, Typed, Listed
  <2>2. QED  BY <1>1, <2>1 DEF TInv, Typed, Homed, Listed
<1>4. ASSUME NEW t \in Tasks PROVE Addressed(t)' /\ Fresh(t)'
  BY <1>1 DEF TInv, Typed, Addressed, Fresh, At
<1>5. ASSUME NEW r \in pool' PROVE Owned(r)'
  BY <1>1 DEF TInv, Typed, Owned, At
<1>6. QED  BY <1>2, <1>3, <1>4, <1>5 DEF TInv

-----------------------------------------------------------------------------
(* Steps of commands *)

LEMMA DispatchKeeps ==
    ASSUME TInv, IInv', NEW t \in Tasks, NEW c \in Conns, NEW verb, NEW sid \in Sids,
           NEW at \in {"route", "check", "find", "forget"}, Dispatch(t, c, verb, at, sid),
           at = "route" /\ sid.kind = "own" => sid.of \in issued[c],
           at \in {"find", "forget"} => sid.of \in issued[c]
    PROVE  TInv'
<1> DEFINE k == Task(c, verb, at, sid, None)
<1>1. k \in TaskRecords /\ k.conn = c /\ k.at = at /\ k.sid = sid
  BY DEF Dispatch, Task, TaskRecords
<1>2. /\ task' = [task EXCEPT ![t] = k] /\ task[t].at = "free"
      /\ UNCHANGED <<counted, session, pool, stage, main, targetVars>> /\ stage[c] = "live"
  BY DEF Dispatch, At, poolVars
<1> HIDE DEF k
<1>3. task'[t] = k
  BY <1>2 DEF TInv, Typed
<1>4. main[c] # None
  BY <1>2 DEF TInv, Homed
<1>5. Addressed(t)'
  BY <1>1, <1>2, <1>3, <1>4 DEF Addressed, targetVars
<1>6. QED  BY <1>1, <1>2, <1>5, TaskStep

LEMMA RequestKeeps ==
    ASSUME TInv, IInv', NEW t \in Tasks, NEW c \in Conns,
           \/ \E sid \in Sids, verb \in Verbs : Run(t, c, verb, sid)
           \/ Create(t, c)
           \/ \E s \in Sessions : Close(t, c, s) \/ Detach(t, c, s)
    PROVE  TInv'
<1>1. ASSUME NEW sid \in Sids, NEW verb \in Verbs, Run(t, c, verb, sid) PROVE TInv'
  <2>1. sid.kind = "own" => sid.of \in issued[c]
    BY <1>1 DEF Run
  <2>2. QED  BY <1>1, <2>1, DispatchKeeps DEF Run
<1>2. CASE Create(t, c)
  <2>1. MainSid \in Sids
    BY DEF MainSid, Sids
  <2>2. QED  BY <1>2, <2>1, DispatchKeeps DEF Create
<1>3. ASSUME NEW s \in Sessions, Close(t, c, s) \/ Detach(t, c, s) PROVE TInv'
  <2>1. [kind |-> "own", of |-> s] \in Sids
    BY DEF Sids
  <2>2. QED  BY <1>3, <2>1, DispatchKeeps DEF Close, Detach
<1>4. QED  BY <1>1, <1>2, <1>3

\* A command that ends has nothing to say about any session.
LEMMA FreeTask == Free \in TaskRecords /\ Free.at = "free"
BY DEF Free, Task, TaskRecords, MainSid, Sids

LEMMA DoneKeeps ==
    ASSUME TInv, IInv', NEW t \in Tasks, Done(t), task[t].at \notin {"register", "shut"},
           UNCHANGED <<counted, session, pool, stage, main, targetVars>>
    PROVE  TInv'
<1>1. task'[t] = Free
  BY DEF Done, TInv, Typed
<1>2. Addressed(t)'
  BY <1>1, FreeTask DEF Addressed
<1>3. QED  BY <1>2, FreeTask, TaskStep DEF Done

\* A command that goes on, to a session that is there.
LEMMA GoesKeeps ==
    ASSUME TInv, IInv', NEW t \in Tasks, NEW at \in {"missed", "enter", "running", "push"},
           NEW s \in Sessions \cup {None}, Goes(t, at, s),
           task[t].at \notin {"free", "register", "shut"},
           at = "missed" /\ task[t].sid.kind = "own" =>
              task[t].at = "route" /\ task[t].sid.of \notin registered[task[t].conn],
           at \in {"enter", "running"} => s \in Sessions,
           UNCHANGED <<counted, session, pool, stage, main, targetVars>>
    PROVE  TInv'
<1> DEFINE k == [task[t] EXCEPT !.at = at, !.on = s]
<1>1. /\ k \in TaskRecords /\ k.at = at /\ k.on = s
      /\ k.conn = task[t].conn /\ k.sid = task[t].sid
  BY DEF TInv, Typed, TaskRecords
<1>2. task' = [task EXCEPT ![t] = k]
  BY DEF Goes
<1> HIDE DEF k
<1>3. task'[t] = k
  BY <1>2 DEF TInv, Typed
<1>4. Addressed(t)'
  BY <1>1, <1>3 DEF TInv, Addressed, targetVars
<1>5. QED  BY <1>1, <1>2, <1>4, TaskStep

LEMMA RouteKeeps ==
    ASSUME TInv, IInv', NEW t \in Tasks, Route(t) \/ Missed(t)
    PROVE  TInv'
<1>1. /\ UNCHANGED <<counted, session, pool, stage, main, targetVars>>
      /\ task[t].at \in {"route", "missed"}
  BY DEF Route, Missed, At, poolVars
<1>2. /\ task[t].conn \in Conns /\ main[task[t].conn] \in Sessions
      /\ registered[task[t].conn] \subseteq Sessions
  BY <1>1 DEF TInv, Typed, Addressed
<1>3. CASE Goes(t, "enter", main[task[t].conn])
  BY <1>1, <1>2, <1>3, GoesKeeps
<1>4. CASE Goes(t, "enter", task[t].sid.of) /\ task[t].sid.of \in registered[task[t].conn]
  BY <1>1, <1>2, <1>4, GoesKeeps
<1>5. CASE /\ Goes(t, "missed", None) /\ task[t].at = "route"
           /\ task[t].sid.kind = "own" => task[t].sid.of \notin registered[task[t].conn]
  BY <1>1, <1>5, GoesKeeps
<1>6. CASE Done(t)
  BY <1>1, <1>6, DoneKeeps
<1>7. QED  BY <1>3, <1>4, <1>5, <1>6 DEF Route, Missed, At

LEMMA PlainKeeps ==
    ASSUME TInv, IInv', NEW t \in Tasks,
           Enter(t) \/ Leave(t) \/ CreateAdmitted(t) \/ CreateRefused(t)
    PROVE  TInv'
<1>1. UNCHANGED <<counted, session, pool, stage, main, targetVars>>
  BY DEF Enter, Leave, CreateAdmitted, CreateRefused, Lock, Unlock, Share, Unshare, Admit, poolVars
<1>2. CASE Enter(t)
  <2>1. task[t].at = "enter" /\ task[t].on \in Sessions
    BY <1>2 DEF Enter, At, TInv, Addressed
  <2>2. QED  BY <1>1, <1>2, <2>1, GoesKeeps DEF Enter
<1>3. CASE Leave(t) \/ CreateRefused(t)
  BY <1>1, <1>3, DoneKeeps DEF Leave, CreateRefused, At
<1>4. CASE CreateAdmitted(t)
  BY <1>1, <1>4, GoesKeeps DEF CreateAdmitted, At
<1>5. QED  BY <1>2, <1>3, <1>4

\* A child is open and new to everybody before it is registered.
LEMMA CreatedKeeps ==
    ASSUME TInv, IInv', NEW t \in Tasks, NEW s \in Sessions, Created(t, s)
    PROVE  TInv'
<1> DEFINE k == [task[t] EXCEPT !.at = "register", !.on = s]
<1>1. /\ task[t].at = "push" /\ task' = [task EXCEPT ![t] = k] /\ session[s] = "none"
      /\ session' = [session EXCEPT ![s] = "open"] /\ pool' = pool \cup {s}
      /\ UNCHANGED <<counted, stage, main, registered, tomb, issued, aliases>>
  BY DEF Created, PushSession, Goes, At, targetVars
<1>2. session \in [Sessions -> {"none", "open", "closed"}] /\ s # None
  BY NoneAssumption DEF TInv, IInv, PoolTypeOK
<1>3. k \in TaskRecords /\ k.at = "register" /\ k.on = s /\ k.conn = task[t].conn
  BY DEF TInv, Typed, TaskRecords
<1> HIDE DEF k
<1>4. task'[t] = k /\ \A u \in Tasks \ {t} : task'[u] = task[u]
  BY <1>1 DEF TInv, Typed
<1>5. Typed'
  BY <1>1, <1>3 DEF TInv, Typed
<1>6. \A c \in Conns : s \notin issued[c] /\ main[c] # s
  BY <1>1, <1>2 DEF TInv, Listed, Homed
<1>7. ASSUME NEW c \in Conns PROVE Homed(c)' /\ Listed(c)'
  <2>1. Homed(c)'
    BY <1>1, <1>2, <1>6 DEF TInv, Typed, Homed
  <2>2. Listed(c)'
    BY <1>1, <1>2, <1>6 DEF TInv, Typed, Listed
  <2>3. QED  BY <2>1, <2>2
<1>8. ASSUME NEW u \in Tasks PROVE Addressed(u)' /\ Fresh(u)'
  <2>1. \A v \in Tasks : At(v, "register") => task[v].on # s
    BY <1>1 DEF TInv, Fresh
  <2>2. CASE u = t
    <3>1. Addressed(u)'
      BY <1>1, <1>3, <1>4, <2>2 DEF TInv, Addressed
    <3>2. Fresh(u)'
      BY <1>1, <1>2, <1>3, <1>4, <1>6, <2>1, <2>2 DEF Fresh, At
    <3>3. QED  BY <3>1, <3>2
  <2>3. CASE u # t
    <3>1. Addressed(u)'
      BY <1>1, <1>4, <2>3 DEF TInv, Addressed
    <3>2. Fresh(u)'
      BY <1>1, <1>2, <1>3, <1>4, <2>1, <2>3 DEF TInv, Fresh, At
    <3>3. QED  BY <3>1, <3>2
  <2>4. QED  BY <2>2, <2>3
<1>9. ASSUME NEW r \in pool' PROVE Owned(r)'
  <2>1. CASE r = s
    BY <1>3, <1>4, <2>1 DEF Owned, At
  <2>2. CASE r # s
    <3>1. r \in pool /\ r \in Sessions /\ session'[r] = session[r] /\ Owned(r)
      BY <1>1, <1>2, <2>2 DEF TInv, IInv, PoolTypeOK
    <3>2. QED  BY <1>1, <1>4, <3>1 DEF Owned, At
  <2>3. QED  BY <2>1, <2>2
<1>10. QED  BY <1>5, <1>7, <1>8, <1>9 DEF TInv

\* Registering announces a session that is open and was nobody's.
LEMMA RegisterKeeps ==
    ASSUME TInv, IInv', NEW t \in Tasks, Register(t)
    PROVE  TInv'
<1> DEFINE c == task[t].conn
           s == task[t].on
<1>1. /\ At(t, "register") /\ task' = [task EXCEPT ![t] = Free]
      /\ registered' = [registered EXCEPT ![c] = @ \cup {s}]
      /\ issued' = [issued EXCEPT ![c] = @ \cup {s}]
      /\ UNCHANGED <<counted, session, pool, stage, main, tomb, aliases>>
  BY DEF Register, Done, poolVars
<1>2. /\ c \in Conns /\ s \in pool /\ s \in Sessions /\ session[s] = "open"
      /\ \A d \in Conns : main[d] # s /\ s \notin issued[d]
      /\ \A u \in Tasks \ {t} : At(u, "register") => task[u].on # s
  BY <1>1 DEF TInv, IInv, PoolTypeOK, Addressed, Fresh, At
<1> HIDE DEF c, s
<1>3. task'[t] = Free /\ \A u \in Tasks \ {t} : task'[u] = task[u]
  BY <1>1 DEF TInv, Typed
<1>4. Typed'
  BY <1>1, <1>2, FreeTask DEF TInv, Typed
<1>5. /\ issued'[c] = issued[c] \cup {s} /\ registered'[c] = registered[c] \cup {s}
      /\ \A d \in Conns \ {c} : issued'[d] = issued[d] /\ registered'[d] = registered[d]
  BY <1>1, <1>2 DEF TInv, Typed
<1>6. ASSUME NEW d \in Conns PROVE Homed(d)' /\ Listed(d)'
  <2>1. Homed(d)'
    BY <1>1, <1>2, <1>5 DEF TInv, Homed
  <2>2. /\ registered[d] \subseteq issued[d] \ tomb[d] /\ tomb[d] \subseteq issued[d]
        /\ registered[d] \subseteq pool
        /\ \A r \in issued[d] : session[r] # "none" /\ (session[r] = "closed" => r \in tomb[d])
        /\ \A e \in Conns \ {d} : issued[d] \cap issued[e] = {}
    BY DEF TInv, Listed
  <2>3. \A e \in Conns \ {d} : issued'[d] \cap issued'[e] = {}
    BY <1>2, <1>5, <2>2
  <2>4. /\ registered'[d] \subseteq issued'[d] \ tomb'[d] /\ tomb'[d] \subseteq issued'[d]
        /\ registered'[d] \subseteq pool'
        /\ \A r \in issued'[d] : session'[r] # "none" /\ (session'[r] = "closed" => r \in tomb'[d])
    <3>1. CASE d = c
      BY <1>1, <1>2, <1>5, <2>2, <3>1
    <3>2. CASE d # c
      BY <1>1, <1>5, <2>2, <3>2
    <3>3. QED  BY <3>1, <3>2
  <2>5. Listed(d)'
    BY <2>3, <2>4 DEF Listed
  <2>6. QED  BY <2>1, <2>5
<1>7. ASSUME NEW u \in Tasks PROVE Addressed(u)' /\ Fresh(u)'
  <2>1. CASE u = t
    BY <1>3, <2>1, FreeTask DEF Addressed, Fresh, At
  <2>2. CASE u # t
    <3>1. Addressed(u)'
      BY <1>1, <1>2, <1>3, <1>5, <2>2 DEF TInv, Addressed
    <3>2. Fresh(u)'
      BY <1>1, <1>2, <1>3, <1>5, <2>2, FreeTask DEF TInv, Fresh, At
    <3>3. QED  BY <3>1, <3>2
  <2>3. QED  BY <2>1, <2>2
<1>8. s \notin tomb[c]
  BY <1>2 DEF TInv, Listed
<1>9. ASSUME NEW r \in pool' PROVE Owned(r)'
  <2>1. CASE r = s
    BY <1>1, <1>2, <1>5, <1>8, <2>1 DEF Owned
  <2>2. CASE r # s
    <3>1. Owned(r) /\ s = task[t].on
      BY <1>1, <2>2 DEF TInv, s
    <3>2. QED  BY <1>1, <1>3, <1>5, <2>2, <3>1 DEF Owned, At
  <2>3. QED  BY <2>1, <2>2
<1>10. QED  BY <1>4, <1>6, <1>7, <1>9 DEF TInv

\* closeTarget leaves a tombstone and takes the entry out; the session is then the
\* command's.
LEMMA FindKeeps ==
    ASSUME TInv, IInv', NEW t \in Tasks, Find(t)
    PROVE  TInv'
<1> DEFINE c == task[t].conn
           s == task[t].sid.of
           k == [task[t] EXCEPT !.at = "shut", !.on = s]
<1>1. At(t, "find") /\ UNCHANGED <<counted, session, pool, stage, main, issued, aliases>>
  BY DEF Find, poolVars
<1>2. CASE Done(t) /\ UNCHANGED <<tomb, registered>>
  BY <1>1, <1>2, DoneKeeps DEF At, targetVars
<1>3. CASE /\ s \in registered[c] /\ task' = [task EXCEPT ![t] = k]
           /\ tomb' = [tomb EXCEPT ![c] = @ \cup {s}]
           /\ registered' = [registered EXCEPT ![c] = @ \ {s}]
  <2>1. c \in Conns /\ main[c] # None /\ s \in issued[c] /\ s \in Sessions
    BY <1>1 DEF TInv, Typed, Addressed, At
  <2>2. k \in TaskRecords /\ k.at = "shut" /\ k.on = s /\ k.conn = c
    BY <2>1 DEF TInv, Typed, TaskRecords
  <2> HIDE DEF k, c, s
  <2>3. task'[t] = k /\ \A u \in Tasks \ {t} : task'[u] = task[u]
    BY <1>3 DEF TInv, Typed
  <2>4. Typed'
    BY <1>1, <1>3, <2>1, <2>2 DEF TInv, Typed
  <2>5. /\ tomb'[c] = tomb[c] \cup {s} /\ registered'[c] = registered[c] \ {s}
        /\ \A d \in Conns \ {c} : tomb'[d] = tomb[d] /\ registered'[d] = registered[d]
    BY <1>3, <2>1 DEF TInv, Typed
  <2>6. ASSUME NEW d \in Conns PROVE Homed(d)' /\ Listed(d)'
    BY <1>1, <2>1, <2>5 DEF TInv, Homed, Listed
  <2>7. ASSUME NEW u \in Tasks PROVE Addressed(u)' /\ Fresh(u)'
    <3>1. CASE u = t
      BY <1>1, <2>1, <2>2, <2>3, <2>5, <3>1 DEF Addressed, Fresh, At
    <3>2. CASE u # t
      <4>1. Addressed(u)'
        BY <1>1, <2>3, <2>5, <3>2 DEF TInv, Addressed
      <4>2. Fresh(u)'
        BY <1>1, <2>2, <2>3, <3>2 DEF TInv, Fresh, At
      <4>3. QED  BY <4>1, <4>2
    <3>3. QED  BY <3>1, <3>2
  <2>8. ASSUME NEW r \in pool' PROVE Owned(r)'
    <3>1. CASE r = s
      BY <2>2, <2>3, <3>1 DEF Owned, At
    <3>2. CASE r # s
      BY <1>1, <2>3, <2>5, <3>2 DEF TInv, Owned, At
    <3>3. QED  BY <3>1, <3>2
  <2>9. QED  BY <2>4, <2>6, <2>7, <2>8 DEF TInv
<1>4. QED  BY <1>2, <1>3 DEF Find, Goes

\* What closeTarget closes has its tombstone.
LEMMA ShutKeeps ==
    ASSUME TInv, IInv', NEW t \in Tasks, Shut(t)
    PROVE  TInv'
<1> DEFINE s == task[t].on
<1>1. /\ At(t, "shut") /\ task' = [task EXCEPT ![t] = Free]
      /\ session' = [session EXCEPT ![s] = "closed"]
      /\ UNCHANGED <<counted, pool, stage, main, registered, tomb, issued, aliases>>
  BY DEF Shut, CloseSession, Done, targetVars
<1>2. PICK c \in Conns : s \in tomb[c]
  BY <1>1 DEF TInv, Addressed, At
<1>3. /\ s \in issued[c] /\ s \in Sessions /\ session \in [Sessions -> {"none", "open", "closed"}]
      /\ \A d \in Conns : main[d] # s /\ (s \in issued[d] => d = c)
      /\ \A u \in Tasks : At(u, "register") => task[u].on # s
  <2>1. s \in issued[c] /\ s \in Sessions /\ session \in [Sessions -> {"none", "open", "closed"}]
    BY <1>2 DEF TInv, Listed, Typed, IInv, PoolTypeOK
  <2>2. s # None
    BY <2>1, NoneAssumption
  <2>3. \A d \in Conns : main[d] # s /\ (s \in issued[d] => d = c)
    BY <2>1, <2>2 DEF TInv, Homed, Listed
  <2>4. \A u \in Tasks : At(u, "register") => task[u].on # s
    BY <2>1 DEF TInv, Fresh
  <2>5. QED  BY <2>1, <2>3, <2>4
<1> HIDE DEF s
<1>4. task'[t] = Free /\ \A u \in Tasks \ {t} : task'[u] = task[u]
  BY <1>1 DEF TInv, Typed
<1>5. session'[s] = "closed" /\ \A r \in Sessions \ {s} : session'[r] = session[r]
  BY <1>1, <1>3
<1>6. Typed'
  BY <1>1, FreeTask DEF TInv, Typed
<1>7. ASSUME NEW d \in Conns PROVE Homed(d)' /\ Listed(d)'
  <2>1. Homed(d)'
    BY <1>1, <1>3, <1>5 DEF TInv, Homed, Typed
  <2>2. Listed(d)'
    BY <1>1, <1>2, <1>3, <1>5 DEF TInv, Listed, Typed
  <2>3. QED  BY <2>1, <2>2
<1>8. ASSUME NEW u \in Tasks PROVE Addressed(u)' /\ Fresh(u)'
  <2>1. CASE u = t
    BY <1>4, <2>1, FreeTask DEF Addressed, Fresh, At
  <2>2. CASE u # t
    <3>1. Addressed(u)'
      BY <1>1, <1>4, <2>2 DEF TInv, Addressed
    <3>2. At(u, "register") => task[u].on \in Sessions
      BY DEF TInv, Fresh, IInv, PoolTypeOK
    <3>3. Fresh(u)'
      BY <1>1, <1>3, <1>4, <1>5, <2>2, <3>2, FreeTask DEF TInv, Fresh, At
    <3>4. QED  BY <3>1, <3>3
  <2>3. QED  BY <2>1, <2>2
<1>9. ASSUME NEW r \in pool' PROVE Owned(r)'
  <2>1. CASE r = s
    BY <1>5, <2>1 DEF Owned
  <2>2. CASE r # s
    <3>1. Owned(r) /\ r \in Sessions /\ s = task[t].on
      BY <1>1 DEF TInv, IInv, PoolTypeOK, s
    <3>2. QED  BY <1>1, <1>4, <1>5, <2>2, <3>1 DEF Owned, At
  <2>3. QED  BY <2>1, <2>2
<1>10. QED  BY <1>6, <1>7, <1>8, <1>9 DEF TInv

\* Detaching and attaching change what ids mean, not what becomes of the sessions.
LEMMA RegistryOnly ==
    ASSUME TInv, IInv', NEW t \in Tasks,
           Forget(t) \/ \E c \in Conns, s \in Sessions : Attach(t, c, s)
    PROVE  TInv'
<1>1. UNCHANGED <<counted, session, pool, stage, main, tomb, issued>>
  BY DEF Forget, Attach, poolVars
<1>2. /\ registered' \in [Conns -> SUBSET Sessions] /\ aliases' \in [Conns -> SUBSET Sessions]
      /\ \A c \in Conns : registered'[c] \subseteq registered[c]
      /\ task' \in [Tasks -> TaskRecords]
  BY FreeTask DEF Forget, Attach, Done, TInv, Typed
<1>3. /\ \A u \in Tasks : task'[u] = task[u] \/ (task'[u] = Free /\ task[u].at = "forget")
  BY DEF Forget, Attach, Done, At, TInv, Typed
<1>4. Typed'
  BY <1>1, <1>2 DEF TInv, Typed
<1>5. ASSUME NEW c \in Conns PROVE Homed(c)' /\ Listed(c)'
  BY <1>1, <1>2 DEF TInv, Homed, Listed
<1>6. ASSUME NEW u \in Tasks PROVE Addressed(u)' /\ Fresh(u)'
  <2>1. Addressed(u)'
    BY <1>1, <1>2, <1>3, FreeTask DEF TInv, Addressed
  <2>2. Fresh(u)'
    BY <1>1, <1>3, FreeTask DEF TInv, Fresh, At
  <2>3. QED  BY <2>1, <2>2
<1>7. ASSUME NEW r \in pool' PROVE Owned(r)'
  BY <1>1, <1>3 DEF TInv, Owned, At
<1>8. QED  BY <1>4, <1>5, <1>6, <1>7 DEF TInv

-----------------------------------------------------------------------------
(* Theorems about the targets *)

\* Every step is one of the pool or leaves it alone.
LEMMA PoolStep == TInv /\ [Next]_vars => [PoolNext]_poolVars
<1> SUFFICES ASSUME TInv, [Next]_vars PROVE [PoolNext]_poolVars
  OBVIOUS
<1>1. ASSUME NEW c \in Conns,
             \/ Accept(c) \/ HttpEnds(c) \/ Upgrade(c) \/ ConnectRefused(c)
             \/ Ends(c) \/ PongFails(c)
      PROVE  [PoolNext]_poolVars
  BY <1>1 DEF Accept, HttpEnds, Upgrade, ConnectRefused, Ends, PongFails
<1>2. ASSUME NEW c \in Conns, Connect(c) \/ \E s \in Sessions : Connected(c, s)
      PROVE  [PoolNext]_poolVars
  BY <1>2, ConnsAssumption DEF Connect, Connected, PoolNext
<1>3. ASSUME NEW c \in Conns, Closes(c) PROVE [PoolNext]_poolVars
  <2>1. stage[c] = "closing" => main[c] \in Sessions
    BY DEF TInv, Typed, Homed
  <2>2. QED  BY <1>3, <2>1 DEF Closes, CloseMain, CleanUp, PoolNext
<1>4. ASSUME NEW t \in Tasks, NEW c \in Conns,
             \/ \E sid \in Sids, verb \in Verbs : Run(t, c, verb, sid)
             \/ Create(t, c)
             \/ \E s \in Sessions : Close(t, c, s) \/ Detach(t, c, s) \/ Attach(t, c, s)
      PROVE  [PoolNext]_poolVars
  BY <1>4 DEF Run, Create, Close, Detach, Attach, Dispatch
<1>5. ASSUME NEW t \in Tasks,
             Route(t) \/ Missed(t) \/ CreateRefused(t) \/ Register(t) \/ Find(t) \/ Forget(t)
      PROVE  [PoolNext]_poolVars
  BY <1>5 DEF Route, Missed, CreateRefused, Register, Find, Forget
<1>6. ASSUME NEW t \in Tasks, CreateAdmitted(t) \/ \E s \in Sessions : Created(t, s)
      PROVE  [PoolNext]_poolVars
  BY <1>6, ConnsAssumption DEF CreateAdmitted, Created, PoolNext
<1>7. ASSUME NEW t \in Tasks, Enter(t) \/ Leave(t) \/ Shut(t) PROVE [PoolNext]_poolVars
  <2>1. At(t, "enter") \/ At(t, "running") \/ At(t, "shut") => task[t].on \in Sessions
    BY DEF TInv, Typed, Addressed, At
  <2>2. QED  BY <1>7, <2>1 DEF Enter, Leave, Shut, PoolNext
<1>8. CASE UNCHANGED vars
  BY <1>8 DEF vars
<1>9. CASE Next
  BY <1>1, <1>2, <1>3, <1>4, <1>5, <1>6, <1>7, <1>9 DEF Next, Works
<1>10. QED  BY <1>8, <1>9

LEMMA NextTInv == TInv /\ [Next]_vars => TInv'
<1> SUFFICES ASSUME TInv, [Next]_vars PROVE TInv'
  OBVIOUS
<1>1. IInv'
  BY PoolStep, StepPreserves DEF TInv
<1>2. CASE UNCHANGED vars
  <2>1. Typed'
    BY <1>2 DEF TInv, Typed, vars, targetVars
  <2>2. UNCHANGED <<session, pool, stage, main, targetVars, task>>
    BY <1>2 DEF vars, poolVars
  <2>3. QED  BY <1>1, <2>1, <2>2, ConnStep DEF TInv, Homed
<1>3. ASSUME NEW c \in Conns,
             \/ Accept(c) \/ HttpEnds(c) \/ Upgrade(c) \/ Connect(c) \/ ConnectRefused(c)
             \/ Ends(c) \/ PongFails(c) \/ Closes(c) \/ \E s \in Sessions : Connected(c, s)
      PROVE  TInv'
  BY <1>1, <1>3, ConnQuiet, ConnectedKeeps, CloseMainKeeps, CleanUpKeeps DEF Closes
<1>4. ASSUME NEW t \in Tasks, NEW c \in Conns,
             \/ \E sid \in Sids, verb \in Verbs : Run(t, c, verb, sid)
             \/ Create(t, c)
             \/ \E s \in Sessions : Close(t, c, s) \/ Detach(t, c, s) \/ Attach(t, c, s)
      PROVE  TInv'
  BY <1>1, <1>4, RequestKeeps, RegistryOnly
<1>5. ASSUME NEW t \in Tasks, Works(t) PROVE TInv'
  BY <1>1, <1>5, RouteKeeps, PlainKeeps, CreatedKeeps, RegisterKeeps, FindKeeps, ShutKeeps,
     RegistryOnly DEF Works
<1>6. QED  BY <1>2, <1>3, <1>4, <1>5 DEF Next

THEOREM TargetInvariance == Spec => []TInv
BY InitTInv, NextTInv, PTL DEF Spec

\* The server drives the pool: whatever connections and commands do, it is a step of
\* Browser's methods or none, so what holds of the pool alone holds under the server
\* (CdpSession::new, the end of run, createTarget, close_target).
THEOREM ServerDrivesThePool == Spec => PoolSpec /\ [](BooksAreExact /\ BoundedOvershoot)
<1>1. Init => PoolInit
  BY DEF Init
<1>2. TInv /\ [Next]_vars => [PoolNext]_poolVars
  BY PoolStep
<1>3. Spec => PoolSpec
  BY <1>1, <1>2, TargetInvariance, PTL DEF Spec, PoolSpec
<1>4. QED  BY <1>3, Exact, OvershootBound, PTL

\* Type correctness of connections, registries and commands; the connection counter
\* counts those that hyper still serves (server.rs).
THEOREM TargetTypes == Spec => []TypeOK
<1>1. TInv => TypeOK
  BY DEF TInv, IInv, Typed, TypeOK
<1>2. QED  BY <1>1, TargetInvariance, PTL

\* However createTarget, closeTarget, commands and the ends of connections interleave,
\* what a registry hands out is open, and every open session belongs to somebody
\* (close_by_target, createTarget, the end of run).
THEOREM RegistriesMatch == Spec => []RegistryMatchesSessions
<1>1. TInv => RegistryMatchesSessions
  <2> SUFFICES ASSUME TInv PROVE RegistryMatchesSessions
    OBVIOUS
  <2>1. RegisteredAreOpen
    BY DEF TInv, IInv, PoolTypeOK, Typed, Listed, RegisteredAreOpen
  <2>2. OpenSessionsAreKnown
    BY DEF TInv, Owned, OpenSessionsAreKnown
  <2>3. QED  BY <2>1, <2>2 DEF RegistryMatchesSessions
<1>2. QED  BY <1>1, TargetInvariance, PTL

-----------------------------------------------------------------------------
(* The child that a command is for *)

\* A connection that has no session yet.
Sessionless == \A c \in Conns : stage[c] \in {"off", "http", "upgraded"} => main[c] = None

\* Connections move, commands stay where they are.
ConnMoves(c) ==
    \/ Accept(c) \/ HttpEnds(c) \/ Upgrade(c) \/ Connect(c) \/ ConnectRefused(c)
    \/ Ends(c) \/ PongFails(c) \/ Closes(c) \/ \E s \in Sessions : Connected(c, s)

\* Commands arrive at their slot.
Requests(t, c) ==
    \/ \E sid \in Sids, verb \in Verbs : Run(t, c, verb, sid)
    \/ Create(t, c)
    \/ \E s \in Sessions : Close(t, c, s) \/ Detach(t, c, s)

LEMMA NextSplit ==
    ASSUME Next
    PROVE  \/ \E c \in Conns : ConnMoves(c)
           \/ \E t \in Tasks, c \in Conns : Requests(t, c) \/ \E s \in Sessions : Attach(t, c, s)
           \/ \E t \in Tasks : Works(t)
BY DEF Next, ConnMoves, Requests

LEMMA ConnMovesNoTask ==
    ASSUME NEW c \in Conns, ConnMoves(c)
    PROVE  UNCHANGED <<registered, tomb, issued, aliases, task>>
BY DEF ConnMoves, Accept, HttpEnds, Upgrade, Connect, ConnectRefused, Ends, PongFails, Closes,
       CloseMain, CleanUp, Connected, targetVars

LEMMA RequestsOnlyStart ==
    ASSUME TInv, NEW t \in Tasks, NEW c \in Conns, Requests(t, c)
    PROVE  /\ UNCHANGED <<session, pool, locked, shared, stage, main, registered, tomb, issued>>
           /\ task[t].at = "free" /\ task'[t].at \in {"route", "check", "find", "forget"}
           /\ \A u \in Tasks \ {t} : task'[u] = task[u]
<1>1. PICK verb, sid : \E at \in {"route", "check", "find", "forget"} :
                          Dispatch(t, c, verb, at, sid)
  BY DEF Requests, Run, Create, Close, Detach
<1>2. PICK at \in {"route", "check", "find", "forget"} : Dispatch(t, c, verb, at, sid)
  BY <1>1
<1>3. /\ UNCHANGED <<session, pool, locked, shared, stage, main, registered, tomb, issued>>
      /\ task[t].at = "free" /\ task' = [task EXCEPT ![t] = Task(c, verb, at, sid, None)]
  BY <1>2 DEF Dispatch, At, poolVars, targetVars
<1>4. Task(c, verb, at, sid, None).at = at
  BY DEF Task
<1>5. QED  BY <1>3, <1>4 DEF TInv, Typed

\* The session of a connection is its session for good.
LEMMA MainStays ==
    ASSUME TInv, Sessionless, [Next]_vars
    PROVE  Sessionless' /\ \A c \in Conns : main[c] # None => main'[c] = main[c]
<1>1. CASE UNCHANGED <<stage, main>>
  BY <1>1 DEF Sessionless
<1>2. ASSUME NEW c \in Conns, ConnMoves(c)
      PROVE  Sessionless' /\ \A d \in Conns : main[d] # None => main'[d] = main[d]
  <2>1. CASE \E s \in Sessions : Connected(c, s)
    <3>1. PICK s \in Sessions : Connected(c, s)
      BY <2>1
    <3>2. /\ stage[c] = "upgraded" /\ main' = [main EXCEPT ![c] = s]
          /\ stage' = [stage EXCEPT ![c] = "live"]
      BY <3>1 DEF Connected, StageTo
    <3>3. QED  BY <3>2 DEF Sessionless, TInv, Typed
  <2>2. CASE ~\E s \in Sessions : Connected(c, s)
    <3>1. UNCHANGED main
      BY <1>2, <2>2 DEF ConnMoves, Accept, HttpEnds, Upgrade, Connect, ConnectRefused, Ends,
                        PongFails, Closes, CloseMain, CleanUp
    <3>2. \A d \in Conns : stage'[d] \in {"off", "http", "upgraded"}
                              => stage[d] \in {"off", "http", "upgraded"}
      BY <1>2, <2>2 DEF ConnMoves, Accept, HttpEnds, Upgrade, Connect, ConnectRefused, Ends,
                        PongFails, Closes, CloseMain, CleanUp, StageTo, TInv, Typed
    <3>3. QED  BY <3>1, <3>2 DEF Sessionless
  <2>3. QED  BY <2>1, <2>2
<1>3. ASSUME NEW t \in Tasks, Works(t) PROVE UNCHANGED <<stage, main>>
  BY <1>3 DEF Works, Route, Missed, Enter, Leave, CreateAdmitted, CreateRefused, Created,
              Register, Find, Shut, Forget
<1>4. ASSUME NEW t \in Tasks, NEW c \in Conns, Requests(t, c) \/ \E s \in Sessions : Attach(t, c, s)
      PROVE  UNCHANGED <<stage, main>>
  BY <1>4, RequestsOnlyStart DEF Attach
<1>5. CASE UNCHANGED vars
  BY <1>1, <1>5 DEF vars
<1>6. QED  BY <1>1, <1>2, <1>3, <1>4, <1>5, NextSplit

\* What is detached stays open: nobody can find it to close it.
LEMMA DetachedStays ==
    ASSUME TInv, [Next]_vars, NEW c \in Conns, NEW s \in Sessions, Detached(c, s)
    PROVE  Detached(c, s)'
<1>1. s \in issued[c] /\ s \notin registered[c] /\ s \notin tomb[c] /\ session[s] = "open"
  BY DEF Detached
<1>2. session \in [Sessions -> {"none", "open", "closed"}]
  BY DEF TInv, IInv, PoolTypeOK
<1>3. CASE UNCHANGED <<session, registered, tomb, issued>>
  BY <1>3 DEF Detached
<1>4. ASSUME NEW d \in Conns, ConnMoves(d) PROVE Detached(c, s)'
  <2>1. CASE UNCHANGED session
    BY <1>3, <1>4, <2>1, ConnMovesNoTask
  <2>2. CASE \E r \in Sessions : Connected(d, r)
    <3>1. session'[s] = "open"
      BY <1>1, <1>2, <2>2 DEF Connected, PushSession
    <3>2. QED  BY <1>1, <1>4, <3>1, ConnMovesNoTask DEF Detached
  <2>3. CASE CloseMain(d)
    <3>1. main[d] # None
      BY <2>3 DEF CloseMain, TInv, Homed
    <3>2. main[d] # s
      BY <1>1, <3>1 DEF TInv, Homed
    <3>3. session'[s] = "open"
      BY <1>1, <1>2, <2>3, <3>2 DEF CloseMain, CloseSession
    <3>4. QED  BY <1>1, <1>4, <3>3, ConnMovesNoTask DEF Detached
  <2>4. QED
    BY <1>4, <2>1, <2>2, <2>3 DEF ConnMoves, Accept, HttpEnds, Upgrade, Connect, ConnectRefused,
       Ends, PongFails, Closes, CleanUp, Cleanup, Admit, poolVars
<1>5. ASSUME NEW t \in Tasks, NEW d \in Conns, Requests(t, d) \/ \E r \in Sessions : Attach(t, d, r)
      PROVE  Detached(c, s)'
  BY <1>3, <1>5, RequestsOnlyStart DEF Attach, poolVars
<1>6. ASSUME NEW t \in Tasks, Works(t) PROVE Detached(c, s)'
  <2>1. CASE Route(t) \/ Missed(t) \/ Enter(t) \/ Leave(t) \/ CreateAdmitted(t) \/ CreateRefused(t)
    BY <1>3, <2>1 DEF Route, Missed, Enter, Leave, CreateAdmitted, CreateRefused, Lock, Unlock,
                      Share, Unshare, Admit, poolVars, targetVars
  <2>2. CASE \E r \in Sessions : Created(t, r)
    BY <1>1, <1>2, <2>2 DEF Created, PushSession, Detached, targetVars
  <2>3. CASE Register(t)
    <3>1. task[t].on # s /\ task[t].conn \in Conns
      BY <1>1, <2>3 DEF Register, TInv, Fresh, Addressed, At
    <3>2. QED  BY <1>1, <2>3, <3>1 DEF Register, Detached, TInv, Typed, poolVars
  <2>4. CASE Find(t)
    <3>1. task[t].conn \in Conns
      BY <2>4 DEF Find, TInv, Addressed, At
    <3>2. QED  BY <1>1, <2>4, <3>1 DEF Find, Detached, TInv, Typed, poolVars
  <2>5. CASE Shut(t)
    <3>1. task[t].conn \in Conns /\ task[t].on \in tomb[task[t].conn]
      BY <2>5 DEF Shut, TInv, Addressed, At
    <3>2. task[t].on # s
      BY <1>1, <3>1 DEF TInv, Listed
    <3>3. QED  BY <1>1, <1>2, <2>5, <3>2 DEF Shut, CloseSession, Detached, targetVars
  <2>6. CASE Forget(t)
    <3>1. task[t].conn \in Conns
      BY <2>6 DEF Forget, TInv, Addressed, At
    <3>2. QED  BY <1>1, <2>6, <3>1 DEF Forget, Detached, TInv, Typed, poolVars
  <2>7. QED  BY <1>6, <2>1, <2>2, <2>3, <2>4, <2>5, <2>6 DEF Works
<1>7. CASE UNCHANGED vars
  BY <1>3, <1>7 DEF vars, poolVars, targetVars
<1>8. QED  BY <1>4, <1>5, <1>6, <1>7, NextSplit

\* Where the command of one slot works.
OnItsChild(t) ==
    (At(t, "enter") \/ At(t, "running")) /\ task[t].sid.kind = "own" =>
        \/ task[t].on = task[t].sid.of
        \/ task[t].on = main[task[t].conn] /\ Detached(task[t].conn, task[t].sid.of)

\* A command that has its session keeps it.
LEMMA StaysOnItsChild ==
    ASSUME TInv, Sessionless, [Next]_vars, NEW t \in Tasks, OnItsChild(t),
           task[t].at \in {"enter", "running"},
           task'[t].sid = task[t].sid, task'[t].on = task[t].on, task'[t].conn = task[t].conn
    PROVE  OnItsChild(t)'
<1>1. task[t].conn \in Conns /\ main[task[t].conn] # None
  BY DEF TInv, Addressed
<1>2. main'[task[t].conn] = main[task[t].conn]
  BY <1>1, MainStays
<1>3. ASSUME task[t].sid.kind = "own", task[t].on # task[t].sid.of PROVE OnItsChild(t)'
  <2>1. task[t].on = main[task[t].conn] /\ Detached(task[t].conn, task[t].sid.of)
    BY <1>3 DEF OnItsChild, At
  <2>2. task[t].sid.of \in Sessions
    BY <1>1, <2>1 DEF Detached, TInv, Typed
  <2>3. Detached(task[t].conn, task[t].sid.of)'
    <3> DEFINE c == task[t].conn
               s == task[t].sid.of
    <3>1. c \in Conns /\ s \in Sessions /\ Detached(c, s)
      BY <1>1, <2>1, <2>2
    <3>2. task'[t].conn = c /\ task'[t].sid.of = s
      OBVIOUS
    <3> HIDE DEF c, s
    <3>3. /\ s \in issued'[c] \ (registered'[c] \cup tomb'[c]) /\ session'[s] = "open"
      BY <3>1, DetachedStays DEF Detached
    <3>4. QED  BY <3>2, <3>3 DEF Detached
  <2>4. QED  BY <1>2, <2>1, <2>3 DEF OnItsChild
<1>4. QED  BY <1>3 DEF OnItsChild

LEMMA RoutedToItsChild ==
    ASSUME TInv, NEW t \in Tasks, Route(t) \/ Missed(t)
    PROVE  OnItsChild(t)'
<1> DEFINE c == task[t].conn
           sid == task[t].sid
<1>1. task[t] \in TaskRecords /\ c \in Conns
  BY DEF Route, Missed, At, TInv, Typed, Addressed
<1>2. ASSUME NEW at, NEW s, Goes(t, at, s)
      PROVE  task'[t].at = at /\ task'[t].on = s /\ task'[t].sid = sid /\ task'[t].conn = c
  BY <1>1, <1>2 DEF Goes, TInv, Typed, TaskRecords
<1>3. CASE Route(t)
  <2>1. CASE sid.kind = "main" /\ Goes(t, "enter", main[c])
    BY <1>2, <2>1 DEF OnItsChild
  <2>2. CASE Goes(t, "enter", sid.of)
    BY <1>2, <2>2 DEF OnItsChild
  <2>3. CASE Goes(t, "missed", None)
    BY <1>2, <2>3 DEF OnItsChild, At
  <2>4. QED  BY <1>3, <2>1, <2>2, <2>3 DEF Route
<1>4. CASE Missed(t)
  <2>1. /\ UNCHANGED <<session, main, registered, tomb, issued>>
        /\ At(t, "missed")
    BY <1>4 DEF Missed, poolVars, targetVars
  <2>2. CASE Done(t)
    BY <2>2, FreeTask DEF Done, OnItsChild, At, TInv, Typed
  <2>3. CASE Goes(t, "enter", main[c]) /\ ~(sid.kind = "own" /\ sid.of \in tomb[c])
    <3>1. task'[t].on = main'[c] /\ task'[t].sid = sid /\ task'[t].conn = c
      BY <1>2, <2>1, <2>3
    <3>2. ASSUME sid.kind = "own" PROVE Detached(c, sid.of)
      <4>1. sid.of \in issued[c] /\ sid.of \notin registered[c] /\ sid.of \notin tomb[c]
        BY <2>1, <2>3, <3>2 DEF TInv, Addressed, At
      <4>2. session[sid.of] = "open"
        BY <1>1, <4>1 DEF TInv, IInv, PoolTypeOK, Typed, Listed
      <4>3. QED  BY <4>1, <4>2 DEF Detached
    <3>3. QED  BY <2>1, <3>1, <3>2 DEF OnItsChild, Detached
  <2>4. QED  BY <1>4, <2>2, <2>3 DEF Missed
<1>5. QED  BY <1>3, <1>4

LEMMA KeepsToItsChild ==
    ASSUME TInv, Sessionless, [Next]_vars, NEW t \in Tasks, OnItsChild(t)
    PROVE  OnItsChild(t)'
<1>1. CASE task'[t] = task[t]
  BY <1>1, StaysOnItsChild DEF OnItsChild, At
<1>2. CASE task'[t].at \notin {"enter", "running"}
  BY <1>2 DEF OnItsChild, At
<1>3. CASE Works(t)
  <2>1. CASE Route(t) \/ Missed(t)
    BY <2>1, RoutedToItsChild
  <2>2. CASE Enter(t)
    <3>1. task[t] \in TaskRecords /\ task[t].at = "enter"
      BY <2>2 DEF Enter, At, TInv, Typed
    <3>2. task'[t].sid = task[t].sid /\ task'[t].on = task[t].on /\ task'[t].conn = task[t].conn
      BY <2>2, <3>1 DEF Enter, Goes, TInv, Typed, TaskRecords
    <3>3. QED  BY <3>1, <3>2, StaysOnItsChild
  <2>3. CASE Done(t)
    BY <1>2, <2>3, FreeTask DEF Done, TInv, Typed
  <2>4. ASSUME NEW s, NEW at \in {"push", "register", "shut"}, Goes(t, at, s)
        PROVE  OnItsChild(t)'
    <3>1. [task[t] EXCEPT !.at = at, !.on = s].at = at
      BY DEF TInv, Typed, TaskRecords
    <3>2. task'[t].at = at
      BY <2>4, <3>1 DEF Goes, TInv, Typed
    <3>3. QED  BY <1>2, <3>2
  <2>5. QED
    BY <1>3, <2>1, <2>2, <2>3, <2>4 DEF Works, Leave, CreateAdmitted, CreateRefused, Created,
       Register, Find, Shut, Forget
<1>4. ASSUME NEW u \in Tasks, Works(u), u # t PROVE task'[t] = task[t]
  <2>1. \E k : task' = [task EXCEPT ![u] = k]
    BY <1>4 DEF Works, Route, Missed, Enter, Leave, CreateAdmitted, CreateRefused, Created,
                Register, Find, Shut, Forget, Done, Goes
  <2>2. QED  BY <1>4, <2>1 DEF TInv, Typed
<1>5. ASSUME NEW u \in Tasks, NEW c \in Conns, Requests(u, c) \/ \E s \in Sessions : Attach(u, c, s)
      PROVE  OnItsChild(t)'
  BY <1>1, <1>2, <1>5, RequestsOnlyStart DEF Attach
<1>6. ASSUME NEW c \in Conns, ConnMoves(c) PROVE task'[t] = task[t]
  BY <1>6, ConnMovesNoTask
<1>7. CASE UNCHANGED vars
  BY <1>1, <1>7 DEF vars
<1>8. QED  BY <1>1, <1>3, <1>4, <1>5, <1>6, <1>7, NextSplit

\* For any number of connections and commands: a command with the sessionId that
\* createTarget issued works on that child, or on the default session if the client
\* has detached the child, which stays open; it never works on the default session in
\* the place of a child that was closed (dispatch_command, close_by_target).  Nothing
\* is said of the ids of attachToTarget, which are not in the registry.
THEOREM NeverFallsBack == Spec => []NoFallback
<1>1. NoFallback <=> \A t \in Tasks : OnItsChild(t)
  BY DEF NoFallback, OnItsChild
<1>2. Init => Sessionless /\ \A t \in Tasks : OnItsChild(t)
  BY FreeTask DEF Init, Sessionless, OnItsChild, At
<1>3. TInv /\ Sessionless /\ (\A t \in Tasks : OnItsChild(t)) /\ [Next]_vars
        => Sessionless' /\ (\A t \in Tasks : OnItsChild(t))'
  BY MainStays, KeepsToItsChild
<1>4. QED  BY <1>1, <1>2, <1>3, TargetInvariance, PTL DEF Spec

-----------------------------------------------------------------------------
(* The lock of a session *)

Running == {t \in Tasks : At(t, "running")}
Reading == {t \in Running : Reads(t)}
Writing == Running \ Reading

\* A session is locked exactly while a command that changes it runs on it, and held for
\* reading exactly while one that reads it does; the first kind has it alone.
LocksAreHeld ==
    /\ locked = {task[t].on : t \in Writing}
    /\ shared = {task[t].on : t \in Reading}
    /\ \A t \in Writing, u \in Running : task[t].on = task[u].on => t = u

\* No session is closed while a command runs on it.
ClosesWait ==
    \A t \in Running : session[task[t].on] = "open" => session'[task[t].on] = "open"

\* A step that neither lets a command enter a session nor lets one leave.
LEMMA LocksStay ==
    ASSUME LocksAreHeld, UNCHANGED <<locked, shared>>,
           \A t \in Tasks : At(t, "running") \/ At(t, "running")' => task'[t] = task[t]
    PROVE  LocksAreHeld'
<1>1. Running' = Running /\ \A t \in Running : task'[t] = task[t]
  BY DEF Running, At
<1>2. Reading' = Reading /\ Writing' = Writing
  BY <1>1 DEF Reading, Writing, Reads, Running
<1>3. QED  BY <1>1, <1>2 DEF LocksAreHeld, Reading, Writing

\* The same for a step of one command.
LEMMA LocksStayHere ==
    ASSUME TInv, LocksAreHeld, UNCHANGED <<locked, shared>>, NEW t \in Tasks, NEW k,
           task' = [task EXCEPT ![t] = k], ~At(t, "running"), k.at # "running"
    PROVE  LocksAreHeld'
<1>1. task'[t] = k /\ \A u \in Tasks \ {t} : task'[u] = task[u]
  BY DEF TInv, Typed
<1>2. \A u \in Tasks : At(u, "running") \/ At(u, "running")' => task'[u] = task[u]
  BY <1>1 DEF At
<1>3. QED  BY <1>2, LocksStay

LEMMA EnterLocks ==
    ASSUME TInv, LocksAreHeld, NEW t \in Tasks, Enter(t)
    PROVE  LocksAreHeld'
<1> DEFINE s == task[t].on
<1>1. ~At(t, "running") /\ task' = [task EXCEPT ![t] = [@ EXCEPT !.at = "running", !.on = s]]
  BY DEF Enter, Goes, At
<1>2. task[t] \in TaskRecords
  BY DEF TInv, Typed
<1>3. /\ task'[t].at = "running" /\ task'[t].on = s /\ task'[t].verb = task[t].verb
      /\ \A u \in Tasks \ {t} : task'[u] = task[u]
  BY <1>1, <1>2 DEF TInv, Typed, TaskRecords
<1>4. Running' = Running \cup {t} /\ t \notin Running
  BY <1>1, <1>3 DEF Running, At
<1>5. /\ \A u \in Running : task'[u] = task[u]
      /\ locked = {task[u].on : u \in Writing} /\ shared = {task[u].on : u \in Reading}
      /\ \A u \in Writing, v \in Running : task[u].on = task[v].on => u = v
  BY <1>3, <1>4 DEF LocksAreHeld, Running
<1>6. CASE Reads(t)
  <2>1. s \notin locked /\ shared' = shared \cup {s} /\ locked' = locked
    BY <1>6 DEF Enter, Share
  <2>2. Reading' = Reading \cup {t} /\ Writing' = Writing
    BY <1>3, <1>4, <1>5, <1>6 DEF Reading, Writing, Reads
  <2>3. \A u \in Writing : task[u].on # s
    BY <1>5, <2>1
  <2>4. \A u \in Writing', v \in Running' : task'[u].on = task'[v].on => u = v
    BY <1>3, <1>4, <1>5, <2>2, <2>3 DEF Writing
  <2>5. /\ locked' = {task'[u].on : u \in Writing'}
        /\ shared' = {task'[u].on : u \in Reading'}
    BY <1>3, <1>5, <2>1, <2>2 DEF Writing, Reading
  <2>6. QED  BY <2>4, <2>5 DEF LocksAreHeld
<1>7. CASE ~Reads(t)
  <2>1. s \notin locked \cup shared /\ locked' = locked \cup {s} /\ shared' = shared
    BY <1>7 DEF Enter, Lock
  <2>2. Writing' = Writing \cup {t} /\ Reading' = Reading
    BY <1>3, <1>4, <1>5, <1>7 DEF Reading, Writing, Reads
  <2>3. \A u \in Running : task[u].on # s
    BY <1>5, <2>1 DEF Writing
  <2>4. \A u \in Writing', v \in Running' : task'[u].on = task'[v].on => u = v
    BY <1>3, <1>4, <1>5, <2>2, <2>3 DEF Writing
  <2>5. /\ locked' = {task'[u].on : u \in Writing'}
        /\ shared' = {task'[u].on : u \in Reading'}
    BY <1>3, <1>5, <2>1, <2>2 DEF Writing, Reading
  <2>6. QED  BY <2>4, <2>5 DEF LocksAreHeld
<1>8. QED  BY <1>6, <1>7

LEMMA LeaveUnlocks ==
    ASSUME TInv, LocksAreHeld, NEW t \in Tasks, Leave(t)
    PROVE  LocksAreHeld'
<1> DEFINE s == task[t].on
<1>1. t \in Running /\ task' = [task EXCEPT ![t] = Free]
  BY DEF Leave, Done, Running
<1>2. task'[t] = Free /\ \A u \in Tasks \ {t} : task'[u] = task[u]
  BY <1>1 DEF TInv, Typed
<1>3. Running' = Running \ {t} /\ \A u \in Running' : task'[u] = task[u]
  BY <1>2, FreeTask DEF Running, At
<1>4. Reading' = Reading \ {t} /\ Writing' = Writing \ {t}
  BY <1>3 DEF Reading, Writing, Reads
<1>5. /\ locked = {task[u].on : u \in Writing} /\ shared = {task[u].on : u \in Reading}
      /\ \A u \in Writing, v \in Running : task[u].on = task[v].on => u = v
  BY DEF LocksAreHeld
<1>6. \A u \in Writing', v \in Running' : task'[u].on = task'[v].on => u = v
  BY <1>3, <1>4, <1>5 DEF Writing
<1>7. CASE ~Reads(t)
  <2>1. t \in Writing /\ Reading' = Reading /\ locked' = locked \ {s} /\ shared' = shared
    BY <1>1, <1>4, <1>7 DEF Leave, Unlock, Reading, Writing
  <2>2. \A u \in Writing' : task[u].on # s
    BY <1>3, <1>4, <1>5, <2>1 DEF Writing
  <2>3. /\ locked' = {task'[u].on : u \in Writing'}
        /\ shared' = {task'[u].on : u \in Reading'}
    BY <1>3, <1>4, <1>5, <2>1, <2>2 DEF Writing, Reading
  <2>4. QED  BY <1>6, <2>3 DEF LocksAreHeld
<1>8. CASE Reads(t)
  <2>1. t \in Reading /\ Writing' = Writing /\ locked' = locked
    BY <1>1, <1>4, <1>8 DEF Leave, Unshare, Reading, Writing, poolVars
  <2>2. locked' = {task'[u].on : u \in Writing'}
    BY <1>3, <1>5, <2>1 DEF Writing
  <2>3. shared' = {task'[u].on : u \in Reading'}
    <3>1. CASE ReadByAnother(t)
      <4>1. shared' = shared
        BY <1>8, <3>1 DEF Leave, poolVars
      <4>2. PICK u \in Reading' : task[u].on = s
        BY <1>4, <3>1 DEF ReadByAnother, Reading, Running
      <4>3. QED  BY <1>3, <1>4, <1>5, <2>1, <4>1, <4>2 DEF Reading
    <3>2. CASE ~ReadByAnother(t)
      <4>1. shared' = shared \ {s}
        BY <1>8, <3>2 DEF Leave, Unshare
      <4>2. \A u \in Reading' : task[u].on # s
        BY <1>4, <3>2 DEF ReadByAnother, Reading, Running
      <4>3. QED  BY <1>3, <1>4, <1>5, <2>1, <4>1, <4>2 DEF Reading
    <3>3. QED  BY <3>1, <3>2
  <2>4. QED  BY <1>6, <2>2, <2>3 DEF LocksAreHeld
<1>9. QED  BY <1>7, <1>8

\* The other steps of commands.
LEMMA OthersEnterNothing ==
    ASSUME TInv, LocksAreHeld, NEW t \in Tasks, Works(t), ~Enter(t), ~Leave(t)
    PROVE  LocksAreHeld'
<1>1. UNCHANGED <<locked, shared>> /\ ~At(t, "running")
  BY DEF Works, Route, Missed, CreateAdmitted, CreateRefused, Created, Register, Find, Shut,
         Forget, Admit, PushSession, CloseSession, At, poolVars
<1>2. CASE Done(t)
  BY <1>1, <1>2, FreeTask, LocksStayHere DEF Done
<1>3. ASSUME NEW s, NEW at \in {"enter", "missed", "push", "register", "shut"}, Goes(t, at, s)
      PROVE  LocksAreHeld'
  <2>1. [task[t] EXCEPT !.at = at, !.on = s].at = at
    BY DEF TInv, Typed, TaskRecords
  <2>2. QED  BY <1>1, <1>3, <2>1, LocksStayHere DEF Goes
<1>4. QED
  BY <1>2, <1>3 DEF Works, Route, Missed, CreateAdmitted, CreateRefused, Created, Register,
     Find, Shut, Forget

LEMMA LocksKept == TInv /\ LocksAreHeld /\ [Next]_vars => LocksAreHeld'
<1> SUFFICES ASSUME TInv, LocksAreHeld, [Next]_vars PROVE LocksAreHeld'
  OBVIOUS
<1>1. CASE UNCHANGED vars
  BY <1>1, LocksStay DEF vars, poolVars
<1>2. ASSUME NEW c \in Conns, ConnMoves(c) PROVE LocksAreHeld'
  <2>1. UNCHANGED <<locked, shared, task>>
    BY <1>2 DEF ConnMoves, Accept, HttpEnds, Upgrade, Connect, ConnectRefused, Ends, PongFails,
                Closes, CloseMain, CleanUp, Connected, Admit, PushSession, CloseSession, Cleanup,
                poolVars
  <2>2. QED  BY <2>1, LocksStay
<1>3. ASSUME NEW t \in Tasks, NEW c \in Conns, Requests(t, c) PROVE LocksAreHeld'
  <2>1. UNCHANGED <<locked, shared>>
    BY <1>3, RequestsOnlyStart
  <2>2. \A u \in Tasks : At(u, "running") \/ At(u, "running")' => task'[u] = task[u]
    BY <1>3, RequestsOnlyStart DEF At
  <2>3. QED  BY <2>1, <2>2, LocksStay
<1>4. ASSUME NEW t \in Tasks, NEW c \in Conns, NEW s \in Sessions, Attach(t, c, s)
      PROVE  LocksAreHeld'
  BY <1>4, LocksStay DEF Attach, poolVars
<1>5. ASSUME NEW t \in Tasks, Works(t) PROVE LocksAreHeld'
  BY <1>5, EnterLocks, LeaveUnlocks, OthersEnterNothing
<1>6. QED  BY <1>1, <1>2, <1>3, <1>4, <1>5, NextSplit

LEMMA ClosesKeepOff == TInv /\ LocksAreHeld /\ [Next]_vars => ClosesWait
<1> SUFFICES ASSUME TInv, LocksAreHeld, [Next]_vars, NEW t \in Running,
                    session[task[t].on] = "open"
             PROVE  session'[task[t].on] = "open"
  BY DEF ClosesWait
<1> DEFINE s == task[t].on
<1>1. s \in locked \cup shared
  BY DEF LocksAreHeld, Writing
<1>2. session \in [Sessions -> {"none", "open", "closed"}]
  BY DEF TInv, IInv, PoolTypeOK
<1>3. s \in Sessions /\ session[s] = "open"
  BY DEF TInv, Addressed, Running, At
<1>4. ASSUME NEW r \in Sessions, CloseSession(r) PROVE session'[s] = "open"
  BY <1>1, <1>2, <1>3, <1>4 DEF CloseSession
<1>5. ASSUME NEW o, NEW r \in Sessions, PushSession(o, r) PROVE session'[s] = "open"
  BY <1>2, <1>3, <1>5 DEF PushSession
<1>6. ASSUME UNCHANGED session PROVE session'[s] = "open"
  BY <1>3, <1>6
<1> HIDE DEF s
<1> DEFINE Kept == session'[s] = "open"
<1>7. ASSUME NEW c \in Conns, ConnMoves(c) PROVE Kept
  <2>1. CASE CloseMain(c)
    <3>1. main[c] \in Sessions /\ CloseSession(main[c])
      BY <2>1 DEF CloseMain, TInv, Typed, Homed
    <3>2. QED  BY <1>4, <3>1
  <2>2. ASSUME NEW r \in Sessions, Connected(c, r) PROVE Kept
    <3>1. PushSession(c, r)
      BY <2>2 DEF Connected
    <3>2. QED  BY <1>5, <3>1
  <2>3. CASE ~CloseMain(c) /\ ~\E r \in Sessions : Connected(c, r)
    <3>1. UNCHANGED session
      BY <1>7, <2>3 DEF ConnMoves, Accept, HttpEnds, Upgrade, Connect, ConnectRefused, Ends,
                        PongFails, Closes, CleanUp, Admit, Cleanup, poolVars
    <3>2. QED  BY <1>6, <3>1
  <2>4. QED  BY <2>1, <2>2, <2>3
<1>8. ASSUME NEW u \in Tasks, Works(u) PROVE Kept
  <2>1. CASE Shut(u)
    <3>1. task[u].on \in Sessions /\ CloseSession(task[u].on)
      BY <2>1 DEF Shut, At, TInv, Typed, Addressed
    <3>2. QED  BY <1>4, <3>1
  <2>2. ASSUME NEW r \in Sessions, Created(u, r) PROVE Kept
    <3>1. PushSession(u, r)
      BY <2>2 DEF Created
    <3>2. QED  BY <1>5, <3>1
  <2>3. CASE ~Shut(u) /\ ~\E r \in Sessions : Created(u, r)
    <3>1. UNCHANGED session
      BY <1>8, <2>3 DEF Works, Route, Missed, Enter, Leave, CreateAdmitted, CreateRefused,
                        Register, Find, Forget, Lock, Unlock, Share, Unshare, Admit, poolVars
    <3>2. QED  BY <1>6, <3>1
  <2>4. QED  BY <2>1, <2>2, <2>3
<1>9. ASSUME NEW u \in Tasks, NEW c \in Conns,
             Requests(u, c) \/ \E r \in Sessions : Attach(u, c, r)
      PROVE  Kept
  <2>1. UNCHANGED session
    BY <1>9, RequestsOnlyStart DEF Attach, poolVars
  <2>2. QED  BY <1>6, <2>1
<1>10. ASSUME UNCHANGED vars PROVE Kept
  <2>1. UNCHANGED session
    BY <1>10 DEF vars, poolVars
  <2>2. QED  BY <1>6, <2>1
<1> HIDE DEF Kept
<1>11. Kept
  BY <1>7, <1>8, <1>9, <1>10, NextSplit
<1>12. QED  BY <1>11 DEF Kept, s

\* Whichever connections and sessionIds they came by, a command that changes a session
\* overlaps no other command on it, commands that only read it may overlap, the lock is
\* held exactly while they run, and the end of a connection or a closeTarget closes no
\* session under any of them (dispatch_command, the end of run, close_target).
\* EndedConnectionsClose rests on it: only a running command keeps a close waiting.
THEOREM CommandsExclude == Spec => [](LocksAreHeld) /\ [][ClosesWait]_vars
<1>1. Init => LocksAreHeld
  <2> SUFFICES ASSUME Init PROVE LocksAreHeld
    OBVIOUS
  <2>1. Running = {} /\ locked = {} /\ shared = {}
    BY FreeTask DEF Init, PoolInit, Running, At
  <2>2. QED  BY <2>1 DEF LocksAreHeld, Reading, Writing
<1>2. QED
  BY <1>1, InitTInv, NextTInv, LocksKept, ClosesKeepOff, PTL DEF Spec
=============================================================================
