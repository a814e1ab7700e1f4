----------------------------- MODULE SessionPool ------------------------------
(***************************************************************************)
(* The sessions a Browser has handed out and the limit on their number     *)
(* (core/browser.rs): sessions of CDP connections and targets, which the   *)
(* browser keeps in a list, tabs, which it only counts (core/tab.rs), the  *)
(* reclaiming of closed sessions and the closing of the browser.           *)
(*                                                                         *)
(* All methods take &self and the browser is shared by the tasks of a      *)
(* server, so calls interleave between their steps.  The capacity check    *)
(* itself is one step: the read guard on the list lives to the end of the  *)
(* statement that adds the tab counter.                                    *)
(***************************************************************************)
EXTENDS Naturals, FiniteSets

CONSTANTS Sessions,     \* the Session objects there can be; none is used twice
          Openers,      \* tasks that ask for sessions and tabs
          MaxSessions   \* BrowserConfig.max_sessions

ASSUME SessionsAssumption == IsFiniteSet(Sessions)
ASSUME OpenersAssumption == IsFiniteSet(Openers) /\ Openers # {}
ASSUME MaxAssumption == MaxSessions \in Nat

VARIABLES pool,      \* Browser.sessions
          tabCount,  \* Browser.tab_count
          session,   \* Session.closed: "none" (not created), "open" or "closed"
          tabs,      \* the sessions that belong to a Tab not yet closed
          opening,   \* where each opener stands between the check and the session
          locked,    \* sessions whose write lock somebody holds
          shared,    \* sessions that somebody, or several, hold for reading
          browser,   \* Browser.closed: "open", "closing" (not yet drained), "closed"
          draining   \* sessions that Browser::close has taken out and will close

poolVars == <<pool, tabCount, session, tabs, opening, locked, shared, browser, draining>>

-----------------------------------------------------------------------------
PoolInit ==
    /\ pool = {} /\ tabCount = 0
    /\ session = [s \in Sessions |-> "none"]
    /\ tabs = {}
    /\ opening = [o \in Openers |-> "no"]
    /\ locked = {} /\ shared = {}
    /\ browser = "open" /\ draining = {}

\* Variant: the limit itself is still admitted.
AdmitsAtLimit == browser = "open" /\ Cardinality(pool) + tabCount <= MaxSessions

\* ensure_open and the capacity check.
Admits == browser = "open" /\ Cardinality(pool) + tabCount < MaxSessions

\* new_session_in and new_tab_in up to the check ...
Admit(o, kind) ==
    /\ opening[o] = "no" /\ Admits
    /\ opening' = [opening EXCEPT ![o] = kind]
    /\ UNCHANGED <<pool, tabCount, session, tabs, locked, shared, browser, draining>>

\* ... and the rest: Session::new, then the list or the counter.
PushSession(o, s) ==
    /\ opening[o] = "session" /\ session[s] = "none"
    /\ session' = [session EXCEPT ![s] = "open"]
    /\ pool' = pool \cup {s}
    /\ opening' = [opening EXCEPT ![o] = "no"]
    /\ UNCHANGED <<tabCount, tabs, locked, shared, browser, draining>>

CountTab(o, s) ==
    /\ opening[o] = "tab" /\ session[s] = "none"
    /\ session' = [session EXCEPT ![s] = "open"]
    /\ tabCount' = tabCount + 1
    /\ tabs' = tabs \cup {s}
    /\ opening' = [opening EXCEPT ![o] = "no"]
    /\ UNCHANGED <<pool, locked, shared, browser, draining>>

\* Variant: the slot of a closed tab is not given back.
CloseTabUncounted(s) ==
    /\ s \in tabs
    /\ session' = [session EXCEPT ![s] = "closed"]
    /\ tabs' = tabs \ {s}
    /\ UNCHANGED <<pool, tabCount, opening, locked, shared, browser, draining>>

\* Variant: whoever closes a tab keeps it.
CloseTabKept(s) ==
    /\ s \in tabs
    /\ session' = [session EXCEPT ![s] = "closed"]
    /\ tabCount' = tabCount - 1
    /\ UNCHANGED <<pool, tabs, opening, locked, shared, browser, draining>>

\* Tab::close.  No caller closes a tab twice: TabManager and the MCP slot give the
\* tab up when they close it.
CloseTab(s) ==
    /\ s \in tabs
    /\ session' = [session EXCEPT ![s] = "closed"]
    /\ tabCount' = tabCount - 1
    /\ tabs' = tabs \ {s}
    /\ UNCHANGED <<pool, opening, locked, shared, browser, draining>>

\* The lock of a session is a readers-writer lock.  A command that changes the session
\* takes it alone and gives it back.
Lock(s) ==
    /\ session[s] # "none" /\ s \notin locked \cup shared \cup tabs
    /\ locked' = locked \cup {s}
    /\ UNCHANGED <<pool, tabCount, session, tabs, opening, shared, browser, draining>>

Unlock(s) ==
    /\ s \in locked
    /\ locked' = locked \ {s}
    /\ UNCHANGED <<pool, tabCount, session, tabs, opening, shared, browser, draining>>

\* One that only reads it shares it with others of its kind ...
Share(s) ==
    /\ session[s] # "none" /\ s \notin locked \cup tabs
    /\ shared' = shared \cup {s}
    /\ UNCHANGED <<pool, tabCount, session, tabs, opening, locked, browser, draining>>

\* ... and the last of them gives it back.
Unshare(s) ==
    /\ s \in shared
    /\ shared' = shared \ {s}
    /\ UNCHANGED <<pool, tabCount, session, tabs, opening, locked, browser, draining>>

\* Session::close, under the write lock.
CloseSession(s) ==
    /\ session[s] # "none" /\ s \notin locked \cup shared \cup tabs
    /\ session' = [session EXCEPT ![s] = "closed"]
    /\ UNCHANGED <<pool, tabCount, tabs, opening, locked, shared, browser, draining>>

\* cleanup_closed_sessions; what cannot be read at once is kept.  A session that is
\* being read can be, unless a writer waits for it already.
Cleanup ==
    /\ \E kept \in SUBSET shared :
          pool' = {s \in pool : session[s] # "closed" \/ s \in locked \cup kept}
    /\ UNCHANGED <<tabCount, session, tabs, opening, locked, shared, browser, draining>>

\* Browser::close: the flag, then the list is drained, then each session is closed.
CloseBrowser ==
    /\ browser = "open"
    /\ browser' = "closing"
    /\ UNCHANGED <<pool, tabCount, session, tabs, opening, locked, shared, draining>>

Drain ==
    /\ browser = "closing"
    /\ browser' = "closed"
    /\ draining' = pool
    /\ pool' = {}
    /\ UNCHANGED <<tabCount, session, tabs, opening, locked, shared>>

CloseDrained(s) ==
    /\ s \in draining \ (locked \cup shared)
    /\ session' = [session EXCEPT ![s] = "closed"]
    /\ draining' = draining \ {s}
    /\ UNCHANGED <<pool, tabCount, tabs, opening, locked, shared, browser>>

PoolNext ==
    \/ \E o \in Openers, kind \in {"session", "tab"} : Admit(o, kind)
    \/ \E o \in Openers, s \in Sessions : PushSession(o, s) \/ CountTab(o, s)
    \/ \E s \in Sessions :
          \/ CloseTab(s) \/ Lock(s) \/ Unlock(s) \/ Share(s) \/ Unshare(s)
          \/ CloseSession(s) \/ CloseDrained(s)
    \/ Cleanup \/ CloseBrowser \/ Drain

PoolSpec == PoolInit /\ [][PoolNext]_poolVars
-----------------------------------------------------------------------------
(* Properties *)

\* Type invariant; a tab that is still held is open.
PoolTypeOK ==
    /\ pool \subseteq Sessions /\ draining \subseteq Sessions
    /\ tabs \subseteq Sessions /\ locked \subseteq Sessions /\ shared \subseteq Sessions
    /\ \A s \in tabs : session[s] = "open"
    /\ tabCount \in Nat
    /\ session \in [Sessions -> {"none", "open", "closed"}]
    /\ opening \in [Openers -> {"no", "session", "tab"}]
    /\ browser \in {"open", "closing", "closed"}

InProgress == {o \in Openers : opening[o] # "no"}

\* The check is not atomic with what it admits, but the limit is exceeded by fewer
\* sessions than there are concurrent callers, however many calls they make.
BoundedOvershoot ==
    Cardinality(pool) + tabCount + Cardinality(InProgress) + 1
        <= MaxSessions + Cardinality(Openers)

\* The counter and the tabs agree: what tabs occupy is given back when they close,
\* and only once.
TabsCounted == tabCount = Cardinality(tabs)

\* No open session gets out of the browser's sight, so Browser::close can reach it:
\* the reclaiming of closed sessions does not take a busy one (cleanup_closed_sessions).
OpenSessionsAreListed ==
    \A s \in Sessions : session[s] = "open" => s \in pool \cup tabs \cup draining

\* What the browser counts and lists is what there is (new_tab_in, Tab::close,
\* cleanup_closed_sessions, Browser::close).
BooksAreExact == TabsCounted /\ OpenSessionsAreListed

\* The limit (browser.rs tests: "exceeding max_sessions should return error").
CapacityHolds == Cardinality(pool) + tabCount <= MaxSessions

\* When Browser::close has done its work no session of its list is left open
\* (browser.rs: "Close all sessions and shut down").
ClosedBrowserHasNoSession ==
    browser = "closed" /\ draining = {} => \A s \in pool : session[s] = "closed"
=============================================================================
