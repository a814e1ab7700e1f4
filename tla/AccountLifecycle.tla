--------------------------- MODULE AccountLifecycle ---------------------------
(***************************************************************************)
(* One account of the registry: the record and the sealed envelope on disk *)
(* (account/record.rs, account/registry.rs, storage/session_store.rs), the *)
(* advisory lock around their mutations (account/lock.rs), the operations  *)
(* of AccountManager (account/manager.rs), the login windows and imports   *)
(* of LoginOrchestrator (account/orchestrator.rs) and the unattended login *)
(* of AgentLoginEngine (account/agent_login.rs).                           *)
(*                                                                         *)
(* Calls run concurrently, in one process or in several (a serve process   *)
(* and CLI commands).  Each mutation of the record is made under the lock: *)
(* read, change the envelope if it has to, write.  Everything else a call  *)
(* looks at, it looks at without the lock.                                 *)
(***************************************************************************)
EXTENDS Integers, FiniteSets

CONSTANTS Calls,       \* calls made in a behaviour; a window is named after its begin_login
          Procs,       \* processes
          Home,        \* the process each call runs in
          Verbs,       \* the operations the callers use
          MaxCrashes,  \* bound: process crashes in a behaviour
          None         \* nobody

ASSUME CallsAssumption == Calls \subseteq Nat \ {0}
ASSUME NoneAssumption == None \notin Int
ASSUME HomeAssumption == Home \in [Calls -> Procs]
ASSUME CrashesAssumption == MaxCrashes \in Nat

States == {"needs_login", "logging_in", "valid", "stale", "challenge", "revoked"}

VARIABLES record,   \* account.json: state, and whether session_summary tells of a session
          env,      \* is there a sealed envelope?
          lock,     \* who holds the flock, or None
          job,      \* where each call and each window's timer stands
          window,   \* the windows in the logins tables: "none", "open" or "closed"
          policy,   \* how the lock is asked for; LockPolicy::Timeout does one or the other
          crashes,  \* number of crashes so far
          torn      \* history: a crash hit between the envelope and the record

vars == <<record, env, lock, job, window, policy, crashes, torn>>

\* The timer that begin_login spawns runs beside the calls.
TimerOf(c) == -c
Actors == Calls \cup {TimerOf(c) : c \in Calls}
HomeOf(a) == Home[IF a \in Calls THEN a ELSE -a]

\* AccountState::can_transition_to, apart from the transition to the same state.
Edges == [needs_login |-> {"logging_in", "valid"},
          logging_in  |-> {"valid", "needs_login"},
          valid       |-> {"stale", "challenge", "needs_login"},
          stale       |-> {"valid", "challenge", "logging_in", "needs_login"},
          challenge   |-> {"valid", "needs_login"},
          revoked     |-> {}]

CanTransition(from, to) == from = to \/ to \in Edges[from]

Records == [state : States, session : BOOLEAN]

(***************************************************************************)
(* Jobs.  "doing" is the operation, or the part of it, a mutation belongs  *)
(* to; "at" is the next step; "to" is the state to write ("same" when only *)
(* other fields change); "files" is what happens to the envelope; "win" is *)
(* the login window concerned; "saw" is the record as read under the lock. *)
(***************************************************************************)
Fresh == [state |-> "needs_login", session |-> FALSE]
Job(doing, at, to, files, win) ==
    [doing |-> doing, at |-> at, to |-> to, files |-> files, win |-> win, saw |-> Fresh]

Mutation(doing, to, win) == Job(doing, "lock", to, "keep", win)
Capture(doing, win) == Job(doing, "lock", "valid", "write", win)
Waiting(doing, at, win) == Job(doing, at, "same", "keep", win)
NotStarted == Waiting("none", "new", None)
Finished == Waiting("none", "done", None)

\* The mutation j, with the lock held and the record r read.
Holding(j, at, r) ==
    [doing |-> j.doing, at |-> at, to |-> j.to, files |-> j.files, win |-> j.win, saw |-> r]

\* Where a mutation leads once it has succeeded or failed.  A failure is an illegal
\* transition, or the lock held elsewhere under LockPolicy::FailFast.
Continue(j, ok) ==
    CASE j.doing = "begin" /\ ok -> Waiting("begin", "open", j.win)
      [] j.doing \in {"complete", "abort"} /\ ok -> Waiting(j.doing, "close", j.win)
      [] j.doing = "import" /\ ok -> Waiting("import", "probe", None)
      [] j.doing = "imported" /\ ~ok -> Mutation("revert", "needs_login", None)
      [] j.doing = "recover" /\ ok -> Mutation("agent", "logging_in", None)
      [] j.doing = "agent" /\ ok -> Waiting("agent", "restore", None)
      [] j.doing = "page" /\ j.to = "challenge" /\ ~ok -> Mutation("revert", "needs_login", None)
      [] OTHER -> Finished

At(a, step) == job[a].at = step
Go(a, j) == job' = [job EXCEPT ![a] = j]
Free(c, verb) == At(c, "new") /\ verb \in Verbs

-----------------------------------------------------------------------------
Init ==
    /\ record = Fresh /\ env = FALSE
    /\ lock = None
    /\ job = [a \in Actors |-> NotStarted]
    /\ window = [c \in Calls |-> "none"]
    /\ policy \in {"FailFast", "Block"}
    /\ crashes = 0 /\ torn = FALSE

disk == <<record, env>>
quiet == <<disk, lock, window, policy, crashes, torn>>

(* Mutations *)

\* Variant: the lock is not waited for.
AcquireAnyway(a) ==
    /\ At(a, "lock")
    /\ lock' = a
    /\ Go(a, Holding(job[a], IF job[a].files = "keep" THEN "save" ELSE "files", record))
    /\ UNCHANGED <<disk, window, policy, crashes, torn>>

\* Variant: every mutation touches the envelope.
AcquireForFiles(a) ==
    /\ At(a, "lock") /\ lock = None
    /\ lock' = a
    /\ Go(a, Holding(job[a], "files", record))
    /\ UNCHANGED <<disk, window, policy, crashes, torn>>

\* lock::acquire, then the record is read.
Acquire(a) ==
    /\ At(a, "lock") /\ lock = None
    /\ lock' = a
    /\ Go(a, Holding(job[a], IF job[a].files = "keep" THEN "save" ELSE "files", record))
    /\ UNCHANGED <<disk, window, policy, crashes, torn>>

LockBusy(a) ==
    /\ policy = "FailFast"
    /\ At(a, "lock") /\ lock # None
    /\ Go(a, Continue(job[a], FALSE))
    /\ UNCHANGED quiet

\* SessionStore::save and SessionStore::discard, before the record is written.
ChangeEnvelope(a) ==
    /\ At(a, "files")
    /\ env' = (job[a].files = "write")
    /\ Go(a, Holding(job[a], "save", job[a].saw))
    /\ UNCHANGED <<record, lock, window, policy, crashes, torn>>

\* Variant: the transition is not checked.
SaveUnchecked(a) ==
    LET j == job[a]
        to == IF j.to = "same" THEN j.saw.state ELSE j.to
    IN
    /\ At(a, "save")
    /\ record' = [state |-> to,
                  session |-> IF j.files = "keep" THEN j.saw.session ELSE j.files = "write"]
    /\ lock' = None
    /\ Go(a, Continue(j, TRUE))
    /\ UNCHANGED <<env, window, policy, crashes, torn>>

\* AccountRecord::transition on the record read, and AccountRegistry::save.
Save(a) ==
    LET j == job[a]
        to == IF j.to = "same" THEN j.saw.state ELSE j.to
        ok == CanTransition(j.saw.state, to)
    IN
    /\ At(a, "save")
    /\ record' = IF ok
                 THEN [state |-> to,
                       session |-> IF j.files = "keep" THEN j.saw.session ELSE j.files = "write"]
                 ELSE record
    /\ lock' = None
    /\ Go(a, Continue(j, ok))
    /\ UNCHANGED <<env, window, policy, crashes, torn>>

(* Login windows *)

OpenIn(p) == {c \in Calls : Home[c] = p /\ window[c] = "open"}

\* begin_login reads the state ...
Begin(c) ==
    /\ Free(c, "begin")
    /\ record.state \in {"needs_login", "stale"}
    /\ Go(c, Waiting("begin", "table", c))
    /\ UNCHANGED quiet

\* ... then looks for a window of the account in its table, and starts the mutation.
BeginChecksTable(c) ==
    /\ At(c, "table")
    /\ Go(c, IF OpenIn(Home[c]) = {} THEN Mutation("begin", "logging_in", c) ELSE Finished)
    /\ UNCHANGED quiet

\* The timer is spawned and the window entered in the table.
OpenWindow(c) ==
    /\ At(c, "open")
    /\ window' = [window EXCEPT ![c] = "open"]
    /\ job' = [[job EXCEPT ![c] = Finished] EXCEPT ![TimerOf(c)] = Waiting("timer", "armed", c)]
    /\ UNCHANGED <<disk, lock, policy, crashes, torn>>

\* complete_login and end_login find the window and start to judge the session.
Complete(c, w) ==
    /\ Free(c, "complete") /\ w \in OpenIn(Home[c])
    /\ Go(c, Waiting("complete", "judge", w))
    /\ UNCHANGED quiet

\* The detector answers: capture, or the window stays open.
Judged(c) ==
    /\ At(c, "judge")
    /\ \/ Go(c, Capture("complete", job[c].win))
       \/ Go(c, Finished)
    /\ UNCHANGED quiet

\* abort, called by the host.
Abort(c, w) ==
    /\ Free(c, "abort") /\ w \in OpenIn(Home[c])
    /\ Go(c, Mutation("abort", "needs_login", w))
    /\ UNCHANGED quiet

\* The armed timeout calls abort too; from there on it cannot be cancelled.
TimerFires(c) ==
    /\ At(TimerOf(c), "armed")
    /\ Go(TimerOf(c), IF window[c] = "open" THEN Mutation("abort", "needs_login", c) ELSE Finished)
    /\ UNCHANGED quiet

\* close_window.
CloseWindow(a) ==
    LET w == job[a].win IN
    /\ At(a, "close")
    /\ window' = [window EXCEPT ![w] = "closed"]
    /\ job' = [b \in Actors |-> IF b = a \/ (b = TimerOf(w) /\ At(b, "armed"))
                                THEN Finished ELSE job[b]]
    /\ UNCHANGED <<disk, lock, policy, crashes, torn>>

(* Imports, probes, logouts, other edits *)

Import(c) ==
    /\ Free(c, "import")
    /\ Go(c, Mutation("import", "logging_in", None))
    /\ UNCHANGED quiet

\* Variant: an import that fails leaves the account as it is.
ImportedLeftAlone(c) ==
    /\ At(c, "probe") /\ job[c].doing = "import"
    /\ \/ Go(c, Capture("imported", None))
       \/ Go(c, Mutation("imported", "needs_login", None))
       \/ Go(c, Finished)
    /\ UNCHANGED quiet

\* import_inner after enter_logging_in: the probe confirms the imported state,
\* refutes it (or meets a challenge), or something fails.
Imported(c) ==
    /\ At(c, "probe") /\ job[c].doing = "import"
    /\ \/ Go(c, Capture("imported", None))
       \/ Go(c, Mutation("imported", "needs_login", None))
       \/ Go(c, Mutation("revert", "needs_login", None))
    /\ UNCHANGED quiet

\* verify_with_probe restores the envelope and probes without the lock ...
Verify(c) ==
    /\ Free(c, "verify") /\ env
    /\ Go(c, Waiting("verify", "probe", None))
    /\ UNCHANGED quiet

\* ... and writes the verdict; an unreachable site is no evidence.
Verified(c) ==
    /\ At(c, "probe") /\ job[c].doing = "verify"
    /\ \/ \E to \in {"valid", "stale", "challenge"} : Go(c, Mutation("verify", to, None))
       \/ Go(c, Finished)
    /\ UNCHANGED quiet

Logout(c) ==
    /\ Free(c, "logout")
    /\ Go(c, Job("logout", "lock", "needs_login", "discard", None))
    /\ UNCHANGED quiet

\* update_record_locked: an edit outside the state machine.
Update(c) ==
    /\ Free(c, "update")
    /\ Go(c, Mutation("update", "same", None))
    /\ UNCHANGED quiet

(* The unattended login *)

\* AgentLoginEngine::login; a logging_in it finds is taken for an orphan.
AgentLogin(c) ==
    /\ Free(c, "agent")
    /\ \/ record.state \in {"needs_login", "stale"} /\ Go(c, Mutation("agent", "logging_in", None))
       \/ record.state = "logging_in" /\ Go(c, Mutation("recover", "needs_login", None))
    /\ UNCHANGED quiet

\* restore_jar: the envelope's probe ends the flow, meets a challenge or fails;
\* a stale or missing envelope leads on to the login page.
AgentRestores(c) ==
    /\ At(c, "restore")
    /\ \/ env /\ Go(c, Capture("restore", None))
       \/ env /\ Go(c, Mutation("restore", "challenge", None))
       \/ env /\ Go(c, Finished)
       \/ Go(c, Waiting("agent", "page", None))
    /\ UNCHANGED quiet

\* The rest of run_inner: the login is captured, meets a challenge, is given up,
\* or ends in an error of its own (an origin that does not parse).
AgentLogsIn(c) ==
    /\ At(c, "page")
    /\ \/ Go(c, Capture("page", None))
       \/ Go(c, Mutation("page", "challenge", None))
       \/ Go(c, Mutation("revert", "needs_login", None))
       \/ Go(c, Finished)
    /\ UNCHANGED quiet

\* A process dies: its calls, windows and timers are gone, the kernel drops its lock.
Crash(p) ==
    LET gone == {a \in Actors : HomeOf(a) = p} IN
    /\ crashes < MaxCrashes
    /\ crashes' = crashes + 1
    /\ job' = [a \in Actors |-> IF a \in gone /\ job[a].at # "new" THEN Finished ELSE job[a]]
    /\ window' = [c \in Calls |-> IF c \in OpenIn(p) THEN "closed" ELSE window[c]]
    /\ lock' = IF lock \in gone THEN None ELSE lock
    /\ torn' = (torn \/ \E a \in gone : At(a, "save") /\ job[a].files # "keep")
    /\ UNCHANGED <<disk, policy>>

Mutates(a) == Acquire(a) \/ LockBusy(a) \/ ChangeEnvelope(a) \/ Save(a)
Starts(c) ==
    \/ Begin(c) \/ Import(c) \/ Verify(c) \/ Logout(c) \/ Update(c) \/ AgentLogin(c)
    \/ \E w \in Calls : Complete(c, w) \/ Abort(c, w)
Continues(c) ==
    \/ BeginChecksTable(c) \/ OpenWindow(c) \/ Judged(c)
    \/ Imported(c) \/ Verified(c) \/ AgentRestores(c) \/ AgentLogsIn(c)

Next ==
    \/ \E a \in Actors : Mutates(a) \/ CloseWindow(a)
    \/ \E c \in Calls : Starts(c) \/ Continues(c) \/ TimerFires(c)
    \/ \E p \in Procs : Crash(p)

Spec == Init /\ [][Next]_vars

\* A call that has started goes on, network waits are bounded by the HTTP client's
\* deadlines, and the runtime fires the timers.  Nobody has to start a call.
FairSpec ==
    /\ Spec
    /\ \A a \in Actors : WF_vars(Mutates(a)) /\ WF_vars(CloseWindow(a))
    /\ \A c \in Calls : WF_vars(Continues(c)) /\ WF_vars(TimerFires(c))
-----------------------------------------------------------------------------
(* Properties *)

Doings == {"none", "begin", "complete", "abort", "timer", "import", "imported", "revert",
           "verify", "logout", "update", "recover", "agent", "restore", "page"}
Steps == {"new", "table", "open", "judge", "armed", "probe", "restore", "page",
          "lock", "files", "save", "close", "done"}
Jobs == [doing : Doings, at : Steps, to : States \cup {"same"},
         files : {"keep", "write", "discard"}, win : Calls \cup {None}, saw : Records]

\* Type invariant; the step between the envelope and the record is for those who
\* change the envelope.
TypeOK ==
    /\ record \in Records /\ env \in BOOLEAN
    /\ lock \in Actors \cup {None}
    /\ job \in [Actors -> Jobs]
    /\ \A a \in Actors : At(a, "files") => job[a].files # "keep"
    /\ window \in [Calls -> {"none", "open", "closed"}]
    /\ policy \in {"FailFast", "Block"}
    /\ crashes \in 0..MaxCrashes /\ torn \in BOOLEAN

\* Whoever is between reading the record and writing it holds the lock, and what it
\* read is still what is on the disk (manager.rs: every mutation under lock()).
NoLostUpdate ==
    \A a \in Actors : job[a].at \in {"files", "save"} => lock = a /\ job[a].saw = record

\* However calls and processes interleave, the state on the disk only moves along the
\* edges of the machine (record.rs, can_transition_to).
LegalTransitions == [][CanTransition(record.state, record'.state)]_vars

\* While nobody is mutating the account, the record tells of a session exactly when
\* there is an envelope (capture_session and logout change both).
SummaryMatchesEnvelope == lock = None /\ ~torn => record.session = env

\* The record is never written over somebody's change, and never tells of a session
\* that is not there (manager.rs: lock, envelope, record).
DiskIsConsistent == NoLostUpdate /\ SummaryMatchesEnvelope

\* The envelope as the account shows it: while it has been changed and the record has
\* not, that of which the record tells.
Shown == IF lock # None /\ At(lock, "save") /\ job[lock].files # "keep"
         THEN record.session
         ELSE env

Promise == INSTANCE Account WITH state <- record.state, summary <- record.session,
                                 envelope <- Shown, whole <- ~torn

\* However calls and processes interleave, the account implements Account: the state on
\* the disk only moves along the edges of the machine, and envelope and record change
\* as one (record.rs, can_transition_to; manager.rs, capture_session and logout).
ImplementsAccount == Promise!Spec

\* A login window does not stay open for ever (orchestrator.rs: "a deadline arms the
\* automatic abort").
WindowsEnd == \A c \in Calls : window[c] = "open" ~> window[c] = "closed"

\* An account does not stay in logging_in for ever (orchestrator.rs: a failure "never
\* wedges the account in `logging_in`").
LoginsEnd == record.state = "logging_in" ~> record.state # "logging_in"

\* No process dies and no unattended login is made (which may end in logging_in).
Undisturbed == crashes = 0 /\ \A c \in Calls : job[c].doing \notin {"agent", "recover"}

\* With a lock that is waited for, neither a window nor a login is wedged by what other
\* callers do meanwhile (begin_login's deadline, revert_to_needs_login).
NothingIsWedged == policy = "Block" /\ []Undisturbed => WindowsEnd /\ LoginsEnd

\* One window at a time (begin_login).
OneWindow == \A p \in Procs : Cardinality(OpenIn(p)) <= 1

\* The armed timeout does not fire against a captured account (complete_login).
TimeoutSparesValid ==
    [][\A c \in Calls : At(TimerOf(c), "save") /\ record.state = "valid"
                            => record'.state = "valid"]_vars

\* A valid account has a captured session (record.rs, AccountState::Valid).
ValidHasEnvelope == lock = None /\ ~torn /\ record.state = "valid" => env

\* An unattended login that meets a challenge leaves the account in challenge
\* (agent_login.rs, "Abort mapping").
ChallengeIsRecorded ==
    [][\A a \in Actors : At(a, "save") /\ job[a].doing \in {"restore", "page"}
                             /\ job[a].to = "challenge" /\ ~At(a, "save")'
                         => record'.state = "challenge"]_vars
=============================================================================
