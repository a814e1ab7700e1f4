------------------------ MODULE AccountLifecycleProofs ------------------------
(***************************************************************************)
(* Theorems about AccountLifecycle, for any number of processes and calls: *)
(* the type invariant, that no mutation of the record is lost, that record *)
(* and envelope agree, that the state on the disk moves along the edges of *)
(* the machine only, that windows and logins have somebody who ends them,  *)
(* and that the whole implements Account.                                  *)
(***************************************************************************)
EXTENDS AccountLifecycle, TLAPS

Idle == {"new", "table", "open", "judge", "armed", "probe", "restore", "page", "lock",
         "close", "done"}

\* A mutation of the envelope goes to a state that every account can reach.
Sound(j) ==
    /\ j.to # "revoked"
    /\ j.files = "write" => j.to = "valid"
    /\ j.files = "discard" => j.to = "needs_login"

IdleJobs == {j \in Jobs : j.at \in Idle /\ Sound(j)}

\* Every mutation can succeed if its lock is obtained.
SoundJobs == record.state # "revoked" /\ \A a \in Actors : Sound(job[a])

\* Whoever holds the lock is between reading the record and writing it.
HolderAtWork == lock # None => job[lock].at \in {"files", "save"}

\* A timer is armed by the last step of its call.
TimersComeLast == \A c \in Calls : At(TimerOf(c), "new") \/ At(c, "done")

\* Whether there is an envelope, told from the record and from the mutation under way.
EnvelopeKnown ==
    ~torn => env = IF lock # None /\ At(lock, "save") /\ job[lock].files # "keep"
                   THEN job[lock].files = "write"
                   ELSE record.session

Coherent == SoundJobs /\ HolderAtWork /\ TimersComeLast /\ EnvelopeKnown

\* The inductive invariant: types, the holder of the lock has read what is there, and
\* the envelope is the one that the record or the holder of the lock knows of.
IInv == TypeOK /\ NoLostUpdate /\ Coherent

-----------------------------------------------------------------------------
(* Jobs *)

LEMMA ActorsAreIntegers ==
    /\ Actors \subseteq Int
    /\ Calls \subseteq Actors
    /\ \A c \in Calls : TimerOf(c) \in Actors
    /\ None \notin Actors
<1>1. \A c \in Calls : c \in Int /\ -c \in Int
  BY CallsAssumption
<1>2. Actors \subseteq Int
  BY <1>1 DEF Actors, TimerOf
<1>3. \A c \in Calls : TimerOf(c) \in Actors
  BY DEF Actors
<1>4. QED  BY <1>2, <1>3, NoneAssumption DEF Actors

LEMMA TimersAreNoCalls == \A c \in Calls : TimerOf(c) \notin Calls
BY CallsAssumption DEF TimerOf

LEMMA FreshIsRecord == Fresh \in Records
BY DEF Fresh, Records, States

LEMMA JobFacts ==
    ASSUME NEW doing \in Doings, NEW at \in Idle, NEW to \in States \cup {"same"},
           NEW files \in {"keep", "write", "discard"}, NEW win \in Calls \cup {None},
           to # "revoked", files = "write" => to = "valid", files = "discard" => to = "needs_login"
    PROVE  Job(doing, at, to, files, win) \in IdleJobs
BY FreshIsRecord DEF Job, Jobs, IdleJobs, Idle, Steps, Sound

LEMMA FinishedFacts == Finished \in IdleJobs /\ NotStarted \in IdleJobs
BY JobFacts DEF Finished, NotStarted, Waiting, Doings, Idle

\* A mutation that is over is not between reading the record and writing it.
LEMMA ContinueFacts ==
    ASSUME NEW j \in Jobs, NEW ok \in BOOLEAN
    PROVE  Continue(j, ok) \in IdleJobs
<1>1. /\ Waiting("begin", "open", j.win) \in IdleJobs
      /\ \A d \in {"complete", "abort"} : Waiting(d, "close", j.win) \in IdleJobs
      /\ Waiting("import", "probe", None) \in IdleJobs
      /\ Mutation("revert", "needs_login", None) \in IdleJobs
      /\ Mutation("agent", "logging_in", None) \in IdleJobs
      /\ Waiting("agent", "restore", None) \in IdleJobs
  BY JobFacts DEF Waiting, Mutation, Jobs, Doings, Idle, States
<1>2. QED  BY <1>1, FinishedFacts DEF Continue

\* A step that only moves one job outside the critical section.
LEMMA QuietStep ==
    ASSUME IInv, NEW a \in Actors, NEW j \in IdleJobs, Go(a, j), UNCHANGED quiet,
           job[a].at \in Idle \ {"done"}, a \in Calls \/ ~At(a, "new")
    PROVE  IInv'
<1>1. job' \in [Actors -> Jobs] /\ \A b \in Actors : job'[b] = IF b = a THEN j ELSE job[b]
  BY DEF IInv, TypeOK, Go, IdleJobs
<1>2. \A b \in Actors : b # a => job'[b] = job[b]
  BY <1>1
<1>3. TypeOK'
  BY <1>1 DEF IInv, TypeOK, quiet, disk, At, IdleJobs, Idle
<1>4. NoLostUpdate'
  BY <1>1 DEF IInv, NoLostUpdate, quiet, disk, IdleJobs, Idle
<1>5. SoundJobs'
  BY <1>1 DEF IInv, Coherent, SoundJobs, quiet, disk, IdleJobs
<1>6. lock # None => lock # a /\ job'[lock] = job[lock]
  BY <1>2 DEF IInv, TypeOK, Coherent, HolderAtWork, Idle
<1>7. HolderAtWork' /\ EnvelopeKnown'
  BY <1>6 DEF IInv, Coherent, HolderAtWork, EnvelopeKnown, At, quiet, disk
<1>8. TimersComeLast'
  BY <1>2, TimersAreNoCalls, ActorsAreIntegers DEF IInv, Coherent, TimersComeLast, At
<1>9. QED  BY <1>3, <1>4, <1>5, <1>7, <1>8 DEF IInv, Coherent

-----------------------------------------------------------------------------
(* The inductive invariant *)

LEMMA InitIInv == Init => IInv
<1>1. SUFFICES ASSUME Init PROVE IInv
  OBVIOUS
<1>2. \A a \in Actors : job[a] \in IdleJobs
  BY <1>1, FinishedFacts DEF Init
<1>3. TypeOK
  <2>1. job \in [Actors -> Jobs] /\ \A a \in Actors : ~At(a, "files")
    BY <1>1, <1>2 DEF Init, IdleJobs, Idle, At
  <2>2. record \in Records /\ lock \in Actors \cup {None}
    BY <1>1, FreshIsRecord DEF Init
  <2>3. crashes \in 0..MaxCrashes
    BY <1>1, CrashesAssumption DEF Init
  <2>4. QED  BY <1>1, <2>1, <2>2, <2>3 DEF Init, TypeOK
<1>4. NoLostUpdate
  BY <1>2 DEF NoLostUpdate, IdleJobs, Idle
<1>5. Coherent
  <2>1. lock = None /\ env = record.session /\ record.state # "revoked"
    BY <1>1 DEF Init, Fresh
  <2>2. SoundJobs
    BY <1>2, <2>1 DEF SoundJobs, IdleJobs
  <2>3. TimersComeLast
    BY <1>1, ActorsAreIntegers DEF Init, TimersComeLast, At, NotStarted, Waiting, Job
  <2>4. QED  BY <2>1, <2>2, <2>3 DEF Coherent, HolderAtWork, EnvelopeKnown
<1>6. QED  BY <1>3, <1>4, <1>5 DEF IInv

\* The parts of a mutation.  The lock is free when it is taken, so that nobody else is
\* between reading and writing, and the record changes when it is released.
LEMMA MutatesIInv ==
    ASSUME IInv, NEW a \in Actors, Mutates(a)
    PROVE  IInv'
<1>0. /\ job \in [Actors -> Jobs] /\ record \in Records /\ lock \in Actors \cup {None}
      /\ job[a] \in Jobs /\ None \notin Actors
  BY ActorsAreIntegers DEF IInv, TypeOK
<1>00. Sound(job[a])
  BY DEF IInv, Coherent, SoundJobs
<1>1. CASE Acquire(a)
  <2>1. PICK at \in {"files", "save"} :
            /\ job' = [job EXCEPT ![a] = Holding(job[a], at, record)]
            /\ at = "files" => job[a].files # "keep"
    BY <1>1 DEF Acquire, Go
  <2>2. Holding(job[a], at, record) \in Jobs
    BY <1>0 DEF Holding, Jobs, Steps
  <2>3. TypeOK'
    BY <1>0, <1>1, <2>1, <2>2 DEF IInv, TypeOK, Acquire, At, Holding, disk
  <2>4. \A b \in Actors : b # a => job[b].at \notin {"files", "save"}
    BY <1>0, <1>1 DEF IInv, NoLostUpdate, Acquire
  <2>5. NoLostUpdate'
    BY <1>0, <1>1, <2>1, <2>4 DEF NoLostUpdate, Acquire, Holding, disk
  <2>6. \A b \in Actors : job'[b] = IF b = a THEN Holding(job[a], at, record) ELSE job[b]
    BY <1>0, <2>1
  <2>7. SoundJobs'
    BY <1>0, <1>1, <2>6 DEF IInv, Coherent, SoundJobs, Sound, Acquire, Holding, disk
  <2>8. HolderAtWork'
    BY <1>0, <1>1, <2>6 DEF HolderAtWork, Acquire, Holding
  <2>9. EnvelopeKnown'
    <3>1. ~torn => env = record.session
      BY <1>1 DEF IInv, Coherent, EnvelopeKnown, Acquire
    <3>2. At(a, "save")' => job'[a].files = "keep"
      BY <1>0, <1>1 DEF Acquire, Go, At, Holding
    <3>3. lock' = a /\ a # None /\ UNCHANGED <<disk, torn>>
      BY <1>0, <1>1 DEF Acquire
    <3>4. QED  BY <3>1, <3>2, <3>3 DEF EnvelopeKnown, disk, At
  <2>10. TimersComeLast'
    BY <1>1, <2>6, ActorsAreIntegers DEF IInv, Coherent, TimersComeLast, Acquire, At
  <2>11. QED  BY <2>3, <2>5, <2>7, <2>8, <2>9, <2>10 DEF IInv, Coherent
<1>2. CASE LockBusy(a)
  <2>1. Continue(job[a], FALSE) \in IdleJobs
    BY <1>0, ContinueFacts
  <2>2. QED  BY <1>2, <2>1, QuietStep DEF LockBusy, At, Idle
<1>3. CASE ChangeEnvelope(a)
  <2>1. lock = a /\ job[a].saw = record
    BY <1>3 DEF IInv, NoLostUpdate, ChangeEnvelope, At
  <2>2. Holding(job[a], "save", job[a].saw) \in Jobs
    BY <1>0 DEF Holding, Jobs, Steps
  <2>3. TypeOK'
    BY <1>0, <1>3, <2>2 DEF IInv, TypeOK, ChangeEnvelope, Go, At, Holding
  <2>4. NoLostUpdate'
    BY <1>0, <1>3, <2>1 DEF IInv, NoLostUpdate, ChangeEnvelope, Go, Holding
  <2>5. \A b \in Actors : job'[b] = IF b = a THEN Holding(job[a], "save", job[a].saw) ELSE job[b]
    BY <1>0, <1>3 DEF ChangeEnvelope, Go
  <2>6. SoundJobs'
    BY <1>0, <1>3, <2>5 DEF IInv, Coherent, SoundJobs, Sound, ChangeEnvelope, Holding
  <2>7. HolderAtWork'
    BY <1>0, <1>3, <2>1, <2>5 DEF HolderAtWork, ChangeEnvelope, Holding
  <2>8. EnvelopeKnown'
    BY <1>0, <1>3, <2>1, <2>5 DEF IInv, TypeOK, EnvelopeKnown, ChangeEnvelope, Holding, At
  <2>9. TimersComeLast'
    BY <1>3, <2>5, ActorsAreIntegers DEF IInv, Coherent, TimersComeLast, ChangeEnvelope, At
  <2>10. QED  BY <2>3, <2>4, <2>6, <2>7, <2>8, <2>9 DEF IInv, Coherent
<1>4. CASE Save(a)
  <2>1. lock = a /\ job[a].saw = record
    BY <1>4 DEF IInv, NoLostUpdate, Save, At
  <2>2. PICK j \in IdleJobs : job' = [job EXCEPT ![a] = j]
    <3>1. \A ok \in BOOLEAN : Continue(job[a], ok) \in IdleJobs
      BY <1>0, ContinueFacts
    <3>2. \A from, to : CanTransition(from, to) \in BOOLEAN
      BY DEF CanTransition
    <3>3. QED  BY <1>4, <3>1, <3>2 DEF Save, Go
  <2>3. record' \in Records
    BY <1>0, <1>4 DEF Save, Records, Jobs
  <2>4. TypeOK'
    BY <1>0, <1>4, <2>2, <2>3 DEF IInv, TypeOK, Save, At, IdleJobs, Idle
  <2>5. \A b \in Actors : b # a => job[b].at \notin {"files", "save"}
    BY <2>1 DEF IInv, NoLostUpdate
  <2>6. NoLostUpdate'
    BY <1>0, <2>2, <2>5 DEF NoLostUpdate, IdleJobs, Idle
  <2>7. \A b \in Actors : job'[b] = IF b = a THEN j ELSE job[b]
    BY <1>0, <2>2
  <2>8. record'.state # "revoked"
    BY <1>0, <1>00, <1>4, <2>1 DEF IInv, Coherent, SoundJobs, Save, Sound
  <2>9. SoundJobs'
    BY <2>7, <2>8 DEF IInv, Coherent, SoundJobs, IdleJobs
  <2>10. lock' = None /\ UNCHANGED <<env, torn>>
    BY <1>4 DEF Save
  <2>11. ~torn => env = record'.session
    <3>1. CASE job[a].files = "keep"
      BY <1>0, <1>4, <2>1, <3>1 DEF IInv, Coherent, EnvelopeKnown, Save
    <3>2. CASE job[a].files # "keep"
      <4>1. job[a].to \in {"valid", "needs_login"}
        BY <1>0, <1>00, <3>2 DEF Jobs, Sound
      <4>2. CanTransition(job[a].saw.state, job[a].to)
        BY <1>0, <2>1, <4>1 DEF IInv, Coherent, SoundJobs, CanTransition, Edges, Records, States
      <4>3. record'.session = (job[a].files = "write")
        BY <1>4, <3>2, <4>1, <4>2 DEF Save
      <4>4. ~torn => env = (job[a].files = "write")
        BY <1>0, <1>4, <2>1, <3>2 DEF IInv, Coherent, EnvelopeKnown, Save, At
      <4>5. QED  BY <4>3, <4>4
    <3>3. QED  BY <3>1, <3>2
  <2>12. HolderAtWork' /\ EnvelopeKnown'
    BY <2>10, <2>11 DEF HolderAtWork, EnvelopeKnown
  <2>13. TimersComeLast'
    BY <1>4, <2>7, ActorsAreIntegers DEF IInv, Coherent, TimersComeLast, Save, At
  <2>14. QED  BY <2>4, <2>6, <2>9, <2>12, <2>13 DEF IInv, Coherent
<1>5. QED  BY <1>1, <1>2, <1>3, <1>4 DEF Mutates

\* Starting a call and going on outside a mutation.
LEMMA StartsIInv ==
    ASSUME IInv, NEW c \in Calls, Starts(c)
    PROVE  IInv'
<1>1. PICK j \in IdleJobs : Go(c, j) /\ UNCHANGED quiet
  <2>1. /\ Waiting("begin", "table", c) \in IdleJobs
        /\ Waiting("verify", "probe", None) \in IdleJobs
        /\ \A w \in Calls : Waiting("complete", "judge", w) \in IdleJobs
        /\ \A w \in Calls : Mutation("abort", "needs_login", w) \in IdleJobs
        /\ Mutation("import", "logging_in", None) \in IdleJobs
        /\ Mutation("update", "same", None) \in IdleJobs
        /\ Mutation("agent", "logging_in", None) \in IdleJobs
        /\ Mutation("recover", "needs_login", None) \in IdleJobs
        /\ Job("logout", "lock", "needs_login", "discard", None) \in IdleJobs
    BY JobFacts DEF Waiting, Mutation, Doings, Idle, States
  <2>2. QED
    BY <2>1 DEF Starts, Begin, Import, Verify, Logout, Update, AgentLogin, Complete, Abort
<1>2. c \in Actors
  BY ActorsAreIntegers
<1>3. job[c].at \in Idle \ {"done"}
  BY DEF Starts, Begin, Import, Verify, Logout, Update, AgentLogin, Complete, Abort, Free, At,
         Idle
<1>4. QED  BY <1>1, <1>2, <1>3, QuietStep

LEMMA ContinuesIInv ==
    ASSUME IInv, NEW c \in Calls, Continues(c)
    PROVE  IInv'
<1>0. c \in Actors /\ TimerOf(c) \in Actors /\ job \in [Actors -> Jobs]
  BY ActorsAreIntegers DEF IInv, TypeOK
<1>1. CASE OpenWindow(c)
  <2>1. Finished \in IdleJobs /\ Waiting("timer", "armed", c) \in IdleJobs
    BY FinishedFacts, JobFacts DEF Waiting, Doings, Idle
  <2>2. \A b \in Actors : job'[b] \in IdleJobs \/ job'[b] = job[b]
    BY <1>0, <1>1, <2>1 DEF OpenWindow
  <2>3. job' \in [Actors -> Jobs]
    BY <1>0, <1>1, <2>1 DEF OpenWindow, IdleJobs
  <2>4. TypeOK'
    BY <1>0, <1>1, <2>2, <2>3 DEF IInv, TypeOK, OpenWindow, At, IdleJobs, Idle, disk
  <2>5. NoLostUpdate'
    BY <1>0, <1>1, <2>2 DEF IInv, NoLostUpdate, OpenWindow, IdleJobs, Idle, disk
  <2>6. At(c, "open") /\ At(TimerOf(c), "new")
    BY <1>1 DEF IInv, Coherent, TimersComeLast, OpenWindow, At
  <2>7. lock # None => lock \in Actors /\ job'[lock] = job[lock]
    BY <1>0, <1>1, <2>6 DEF IInv, TypeOK, Coherent, HolderAtWork, OpenWindow, At
  <2>8. HolderAtWork' /\ EnvelopeKnown'
    BY <1>1, <2>7 DEF IInv, Coherent, HolderAtWork, EnvelopeKnown, OpenWindow, At, disk
  <2>9. SoundJobs'
    BY <1>1, <2>2 DEF IInv, Coherent, SoundJobs, OpenWindow, IdleJobs, disk
  <2>10. TimersComeLast'
    <3>1. \A d \in Calls : d # c => TimerOf(d) # TimerOf(c) /\ TimerOf(d) # c /\ d # TimerOf(c)
      BY CallsAssumption DEF TimerOf
    <3>2. \A d \in Calls : d # c => job'[d] = job[d] /\ job'[TimerOf(d)] = job[TimerOf(d)]
      BY <1>0, <1>1, <3>1, ActorsAreIntegers DEF OpenWindow
    <3>3. At(c, "done")'
      BY <1>0, <1>1, TimersAreNoCalls DEF OpenWindow, At, Finished, Waiting, Job
    <3>4. QED  BY <3>2, <3>3 DEF IInv, Coherent, TimersComeLast, At
  <2>11. QED  BY <2>4, <2>5, <2>8, <2>9, <2>10 DEF IInv, Coherent
<1>2. CASE ~OpenWindow(c)
  <2>1. PICK j \in IdleJobs : Go(c, j) /\ UNCHANGED quiet
    <3>1. job[c].win \in Calls \cup {None}
      BY <1>0 DEF Jobs
    <3>2. /\ Capture("complete", job[c].win) \in IdleJobs
          /\ \A d \in {"imported", "restore", "page"} : Capture(d, None) \in IdleJobs
          /\ Mutation("begin", "logging_in", c) \in IdleJobs
          /\ \A d \in {"imported", "revert"} : Mutation(d, "needs_login", None) \in IdleJobs
          /\ \A to \in {"valid", "stale", "challenge"} : Mutation("verify", to, None) \in IdleJobs
          /\ \A d \in {"restore", "page"} : Mutation(d, "challenge", None) \in IdleJobs
          /\ Waiting("agent", "page", None) \in IdleJobs
          /\ Finished \in IdleJobs
      BY <3>1, JobFacts, FinishedFacts DEF Capture, Waiting, Mutation, Doings, Idle, States
    <3>3. QED
      BY <1>2, <3>2 DEF Continues, BeginChecksTable, Judged, Imported, Verified,
                        AgentRestores, AgentLogsIn
  <2>2. job[c].at \in Idle \ {"done"}
    BY <1>2 DEF Continues, BeginChecksTable, Judged, Imported, Verified, AgentRestores,
                AgentLogsIn, At, Idle
  <2>3. QED  BY <1>0, <2>1, <2>2, QuietStep
<1>3. QED  BY <1>1, <1>2

LEMMA EndsIInv ==
    ASSUME IInv
    PROVE  /\ \A a \in Actors : CloseWindow(a) => IInv'
           /\ \A c \in Calls : TimerFires(c) => IInv'
           /\ \A p \in Procs : Crash(p) => IInv'
<1>0. job \in [Actors -> Jobs] /\ Finished \in IdleJobs /\ None \notin Actors
  BY FinishedFacts, ActorsAreIntegers DEF IInv, TypeOK
<1>1. ASSUME NEW a \in Actors, CloseWindow(a) PROVE IInv'
  <2>1. /\ job' \in [Actors -> Jobs]
        /\ \A b \in Actors : job'[b] \in IdleJobs \/ job'[b] = job[b]
    BY <1>0, <1>1 DEF CloseWindow, IdleJobs
  <2>2. TypeOK'
    BY <1>1, <2>1 DEF IInv, TypeOK, CloseWindow, At, IdleJobs, Idle, disk
  <2>3. NoLostUpdate'
    BY <1>1, <2>1 DEF IInv, NoLostUpdate, CloseWindow, IdleJobs, Idle, disk
  <2>4. \A b \in Actors : job[b].at \notin {"close", "armed"} => job'[b] = job[b]
    BY <1>0, <1>1 DEF CloseWindow, At
  <2>5. lock # None => lock \in Actors /\ job'[lock] = job[lock]
    BY <2>4 DEF IInv, TypeOK, Coherent, HolderAtWork
  <2>6. HolderAtWork' /\ EnvelopeKnown'
    BY <1>1, <2>5 DEF IInv, Coherent, HolderAtWork, EnvelopeKnown, CloseWindow, At, disk
  <2>7. SoundJobs'
    BY <1>1, <2>1 DEF IInv, Coherent, SoundJobs, CloseWindow, IdleJobs, disk
  <2>8. TimersComeLast'
    BY <2>4, ActorsAreIntegers DEF IInv, Coherent, TimersComeLast, At
  <2>9. QED  BY <2>2, <2>3, <2>6, <2>7, <2>8 DEF IInv, Coherent
<1>2. ASSUME NEW c \in Calls, TimerFires(c) PROVE IInv'
  <2>1. Mutation("abort", "needs_login", c) \in IdleJobs
    BY JobFacts DEF Mutation, Doings, Idle, States
  <2>2. PICK j \in IdleJobs : Go(TimerOf(c), j) /\ UNCHANGED quiet
    BY <1>0, <1>2, <2>1 DEF TimerFires
  <2>3. TimerOf(c) \in Actors
    BY ActorsAreIntegers
  <2>4. job[TimerOf(c)].at = "armed"
    BY <1>2 DEF TimerFires, At
  <2>5. QED  BY <2>2, <2>3, <2>4, QuietStep DEF At, Idle
<1>3. ASSUME NEW p \in Procs, Crash(p) PROVE IInv'
  <2>1. /\ job' \in [Actors -> Jobs]
        /\ \A b \in Actors : job'[b] \in IdleJobs \/ job'[b] = job[b]
    BY <1>0, <1>3 DEF Crash, IdleJobs
  <2>2. \A b \in Actors : job'[b].at \in {"files", "save"} => job'[b] = job[b] /\ HomeOf(b) # p
    BY <1>0, <1>3 DEF Crash, IdleJobs, Idle, Finished, Waiting, Job
  <2>3. TypeOK'
    BY <1>0, <1>3, <2>1, CrashesAssumption DEF IInv, TypeOK, Crash, At, IdleJobs, Idle, disk
  <2>4. NoLostUpdate'
    BY <1>3, <2>2 DEF IInv, NoLostUpdate, Crash, disk
  <2>5. SoundJobs'
    BY <1>3, <2>1 DEF IInv, Coherent, SoundJobs, Crash, IdleJobs, disk
  <2>6. lock' # None => lock' = lock /\ lock \in Actors /\ HomeOf(lock) # p /\ job'[lock] = job[lock]
    BY <1>0, <1>3 DEF IInv, TypeOK, Crash
  <2>7. HolderAtWork'
    BY <2>6 DEF IInv, Coherent, HolderAtWork
  <2>8. EnvelopeKnown'
    <3>1. SUFFICES ASSUME ~torn' PROVE EnvelopeKnown'
      BY DEF EnvelopeKnown
    <3>2. ~torn /\ \A a \in Actors : HomeOf(a) = p => ~(At(a, "save") /\ job[a].files # "keep")
      BY <1>3, <3>1 DEF Crash
    <3>3. CASE lock' # None
      BY <1>3, <2>6, <3>2, <3>3 DEF IInv, Coherent, EnvelopeKnown, Crash, At, disk
    <3>4. CASE lock' = None
      <4>1. lock # None => lock \in Actors /\ HomeOf(lock) = p
        BY <1>3, <3>4 DEF IInv, TypeOK, Crash
      <4>2. env = record.session
        BY <3>2, <4>1 DEF IInv, Coherent, EnvelopeKnown
      <4>3. QED  BY <1>3, <3>4, <4>2 DEF EnvelopeKnown, Crash, disk
    <3>5. QED  BY <3>3, <3>4
  <2>9. TimersComeLast'
    <3>1. \A c \in Calls : HomeOf(TimerOf(c)) = HomeOf(c)
      BY TimersAreNoCalls, CallsAssumption DEF HomeOf, TimerOf
    <3>2. ASSUME NEW c \in Calls PROVE At(TimerOf(c), "new")' \/ At(c, "done")'
      <4>0. c \in Actors /\ TimerOf(c) \in Actors
        BY ActorsAreIntegers
      <4>1. CASE At(TimerOf(c), "new")
        BY <1>3, <4>0, <4>1 DEF Crash, At
      <4>2. CASE At(c, "done")
        BY <1>3, <4>0, <4>2 DEF Crash, At, Finished, Waiting, Job
      <4>3. QED  BY <4>1, <4>2 DEF IInv, Coherent, TimersComeLast
    <3>3. QED  BY <3>2 DEF TimersComeLast
  <2>10. QED  BY <2>3, <2>4, <2>5, <2>7, <2>8, <2>9 DEF IInv, Coherent
<1>4. QED  BY <1>1, <1>2, <1>3

LEMMA NextIInv == IInv /\ [Next]_vars => IInv'
<1>1. SUFFICES ASSUME IInv, [Next]_vars PROVE IInv'
  OBVIOUS
<1>2. CASE UNCHANGED vars
  BY <1>1, <1>2
     DEF IInv, TypeOK, NoLostUpdate, Coherent, SoundJobs, HolderAtWork, TimersComeLast,
                    EnvelopeKnown, At, vars
<1>3. CASE Next
  BY <1>1, <1>3, MutatesIInv, StartsIInv, ContinuesIInv, EndsIInv DEF Next
<1>4. QED  BY <1>1, <1>2, <1>3

-----------------------------------------------------------------------------
(* Theorems *)

THEOREM Invariance == Spec => []IInv
BY InitIInv, NextIInv, PTL DEF Spec

\* Type correctness, for any number of callers and processes.
THEOREM TypeCorrect == Spec => []TypeOK
<1>1. IInv => TypeOK
  BY DEF IInv
<1>2. QED  BY <1>1, Invariance, PTL

\* The read-modify-write of the account record is atomic under the advisory lock,
\* whoever crashes or gives up, and so is the change of envelope and record together,
\* unless the process dies just between the two.
THEOREM DiskConsistent == Spec => []DiskIsConsistent
<1>1. ASSUME IInv PROVE NoLostUpdate
  BY <1>1 DEF IInv
<1>2. ASSUME IInv PROVE SummaryMatchesEnvelope
  BY <1>2 DEF IInv, Coherent, EnvelopeKnown, SummaryMatchesEnvelope
<1>3. IInv => DiskIsConsistent
  BY <1>1, <1>2 DEF DiskIsConsistent
<1>4. QED  BY <1>3, Invariance, PTL

\* The state machine of the account is respected on the disk, not only in the copy a
\* writer checks: the copy is the record, because no update is lost.
THEOREM MachineRespected == Spec => LegalTransitions
<1>1. ASSUME IInv, [Next]_vars PROVE CanTransition(record.state, record'.state)
  <2>1. CASE record' = record
    BY <2>1 DEF CanTransition
  <2>2. CASE \E a \in Actors : Save(a)
    <3>1. PICK a \in Actors : Save(a)
      BY <2>2
    <3>2. job[a].saw = record /\ record \in Records
      BY <1>1, <3>1 DEF IInv, TypeOK, NoLostUpdate, Save, At
    <3>3. CASE record' = record
      BY <3>3 DEF CanTransition
    <3>4. CASE record' # record
      BY <3>1, <3>2, <3>4 DEF Save, CanTransition
    <3>5. QED  BY <3>3, <3>4
  <2>3. record' = record \/ \E a \in Actors : Save(a)
    <3>1. CASE UNCHANGED vars
      BY <3>1 DEF vars
    <3>2. CASE \E a \in Actors : Mutates(a) \/ CloseWindow(a)
      BY <3>2 DEF Mutates, Acquire, LockBusy, ChangeEnvelope, CloseWindow, quiet, disk
    <3>3. CASE \E c \in Calls : Starts(c) \/ Continues(c) \/ TimerFires(c)
      BY <3>3 DEF Starts, Begin, Import, Verify, Logout, Update, AgentLogin, Complete, Abort,
                  Continues, BeginChecksTable, OpenWindow, Judged, Imported, Verified,
                  AgentRestores, AgentLogsIn, TimerFires, quiet, disk
    <3>4. CASE \E p \in Procs : Crash(p)
      BY <3>4 DEF Crash, disk
    <3>5. QED  BY <1>1, <3>1, <3>2, <3>3, <3>4 DEF Next
  <2>4. QED  BY <2>1, <2>2, <2>3
<1>2. QED  BY <1>1, Invariance, PTL DEF Spec, LegalTransitions
-----------------------------------------------------------------------------
(* The account implements Account *)

\* A step of calls that are not between reading the record and writing it shows nothing.
LEMMA ShowsNothing ==
    ASSUME IInv, UNCHANGED <<record, env, lock, torn>>,
           \A a \in Actors : job[a].at \in {"files", "save"} => job'[a] = job[a]
    PROVE  UNCHANGED Promise!vars
<1>1. lock # None => job'[lock] = job[lock]
  BY DEF IInv, TypeOK, Coherent, HolderAtWork
<1>2. Shown' = Shown
  BY <1>1 DEF Shown, At
<1>3. QED  BY <1>2 DEF Promise!vars

LEMMA OthersShowNothing ==
    ASSUME IInv, \/ \E a \in Actors : LockBusy(a) \/ CloseWindow(a)
                 \/ \E c \in Calls : Starts(c) \/ Continues(c) \/ TimerFires(c)
    PROVE  UNCHANGED Promise!vars
<1>1. UNCHANGED <<record, env, lock, torn>>
  BY DEF LockBusy, CloseWindow, Starts, Begin, Import, Verify, Logout, Update, AgentLogin, Complete,
         Abort, Continues, BeginChecksTable, OpenWindow, Judged, Imported, Verified,
         AgentRestores, AgentLogsIn, TimerFires, quiet, disk
<1>2. job \in [Actors -> Jobs]
  BY DEF IInv, TypeOK
<1>3. \A b \in Actors : job[b].at \in {"files", "save"} => job'[b] = job[b]
  <2>1. ASSUME NEW a \in Actors, LockBusy(a) \/ CloseWindow(a), NEW b \in Actors,
               job[b].at \in {"files", "save"}
        PROVE  job'[b] = job[b]
    BY <1>2, <2>1 DEF LockBusy, CloseWindow, Go, At
  <2>2. ASSUME NEW c \in Calls, Starts(c) \/ Continues(c) \/ TimerFires(c), NEW b \in Actors,
               job[b].at \in {"files", "save"}
        PROVE  job'[b] = job[b]
    <3>1. CASE Starts(c)
      BY <1>2, <2>2, <3>1
         DEF Starts, Begin, Import, Verify, Logout, Update, AgentLogin, Complete, Abort, Free, Go, At
    <3>2. CASE OpenWindow(c)
      <4>1. At(c, "open") /\ At(TimerOf(c), "new")
        BY <3>2 DEF IInv, Coherent, TimersComeLast, OpenWindow, At
      <4>2. QED  BY <1>2, <2>2, <3>2, <4>1 DEF OpenWindow, At
    <3>3. CASE Continues(c) /\ ~OpenWindow(c)
      BY <1>2, <2>2, <3>3
         DEF Continues, BeginChecksTable, Judged, Imported, Verified, AgentRestores, AgentLogsIn,
             Go, At
    <3>4. CASE TimerFires(c)
      BY <1>2, <2>2, <3>4 DEF TimerFires, Go, At
    <3>5. QED  BY <2>2, <3>1, <3>2, <3>3, <3>4
  <2>3. QED  BY <2>1, <2>2
<1>4. QED  BY <1>1, <1>3, ShowsNothing

\* The lock taken, and the envelope changed under it: not to be seen, unless the account
\* is torn already.
LEMMA HalvesShowNothing ==
    ASSUME IInv, NEW a \in Actors, Acquire(a) \/ ChangeEnvelope(a)
    PROVE  Promise!Next \/ UNCHANGED Promise!vars
<1>1. job \in [Actors -> Jobs] /\ None \notin Actors
  BY ActorsAreIntegers DEF IInv, TypeOK
<1>2. CASE Acquire(a)
  <2>1. lock' = a /\ lock = None /\ (job'[a].at = "save" => job'[a].files = "keep")
        /\ UNCHANGED <<record, env, torn>>
    BY <1>1, <1>2 DEF Acquire, Go, Holding, disk
  <2>2. Shown' = Shown
    BY <1>1, <2>1 DEF Shown, At
  <2>3. QED  BY <2>1, <2>2 DEF Promise!vars
<1>3. CASE ChangeEnvelope(a)
  <2>1. lock = a /\ lock' = a /\ job[a].at = "files" /\ UNCHANGED <<record, torn>>
    BY <1>3 DEF IInv, NoLostUpdate, ChangeEnvelope, At
  <2>2. job'[a].at = "save" /\ job'[a].files = job[a].files /\ job[a].files # "keep"
    BY <1>1, <1>3, <2>1 DEF ChangeEnvelope, Go, Holding, IInv, TypeOK, At
  <2>3. CASE torn
    BY <2>1, <2>3 DEF Promise!Next, Promise!Tear
  <2>4. CASE ~torn
    <3>1. env = record.session
      BY <2>1, <2>4 DEF IInv, Coherent, EnvelopeKnown, At
    <3>2. Shown = env /\ Shown' = record.session
      BY <1>1, <2>1, <2>2 DEF Shown, At
    <3>3. QED  BY <2>1, <3>1, <3>2 DEF Promise!vars
  <2>5. QED  BY <2>3, <2>4
<1>4. QED  BY <1>2, <1>3

\* The record written is the step of the account, with both halves of a capture or a
\* logout; a transition that is refused is none.
LEMMA SaveShows ==
    ASSUME IInv, NEW a \in Actors, Save(a)
    PROVE  Promise!Next \/ UNCHANGED Promise!vars
<1> DEFINE j == job[a]
           to == IF j.to = "same" THEN j.saw.state ELSE j.to
           ok == CanTransition(j.saw.state, to)
<1>1. /\ j \in Jobs /\ Sound(j) /\ j.at = "save" /\ j.saw = record /\ lock = a
      /\ record \in Records /\ record.state # "revoked" /\ None \notin Actors
  BY ActorsAreIntegers DEF IInv, TypeOK, NoLostUpdate, Coherent, SoundJobs, Save, At
<1>2. /\ lock' = None /\ UNCHANGED <<env, torn>>
      /\ record' = IF ok
                   THEN [state |-> to,
                         session |-> IF j.files = "keep" THEN j.saw.session ELSE j.files = "write"]
                   ELSE record
  BY DEF Save
<1>3. to \in States \ {"revoked"}
  BY <1>1 DEF Jobs, Sound, Records
<1>4. to \in {"valid", "needs_login"} => ok
  BY <1>1 DEF CanTransition, Edges, Records, States
<1>5. Shown' = env
  BY <1>2 DEF Shown
<1>6. CASE j.files = "keep"
  <2>1. Shown = env
    BY <1>1, <1>6 DEF Shown
  <2>2. CASE ~ok
    BY <1>2, <1>5, <2>1, <2>2 DEF Promise!vars
  <2>3. CASE ok
    <3>1. record'.state = to /\ record'.session = record.session
      BY <1>1, <1>2, <1>6, <2>3
    <3>2. CASE to = record.state
      BY <1>2, <1>5, <2>1, <3>1, <3>2 DEF Promise!vars
    <3>3. CASE to # record.state
      <4>1. to \in Edges[record.state]
        BY <1>1, <2>3, <3>3 DEF CanTransition
      <4>2. \/ to = "logging_in" /\ record.state \in {"needs_login", "stale"}
            \/ to \in {"needs_login", "valid"}
            \/ to = "stale" /\ record.state = "valid"
            \/ to = "challenge" /\ record.state \in {"valid", "stale"}
        BY <1>1, <4>1 DEF Edges, Records, States
      <4>3. Promise!To(to)
        BY <1>5, <2>1, <3>1 DEF Promise!To
      <4>4. Promise!Enter \/ Promise!GiveUp \/ Promise!Judge
        BY <4>2, <4>3 DEF Promise!Enter, Promise!GiveUp, Promise!Judge
      <4>5. QED  BY <1>2, <4>4 DEF Promise!Next
    <3>4. QED  BY <3>2, <3>3
  <2>4. QED  BY <2>2, <2>3
<1>7. CASE j.files # "keep"
  <2>1. \/ j.files = "write" /\ to = "valid"
        \/ j.files = "discard" /\ to = "needs_login"
    BY <1>1, <1>7 DEF Jobs, Sound
  <2>2. record'.state = to /\ record'.session = (j.files = "write")
    BY <1>2, <1>4, <1>7, <2>1
  <2>3. ~torn => env = (j.files = "write")
    BY <1>1, <1>7 DEF IInv, Coherent, EnvelopeKnown, At
  <2>4. Promise!Capture \/ Promise!Logout
    BY <1>2, <1>5, <2>1, <2>2, <2>3 DEF Promise!Capture, Promise!Logout
  <2>5. QED  BY <1>2, <2>4 DEF Promise!Next
<1>8. QED  BY <1>6, <1>7

\* A crash before the envelope is changed, or after the record is written, shows nothing;
\* between the two it tears the account.
LEMMA CrashShows ==
    ASSUME IInv, NEW p \in Procs, Crash(p)
    PROVE  Promise!Next \/ UNCHANGED Promise!vars
<1>1. UNCHANGED <<record, env>> /\ (torn => torn')
  BY DEF Crash, disk
<1>2. CASE torn'
  BY <1>1, <1>2 DEF Promise!Next, Promise!Tear
<1>3. CASE ~torn'
  <2>1. ~torn /\ \A a \in Actors : HomeOf(a) = p => ~(At(a, "save") /\ job[a].files # "keep")
    BY <1>3 DEF Crash, IInv, TypeOK
  <2>2. torn' = torn
    BY <1>3, <2>1 DEF Crash, IInv, TypeOK
  <2>3. CASE lock # None /\ HomeOf(lock) = p
    <3>1. lock' = None /\ lock \in Actors
      BY <2>3 DEF Crash, IInv, TypeOK
    <3>2. Shown = env /\ Shown' = env
      BY <1>1, <2>1, <2>3, <3>1 DEF Shown
    <3>3. QED  BY <1>1, <2>2, <3>2 DEF Promise!vars
  <2>4. CASE lock # None /\ HomeOf(lock) # p
    <3>1. lock' = lock /\ job'[lock] = job[lock]
      BY <2>4 DEF Crash, IInv, TypeOK
    <3>2. Shown' = Shown
      BY <1>1, <3>1 DEF Shown, At
    <3>3. QED  BY <1>1, <2>2, <3>2 DEF Promise!vars
  <2>5. CASE lock = None
    <3>1. lock' = None
      BY <2>5 DEF Crash
    <3>2. QED  BY <1>1, <2>2, <2>5, <3>1 DEF Promise!vars, Shown
  <2>6. QED  BY <2>3, <2>4, <2>5
<1>4. QED  BY <1>2, <1>3

LEMMA NextShows == IInv /\ [Next]_vars => [Promise!Next]_(Promise!vars)
<1> SUFFICES ASSUME IInv, [Next]_vars PROVE Promise!Next \/ UNCHANGED Promise!vars
  OBVIOUS
<1>1. CASE UNCHANGED vars
  BY <1>1, ShowsNothing DEF vars
<1>2. CASE Next
  BY <1>2, OthersShowNothing, HalvesShowNothing, SaveShows, CrashShows DEF Next, Mutates
<1>3. QED  BY <1>1, <1>2

\* An account is one thing, although it is two files that several processes change:
\* its state follows the machine, and session and record change in one step until a
\* process dies between the two (manager.rs, capture_session, logout, lock).
THEOREM Refinement == Spec => ImplementsAccount
<1>1. Init => Promise!Init
  BY DEF Init, Promise!Init, Fresh, Shown
<1>2. QED  BY <1>1, NextShows, Invariance, PTL DEF Spec, ImplementsAccount, Promise!Spec
-----------------------------------------------------------------------------
(* Nothing is left alone *)

Writing == {"lock", "files", "save"}

\* What the steps of a job tell of its window and of the state it writes.
Apt(a) ==
    LET j == job[a] IN
    /\ j.at = "new" /\ a \in Calls => window[a] = "none"
    /\ j.at \in {"table", "open"} => j.doing = "begin"
    /\ j.at = "judge" => j.doing = "complete"
    /\ j.at = "close" => j.doing \in {"complete", "abort"}
    /\ j.doing = "begin" => a \in Calls /\ j.win = a /\ window[a] = "none"
    /\ j.doing \in {"agent", "recover"} => a \in Calls
    /\ j.doing \in {"complete", "abort"} => j.win \in Calls /\ window[j.win] # "none"
    /\ j.at \in Writing =>
          /\ j.to = "logging_in" => j.doing \in {"begin", "import", "agent"}
          /\ j.doing \in {"complete", "imported", "abort", "revert"}
                => j.to \in {"valid", "needs_login"}
          /\ j.doing = "abort" => j.files = "keep" /\ j.to = "needs_login"

\* The timer of an open window is armed, or aborts the login of its window.
TimerAtWork(c) ==
    LET j == job[TimerOf(c)] IN
    j.at = "armed" \/ (j.at \in {"lock", "save", "close"} /\ j.doing = "abort" /\ j.win = c)

WindowsAreTimed ==
    policy = "Block" => \A c \in Calls : window[c] = "open" => TimerAtWork(c)

\* The actor will end a login, or open the window that does.
EndsLogin(a) ==
    \/ At(a, "open")
    \/ At(a, "probe") /\ job[a].doing = "import"
    \/ job[a].at \in Writing /\ job[a].doing \in {"imported", "revert"}

\* The window's login is not over: nobody has yet written the state it leads to.
Undecided(c) ==
    window[c] = "open" /\ \A a \in Actors : ~(At(a, "close") /\ job[a].win = c)

\* An account in logging_in has somebody who will take it out of that state.
LoginsAreTended ==
    policy = "Block" /\ record.state = "logging_in" =>
        (\E a \in Actors : EndsLogin(a)) \/ (\E c \in Calls : Undecided(c))

Attended == IInv /\ (\A a \in Actors : Apt(a)) /\ WindowsAreTimed

\* What is proved of each step.
Tends ==
    /\ (\A a \in Actors : Apt(a)') /\ WindowsAreTimed'
    /\ Undisturbed /\ Undisturbed' /\ LoginsAreTended => LoginsAreTended'

LEMMA OneTimerEach == \A c, d \in Calls : TimerOf(c) = TimerOf(d) => c = d
BY CallsAssumption DEF TimerOf

\* A step that moves one job, neither a timer's nor one that ends a login.
LEMMA JobMoves ==
    ASSUME Attended, NEW a \in Actors, NEW j, Go(a, j), UNCHANGED <<window, policy>>,
           Apt(a)',
           \A c \in Calls : a = TimerOf(c) /\ window[c] = "open" /\ policy = "Block"
               => TimerAtWork(c)',
           Undisturbed /\ policy = "Block" /\ record'.state = "logging_in" =>
               \/ EndsLogin(a)'
               \/ record.state = "logging_in" /\ ~EndsLogin(a) /\ j.at # "close"
    PROVE  Tends
<1>1. job'[a] = j /\ \A b \in Actors \ {a} : job'[b] = job[b]
  BY DEF Attended, IInv, TypeOK, Go
<1>2. \A b \in Actors : Apt(b)'
  BY <1>1 DEF Attended, Apt
<1>3. WindowsAreTimed'
  <2>1. ASSUME NEW c \in Calls, window[c] = "open", policy = "Block" PROVE TimerAtWork(c)'
    <3>1. CASE a = TimerOf(c)
      BY <2>1, <3>1
    <3>2. CASE a # TimerOf(c)
      <4>1. job'[TimerOf(c)] = job[TimerOf(c)]
        BY <1>1, <3>2, ActorsAreIntegers
      <4>2. TimerAtWork(c)
        BY <2>1 DEF Attended, WindowsAreTimed
      <4>3. QED  BY <4>1, <4>2 DEF TimerAtWork
    <3>3. QED  BY <3>1, <3>2
  <2>2. QED  BY <2>1 DEF WindowsAreTimed
<1>4. ASSUME Undisturbed, LoginsAreTended PROVE LoginsAreTended'
  <2> SUFFICES ASSUME policy = "Block", record'.state = "logging_in", ~EndsLogin(a)'
               PROVE  (\E b \in Actors : EndsLogin(b)') \/ (\E c \in Calls : Undecided(c)')
    BY DEF LoginsAreTended
  <2>1. record.state = "logging_in" /\ ~EndsLogin(a) /\ j.at # "close"
    BY <1>4
  <2>2. CASE \E b \in Actors : EndsLogin(b)
    BY <1>1, <2>1, <2>2 DEF EndsLogin, At
  <2>3. CASE \E c \in Calls : Undecided(c)
    <3>1. PICK c \in Calls : Undecided(c)
      BY <2>3
    <3>2. Undecided(c)'
      BY <1>1, <2>1, <3>1 DEF Undecided, At
    <3>3. QED  BY <3>2
  <2>4. QED  BY <1>4, <2>1, <2>2, <2>3 DEF LoginsAreTended
<1>5. QED  BY <1>2, <1>3, <1>4 DEF Tends

\* The same for the job of a call, which is no timer, outside a mutation.
LEMMA CallMoves ==
    ASSUME Attended, NEW c \in Calls, NEW j, Go(c, j), UNCHANGED quiet, Apt(c)',
           ~EndsLogin(c) \/ EndsLogin(c)', j.at # "close"
    PROVE  Tends
<1>1. c \in Actors /\ \A d \in Calls : c # TimerOf(d)
  BY ActorsAreIntegers, TimersAreNoCalls
<1>2. QED  BY <1>1, JobMoves DEF quiet, disk

LEMMA AptOfMove ==
    ASSUME Attended, NEW a \in Actors, NEW j, Go(a, j), UNCHANGED window,
           j.at # "new",
           j.at \in {"table", "open"} => j.doing = "begin",
           j.at = "judge" => j.doing = "complete",
           j.at = "close" => j.doing \in {"complete", "abort"},
           j.doing = "begin" => a \in Calls /\ j.win = a /\ window[a] = "none",
           j.doing \in {"agent", "recover"} => a \in Calls,
           j.doing \in {"complete", "abort"} => j.win \in Calls /\ window[j.win] # "none",
           j.at \in Writing =>
              /\ j.to = "logging_in" => j.doing \in {"begin", "import", "agent"}
              /\ j.doing \in {"complete", "imported", "abort", "revert"}
                    => j.to \in {"valid", "needs_login"}
              /\ j.doing = "abort" => j.files = "keep" /\ j.to = "needs_login"
    PROVE  Apt(a)' /\ job'[a] = j
<1>1. job'[a] = j
  BY DEF Attended, IInv, TypeOK, Go
<1>2. QED  BY <1>1 DEF Apt

-----------------------------------------------------------------------------
(* The steps tend to what they find *)

\* What a mutation leads to is apt again; a success that closes a window has taken the
\* account out of logging_in.
LEMMA ContinueApt ==
    ASSUME Attended, NEW a \in Actors, NEW ok \in BOOLEAN, At(a, "lock") \/ At(a, "save"),
           Go(a, Continue(job[a], ok)), UNCHANGED window
    PROVE  /\ Apt(a)' /\ job'[a] = Continue(job[a], ok)
           /\ At(a, "close")' => ok /\ job[a].doing \in {"complete", "abort"}
<1> DEFINE j == job[a]
<1>1. Apt(a) /\ j \in Jobs
  BY DEF Attended, IInv, TypeOK
<1>2. \/ Continue(j, ok) = Waiting("begin", "open", j.win) /\ j.doing = "begin"
      \/ /\ j.doing \in {"complete", "abort"} /\ ok
         /\ Continue(j, ok) = Waiting(j.doing, "close", j.win)
      \/ Continue(j, ok) = Waiting("import", "probe", None)
      \/ Continue(j, ok) = Mutation("revert", "needs_login", None)
      \/ Continue(j, ok) = Mutation("agent", "logging_in", None) /\ j.doing = "recover"
      \/ Continue(j, ok) = Waiting("agent", "restore", None) /\ j.doing = "agent"
      \/ Continue(j, ok) = Finished
  BY DEF Continue
<1> HIDE DEF j
<1>3. QED
  BY <1>1, <1>2, AptOfMove DEF j, Apt, Waiting, Mutation, Finished, Job, Writing, At

LEMMA AcquireTends ==
    ASSUME Attended, NEW a \in Actors, Acquire(a) \/ ChangeEnvelope(a)
    PROVE  Tends
<1>1. PICK at \in {"files", "save"} :
          \E r : Go(a, Holding(job[a], at, r)) /\ (job[a].files = "keep" => at = "save")
  <2>1. CASE Acquire(a)
    BY <2>1 DEF Acquire
  <2>2. CASE ChangeEnvelope(a)
    BY <2>2 DEF ChangeEnvelope
  <2>3. QED  BY <2>1, <2>2
<1>2. PICK r : Go(a, Holding(job[a], at, r)) /\ (job[a].files = "keep" => at = "save")
  BY <1>1
<1>3. Apt(a) /\ job[a].at \in Writing
  BY DEF Attended, Acquire, ChangeEnvelope, At, Writing
<1>4. UNCHANGED <<window, policy, record>>
  BY DEF Acquire, ChangeEnvelope, disk
<1>5. Apt(a)' /\ job'[a] = Holding(job[a], at, r)
  BY <1>2, <1>3, <1>4, AptOfMove DEF Apt, Holding, Writing
<1>6. ASSUME NEW c \in Calls, a = TimerOf(c), window[c] = "open", policy = "Block"
      PROVE  TimerAtWork(c)'
  BY <1>2, <1>3, <1>5, <1>6 DEF Attended, WindowsAreTimed, TimerAtWork, Apt, Holding, Writing
<1>7. ~EndsLogin(a) \/ EndsLogin(a)'
  BY <1>3, <1>5 DEF EndsLogin, Holding, At, Writing
<1>8. Holding(job[a], at, r).at # "close"
  BY DEF Holding
<1>9. QED  BY <1>2, <1>4, <1>5, <1>6, <1>7, <1>8, JobMoves

\* Under LockPolicy::FailFast nothing is promised.
LEMMA LockBusyTends ==
    ASSUME Attended, NEW a \in Actors, LockBusy(a)
    PROVE  Tends
<1>1. Apt(a)'
  BY ContinueApt DEF LockBusy, quiet
<1>2. policy # "Block"
  BY DEF LockBusy
<1>3. QED  BY <1>1, <1>2, JobMoves DEF LockBusy, quiet

LEMMA SaveTends ==
    ASSUME Attended, NEW a \in Actors, Save(a)
    PROVE  Tends
<1> DEFINE j == job[a]
           to == IF j.to = "same" THEN j.saw.state ELSE j.to
           ok == CanTransition(j.saw.state, to)
<1>1. /\ Apt(a) /\ j \in Jobs /\ j.at = "save" /\ j.saw = record
      /\ record.state \in States \ {"revoked"}
  BY DEF Attended, IInv, TypeOK, NoLostUpdate, Coherent, SoundJobs, Save, At, Records
<1>2. /\ ok => record'.state = to
      /\ ~ok => record'.state = record.state
      /\ Go(a, Continue(j, ok)) /\ UNCHANGED <<window, policy>>
  BY <1>1 DEF Save
<1>3. ok \in BOOLEAN
  BY DEF CanTransition
<1>4. \A s \in {"valid", "needs_login"} : to = s => ok
  BY <1>1 DEF CanTransition, Edges, States
<1> HIDE DEF ok, to
<1>5. /\ Apt(a)' /\ job'[a] = Continue(j, ok)
      /\ At(a, "close")' => ok /\ j.doing \in {"complete", "abort"}
  BY <1>1, <1>2, <1>3, ContinueApt DEF At
<1>6. j.doing \in {"complete", "imported", "abort", "revert"} =>
          ok /\ record'.state \in {"valid", "needs_login"}
  BY <1>1, <1>2, <1>4 DEF Apt, Writing, to
<1>7. ASSUME NEW c \in Calls, a = TimerOf(c), window[c] = "open", policy = "Block"
      PROVE  TimerAtWork(c)'
  <2>1. j.doing = "abort" /\ j.win = c
    BY <1>1, <1>7 DEF Attended, WindowsAreTimed, TimerAtWork
  <2>2. Continue(j, ok) = Waiting("abort", "close", c)
    BY <1>6, <2>1 DEF Continue
  <2>3. QED  BY <1>5, <1>7, <2>2 DEF TimerAtWork, Waiting, Job
<1>8. ASSUME Undisturbed, record'.state = "logging_in"
      PROVE  \/ EndsLogin(a)'
             \/ record.state = "logging_in" /\ ~EndsLogin(a) /\ Continue(j, ok).at # "close"
  <2>1. j.doing \notin {"complete", "imported", "abort", "revert"}
    BY <1>6, <1>8
  <2>2. Continue(j, ok).at # "close" /\ ~EndsLogin(a)
    BY <1>1, <1>5, <2>1 DEF EndsLogin, At
  <2>3. CASE ok /\ j.to = "logging_in"
    <3>1. \A c \in Calls : job[c].doing # "agent"
      BY <1>8 DEF Undisturbed
    <3>2. j.doing \in {"begin", "import", "agent"}
      BY <1>1, <2>3 DEF Apt, Writing
    <3>3. CASE j.doing \in {"begin", "import"}
      <4>1. \/ Continue(j, ok) = Waiting("begin", "open", j.win)
            \/ Continue(j, ok) = Waiting("import", "probe", None)
        BY <2>3, <3>3 DEF Continue
      <4>2. QED  BY <1>5, <4>1 DEF EndsLogin, At, Waiting, Job
    <3>4. QED  BY <1>1, <3>1, <3>2, <3>3 DEF Apt
  <2>4. CASE ~(ok /\ j.to = "logging_in")
    BY <1>1, <1>2, <1>8, <2>2, <2>4 DEF to
  <2>5. QED  BY <2>3, <2>4
<1>9. QED  BY <1>2, <1>5, <1>7, <1>8, JobMoves

LEMMA StartsTends ==
    ASSUME Attended, NEW c \in Calls, Starts(c)
    PROVE  Tends
<1>1. At(c, "new") /\ c \in Actors /\ UNCHANGED quiet
  BY ActorsAreIntegers
     DEF Starts, Begin, Import, Verify, Logout, Update, AgentLogin, Complete, Abort, Free
<1>2. ~EndsLogin(c)
  BY <1>1 DEF EndsLogin, At, Writing
<1>3. UNCHANGED window
  BY <1>1 DEF quiet
<1>4. CASE Begin(c)
  <2>1. window[c] = "none"
    BY <1>1, <1>4 DEF Attended, Apt, At
  <2>2. QED
    BY <1>1, <1>2, <1>3, <1>4, <2>1, AptOfMove, CallMoves DEF Begin, Waiting, Job, Writing
<1>5. ASSUME NEW w \in Calls, Complete(c, w) \/ Abort(c, w) PROVE Tends
  <2>1. window[w] = "open"
    BY <1>5 DEF Complete, Abort, OpenIn
  <2>2. CASE Complete(c, w)
    BY <1>1, <1>2, <1>3, <2>1, <2>2, AptOfMove, CallMoves DEF Complete, Waiting, Job, Writing
  <2>3. CASE Abort(c, w)
    BY <1>1, <1>2, <1>3, <2>1, <2>3, AptOfMove, CallMoves DEF Abort, Mutation, Job, Writing
  <2>4. QED  BY <1>5, <2>2, <2>3
<1>6. CASE Import(c) \/ Verify(c) \/ Logout(c) \/ Update(c) \/ AgentLogin(c)
  <2>1. PICK j : /\ Go(c, j)
                 /\ \/ j = Mutation("import", "logging_in", None)
                    \/ j = Waiting("verify", "probe", None)
                    \/ j = Job("logout", "lock", "needs_login", "discard", None)
                    \/ j = Mutation("update", "same", None)
                    \/ j = Mutation("agent", "logging_in", None)
                    \/ j = Mutation("recover", "needs_login", None)
    BY <1>6 DEF Import, Verify, Logout, Update, AgentLogin
  <2>2. Apt(c)' /\ j.at # "close"
    BY <1>1, <1>3, <2>1, AptOfMove DEF Mutation, Waiting, Job, Writing
  <2>3. QED  BY <1>1, <1>2, <2>1, <2>2, CallMoves
<1>7. QED  BY <1>4, <1>5, <1>6 DEF Starts

LEMMA ContinuesTends ==
    ASSUME Attended, NEW c \in Calls, Continues(c)
    PROVE  Tends
<1>0. c \in Actors /\ Apt(c) /\ job \in [Actors -> Jobs] /\ TimerOf(c) \in Actors
  BY ActorsAreIntegers DEF Attended, IInv, TypeOK
<1>1. CASE OpenWindow(c)
  <2>1. /\ At(c, "open") /\ job[c].doing = "begin" /\ window[c] = "none"
        /\ At(TimerOf(c), "new") /\ TimerOf(c) # c
    BY <1>0, <1>1, TimersAreNoCalls
       DEF OpenWindow, Apt, At, Attended, IInv, Coherent, TimersComeLast
  <2>2. /\ job'[c] = Finished /\ job'[TimerOf(c)] = Waiting("timer", "armed", c)
        /\ \A b \in Actors \ {c, TimerOf(c)} : job'[b] = job[b]
        /\ window'[c] = "open" /\ \A d \in Calls \ {c} : window'[d] = window[d]
        /\ UNCHANGED <<record, policy>>
    BY <1>0, <1>1, <2>1 DEF OpenWindow, disk, Attended, IInv, TypeOK
  <2>3. ASSUME NEW b \in Actors PROVE Apt(b)'
    <3>1. CASE b \in {c, TimerOf(c)}
      BY <2>2, <3>1 DEF Apt, Finished, Waiting, Job, Writing
    <3>2. CASE b \notin {c, TimerOf(c)}
      BY <2>2, <3>2 DEF Attended, Apt
    <3>3. QED  BY <3>1, <3>2
  <2>4. WindowsAreTimed'
    <3>1. ASSUME NEW d \in Calls, policy = "Block", window'[d] = "open" PROVE TimerAtWork(d)'
      <4>1. CASE d = c
        BY <2>2, <4>1 DEF TimerAtWork, Waiting, Job
      <4>2. CASE d # c
        <5>1. TimerOf(d) \in Actors \ {c, TimerOf(c)}
          BY <4>2, ActorsAreIntegers, TimersAreNoCalls, OneTimerEach
        <5>2. QED  BY <2>2, <3>1, <4>2, <5>1 DEF Attended, WindowsAreTimed, TimerAtWork
      <4>3. QED  BY <4>1, <4>2
    <3>2. QED  BY <2>2, <3>1 DEF WindowsAreTimed
  <2>5. ASSUME LoginsAreTended PROVE LoginsAreTended'
    <3>1. \A a \in Actors : At(a, "close")' => a \notin {c, TimerOf(c)} /\ job'[a] = job[a]
      BY <2>2 DEF At, Finished, Waiting, Job
    <3>2. Undecided(c)'
      <4>1. \A a \in Actors : At(a, "close") => job[a].win # c
        BY <2>1 DEF Attended, Apt, At
      <4>2. QED  BY <2>2, <3>1, <4>1 DEF Undecided, At
    <3>3. QED  BY <3>2 DEF LoginsAreTended
  <2>6. QED  BY <2>3, <2>4, <2>5 DEF Tends
<1>2. CASE ~OpenWindow(c)
  <2>1. UNCHANGED quiet /\ UNCHANGED window
    BY <1>2 DEF Continues, BeginChecksTable, Judged, Imported, Verified, AgentRestores,
                AgentLogsIn, quiet
  <2>2. CASE Imported(c)
    <3>1. PICK j : /\ Go(c, j)
                   /\ \/ j = Capture("imported", None)
                      \/ j = Mutation("imported", "needs_login", None)
                      \/ j = Mutation("revert", "needs_login", None)
      BY <2>2 DEF Imported
    <3>2. Apt(c)' /\ job'[c] = j /\ j.at = "lock" /\ j.doing \in {"imported", "revert"}
      BY <1>0, <2>1, <3>1, AptOfMove DEF Capture, Mutation, Job, Writing
    <3>3. EndsLogin(c)'
      BY <3>2 DEF EndsLogin, Writing
    <3>4. QED  BY <2>1, <3>1, <3>2, <3>3, CallMoves
  <2>3. CASE ~Imported(c)
    <3>1. ~EndsLogin(c)
      BY <1>2, <2>3 DEF Continues, BeginChecksTable, Judged, Verified, AgentRestores,
                        AgentLogsIn, EndsLogin, At, Writing
    <3>2. PICK j : /\ Go(c, j)
                   /\ \/ j = Mutation("begin", "logging_in", c) /\ At(c, "table")
                      \/ j = Capture("complete", job[c].win) /\ At(c, "judge")
                      \/ \E to \in {"valid", "stale", "challenge"} : j = Mutation("verify", to, None)
                      \/ \E d \in {"restore", "page"} :
                            j = Capture(d, None) \/ j = Mutation(d, "challenge", None)
                      \/ j = Waiting("agent", "page", None)
                      \/ j = Mutation("revert", "needs_login", None)
                      \/ j = Finished
      BY <1>2, <2>3 DEF Continues, BeginChecksTable, Judged, Verified, AgentRestores, AgentLogsIn
    <3>3. Apt(c)' /\ j.at # "close"
      BY <1>0, <2>1, <3>2, AptOfMove
         DEF Apt, At, Capture, Mutation, Waiting, Finished, Job, Writing
    <3>4. QED  BY <2>1, <3>1, <3>2, <3>3, CallMoves
  <2>4. QED  BY <2>2, <2>3
<1>3. QED  BY <1>1, <1>2

\* A window is closed by somebody who has ended its login.
LEMMA CloseTends ==
    ASSUME Attended, NEW a \in Actors, CloseWindow(a)
    PROVE  Tends
<1> DEFINE w == job[a].win
<1>1. At(a, "close") /\ w \in Calls /\ window[w] # "none"
  BY DEF Attended, Apt, CloseWindow, At
<1>2. /\ \A b \in Actors : \/ job'[b] = job[b]
                           \/ job'[b] = Finished /\ (b = a \/ (b = TimerOf(w) /\ At(b, "armed")))
      /\ window'[w] = "closed" /\ \A d \in Calls \ {w} : window'[d] = window[d]
      /\ UNCHANGED <<record, policy>>
  BY <1>1 DEF CloseWindow, disk, Attended, IInv, TypeOK
<1>3. ASSUME NEW b \in Actors PROVE Apt(b)'
  <2>1. CASE job'[b] = job[b]
    BY <1>1, <1>2, <2>1 DEF Attended, Apt
  <2>2. CASE job'[b] = Finished
    BY <2>2 DEF Apt, Finished, Waiting, Job, Writing
  <2>3. QED  BY <1>2, <2>1, <2>2
<1>4. WindowsAreTimed'
  <2>1. ASSUME NEW d \in Calls, policy = "Block", window'[d] = "open" PROVE TimerAtWork(d)'
    <3>1. d # w /\ TimerAtWork(d) /\ TimerOf(d) \in Actors
      BY <1>2, <2>1, ActorsAreIntegers DEF Attended, WindowsAreTimed
    <3>2. TimerOf(d) # a /\ TimerOf(d) # TimerOf(w)
      BY <1>1, <3>1, OneTimerEach DEF TimerAtWork, At
    <3>3. job'[TimerOf(d)] = job[TimerOf(d)]
      BY <1>2, <3>1, <3>2
    <3>4. QED  BY <3>1, <3>3 DEF TimerAtWork
  <2>2. QED  BY <1>2, <2>1 DEF WindowsAreTimed
<1>5. ASSUME LoginsAreTended PROVE LoginsAreTended'
  <2>1. \A b \in Actors : EndsLogin(b) => EndsLogin(b)'
    BY <1>1, <1>2 DEF EndsLogin, At, Writing
  <2>2. \A d \in Calls : Undecided(d) => Undecided(d)'
    <3>1. SUFFICES ASSUME NEW d \in Calls, Undecided(d) PROVE Undecided(d)'
      OBVIOUS
    <3>2. d # w
      BY <1>1, <3>1 DEF Undecided
    <3>3. \A b \in Actors : At(b, "close")' => job'[b] = job[b]
      BY <1>2 DEF At, Finished, Waiting, Job
    <3>4. QED  BY <1>2, <3>1, <3>2, <3>3 DEF Undecided, At
  <2>3. QED  BY <1>2, <1>5, <2>1, <2>2 DEF LoginsAreTended
<1>6. QED  BY <1>3, <1>4, <1>5 DEF Tends

LEMMA TimerTends ==
    ASSUME Attended, NEW c \in Calls, TimerFires(c)
    PROVE  Tends
<1>0. TimerOf(c) \in Actors /\ At(TimerOf(c), "armed") /\ UNCHANGED quiet
  BY ActorsAreIntegers DEF TimerFires
<1>1. PICK j : /\ Go(TimerOf(c), j)
               /\ \/ j = Mutation("abort", "needs_login", c) /\ window[c] = "open"
                  \/ j = Finished /\ window[c] # "open"
  BY DEF TimerFires
<1>2. Apt(TimerOf(c))' /\ job'[TimerOf(c)] = j /\ j.at # "close"
  BY <1>0, <1>1, AptOfMove DEF Mutation, Finished, Waiting, Job, Writing, quiet
<1>3. ASSUME NEW d \in Calls, TimerOf(c) = TimerOf(d), window[d] = "open" PROVE TimerAtWork(d)'
  <2>1. d = c
    BY <1>3, OneTimerEach
  <2>2. QED  BY <1>1, <1>2, <1>3, <2>1 DEF TimerAtWork, Mutation, Job
<1>4. ~EndsLogin(TimerOf(c))
  BY <1>0 DEF EndsLogin, At, Writing
<1>5. QED  BY <1>0, <1>1, <1>2, <1>3, <1>4, JobMoves DEF quiet, disk

\* The windows of a process and their timers die together.
LEMMA CrashTends ==
    ASSUME Attended, NEW p \in Procs, Crash(p)
    PROVE  Tends
<1>1. /\ \A b \in Actors : job'[b] = job[b] \/ (job'[b] = Finished /\ HomeOf(b) = p)
      /\ \A d \in Calls : \/ window'[d] = window[d] /\ (window[d] = "open" => Home[d] # p)
                          \/ window'[d] = "closed" /\ window[d] = "open"
      /\ UNCHANGED policy
  BY DEF Crash, OpenIn, disk
<1>2. ASSUME NEW b \in Actors PROVE Apt(b)'
  <2>1. CASE job'[b] = job[b]
    BY <1>1, <2>1 DEF Attended, Apt
  <2>2. CASE job'[b] = Finished
    BY <2>2 DEF Apt, Finished, Waiting, Job, Writing
  <2>3. QED  BY <1>1, <2>1, <2>2
<1>3. WindowsAreTimed'
  <2>1. ASSUME NEW d \in Calls, policy = "Block", window'[d] = "open" PROVE TimerAtWork(d)'
    <3>1. window[d] = "open" /\ Home[d] # p
      BY <1>1, <2>1
    <3>2. HomeOf(TimerOf(d)) = Home[d] /\ TimerOf(d) \in Actors
      BY TimersAreNoCalls, CallsAssumption, ActorsAreIntegers DEF HomeOf, TimerOf
    <3>3. job'[TimerOf(d)] = job[TimerOf(d)]
      BY <1>1, <3>1, <3>2
    <3>4. QED  BY <2>1, <3>1, <3>3 DEF Attended, WindowsAreTimed, TimerAtWork
  <2>2. QED  BY <1>1, <2>1 DEF WindowsAreTimed
<1>4. ~(Undisturbed /\ Undisturbed')
  BY DEF Crash, Undisturbed
<1>5. QED  BY <1>2, <1>3, <1>4 DEF Tends

LEMMA NextTends == Attended /\ [Next]_vars => Attended' /\ Tends
<1> SUFFICES ASSUME Attended, [Next]_vars PROVE Attended' /\ Tends
  OBVIOUS
<1>1. Tends
  <2>1. CASE UNCHANGED vars
    BY <2>1
       DEF vars, Tends, Attended, Apt, WindowsAreTimed, TimerAtWork, LoginsAreTended, EndsLogin,
           Undecided, At
  <2>2. CASE Next
    BY <2>2, AcquireTends, LockBusyTends, SaveTends, StartsTends, ContinuesTends, CloseTends,
       TimerTends, CrashTends
       DEF Next, Mutates
  <2>3. QED  BY <2>1, <2>2
<1>2. IInv'
  BY NextIInv DEF Attended
<1>3. QED  BY <1>1, <1>2 DEF Attended, Tends

LEMMA InitAttended == Init => Attended /\ LoginsAreTended
<1> SUFFICES ASSUME Init PROVE Attended /\ LoginsAreTended
  OBVIOUS
<1>1. \A a \in Actors : Apt(a)
  BY DEF Init, Apt, NotStarted, Waiting, Job, Writing
<1>2. WindowsAreTimed /\ LoginsAreTended
  BY DEF Init, Fresh, WindowsAreTimed, LoginsAreTended
<1>3. QED  BY <1>1, <1>2, InitIInv DEF Attended

THEOREM Attendance == Spec => []Attended
BY InitAttended, NextTends, PTL DEF Spec

\* With a lock that is waited for, every open window has its timer armed or at the
\* abort, and whoever holds the lock is about to write and to let it go, whichever calls
\* interleave and whichever processes die (begin_login, abort, lock::acquire).  It is
\* what WindowsEnd rests on.
THEOREM WindowsHaveTimers == Spec => [](WindowsAreTimed /\ HolderAtWork)
<1>1. Attended => WindowsAreTimed /\ HolderAtWork
  BY DEF Attended, IInv, Coherent
<1>2. QED  BY <1>1, Attendance, PTL

\* And no account is left in logging_in without a call, or a window with its timer, that
\* takes it out of there, as long as no process dies and no unattended login is made
\* (complete_login, abort, import_inner, revert_to_needs_login).  It is what LoginsEnd
\* rests on.
THEOREM LoginsHaveTenders == Spec /\ []Undisturbed => []LoginsAreTended
<1>1. Attended /\ LoginsAreTended /\ Undisturbed /\ Undisturbed' /\ [Next]_vars => LoginsAreTended'
  BY NextTends DEF Tends
<1>2. QED  BY <1>1, InitAttended, Attendance, PTL DEF Spec
=============================================================================
