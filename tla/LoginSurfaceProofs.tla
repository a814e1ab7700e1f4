-------------------------- MODULE LoginSurfaceProofs --------------------------
(***************************************************************************)
(* Theorems about LoginSurface, for any login ids, contexts and calls: the *)
(* takeover holds while its window is open, an open window can be ended,   *)
(* and the gate and the tokens keep to the takeovers they have seen.       *)
(***************************************************************************)
EXTENDS LoginSurface, SequenceTheorems, TLAPS

Closing(j) == AtEnd(j, "takeover") \/ AtEnd(j, "tokens")
Claiming(j) == At(j, "claim", "check")

\* A login id is in the table only after its state change, keeps its context from
\* then on, and has its session as long as it is in the table; its token is of that
\* context and was not presented yet; whoever presented it was let into a window of
\* that context.
Window(l) ==
    /\ stage[l] \in {"new", "looked"} => l \notin table
    /\ stage[l] \in {"bound", "token", "done"} => win[l] \in Contexts
    /\ stage[l] \in {"token", "done"} /\ l \in table => l \in sessions
    /\ tokens[l] # None => tokens[l] = win[l] /\ entered[l] = <<>> /\ stage[l] \in {"token", "done"}
    /\ \/ entered[l] = <<>>
       \/ /\ stage[l] \in {"token", "done"}
          /\ \E m \in Logins : entered[l] = <<m>> /\ stage[m] = "done" /\ win[m] = win[l]

\* What a call knows when it acts: an end closes a window that is out of the table for
\* good; a claim has taken the token; a listed
\* command has seen the windows registered so far, none of which has the context.
Busy(j) ==
    /\ AtEnd(j, "judge") \/ Closing(j) =>
          job[j].login \in Logins /\ stage[job[j].login] \notin {"new", "looked"}
    /\ Closing(j) => job[j].login \notin table
    /\ Claiming(j) =>
          /\ job[j].login \in Logins /\ stage[job[j].login] \in {"token", "done"}
          /\ job[j].ctx \in Contexts /\ job[j].ctx = win[job[j].login]
          /\ tokens[job[j].login] = None /\ entered[job[j].login] = <<>>
    /\ At(j, "input", "held") =>
          /\ job[j].ctx \in Contexts /\ takeover[job[j].ctx] \notin job[j].seen
          /\ \A l \in job[j].seen : l \in Logins /\ stage[l] = "done"

\* A token is presented by one call.
OneClaim == \A j, k \in Calls : Claiming(j) /\ Claiming(k) /\ job[j].login = job[k].login => j = k

\* Unless two begin_logins overlapped, the one under way is of the window in the table.
Alone == ~crossed => \A l \in table, m \in Logins : stage[m] \in UnderWay => m = l

IInv ==
    /\ TypeOK
    /\ \A l \in Logins : Window(l)
    /\ \A j \in Calls : Busy(j)
    /\ OneClaim
    /\ Alone
    /\ LockoutHolds

LEMMA InitIInv == Init => IInv
<1> SUFFICES ASSUME Init PROVE IInv
  OBVIOUS
<1>1. <<>> \in Seq(Logins)
  OBVIOUS
<1>2. TypeOK
  BY <1>1 DEF Init, TypeOK, Stages
<1>3. \A j \in Calls : job[j] = None
  BY DEF Init
<1>4. QED
  BY <1>2, <1>3 DEF Init, IInv, Window, Busy, OneClaim, Alone, LockoutHolds, Closing, Claiming,
     AtEnd, At

\* The inductive invariant implies the properties.
LEMMA IInvImplies == IInv => LockoutHolds /\ OpenWindowCompletes /\ GateAndTokensHold
<1> SUFFICES ASSUME IInv PROVE OpenWindowCompletes /\ GateAndTokensHold
  BY DEF IInv
<1>1. OpenWindowCompletes
  BY DEF IInv, Window, TypeOK, OpenWindowCompletes
<1>2. ASSUME NEW j \in Calls, At(j, "input", "held") PROVE takeover[job[j].ctx] \notin job[j].seen
  BY <1>2 DEF IInv, Busy
<1>3. ASSUME NEW l \in Logins
      PROVE  Len(entered[l]) <= 1 /\ \A i \in DOMAIN entered[l] : win[entered[l][i]] = win[l]
  <2>1. CASE entered[l] = <<>>
    BY <2>1
  <2>2. CASE entered[l] # <<>>
    <3>1. PICK m \in Logins : entered[l] = <<m>> /\ win[m] = win[l]
      BY <2>2 DEF IInv, Window
    <3>2. QED  BY <3>1
  <2>3. QED  BY <2>1, <2>2
<1>4. QED  BY <1>1, <1>2, <1>3 DEF GateAndTokensHold

-----------------------------------------------------------------------------
(* The steps *)

\* A call that did nothing, in a step that keeps the windows it knows of going on.
LEMMA BusyKept ==
    ASSUME IInv, NEW j \in Calls, job'[j] = job[j],
           \A l \in Logins :
              /\ stage[l] \notin {"new", "looked"} =>
                    stage'[l] \notin {"new", "looked"} /\ (l \in table' => l \in table)
              /\ stage[l] \in {"token", "done"} => stage'[l] \in {"token", "done"} /\ win'[l] = win[l]
              /\ stage[l] = "done" => stage'[l] = "done",
           \A c \in Contexts : \/ takeover'[c] \in {None, takeover[c]}
                               \/ stage[takeover'[c]] # "done",
           Claiming(j) => tokens'[job[j].login] = None /\ entered'[job[j].login] = <<>>
    PROVE  Busy(j)'
<1>1. /\ AtEnd(j, "judge")' = AtEnd(j, "judge") /\ Closing(j)' = Closing(j)
      /\ Claiming(j)' = Claiming(j) /\ At(j, "input", "held")' = At(j, "input", "held")
  BY DEF AtEnd, At, Closing, Claiming
<1>2. Busy(j)
  BY DEF IInv
<1>3. ASSUME At(j, "input", "held")
      PROVE  /\ job[j].ctx \in Contexts /\ takeover'[job[j].ctx] \notin job[j].seen
             /\ \A l \in job[j].seen : l \in Logins /\ stage'[l] = "done"
  BY <1>2, <1>3, NoneAssumption DEF Busy
<1>4. QED  BY <1>1, <1>2, <1>3 DEF Busy

\* No call moved: the claims are those that were.
\* A step of begin_login moves its own call, and no other.
LEMMA Reached ==
    ASSUME stage \in [Logins -> Stages], NEW l \in Logins, NEW s \in Stages, Reach(l, s)
    PROVE  stage' \in [Logins -> Stages] /\ stage'[l] = s
           /\ \A m \in Logins \ {l} : stage'[m] = stage[m]
BY DEF Reach

LEMMA ClaimsKept ==
    ASSUME IInv, UNCHANGED job
    PROVE  OneClaim'
BY DEF IInv, OneClaim, Claiming, At

LEMMA BeginLooksKeeps ==
    ASSUME IInv, NEW l \in Logins, BeginLooks(l)
    PROVE  IInv'
<1>1. /\ UNCHANGED <<win, table, due, lapsed, binding, made, takeover, tokens, sessions, job,
                     entered, crossed>>
      /\ stage[l] = "new" /\ stage' = [stage EXCEPT ![l] = "looked"]
      /\ \A m \in Logins : stage'[m] = IF m = l THEN "looked" ELSE stage[m]
  BY DEF BeginLooks, Reach, registers, history, IInv, TypeOK
<1>2. TypeOK'
  BY <1>1 DEF IInv, TypeOK, Stages, Registered, UnderWay
<1>3. ASSUME NEW m \in Logins PROVE Window(m)'
  BY <1>1 DEF IInv, Window
<1>4. ASSUME NEW j \in Calls PROVE Busy(j)'
  BY <1>1, BusyKept DEF IInv, Busy
<1>5. Alone' /\ LockoutHolds'
  BY <1>1 DEF IInv, Alone, LockoutHolds, UnderWay, TypeOK
<1>6. QED  BY <1>1, <1>2, <1>3, <1>4, <1>5, ClaimsKept DEF IInv

LEMMA BeginOpensKeeps ==
    ASSUME IInv, NEW l \in Logins, BeginOpens(l)
    PROVE  IInv'
<1>1. /\ UNCHANGED <<due, lapsed, binding, made, takeover, tokens, sessions, job, entered>>
      /\ stage[l] = "looked"
      /\ stage' \in [Logins -> Stages] /\ stage'[l] \in {"opening", "bound", "failed"}
      /\ \A m \in Logins \ {l} : stage'[m] = stage[m] /\ win'[m] = win[m]
      /\ win' \in [Logins -> Contexts \cup {None}]
      /\ stage'[l] = "bound" => win'[l] \in Contexts
      /\ table' \in {table, table \cup {l}} /\ crossed' \in BOOLEAN
      /\ stage'[l] = "failed" => table' = table /\ crossed' = crossed
      /\ ~crossed' => ~crossed
      /\ ~crossed' /\ stage'[l] # "failed" =>
            table = {} /\ \A m \in Logins : stage[m] \notin UnderWay
  <2>1. /\ stage \in [Logins -> Stages] /\ win \in [Logins -> Contexts \cup {None}]
        /\ binding \in Contexts \cup {None} /\ table \subseteq Logins /\ crossed \in BOOLEAN
    BY DEF IInv, TypeOK
  <2>2. /\ UNCHANGED <<due, lapsed, binding, made, takeover, tokens, sessions, job, entered>>
        /\ stage[l] = "looked"
    BY DEF BeginOpens, registers
  <2>3. CASE Reach(l, "failed") /\ UNCHANGED <<win, table, crossed>>
    BY <2>1, <2>2, <2>3 DEF Reach, Stages
  <2>4. CASE /\ Reach(l, IF binding = None THEN "opening" ELSE "bound")
             /\ win' = [win EXCEPT ![l] = binding]
             /\ table' = table \cup {l}
             /\ crossed' = (crossed \/ table # {} \/ \E m \in Logins : stage[m] \in UnderWay)
    <3>1. /\ stage' \in [Logins -> Stages] /\ stage'[l] \in {"opening", "bound"}
          /\ stage'[l] = "bound" => binding \in Contexts
          /\ \A m \in Logins \ {l} : stage'[m] = stage[m]
      <4>1. CASE binding = None /\ Reach(l, "opening")
        BY <2>1, <4>1, Reached DEF Stages, UnderWay
      <4>2. CASE binding # None /\ Reach(l, "bound")
        BY <2>1, <4>2, Reached DEF Stages, UnderWay
      <4>3. QED  BY <2>4, <4>1, <4>2
    <3>2. /\ win' \in [Logins -> Contexts \cup {None}] /\ win'[l] = binding
          /\ \A m \in Logins \ {l} : win'[m] = win[m]
      BY <2>1, <2>4
    <3>3. /\ crossed' \in BOOLEAN /\ ~crossed' => ~crossed
          /\ ~crossed' => table = {} /\ \A m \in Logins : stage[m] \notin UnderWay
      BY <2>1, <2>4
    <3>4. QED  BY <2>2, <2>4, <3>1, <3>2, <3>3
  <2>5. QED  BY <2>3, <2>4 DEF BeginOpens
<1>2. TypeOK'
  BY <1>1 DEF IInv, TypeOK, Registered
<1>3. ASSUME NEW m \in Logins PROVE Window(m)'
  BY <1>1 DEF IInv, Window
<1>4. ASSUME NEW j \in Calls PROVE Busy(j)'
  <2>1. Claiming(j) => tokens'[job[j].login] = None /\ entered'[job[j].login] = <<>>
    BY <1>1 DEF IInv, Busy
  <2>2. QED  BY <1>1, <2>1, BusyKept DEF UnderWay
<1>5. Alone'
  BY <1>1 DEF IInv, Alone, UnderWay
<1>6. LockoutHolds'
  BY <1>1 DEF IInv, LockoutHolds, TypeOK
<1>7. QED  BY <1>1, <1>2, <1>3, <1>4, <1>5, <1>6, ClaimsKept DEF IInv

LEMMA BeginOpensContextKeeps ==
    ASSUME IInv, NEW l \in Logins, NEW c \in Contexts, BeginOpensContext(l, c)
    PROVE  IInv'
<1>1. /\ UNCHANGED <<table, due, lapsed, takeover, tokens, sessions, job, entered, crossed>>
      /\ stage[l] = "opening" /\ made' = made \cup {c}
      /\ stage' \in [Logins -> Stages] /\ stage'[l] \in {"bound", "failed"}
      /\ \A m \in Logins \ {l} : stage'[m] = stage[m] /\ win'[m] = win[m]
      /\ win' \in [Logins -> Contexts \cup {None}] /\ binding' \in {binding, c}
      /\ stage'[l] = "bound" => win'[l] \in Contexts
  <2>1. stage \in [Logins -> Stages] /\ win \in [Logins -> Contexts \cup {None}]
    BY DEF IInv, TypeOK
  <2>2. /\ UNCHANGED <<table, due, lapsed, takeover, tokens, sessions, job, entered, crossed>>
        /\ stage[l] = "opening" /\ made' = made \cup {c}
    BY DEF BeginOpensContext, registers, history
  <2>3. \/ binding' = c /\ win' = [win EXCEPT ![l] = c] /\ Reach(l, "bound")
        \/ Reach(l, "failed") /\ UNCHANGED <<binding, win>>
    BY DEF BeginOpensContext
  <2>4. CASE binding' = c /\ win' = [win EXCEPT ![l] = c] /\ Reach(l, "bound")
    <3>1. /\ stage' \in [Logins -> Stages] /\ stage'[l] = "bound"
          /\ \A m \in Logins \ {l} : stage'[m] = stage[m]
      BY <2>1, <2>4, Reached DEF Stages, UnderWay
    <3>2. /\ win' \in [Logins -> Contexts \cup {None}] /\ win'[l] = c
          /\ \A m \in Logins \ {l} : win'[m] = win[m]
      BY <2>1, <2>4
    <3>3. QED  BY <2>2, <2>4, <3>1, <3>2
  <2>5. CASE Reach(l, "failed") /\ UNCHANGED <<binding, win>>
    <3>1. /\ stage' \in [Logins -> Stages] /\ stage'[l] = "failed"
          /\ \A m \in Logins \ {l} : stage'[m] = stage[m]
      BY <2>1, <2>5, Reached DEF Stages
    <3>2. QED  BY <2>1, <2>2, <2>5, <3>1
  <2>6. QED  BY <2>3, <2>4, <2>5
<1>2. TypeOK'
  BY <1>1 DEF IInv, TypeOK, Registered
<1>3. ASSUME NEW m \in Logins PROVE Window(m)'
  BY <1>1 DEF IInv, Window
<1>4. ASSUME NEW j \in Calls PROVE Busy(j)'
  BY <1>1, BusyKept DEF IInv, Busy
<1>5. Alone' /\ LockoutHolds'
  BY <1>1 DEF IInv, Alone, LockoutHolds, UnderWay, TypeOK
<1>6. QED  BY <1>1, <1>2, <1>3, <1>4, <1>5, ClaimsKept DEF IInv

LEMMA BeginOpensSessionKeeps ==
    ASSUME IInv, NEW l \in Logins, BeginOpensSession(l)
    PROVE  IInv'
<1>1. /\ UNCHANGED <<win, due, lapsed, binding, made, takeover, job, entered, crossed>>
      /\ stage[l] = "bound" /\ win[l] \in Contexts /\ entered[l] = <<>>
      /\ \A m \in Logins \ {l} : stage'[m] = stage[m] /\ tokens'[m] = tokens[m]
      /\ stage' \in [Logins -> Stages] /\ table' \subseteq table
      /\ tokens' \in [Logins -> Contexts \cup {None}]
      /\ sessions' \subseteq Logins /\ sessions \subseteq sessions'
      /\ \/ stage'[l] = "token" /\ tokens'[l] = win[l] /\ l \in sessions'
         \/ stage'[l] = "failed" /\ tokens'[l] = tokens[l]
  BY DEF BeginOpensSession, Reach, history, Stages, UnderWay, IInv, TypeOK, Window
<1>2. TypeOK'
  BY <1>1 DEF IInv, TypeOK, Registered
<1>3. ASSUME NEW m \in Logins PROVE Window(m)'
  BY <1>1 DEF IInv, Window
<1>4. ASSUME NEW j \in Calls PROVE Busy(j)'
  <2>1. Claiming(j) => tokens'[job[j].login] = None /\ entered'[job[j].login] = <<>>
    BY <1>1 DEF IInv, Busy
  <2>2. QED  BY <1>1, <2>1, BusyKept
<1>5. Alone' /\ LockoutHolds'
  BY <1>1 DEF IInv, Alone, LockoutHolds, UnderWay, TypeOK
<1>6. QED  BY <1>1, <1>2, <1>3, <1>4, <1>5, ClaimsKept DEF IInv

\* The takeover goes to the window under way, which is the only one that is open.
LEMMA RegisterTakeoverKeeps ==
    ASSUME IInv, NEW l \in Logins, RegisterTakeover(l)
    PROVE  IInv'
<1>1. /\ UNCHANGED <<win, table, due, lapsed, binding, made, tokens, sessions, job, entered, crossed>>
      /\ stage[l] = "token" /\ win[l] \in Contexts
      /\ stage' \in [Logins -> Stages] /\ stage'[l] = "done"
      /\ \A m \in Logins \ {l} : stage'[m] = stage[m]
      /\ takeover' \in [Contexts -> Logins \cup {None}] /\ takeover'[win[l]] = l
      /\ \A c \in Contexts \ {win[l]} : takeover'[c] = takeover[c]
  <2>1. /\ stage \in [Logins -> Stages] /\ takeover \in [Contexts -> Logins \cup {None}]
        /\ stage[l] = "token" /\ win[l] \in Contexts
    BY DEF RegisterTakeover, UnderWay, IInv, TypeOK, Window
  <2>2. /\ UNCHANGED <<win, table, due, lapsed, binding, made, tokens, sessions, job, entered, crossed>>
        /\ Reach(l, "done") /\ takeover' = [takeover EXCEPT ![win[l]] = l]
    BY DEF RegisterTakeover, history
  <2>3. /\ stage' \in [Logins -> Stages] /\ stage'[l] = "done"
        /\ \A m \in Logins \ {l} : stage'[m] = stage[m]
    BY <2>1, <2>2, Reached DEF Stages
  <2>4. /\ takeover' \in [Contexts -> Logins \cup {None}] /\ takeover'[win[l]] = l
        /\ \A c \in Contexts \ {win[l]} : takeover'[c] = takeover[c]
    BY <2>1, <2>2
  <2>5. QED  BY <2>1, <2>2, <2>3, <2>4
<1>2. TypeOK'
  <2>1. l \in Registered(win[l])' /\ \A c \in Contexts : Registered(c) \subseteq Registered(c)'
    BY <1>1 DEF Registered
  <2>2. \A c \in Contexts : takeover'[c] # None => takeover'[c] \in Registered(c)'
    BY <1>1, <2>1 DEF IInv, TypeOK
  <2>3. QED  BY <1>1, <2>2 DEF IInv, TypeOK
<1>3. ASSUME NEW m \in Logins PROVE Window(m)'
  BY <1>1 DEF IInv, Window
<1>4. ASSUME NEW j \in Calls PROVE Busy(j)'
  <2>1. Claiming(j) => tokens'[job[j].login] = None /\ entered'[job[j].login] = <<>>
    BY <1>1 DEF IInv, Busy
  <2>2. QED  BY <1>1, <2>1, BusyKept
<1>5. Alone'
  BY <1>1 DEF IInv, Alone, UnderWay
<1>6. LockoutHolds'
  <2>1. ~crossed => \A m \in table : m = l
    BY <1>1 DEF IInv, Alone, UnderWay
  <2>2. QED  BY <1>1, <2>1 DEF IInv, LockoutHolds, Window, TypeOK
<1>7. QED  BY <1>1, <1>2, <1>3, <1>4, <1>5, <1>6, ClaimsKept DEF IInv

\* A step that winds things down: windows close, time passes, tokens and takeovers go,
\* but no takeover of an open window whose time has not passed.
LEMMA WindsDown ==
    ASSUME IInv, UNCHANGED <<stage, win, crossed>>, table' \subseteq table, due \subseteq due',
           \A l \in table' : l \in sessions => l \in sessions',
           \A l \in Logins : tokens'[l] \in {None, tokens[l]},
           \A l \in Logins : entered'[l] = entered[l],
           \A c \in Contexts : \/ takeover'[c] = takeover[c]
                               \/ takeover'[c] = None /\ takeover[c] \notin table' \ due'
    PROVE  (\A l \in Logins : Window(l)') /\ Alone' /\ LockoutHolds'
<1>1. ASSUME NEW l \in Logins PROVE Window(l)'
  BY DEF IInv, Window
<1>2. Alone'
  BY DEF IInv, Alone
<1>3. LockoutHolds'
  <2>1. SUFFICES ASSUME ~crossed, NEW l \in table' \ due', stage[l] = "done"
                 PROVE  takeover'[win[l]] = l
    BY DEF LockoutHolds
  <2>2. l \in Logins /\ win[l] \in Contexts /\ takeover[win[l]] = l
    BY <2>1 DEF IInv, LockoutHolds, Window, TypeOK
  <2>3. QED  BY <2>1, <2>2
<1>4. QED  BY <1>1, <1>2, <1>3

\* ... and the calls it does not touch.
LEMMA CallsWind ==
    ASSUME IInv, UNCHANGED <<stage, win>>, table' \subseteq table,
           NEW j \in Calls, job'[j] = job[j],
           \A l \in Logins : tokens'[l] \in {None, tokens[l]},
           \A c \in Contexts : takeover'[c] \in {None, takeover[c]},
           Claiming(j) => entered'[job[j].login] = <<>>
    PROVE  Busy(j)'
<1>1. Claiming(j) => tokens'[job[j].login] = None
  BY DEF IInv, Busy
<1>2. QED  BY <1>1, BusyKept

LEMMA TimePasses ==
    ASSUME IInv, NEW l \in Logins, Passes(l)
    PROVE  IInv'
<1>1. /\ UNCHANGED <<stage, win, binding, made, takeover, tokens, sessions, job, entered, crossed>>
      /\ table' \subseteq table /\ due \subseteq due' /\ due' \subseteq Logins /\ lapsed' \subseteq due'
  BY DEF Passes, TimeoutPasses, TakeoverLapses, TimerFires, registers, history, IInv, TypeOK
<1>2. TypeOK'
  BY <1>1 DEF IInv, TypeOK, Registered
<1>3. \A m \in Logins : tokens'[m] \in {None, tokens[m]} /\ entered'[m] = entered[m]
  BY <1>1
<1>4. (\A m \in Logins : Window(m)') /\ Alone' /\ LockoutHolds'
  BY <1>1, <1>3, WindsDown
<1>5. ASSUME NEW j \in Calls PROVE Busy(j)'
  <2>1. Claiming(j) => entered'[job[j].login] = <<>>
    BY <1>1 DEF IInv, Busy
  <2>2. QED  BY <1>1, <1>3, <2>1, CallsWind
<1>6. QED  BY <1>1, <1>2, <1>4, <1>5, ClaimsKept DEF IInv

LEMMA AccountContextKeeps ==
    ASSUME IInv, NEW c \in Contexts, AccountContext(c)
    PROVE  IInv'
<1>1. /\ UNCHANGED <<stage, win, table, due, lapsed, takeover, tokens, sessions, job, entered, crossed>>
      /\ made' = made \cup {c} /\ binding' \in {binding, c}
  BY DEF AccountContext, windows, registers, history
<1>2. TypeOK'
  BY <1>1 DEF IInv, TypeOK, Registered
<1>3. \A m \in Logins : tokens'[m] \in {None, tokens[m]} /\ entered'[m] = entered[m]
  BY <1>1
<1>4. (\A m \in Logins : Window(m)') /\ Alone' /\ LockoutHolds'
  BY <1>1, <1>3, WindsDown
<1>5. ASSUME NEW j \in Calls PROVE Busy(j)'
  <2>1. Claiming(j) => entered'[job[j].login] = <<>>
    BY <1>1 DEF IInv, Busy
  <2>2. QED  BY <1>1, <1>3, <2>1, CallsWind
<1>6. QED  BY <1>1, <1>2, <1>4, <1>5, ClaimsKept DEF IInv

\* A step of one call that winds things down, and starts no claim.
LEMMA OneCall ==
    ASSUME IInv, NEW j \in Calls, TypeOK', Busy(j)', ~Claiming(j)',
           \A k \in Calls \ {j} : job'[k] = job[k],
           UNCHANGED <<stage, win, crossed, due>>, table' \subseteq table,
           \A l \in table' : l \in sessions => l \in sessions',
           \A l \in Logins : tokens'[l] \in {None, tokens[l]},
           \A l \in Logins : entered'[l] = entered[l],
           \A c \in Contexts : \/ takeover'[c] = takeover[c]
                               \/ takeover'[c] = None /\ takeover[c] \notin table' \ due
    PROVE  IInv'
<1>1. (\A m \in Logins : Window(m)') /\ Alone' /\ LockoutHolds'
  BY WindsDown
<1>2. ASSUME NEW k \in Calls PROVE Busy(k)'
  <2>1. CASE k = j
    BY <2>1
  <2>2. CASE k # j
    <3>1. Claiming(k) => entered'[job[k].login] = <<>>
      BY DEF IInv, Busy
    <3>2. \A c \in Contexts : takeover'[c] \in {None, takeover[c]}
      OBVIOUS
    <3>3. QED  BY <2>2, <3>1, <3>2, CallsWind
  <2>3. QED  BY <2>1, <2>2
<1>3. OneClaim'
  BY DEF IInv, OneClaim, Claiming, At
<1>4. QED  BY <1>1, <1>2, <1>3 DEF IInv

\* report_success and end_login.
LEMMA EndStarts ==
    ASSUME IInv, NEW j \in Calls, NEW l \in Logins, ReportStarts(j, l) \/ AbortStarts(j, l)
    PROVE  IInv'
<1>1. /\ UNCHANGED <<stage, win, table, due, lapsed, binding, made, takeover, tokens, sessions,
                     entered, crossed>>
      /\ l \in table
      /\ \E do \in {"report", "abort"} :
            job' = [job EXCEPT ![j] = [do |-> do, at |-> "judge", login |-> l, ctx |-> None, seen |-> {}]]
  BY DEF ReportStarts, AbortStarts, Do, Job, windows, registers, history
<1>2. PICK do \in {"report", "abort"} :
         job' = [job EXCEPT ![j] = [do |-> do, at |-> "judge", login |-> l, ctx |-> None, seen |-> {}]]
  BY <1>1
<1>3. [do |-> do, at |-> "judge", login |-> l, ctx |-> None, seen |-> {}] \in Jobs
  BY DEF Jobs
<1>4. job' \in [Calls -> Jobs \cup {None}] /\ \A k \in Calls \ {j} : job'[k] = job[k]
  BY <1>2, <1>3 DEF IInv, TypeOK
<1>5. job'[j].at = "judge" /\ job'[j].login = l /\ job'[j].do # "claim" /\ job'[j].do # "input"
  BY <1>2 DEF IInv, TypeOK
<1>6. TypeOK'
  BY <1>1, <1>4 DEF IInv, TypeOK, Registered
<1>7. stage[l] \notin {"new", "looked"}
  BY <1>1 DEF IInv, Window
<1>8. Busy(j)' /\ ~Claiming(j)'
  BY <1>1, <1>5, <1>7 DEF Busy, Closing, Claiming, AtEnd, At
<1>9. QED  BY <1>1, <1>4, <1>6, <1>8, OneCall

LEMMA NoJob ==
    ASSUME NEW j, job'[j] = None
    PROVE  Busy(j)' /\ ~Claiming(j)'
BY DEF Busy, Closing, Claiming, AtEnd, At

\* A call that is over.
LEMMA CallEnds ==
    ASSUME IInv, NEW j \in Calls, Done(j),
           UNCHANGED <<stage, win, table, due, lapsed, binding, made, takeover, entered, crossed>>,
           sessions' \subseteq sessions, \A l \in table : l \in sessions => l \in sessions',
           tokens' \in [Logins -> Contexts \cup {None}],
           \A l \in Logins : tokens'[l] \in {None, tokens[l]}
    PROVE  IInv'
<1>1. job'[j] = None /\ job' \in [Calls -> Jobs \cup {None}] /\ \A k \in Calls \ {j} : job'[k] = job[k]
  BY DEF Done, IInv, TypeOK
<1>2. TypeOK'
  BY <1>1 DEF IInv, TypeOK, Registered
<1>3. QED  BY <1>1, <1>2, NoJob, OneCall

LEMMA EndedKeeps ==
    ASSUME IInv, NEW j \in Calls, Ended(j)
    PROVE  IInv'
<1> DEFINE l == job[j].login
           r == [job[j] EXCEPT !.at = "takeover"]
<1>1. /\ UNCHANGED <<stage, win, due, lapsed, binding, made, takeover, tokens, sessions, entered, crossed>>
      /\ job[j] \in Jobs /\ AtEnd(j, "judge") /\ l \in Logins /\ stage[l] \notin {"new", "looked"}
      /\ job[j].do \in {"report", "abort"}
  BY DEF Ended, registers, history, IInv, TypeOK, Busy, AtEnd, At
<1>2. CASE Done(j) /\ UNCHANGED table
  BY <1>1, <1>2, CallEnds DEF IInv, TypeOK
<1>3. CASE table' = table \ {l} /\ Do(j, [job[j] EXCEPT !.at = "takeover"])
  <2>1. r \in Jobs /\ r.at = "takeover" /\ r.do = job[j].do /\ r.login = l
    BY <1>1 DEF Jobs
  <2>2. job' = [job EXCEPT ![j] = r]
    BY <1>3 DEF Do
  <2>3. job'[j] = r /\ \A k \in Calls \ {j} : job'[k] = job[k]
    BY <2>2 DEF IInv, TypeOK
  <2> HIDE DEF r
  <2>4. TypeOK'
    BY <1>1, <1>3, <2>1, <2>2 DEF IInv, TypeOK, Registered
  <2>5. Busy(j)' /\ ~Claiming(j)'
    BY <1>1, <1>3, <2>1, <2>3 DEF Busy, Closing, Claiming, AtEnd, At
  <2>6. QED  BY <1>1, <1>3, <2>3, <2>4, <2>5, OneCall
<1>4. QED  BY <1>2, <1>3 DEF Ended

\* The takeover that goes is that of a window out of the table.
LEMMA CloseTakeoverKeeps ==
    ASSUME IInv, NEW j \in Calls, CloseTakeover(j)
    PROVE  IInv'
<1> DEFINE l == job[j].login
           cs == {c \in Contexts : takeover[c] = l}
           r == [job[j] EXCEPT !.at = "tokens", !.seen = cs]
<1>1. /\ UNCHANGED <<stage, win, table, due, lapsed, binding, made, tokens, sessions, entered, crossed>>
      /\ job[j] \in Jobs /\ AtEnd(j, "takeover") /\ l \in Logins
      /\ stage[l] \notin {"new", "looked"} /\ l \notin table
      /\ job[j].do \in {"report", "abort"}
      /\ takeover' = [c \in Contexts |-> IF c \in cs THEN None ELSE takeover[c]]
  BY DEF CloseTakeover, windows, history, IInv, TypeOK, Busy, Closing, AtEnd, At
<1>2. r \in Jobs /\ r.at = "tokens" /\ r.do = job[j].do /\ r.login = l
  BY <1>1 DEF Jobs
<1>3. job' = [job EXCEPT ![j] = r]
  BY DEF CloseTakeover, Do
<1>4. job'[j] = r /\ \A k \in Calls \ {j} : job'[k] = job[k]
  BY <1>3 DEF IInv, TypeOK
<1> HIDE DEF r
<1>5. \A c \in Contexts : \/ takeover'[c] = takeover[c]
                          \/ takeover'[c] = None /\ takeover[c] \notin table' \ due
  BY <1>1
<1>6. TypeOK'
  BY <1>1, <1>2, <1>3 DEF IInv, TypeOK, Registered
<1>7. Busy(j)' /\ ~Claiming(j)'
  BY <1>1, <1>2, <1>4 DEF Busy, Closing, Claiming, AtEnd, At
<1>8. QED  BY <1>1, <1>4, <1>5, <1>6, <1>7, OneCall

LEMMA CloseTokensKeeps ==
    ASSUME IInv, NEW j \in Calls, CloseTokens(j)
    PROVE  IInv'
<1>1. /\ UNCHANGED <<stage, win, table, due, lapsed, binding, made, takeover, entered, crossed>>
      /\ Done(j) /\ job[j].login \notin table /\ sessions' = sessions \ {job[j].login}
      /\ tokens' = [l \in Logins |-> IF tokens[l] \in job[j].seen THEN None ELSE tokens[l]]
  BY DEF CloseTokens, windows, history, IInv, Busy, Closing
<1>2. tokens' \in [Logins -> Contexts \cup {None}] /\ \A l \in Logins : tokens'[l] \in {None, tokens[l]}
  BY <1>1 DEF IInv, TypeOK
<1>3. QED  BY <1>1, <1>2, CallEnds

\* The token is gone before the call looks for its takeover.
LEMMA ClaimTokenKeeps ==
    ASSUME IInv, NEW j \in Calls, NEW l \in Logins, ClaimToken(j, l)
    PROVE  IInv'
<1> DEFINE r == [do |-> "claim", at |-> "check", login |-> l, ctx |-> tokens[l], seen |-> {}]
<1>1. /\ UNCHANGED <<stage, win, table, due, lapsed, binding, made, takeover, sessions, entered, crossed>>
      /\ tokens' = [tokens EXCEPT ![l] = None] /\ job' = [job EXCEPT ![j] = r]
      /\ tokens[l] \in Contexts /\ tokens[l] = win[l] /\ entered[l] = <<>>
      /\ stage[l] \in {"token", "done"}
  BY DEF ClaimToken, Do, Job, windows, history, IInv, TypeOK, Window
<1>2. r \in Jobs /\ r.do = "claim" /\ r.at = "check" /\ r.login = l /\ r.ctx = tokens[l]
  BY <1>1 DEF Jobs
<1>3. job'[j] = r /\ \A k \in Calls \ {j} : job'[k] = job[k]
  BY <1>1 DEF IInv, TypeOK
<1> HIDE DEF r
<1>4. TypeOK'
  BY <1>1, <1>2 DEF IInv, TypeOK, Registered
<1>5. \A m \in Logins : tokens'[m] \in {None, tokens[m]}
  BY <1>1 DEF IInv, TypeOK
<1>6. (\A m \in Logins : Window(m)') /\ Alone' /\ LockoutHolds'
  BY <1>1, <1>5, WindsDown
<1>7. Busy(j)'
  BY <1>1, <1>2, <1>3 DEF Busy, Closing, Claiming, AtEnd, At, IInv, TypeOK
<1>8. ASSUME NEW k \in Calls \ {j} PROVE Busy(k)'
  <2>1. Claiming(k) => entered'[job[k].login] = <<>>
    BY <1>1 DEF IInv, Busy
  <2>2. QED  BY <1>1, <1>3, <1>5, <2>1, CallsWind
<1>9. OneClaim'
  <2>1. \A k \in Calls \ {j} : Claiming(k) => job[k].login # l
    BY <1>1, NoneAssumption DEF IInv, Busy, TypeOK
  <2>2. QED  BY <1>2, <1>3, <2>1 DEF IInv, OneClaim, Claiming, At
<1>10. QED  BY <1>4, <1>6, <1>7, <1>8, <1>9 DEF IInv

\* What active_takeover prunes has lapsed, so it is no window in its time.
LEMMA PrunedTakeover ==
    ASSUME IInv, NEW c \in Contexts, takeover' = Pruned(c)
    PROVE  /\ takeover' \in [Contexts -> Logins \cup {None}]
           /\ ~Live(c) => takeover'[c] = None
           /\ \A d \in Contexts : \/ takeover'[d] = takeover[d]
                                  \/ takeover'[d] = None /\ takeover[d] \notin table \ due
BY DEF Pruned, Live, IInv, TypeOK

\* The viewer is let into the window that has the context of its token.
LEMMA ClaimChecksKeeps ==
    ASSUME IInv, NEW j \in Calls, ClaimChecks(j)
    PROVE  IInv'
<1> DEFINE c == job[j].ctx
           l == job[j].login
<1>1. /\ UNCHANGED <<stage, win, table, due, lapsed, binding, made, tokens, sessions, crossed>>
      /\ takeover' = Pruned(c) /\ Claiming(j) /\ Done(j)
      /\ c \in Contexts /\ l \in Logins /\ c = win[l] /\ tokens[l] = None /\ entered[l] = <<>>
      /\ stage[l] \in {"token", "done"}
  BY DEF ClaimChecks, Claiming, windows, IInv, Busy
<1>2. /\ takeover' \in [Contexts -> Logins \cup {None}]
      /\ \A d \in Contexts : \/ takeover'[d] = takeover[d]
                             \/ takeover'[d] = None /\ takeover[d] \notin table \ due
  BY <1>1, PrunedTakeover
<1>3. job'[j] = None /\ job' \in [Calls -> Jobs \cup {None}] /\ \A k \in Calls \ {j} : job'[k] = job[k]
  BY <1>1 DEF Done, IInv, TypeOK
<1>4. CASE UNCHANGED entered
  <2>1. TypeOK'
    BY <1>1, <1>2, <1>3, <1>4 DEF IInv, TypeOK, Registered
  <2>2. QED  BY <1>1, <1>2, <1>3, <1>4, <2>1, NoJob, OneCall
<1>5. CASE Live(c) /\ entered' = [entered EXCEPT ![l] = Append(@, takeover[c])]
  <2> DEFINE m == takeover[c]
  <2>1. m \in Logins /\ stage[m] = "done" /\ win[m] = c
    BY <1>1, <1>5 DEF Live, IInv, TypeOK, Registered
  <2>2. entered' = [entered EXCEPT ![l] = Append(<<>>, m)]
    BY <1>1, <1>5 DEF IInv, TypeOK
  <2>3. Append(<<>>, m) = <<m>> /\ <<m>> \in Seq(Logins)
    BY <2>1
  <2>4. entered'[l] = <<m>> /\ \A k \in Logins \ {l} : entered'[k] = entered[k]
    BY <1>1, <2>2, <2>3 DEF IInv, TypeOK
  <2>5. entered' \in [Logins -> Seq(Logins)]
    BY <2>2, <2>3 DEF IInv, TypeOK
  <2>6. TypeOK'
    BY <1>1, <1>2, <1>3, <2>5 DEF IInv, TypeOK, Registered
  <2>7. ASSUME NEW k \in Logins PROVE Window(k)'
    BY <1>1, <2>1, <2>4 DEF IInv, Window
  <2>8. Alone'
    BY <1>1 DEF IInv, Alone
  <2>9. LockoutHolds'
    <3>1. SUFFICES ASSUME ~crossed, NEW k \in table \ due, stage[k] = "done"
                   PROVE  takeover'[win[k]] = k
      BY <1>1 DEF LockoutHolds
    <3>2. k \in Logins /\ win[k] \in Contexts /\ takeover[win[k]] = k
      BY <3>1 DEF IInv, LockoutHolds, Window, TypeOK
    <3>3. QED  BY <1>2, <3>1, <3>2
  <2>10. ASSUME NEW k \in Calls PROVE Busy(k)'
    <3>1. CASE k = j
      BY <1>3, <3>1, NoJob
    <3>2. CASE k # j
      <4>1. Claiming(k) => entered'[job[k].login] = <<>>
        BY <1>1, <2>4, <3>2 DEF IInv, OneClaim, Busy
      <4>2. QED  BY <1>1, <1>2, <1>3, <3>2, <4>1, CallsWind
    <3>3. QED  BY <3>1, <3>2
  <2>11. OneClaim'
    BY <1>3 DEF IInv, OneClaim, Claiming, At
  <2>12. QED  BY <2>6, <2>7, <2>8, <2>9, <2>10, <2>11 DEF IInv
<1>6. QED  BY <1>4, <1>5 DEF ClaimChecks

\* A command is no end and no claim; a listed one that passes has seen every window
\* registered so far, and none has the context.
LEMMA GateKeeps ==
    ASSUME IInv, NEW j \in Calls, NEW c \in Contexts, NEW do \in Commands, Gate(j, c, do)
    PROVE  IInv'
<1> DEFINE r == [do |-> do, at |-> "held", login |-> None, ctx |-> c, seen |-> Registered(c)]
<1>1. /\ UNCHANGED <<stage, win, table, due, lapsed, binding, made, tokens, sessions, entered, crossed>>
      /\ takeover' = Pruned(c) /\ job[j] = None
  BY DEF Gate, Free, windows, history
<1>2. /\ takeover' \in [Contexts -> Logins \cup {None}]
      /\ ~Live(c) => takeover'[c] = None
      /\ \A d \in Contexts : \/ takeover'[d] = takeover[d]
                             \/ takeover'[d] = None /\ takeover[d] \notin table \ due
  BY <1>1, PrunedTakeover
<1>3. CASE UNCHANGED job
  <2>1. TypeOK'
    BY <1>1, <1>2, <1>3 DEF IInv, TypeOK, Registered
  <2>2. job'[j] = None /\ \A k \in Calls \ {j} : job'[k] = job[k]
    BY <1>1, <1>3
  <2>3. QED  BY <1>1, <1>2, <2>1, <2>2, NoJob, OneCall
<1>4. CASE ~(Live(c) /\ Listed(do)) /\ job' = [job EXCEPT ![j] = r]
  <2>1. /\ r \in Jobs /\ r.do = do /\ r.at = "held" /\ r.ctx = c /\ r.seen = Registered(c)
        /\ do \in {"input", "act"}
    BY DEF Jobs, Registered, Commands
  <2>2. job'[j] = r /\ \A k \in Calls \ {j} : job'[k] = job[k]
    BY <1>4 DEF IInv, TypeOK
  <2> HIDE DEF r
  <2>3. TypeOK'
    BY <1>1, <1>2, <1>4, <2>1 DEF IInv, TypeOK, Registered
  <2>4. None \notin Registered(c) /\ \A l \in Registered(c) : l \in Logins /\ stage[l] = "done"
    BY NoneAssumption DEF Registered
  <2>5. ~AtEnd(j, "judge")' /\ ~Closing(j)' /\ ~Claiming(j)'
    BY <2>1, <2>2 DEF Closing, Claiming, AtEnd, At
  <2>6. At(j, "input", "held")' => /\ job'[j].ctx \in Contexts /\ takeover'[job'[j].ctx] \notin job'[j].seen
                                   /\ \A l \in job'[j].seen : l \in Logins /\ stage'[l] = "done"
    BY <1>1, <1>2, <1>4, <2>1, <2>2, <2>4 DEF At, Listed
  <2>7. Busy(j)'
    BY <2>5, <2>6 DEF Busy
  <2>8. QED  BY <1>1, <1>2, <2>2, <2>3, <2>5, <2>7, OneCall
<1>5. QED  BY <1>3, <1>4 DEF Gate, Do, Job

LEMMA CommandEndsKeeps ==
    ASSUME IInv, NEW j \in Calls, CommandEnds(j)
    PROVE  IInv'
BY CallEnds DEF CommandEnds, windows, registers, history, IInv, TypeOK

\* Every step keeps the inductive invariant.
LEMMA NextIInv == IInv /\ [Next]_vars => IInv'
<1> SUFFICES ASSUME IInv, [Next]_vars PROVE IInv'
  OBVIOUS
<1>1. CASE UNCHANGED vars
  BY <1>1
     DEF vars, windows, registers, history, IInv, TypeOK, Registered, Window, Busy, OneClaim,
     Alone, LockoutHolds, Closing, Claiming, AtEnd, At
<1>2. ASSUME NEW l \in Logins, Begins(l) PROVE IInv'
  BY <1>2, BeginLooksKeeps, BeginOpensKeeps, BeginOpensContextKeeps, BeginOpensSessionKeeps,
     RegisterTakeoverKeeps DEF Begins
<1>3. ASSUME NEW j \in Calls, Proceeds(j) PROVE IInv'
  BY <1>3, EndedKeeps, CloseTakeoverKeeps, CloseTokensKeeps, ClaimChecksKeeps, CommandEndsKeeps
     DEF Proceeds
<1>4. ASSUME Next PROVE IInv'
  BY <1>2, <1>3, <1>4, TimePasses, EndStarts, ClaimTokenKeeps, GateKeeps, AccountContextKeeps
     DEF Next
<1>5. QED  BY <1>1, <1>4

\* The inductive invariant holds in every reachable state.
THEOREM Invariance == Spec => []IInv
BY InitIInv, NextIInv, PTL DEF Spec

\* Every variable keeps its type, and a takeover is of a window registered there.
THEOREM TypeCorrect == Spec => []TypeOK
<1>1. IInv => TypeOK
  BY DEF IInv
<1>2. QED  BY <1>1, Invariance, PTL

\* While a window is open and in its time, the takeover of its context is its own,
\* unless two begin_logins overlapped (register_takeover, close_login, active_takeover).
THEOREM Lockout == Spec => []LockoutHolds
BY Invariance, IInvImplies, PTL

\* An open window can be ended by its host: no end that fails, and no end of another
\* window, takes its session (report_success, end_login).
THEOREM CanComplete == Spec => []OpenWindowCompletes
BY Invariance, IInvImplies, PTL

\* A command of those the gate lists never runs under a takeover that was there when it
\* passed the gate, and a token lets in one viewer, into a window of its context; the
\* methods the gate does not list are not held back, and not part of this (gate_role,
\* take_viewer).
THEOREM GateAndTokens == Spec => []GateAndTokensHold
BY Invariance, IInvImplies, PTL
=============================================================================
