-------------------------- MODULE ConsentStoreProofs --------------------------
(***************************************************************************)
(* Theorems about ConsentStore, for any number of callers and grants, any  *)
(* budget, and any number of uses, crashes and torn writes: the counts in  *)
(* the file are never too high, and until calls overlap or a write fails   *)
(* the file implements the ledger.                                         *)
(***************************************************************************)
EXTENDS ConsentStore, FiniteSetTheorems, TLAPS

\* Whatever names a grant names one whose ID has been handed out.
Minted ==
    /\ \A g \in Grants : live[g] # None \/ allowed[g] # 0 => g \in minted
    /\ Whole => tail[1].grant \in minted
    /\ \A p \in Procs : ~Free(p) =>
          /\ job[p].line.grant \in minted /\ job[p].todo \subseteq minted
          /\ job[p].for = "revoke" => job[p].line.grant \in job[p].todo /\ job[p].line.uses = None
          /\ job[p].for # "revoke" => job[p].line.uses \in Nat

\* The uses of g that are in the file but have not been allowed yet.
Written(g) == {p \in Counting(g) : job[p].at = "newline"}

\* What g may have been charged: its uses, those just written, and those interrupted.
Charge(g) == allowed[g] + Cardinality(Written(g)) + faults

\* No line counts more uses of its grant than that, a line yet to be written one more.
Charged ==
    /\ \A g \in Grants : live[g] # None => live[g] <= Charge(g)
    /\ Whole /\ tail[1].uses # None => tail[1].uses <= Charge(tail[1].grant)
    /\ \A p \in Procs : ~Free(p) /\ job[p].for # "revoke" =>
          /\ At(p, "line") /\ job[p].for = "use" =>
                job[p].line.uses <= Charge(job[p].line.grant) + 1
          /\ ~(At(p, "line") /\ job[p].for = "use") =>
                job[p].line.uses <= Charge(job[p].line.grant)

\* The caller that is at work while the others are not.
Alone(p) == \A q \in Procs \ {p} : Free(q)

\* What the file says of a grant when callers have come one at a time.
Exact(g) ==
    /\ live[g] \in {None, allowed[g]}
    /\ allowed[g] <= MaxUses
    /\ g \in revoked => live[g] = None

\* What a caller knows of its grant when it is alone.
Sound(p) ==
    LET g == job[p].line.grant IN
    /\ Alone(p)
    /\ tail = IF job[p].at = "newline" THEN <<job[p].line>> ELSE <<>>
    /\ job[p].at = "found" => job[p].for = "use"
    /\ job[p].for = "grant" => job[p].line.uses = 0 /\ allowed[g] = 0 /\ g \notin revoked
    /\ job[p].for = "use" =>
          /\ live[g] # None /\ allowed[g] < MaxUses
          /\ job[p].at # "found" => job[p].line.uses = allowed[g] + 1

Undisturbed ==
    /\ \A g \in Grants : Exact(g)
    /\ \A p \in Procs : ~Free(p) => Sound(p)
    /\ (\A p \in Procs : Free(p)) => tail = <<>>

IInv == TypeOK /\ Minted /\ Charged /\ (~disturbed => Undisturbed)

LEMMA InitIInv == Init => IInv
<1> SUFFICES ASSUME Init PROVE IInv
  OBVIOUS
<1>1. ~Whole
  BY DEF Init, Whole
<1>2. TypeOK
  <2>1. MaxAsks \in Nat /\ MaxFaults \in Nat
    BY BoundsAssumption
  <2>2. asks \in 0..MaxAsks /\ faults \in 0..MaxFaults
    BY <2>1 DEF Init
  <2>3. live \in [Grants -> Nat \cup {None}] /\ allowed \in [Grants -> Nat]
    BY DEF Init
  <2>4. job \in [Procs -> Jobs \cup {None}]
    BY DEF Init
  <2>5. QED  BY <1>1, <2>2, <2>3, <2>4 DEF Init, TypeOK
<1>3. Minted /\ Charged
  BY <1>1 DEF Init, Minted, Charged, Free
<1>4. Undisturbed
  BY BoundsAssumption DEF Init, Undisturbed, Exact, Free
<1>5. QED  BY <1>2, <1>3, <1>4 DEF IInv

\* What one line says of a grant is the last line's word, and else the file's.
LEMMA ReplayValue ==
    ASSUME TypeOK
    PROVE  /\ Replay \in [Grants -> Nat \cup {None}]
           /\ \A g \in Grants :
                 /\ Whole /\ tail[1].grant = g => Replay[g] = tail[1].uses
                 /\ ~(Whole /\ tail[1].grant = g) => Replay[g] = live[g]
BY DEF TypeOK, Replay, Apply, Lines

LEMMA ReplayMinted ==
    ASSUME TypeOK, Minted, NEW g \in Grants, Replay[g] # None
    PROVE  g \in minted
BY ReplayValue DEF Minted

LEMMA JobTypes ==
    ASSUME TypeOK, NEW p \in Procs, ~Free(p)
    PROVE  /\ job[p] \in Jobs /\ job[p].line \in Lines
           /\ job[p].line.grant \in Grants /\ job[p].line.uses \in Nat \cup {None}
           /\ job[p].todo \subseteq Grants
BY DEF TypeOK, Free, Jobs, Lines

LEMMA RecordTypes ==
    ASSUME NEW g \in Grants, NEW n \in Nat
    PROVE  /\ Record(g, n) \in Lines /\ Record(g, n).grant = g /\ Record(g, n).uses = n
           /\ Tombstone(g) \in Lines /\ Tombstone(g).grant = g /\ Tombstone(g).uses = None
BY DEF Record, Tombstone, Lines

\* A job that is well-formed and names only grants that have been handed out.
Proper(j) ==
    /\ j \in Jobs
    /\ j.line.grant \in minted' /\ j.todo \subseteq minted'
    /\ j.for = "revoke" => j.line.grant \in j.todo /\ j.line.uses = None
    /\ j.for # "revoke" => j.line.uses \in Nat

\* A step of one caller keeps the other jobs as they are.
LEMMA JobsKept ==
    ASSUME TypeOK, Minted, NEW p \in Procs, NEW j, Busy(p, j), minted \subseteq minted',
           j = None \/ Proper(j)
    PROVE  /\ job' \in [Procs -> Jobs \cup {None}]
           /\ \A q \in Procs : job'[q] # None =>
                 /\ job'[q].line.grant \in minted' /\ job'[q].todo \subseteq minted'
                 /\ job'[q].for = "revoke" =>
                       job'[q].line.grant \in job'[q].todo /\ job'[q].line.uses = None
                 /\ job'[q].for # "revoke" => job'[q].line.uses \in Nat
BY DEF TypeOK, Minted, Busy, Free, Proper

\* A grant's ID is handed out before anything is written of it.
LEMMA TypeStep == TypeOK /\ Minted /\ [Next]_vars => TypeOK' /\ Minted'
<1> SUFFICES ASSUME TypeOK, Minted, [Next]_vars PROVE TypeOK' /\ Minted'
  OBVIOUS
<1>1. ASSUME NEW p \in Procs, NEW g \in Grants, Grant(p, g) PROVE TypeOK' /\ Minted'
  <2> DEFINE j == Job("grant", "line", Record(g, 0), {})
  <2>1. Proper(j) /\ Busy(p, j)
    BY <1>1, RecordTypes DEF Grant, Begin, Proper, Job, Jobs
  <2>2. QED  BY <1>1, <2>1, JobsKept DEF Grant, Begin, TypeOK, Minted, Whole, Free
<1>2. ASSUME NEW p \in Procs, NEW a \in Actions, Ask(p, a) PROVE TypeOK' /\ Minted'
  <2>1. CASE Active(a) = {}
    BY <1>2, <2>1, BoundsAssumption DEF Ask, TypeOK, Minted, Whole, Free
  <2>2. CASE Active(a) # {}
    <3>1. PICK g \in Newest(Active(a)) : Begin(p, Job("use", "found", Record(g, 0), {}))
      BY <1>2, <2>2 DEF Ask
    <3>2. g \in Grants /\ g \in minted
      BY <3>1, ReplayMinted DEF Newest, Active, Covering
    <3> DEFINE j == Job("use", "found", Record(g, 0), {})
    <3>3. Proper(j) /\ Busy(p, j)
      BY <1>2, <3>1, <3>2, RecordTypes DEF Ask, Begin, Proper, Job, Jobs
    <3>4. asks' \in 0..MaxAsks
      BY <1>2, BoundsAssumption DEF Ask, TypeOK
    <3>5. QED  BY <1>2, <3>1, <3>3, <3>4, JobsKept DEF Ask, Begin, TypeOK, Minted, Whole, Free
  <2>3. QED  BY <2>1, <2>2
<1>3. ASSUME NEW p \in Procs, Consume(p) PROVE TypeOK' /\ Minted'
  <2> DEFINE g == job[p].line.grant
             j == Job("use", "line", Record(g, Replay[g] + 1), {})
  <2>1. g \in Grants /\ g \in minted
    BY <1>3, JobTypes DEF Consume, At, Free, Minted
  <2>2. Busy(p, None) \/ (Proper(j) /\ Busy(p, j))
    BY <1>3, <2>1, ReplayValue, RecordTypes DEF Consume, Done, Busy, Proper, Job, Jobs
  <2>3. QED  BY <1>3, <2>2, JobsKept DEF Consume, TypeOK, Minted, Whole, Free
<1>4. ASSUME NEW p \in Procs, NEW gs \in SUBSET Grants, gs \subseteq minted, RevokeThese(p, gs)
      PROVE  TypeOK' /\ Minted'
  <2>1. PICK g \in gs : Begin(p, Job("revoke", "line", Tombstone(g), gs))
    BY <1>4 DEF RevokeThese
  <2> DEFINE j == Job("revoke", "line", Tombstone(g), gs)
  <2>2. Proper(j) /\ Busy(p, j)
    BY <1>4, <2>1, RecordTypes DEF RevokeThese, Begin, Proper, Job, Jobs
  <2>3. QED  BY <1>4, <2>1, <2>2, JobsKept DEF RevokeThese, Begin, TypeOK, Minted, Whole, Free
<1>5. ASSUME NEW p \in Procs, NEW a \in Actions, Revoke(p, a) PROVE TypeOK' /\ Minted'
  BY <1>4, <1>5, ReplayMinted DEF Revoke, Covering
<1>6. ASSUME NEW p \in Procs, NEW g \in Grants, RevokeById(p, g) PROVE TypeOK' /\ Minted'
  BY <1>4, <1>6, ReplayMinted DEF RevokeById
<1>7. ASSUME NEW p \in Procs, WriteLine(p) PROVE TypeOK' /\ Minted'
  <2> DEFINE j == Job(job[p].for, "newline", job[p].line, job[p].todo)
  <2>1. job[p] \in Jobs /\ job[p].line \in Lines /\ job[p].line.grant \in minted
    BY <1>7, JobTypes DEF WriteLine, At, Free, Minted
  <2>2. j \in Jobs /\ j.line = job[p].line /\ j.todo = job[p].todo /\ j.for = job[p].for
    BY <2>1 DEF Job, Jobs
  <2>3. Proper(j) /\ Busy(p, j)
    BY <1>7, <2>2 DEF WriteLine, At, Proper, Minted, Free
  <2>4. Whole' => tail' = <<tail'[1]>> /\ tail'[1] \in Lines /\ tail'[1].grant \in minted
    BY <1>7, <2>1 DEF WriteLine, Whole, Noise
  <2>5. QED  BY <1>7, <2>3, <2>4, JobsKept DEF WriteLine, TypeOK, Minted, Free
<1>8. ASSUME NEW p \in Procs, WriteNewline(p) PROVE TypeOK' /\ Minted'
  <2> DEFINE g == job[p].line.grant
             rest == IF job[p].for = "revoke" THEN job[p].todo \ {g} ELSE {}
  <2>1. /\ job[p] \in Jobs /\ g \in Grants /\ g \in minted
        /\ job[p].todo \subseteq Grants /\ job[p].todo \subseteq minted
    BY <1>8, JobTypes DEF WriteNewline, At, Free, Minted
  <2>2. ~Whole'
    BY <1>8 DEF WriteNewline, Whole
  <2>3. PICK j : Busy(p, j) /\ (j = None \/ Proper(j))
    <3>1. CASE rest = {}
      BY <1>8, <3>1 DEF WriteNewline, Done, Busy
    <3>2. CASE rest # {}
      <4>1. PICK h \in rest : Busy(p, Job("revoke", "line", Tombstone(h), rest))
        BY <1>8, <3>2 DEF WriteNewline
      <4>2. Proper(Job("revoke", "line", Tombstone(h), rest))
        BY <1>8, <2>1, <4>1, RecordTypes DEF WriteNewline, Proper, Job, Jobs
      <4>3. QED  BY <4>1, <4>2
    <3>3. QED  BY <3>1, <3>2
  <2>4. live' \in [Grants -> Nat \cup {None}] /\ \A h \in Grants : live'[h] # None => h \in minted
    BY <1>8, ReplayValue, ReplayMinted DEF WriteNewline
  <2>5. allowed' \in [Grants -> Nat] /\ \A h \in Grants : allowed'[h] # 0 => h \in minted
    BY <1>8, <2>1 DEF WriteNewline, TypeOK, Minted
  <2>6. revoked' \subseteq minted
    BY <1>8, <2>1 DEF WriteNewline, TypeOK
  <2>7. QED  BY <1>8, <2>2, <2>3, <2>4, <2>5, <2>6, JobsKept DEF WriteNewline, TypeOK, Minted, Free
<1>9. ASSUME NEW p \in Procs, Abandon(p) PROVE TypeOK' /\ Minted'
  BY <1>9, BoundsAssumption DEF Abandon, Done, TypeOK, Minted, Whole, Free
<1>10. ASSUME NEW p \in Procs, TornWrite(p) PROVE TypeOK' /\ Minted'
  BY <1>10, BoundsAssumption DEF TornWrite, Done, TypeOK, Minted, Whole, Free
<1>11. ASSUME NEW g \in Grants, Expire(g) PROVE TypeOK' /\ Minted'
  BY <1>11 DEF Expire, TypeOK, Minted, Whole, Free
<1>12. CASE UNCHANGED vars
  BY <1>12 DEF vars, TypeOK, Minted, Whole, Free
<1>13. QED
  BY <1>1, <1>2, <1>3, <1>5, <1>6, <1>7, <1>8, <1>9, <1>10, <1>11, <1>12 DEF Next

-----------------------------------------------------------------------------
(* The counts are never too high *)

LEMMA WrittenFinite ==
    ASSUME NEW g
    PROVE  IsFiniteSet(Written(g)) /\ Cardinality(Written(g)) \in Nat
BY ProcsAssumption, FS_Subset, FS_CardinalityType DEF Written, Counting

LEMMA Charges ==
    ASSUME TypeOK, TypeOK'
    PROVE  \A g \in Grants : Charge(g) \in Nat /\ Charge(g)' \in Nat
<1>1. \A g \in Grants : Cardinality(Written(g)) \in Nat
  BY WrittenFinite
<1>2. \A g \in Grants : Cardinality(Written(g)') \in Nat
  BY ProcsAssumption, FS_Subset, FS_CardinalityType DEF Written, Counting
<1>3. QED  BY <1>1, <1>2, BoundsAssumption DEF TypeOK, Charge

\* A caller that stops counting a use has had it allowed, or has been interrupted.
LEMMA ChargeGrows ==
    ASSUME TypeOK, TypeOK', NEW p \in Procs, \A q \in Procs \ {p} : job'[q] = job[q],
           NEW g \in Grants, allowed'[g] >= allowed[g], faults' >= faults,
           p \in Written(g) =>
               p \in Written(g)' \/ allowed'[g] + faults' >= allowed[g] + faults + 1
    PROVE  Charge(g)' >= Charge(g)
<1> DEFINE W == Written(g)
           V == Written(g)'
<1>1. IsFiniteSet(W) /\ IsFiniteSet(V) /\ IsFiniteSet(V \cup {p})
  BY ProcsAssumption, FS_Subset DEF Written, Counting
<1>2. W \subseteq V \cup {p}
  BY DEF Written, Counting
<1> HIDE DEF W, V
<1>3. /\ Cardinality(W) \in Nat /\ Cardinality(V) \in Nat
      /\ Cardinality(V \cup {p}) = IF p \in V THEN Cardinality(V) ELSE Cardinality(V) + 1
  BY <1>1, FS_AddElement, FS_CardinalityType
<1>4. /\ Cardinality(W) <= Cardinality(V) + 1
      /\ p \in V \/ p \notin W => Cardinality(W) <= Cardinality(V)
  <2>1. Cardinality(W) <= Cardinality(V \cup {p})
    BY <1>1, <1>2, FS_Subset
  <2>2. ASSUME p \in V \/ p \notin W PROVE Cardinality(W) <= Cardinality(V)
    <3>1. W \subseteq V
      BY <1>2, <2>2
    <3>2. QED  BY <1>1, <3>1, FS_Subset
  <2>3. QED  BY <1>3, <2>1, <2>2
<1>5. /\ allowed[g] \in Nat /\ allowed'[g] \in Nat /\ faults \in Nat /\ faults' \in Nat
  BY BoundsAssumption DEF TypeOK
<1>6. CASE p \in V \/ p \notin W
  <2>1. allowed[g] + Cardinality(W) + faults <= allowed'[g] + Cardinality(V) + faults'
    BY <1>3, <1>4, <1>5, <1>6
  <2>2. QED  BY <2>1 DEF Charge, W, V
<1>7. CASE p \in W /\ p \notin V
  <2>1. allowed'[g] + faults' >= allowed[g] + faults + 1
    BY <1>7 DEF W, V
  <2>2. allowed[g] + Cardinality(W) + faults <= allowed'[g] + Cardinality(V) + faults'
    BY <1>3, <1>4, <1>5, <2>1
  <2>3. QED  BY <2>2 DEF Charge, W, V
<1>8. QED  BY <1>6, <1>7

\* A caller that has just written its use counts one more.
LEMMA ChargeOfWritten ==
    ASSUME TypeOK, NEW p \in Procs, NEW g \in Grants, \A q \in Procs \ {p} : job'[q] = job[q],
           UNCHANGED <<allowed, faults>>, p \notin Written(g), p \in Written(g)'
    PROVE  Charge(g)' = Charge(g) + 1
<1>1. Written(g)' = Written(g) \cup {p}
  BY DEF Written, Counting
<1>2. Cardinality(Written(g)') = Cardinality(Written(g)) + 1
  BY <1>1, WrittenFinite, FS_AddElement
<1>3. Charge(g)' = allowed[g] + (Cardinality(Written(g)) + 1) + faults
  BY <1>2 DEF Charge
<1>4. allowed[g] \in Nat /\ faults \in Nat /\ Cardinality(Written(g)) \in Nat
  BY WrittenFinite, BoundsAssumption DEF TypeOK
<1>5. QED  BY <1>3, <1>4 DEF Charge

\* What a line may say after a step, and what a job may.
LineCharged(line) == line.uses # None => line.uses <= Charge(line.grant)
JobCharged(j) ==
    j # None /\ j.for # "revoke" =>
        /\ j.at = "line" /\ j.for = "use" => j.line.uses <= Charge(j.line.grant) + 1
        /\ ~(j.at = "line" /\ j.for = "use") => j.line.uses <= Charge(j.line.grant)

\* A step of one caller that lowers no charge leaves the others within theirs.
LEMMA ChargedKept ==
    ASSUME TypeOK, Minted, TypeOK', Minted', Charged, NEW p \in Procs,
           \A q \in Procs \ {p} : job'[q] = job[q],
           \A g \in Grants : Charge(g)' >= Charge(g),
           \A g \in Grants : live'[g] # live[g] /\ live'[g] # None => live'[g] <= Charge(g)',
           tail' = tail \/ (Whole' => LineCharged(tail[1])'),
           JobCharged(job[p])'
    PROVE  Charged'
<1>1. \A g \in Grants : Charge(g) \in Nat /\ Charge(g)' \in Nat
  BY Charges
<1>2. \A g \in Grants : live'[g] # None => live'[g] <= Charge(g)'
  BY <1>1 DEF TypeOK, Charged
<1>3. Whole' /\ tail'[1].uses # None => tail'[1].uses <= Charge(tail[1].grant)'
  BY <1>1 DEF TypeOK, Charged, Whole, LineCharged, Lines
<1>4. ASSUME NEW q \in Procs, ~Free(q)', job'[q].for # "revoke" PROVE JobCharged(job[q])'
  <2>1. CASE q = p
    BY <2>1
  <2>2. CASE q # p
    <3>1. job'[q] = job[q] /\ ~Free(q)
      BY <1>4, <2>2 DEF Free
    <3>2. job[q].line.grant \in Grants /\ job[q].line.uses \in Nat
      BY <3>1, <1>4, JobTypes DEF Minted
    <3>3. JobCharged(job[q])
      BY <1>4, <3>1 DEF Charged, JobCharged, At, Free
    <3>4. QED  BY <1>1, <3>1, <3>2, <3>3 DEF JobCharged
  <2>3. QED  BY <2>1, <2>2
<1>5. QED  BY <1>2, <1>3, <1>4 DEF Charged, JobCharged, At, Free

\* A step that writes nothing.
LEMMA QuietStep ==
    ASSUME TypeOK, Minted, TypeOK', Minted', Charged, NEW p \in Procs,
           \A q \in Procs \ {p} : job'[q] = job[q], UNCHANGED <<live, allowed>>,
           tail' = tail \/ ~Whole', faults' >= faults,
           \A g \in Grants : p \in Written(g) => faults' >= faults + 1,
           JobCharged(job[p])'
    PROVE  Charged'
<1>1. ASSUME NEW g \in Grants PROVE Charge(g)' >= Charge(g)
  <2>1. allowed[g] \in Nat /\ faults \in Nat /\ faults' \in Nat
    BY BoundsAssumption DEF TypeOK
  <2>2. allowed'[g] >= allowed[g]
    BY <2>1
  <2>3. p \in Written(g) => allowed'[g] + faults' >= allowed[g] + faults + 1
    BY <2>1
  <2>4. QED  BY <2>2, <2>3, ChargeGrows
<1>2. QED  BY <1>1, ChargedKept

LEMMA FreeWritesNothing ==
    ASSUME NEW p, NEW g, Free(p) \/ ~At(p, "newline")
    PROVE  p \notin Written(g)
BY DEF Free, At, Written, Counting

\* A count in the file is one that was allowed, is just being written, or was interrupted.
LEMMA ChargedStep ==
    TypeOK /\ Minted /\ TypeOK' /\ Minted' /\ Charged /\ [Next]_vars => Charged'
<1> SUFFICES ASSUME TypeOK, Minted, TypeOK', Minted', Charged, [Next]_vars PROVE Charged'
  OBVIOUS
<1>1. faults \in Nat /\ faults' \in Nat
  BY BoundsAssumption DEF TypeOK
<1>2. ASSUME NEW p \in Procs, NEW j, Free(p), Begin(p, j), JobCharged(job[p])',
             UNCHANGED <<live, tail, faults, allowed>>
      PROVE  Charged'
  <2>1. \A q \in Procs \ {p} : job'[q] = job[q]
    BY <1>2 DEF Begin, Busy, TypeOK
  <2>2. \A g \in Grants : p \notin Written(g)
    BY <1>2, FreeWritesNothing
  <2>3. QED  BY <1>1, <1>2, <2>1, <2>2, QuietStep
<1>3. ASSUME NEW p \in Procs, NEW g \in Grants, Grant(p, g) PROVE Charged'
  <2>1. job'[p] = Job("grant", "line", Record(g, 0), {})
    BY <1>3 DEF Grant, Begin, Busy, TypeOK
  <2>2. JobCharged(job[p])'
    BY <2>1, Charges, RecordTypes DEF JobCharged, Job
  <2>3. QED  BY <1>2, <1>3, <2>2 DEF Grant
<1>4. ASSUME NEW p \in Procs, NEW a \in Actions, Ask(p, a) PROVE Charged'
  <2>1. CASE Active(a) = {}
    BY <1>4, <2>1 DEF Ask, Charged, Charge, Written, Counting, Free, At, Whole
  <2>2. CASE Active(a) # {}
    <3>1. PICK g \in Newest(Active(a)) : Begin(p, Job("use", "found", Record(g, 0), {}))
      BY <1>4, <2>2 DEF Ask
    <3>2. g \in Grants /\ job'[p] = Job("use", "found", Record(g, 0), {})
      BY <3>1 DEF Newest, Active, Covering, Begin, Busy, TypeOK
    <3>3. JobCharged(job[p])'
      BY <3>2, Charges, RecordTypes DEF JobCharged, Job
    <3>4. QED  BY <1>2, <1>4, <3>1, <3>3 DEF Ask
  <2>3. QED  BY <2>1, <2>2
<1>5. ASSUME NEW p \in Procs, Consume(p) PROVE Charged'
  <2>1. PICK g \in Grants : g = job[p].line.grant
    BY <1>5, JobTypes DEF Consume, At, Free
  <2>2. \A q \in Procs \ {p} : job'[q] = job[q]
    BY <1>5 DEF Consume, Done, Busy, TypeOK
  <2>3. \A h \in Grants : p \notin Written(h)
    BY <1>5, FreeWritesNothing DEF Consume, At
  <2>4. Replay[g] # None => Replay[g] <= Charge(g)
    BY ReplayValue DEF Charged
  <2>5. UNCHANGED <<allowed, faults>> /\ \A h \in Grants : Charge(h)' >= Charge(h)
    BY <1>5, <2>2, <2>3, ChargeGrows DEF Consume, TypeOK
  <2>6. JobCharged(job[p])'
    <3>1. CASE Replay[g] = None
      BY <1>5, <2>1, <3>1 DEF Consume, Done, TypeOK, JobCharged
    <3>2. CASE Replay[g] # None
      <4>1. job'[p] = Job("use", "line", Record(g, Replay[g] + 1), {})
        BY <1>5, <2>1, <3>2 DEF Consume, Busy, TypeOK
      <4>2. Replay[g] \in Nat /\ Replay[g] + 1 \in Nat
        BY <3>2, ReplayValue
      <4>3. Replay[g] + 1 <= Charge(g)' + 1
        <5>1. Charge(g) \in Nat /\ Charge(g)' \in Nat /\ Charge(g)' >= Charge(g)
          BY <2>5, Charges
        <5>2. QED  BY <2>4, <3>2, <4>2, <5>1
      <4>4. QED  BY <4>1, <4>2, <4>3, RecordTypes DEF JobCharged, Job
    <3>3. QED  BY <3>1, <3>2
  <2>7. QED  BY <1>1, <1>5, <2>2, <2>3, <2>6, QuietStep DEF Consume
<1>6. ASSUME NEW p \in Procs, NEW gs \in SUBSET Grants, RevokeThese(p, gs) PROVE Charged'
  <2>1. PICK g \in gs : Begin(p, Job("revoke", "line", Tombstone(g), gs))
    BY <1>6 DEF RevokeThese
  <2>2. JobCharged(job[p])'
    BY <2>1 DEF Begin, Busy, TypeOK, JobCharged, Job
  <2>3. QED  BY <1>2, <1>6, <2>1, <2>2 DEF RevokeThese
<1>7. ASSUME NEW p \in Procs, NEW a \in Actions, Revoke(p, a) PROVE Charged'
  BY <1>6, <1>7 DEF Revoke, Covering
<1>8. ASSUME NEW p \in Procs, NEW g \in Grants, RevokeById(p, g) PROVE Charged'
  BY <1>6, <1>8 DEF RevokeById
<1>9. ASSUME NEW p \in Procs, WriteLine(p) PROVE Charged'
  <2>1. ~Free(p) /\ job[p].line \in Lines /\ \A q \in Procs \ {p} : job'[q] = job[q]
    BY <1>9, JobTypes DEF WriteLine, At, Free, Busy, TypeOK
  <2>2. PICK line \in Lines : line = job[p].line
    BY <2>1
  <2>3. PICK g \in Grants : g = line.grant
    BY DEF Lines
  <2>4. /\ job'[p] # None /\ job'[p].for = job[p].for
        /\ job'[p].at = "newline" /\ job'[p].line = line
    <3>1. Job(job[p].for, "newline", line, job[p].todo) \in Jobs
      BY <2>1, <2>2, JobTypes DEF Job, Jobs
    <3>2. job'[p] = Job(job[p].for, "newline", line, job[p].todo)
      BY <1>9, <2>2 DEF WriteLine, Busy, TypeOK
    <3>3. QED  BY <3>1, <3>2, NoneAssumption DEF Job
  <2>5. \A h \in Grants : p \notin Written(h)
    BY <1>9, FreeWritesNothing DEF WriteLine, At
  <2>6. UNCHANGED <<live, allowed, faults>> /\ \A h \in Grants : Charge(h)' >= Charge(h)
    BY <1>9, <2>1, <2>5, ChargeGrows DEF WriteLine, TypeOK
  <2>7. job[p].for # "revoke" => line.uses \in Nat /\ line.uses <= Charge(g)'
    <3>1. Charge(g) \in Nat /\ Charge(g)' \in Nat /\ Charge(g)' >= Charge(g)
      BY <2>6, Charges
    <3>2. CASE job[p].for = "use"
      <4>1. p \in Written(g)'
        BY <2>3, <2>4, <3>2 DEF Written, Counting
      <4>2. Charge(g)' = Charge(g) + 1
        BY <2>1, <2>5, <2>6, <4>1, ChargeOfWritten
      <4>3. line.uses \in Nat /\ line.uses <= Charge(g) + 1
        BY <1>9, <2>1, <2>2, <2>3, <3>2 DEF WriteLine, Charged, Minted
      <4>4. QED  BY <3>1, <4>2, <4>3
    <3>3. CASE job[p].for # "use" /\ job[p].for # "revoke"
      <4>1. line.uses \in Nat /\ line.uses <= Charge(g)
        BY <2>1, <2>2, <2>3, <3>3 DEF Charged, Minted
      <4>2. QED  BY <3>1, <4>1
    <3>4. QED  BY <3>2, <3>3
  <2>8. line.uses # None => line.uses <= Charge(g)'
    BY <2>1, <2>2, <2>7 DEF Minted
  <2>9. Whole' => LineCharged(tail[1])'
    <3>1. Whole' => tail'[1] = line
      BY <1>9, <2>2 DEF WriteLine, Whole
    <3>2. QED  BY <2>3, <2>8, <3>1 DEF LineCharged
  <2>10. JobCharged(job[p])'
    BY <2>3, <2>4, <2>7 DEF JobCharged
  <2>11. QED  BY <2>1, <2>6, <2>9, <2>10, ChargedKept
<1>10. ASSUME NEW p \in Procs, WriteNewline(p) PROVE Charged'
  <2>1. ~Free(p) /\ job[p].line.grant \in Grants /\ \A q \in Procs \ {p} : job'[q] = job[q]
    BY <1>10, JobTypes DEF WriteNewline, At, Free, Done, Busy, TypeOK
  <2>2. ASSUME NEW g \in Grants PROVE Charge(g)' >= Charge(g)
    <3>1. allowed[g] \in Nat /\ allowed'[g] \in Nat /\ faults' = faults
      BY <1>10 DEF WriteNewline, TypeOK
    <3>2. allowed'[g] >= allowed[g]
      BY <1>10, <3>1 DEF WriteNewline, TypeOK
    <3>3. p \in Written(g) => allowed'[g] = allowed[g] + 1
      BY <1>10 DEF WriteNewline, TypeOK, Written, Counting
    <3>4. p \in Written(g) => allowed'[g] + faults' >= allowed[g] + faults + 1
      BY <1>1, <3>1, <3>3
    <3>5. QED  BY <1>1, <2>1, <3>1, <3>2, <3>4, ChargeGrows
  <2>3. ASSUME NEW g \in Grants, live'[g] # None PROVE live'[g] <= Charge(g)'
    <3>1. live'[g] = Replay[g] /\ Replay[g] \in Nat
      BY <1>10, <2>3, ReplayValue DEF WriteNewline
    <3>2. Replay[g] <= Charge(g)
      BY <2>3, <3>1, ReplayValue DEF Charged
    <3>3. QED  BY <2>2, <3>1, <3>2, Charges
  <2>4. JobCharged(job[p])'
    BY <1>10, <2>1 DEF WriteNewline, Done, Busy, TypeOK, JobCharged, Job
  <2>5. ~Whole'
    BY <1>10 DEF WriteNewline, Whole
  <2>6. QED  BY <2>1, <2>2, <2>3, <2>4, <2>5, ChargedKept
<1>11. ASSUME NEW p \in Procs, Abandon(p) \/ TornWrite(p) PROVE Charged'
  <2>1. job'[p] = None /\ \A q \in Procs \ {p} : job'[q] = job[q]
    BY <1>11 DEF Abandon, TornWrite, Done, TypeOK
  <2>2. tail' = tail \/ ~Whole'
    BY <1>11 DEF Abandon, TornWrite, Whole
  <2>3. faults' = faults + 1 /\ UNCHANGED <<live, allowed>>
    BY <1>11 DEF Abandon, TornWrite
  <2>4. QED  BY <1>1, <2>1, <2>2, <2>3, QuietStep DEF JobCharged
<1>12. ASSUME NEW g \in Grants, Expire(g) PROVE Charged'
  BY <1>12 DEF Expire, Charged, Charge, Written, Counting, Free, At, Whole
<1>13. CASE UNCHANGED vars
  BY <1>13 DEF vars, Charged, Charge, Written, Counting, Free, At, Whole
<1>14. QED
  BY <1>3, <1>4, <1>5, <1>7, <1>8, <1>9, <1>10, <1>11, <1>12, <1>13 DEF Next

-----------------------------------------------------------------------------
(* The counts are exact until calls overlap or a write fails *)

\* A call that begins undisturbed finds a file of whole lines and nobody at work.
LEMMA BeginAlone ==
    ASSUME IInv, NEW p \in Procs, NEW j, Begin(p, j), ~disturbed'
    PROVE  /\ ~disturbed /\ Undisturbed /\ \A q \in Procs : Free(q)
           /\ tail = <<>> /\ Replay = live
           /\ job'[p] = j /\ \A q \in Procs \ {p} : job'[q] = None
BY DEF Begin, Busy, IInv, TypeOK, Undisturbed, Free, Replay, Whole

\* So does one that is under way, but for its own line.
LEMMA WorkAlone ==
    ASSUME IInv, NEW p \in Procs, ~Free(p), ~disturbed
    PROVE  Undisturbed /\ Sound(p) /\ \A q \in Procs \ {p} : job[q] = None
BY DEF IInv, Undisturbed, Sound, Alone, Free

\* Only the caller at work and the grants themselves need looking at.
LEMMA StillAlone ==
    ASSUME NEW p \in Procs, \A q \in Procs \ {p} : job'[q] = None,
           \A g \in Grants : Exact(g)',
           job'[p] # None => Sound(p)', job'[p] = None => tail' = <<>>
    PROVE  Undisturbed'
BY DEF Undisturbed, Free

LEMMA UndisturbedStep == IInv /\ TypeOK' /\ [Next]_vars /\ ~disturbed' => Undisturbed'
<1> SUFFICES ASSUME IInv, TypeOK', [Next]_vars, ~disturbed' PROVE Undisturbed'
  OBVIOUS
<1>1. ASSUME NEW p \in Procs, NEW g \in Grants, Grant(p, g) PROVE Undisturbed'
  <2> DEFINE j == Job("grant", "line", Record(g, 0), {})
  <2>1. Begin(p, j) /\ UNCHANGED <<live, tail, allowed, revoked>> /\ g \notin minted
    BY <1>1 DEF Grant
  <2>2. job'[p] = j /\ (\A q \in Procs \ {p} : job'[q] = None) /\ tail = <<>> /\ Undisturbed
    BY <2>1, BeginAlone
  <2>3. allowed[g] = 0 /\ g \notin revoked
    BY <2>1 DEF IInv, Minted, TypeOK
  <2>4. \A h \in Grants : Exact(h)'
    BY <2>1, <2>2 DEF Undisturbed, Exact
  <2>5. Sound(p)'
    BY <2>1, <2>2, <2>3, RecordTypes DEF Sound, Alone, Free, Job
  <2>6. j # None
    BY NoneAssumption, RecordTypes DEF Job, Jobs
  <2>7. QED  BY <2>2, <2>4, <2>5, <2>6, StillAlone
<1>2. ASSUME NEW p \in Procs, NEW a \in Actions, Ask(p, a) PROVE Undisturbed'
  <2>1. CASE Active(a) = {}
    BY <1>2, <2>1 DEF Ask, IInv, Undisturbed, Exact, Sound, Alone, Free
  <2>2. CASE Active(a) # {}
    <3>1. PICK g \in Newest(Active(a)) : Begin(p, Job("use", "found", Record(g, 0), {}))
      BY <1>2, <2>2 DEF Ask
    <3> DEFINE j == Job("use", "found", Record(g, 0), {})
    <3>2. /\ job'[p] = j /\ \A q \in Procs \ {p} : job'[q] = None
          /\ tail = <<>> /\ Replay = live /\ Undisturbed
      BY <3>1, BeginAlone
    <3>3. UNCHANGED <<live, tail, allowed, revoked>>
      BY <1>2 DEF Ask
    <3>4. g \in Grants /\ live[g] # None /\ allowed[g] < MaxUses
      BY <3>1, <3>2 DEF Newest, Active, Covering, Undisturbed, Exact
    <3>5. \A h \in Grants : Exact(h)'
      BY <3>2, <3>3 DEF Undisturbed, Exact
    <3>6. Sound(p)'
      BY <3>2, <3>3, <3>4, RecordTypes DEF Sound, Alone, Free, Job
    <3>7. j # None
      BY <3>4, NoneAssumption, RecordTypes DEF Job, Jobs
    <3>8. QED  BY <3>2, <3>5, <3>6, <3>7, StillAlone
  <2>3. QED  BY <2>1, <2>2
<1>3. ASSUME NEW p \in Procs, Consume(p) PROVE Undisturbed'
  <2>1. UNCHANGED <<live, tail, allowed, revoked, disturbed>> /\ ~Free(p) /\ job[p].at = "found"
    BY <1>3 DEF Consume, At, Free
  <2>2. PICK g \in Grants : g = job[p].line.grant
    BY <2>1, JobTypes DEF IInv
  <2>3. Undisturbed /\ Sound(p) /\ \A q \in Procs \ {p} : job[q] = None
    BY <2>1, WorkAlone
  <2>4. tail = <<>> /\ Replay = live /\ \A q \in Procs \ {p} : job'[q] = None
    BY <1>3, <2>1, <2>3 DEF Sound, Replay, Whole, Consume, Done, Busy, IInv, TypeOK
  <2>5. \A h \in Grants : Exact(h)'
    BY <2>1, <2>3 DEF Undisturbed, Exact
  <2>6. CASE Replay[g] = None
    <3>1. job'[p] = None
      BY <1>3, <2>2, <2>6 DEF Consume, Done, IInv, TypeOK
    <3>2. QED  BY <2>1, <2>4, <2>5, <3>1, StillAlone
  <2>7. CASE Replay[g] # None
    <3> DEFINE j == Job("use", "line", Record(g, Replay[g] + 1), {})
    <3>1. job'[p] = j
      BY <1>3, <2>2, <2>7 DEF Consume, Busy, IInv, TypeOK
    <3>2. /\ live[g] # None /\ live[g] = allowed[g] /\ live[g] \in Nat
          /\ Replay[g] + 1 = allowed[g] + 1
      BY <2>3, <2>4, <2>7 DEF Undisturbed, Exact, IInv, TypeOK
    <3>3. allowed[g] < MaxUses
      BY <2>1, <2>2, <2>3 DEF Sound
    <3>4. Sound(p)'
      BY <2>1, <2>4, <3>1, <3>2, <3>3, RecordTypes DEF Sound, Alone, Free, Job
    <3>5. QED  BY <2>1, <2>4, <2>5, <3>4, StillAlone
  <2>8. QED  BY <2>6, <2>7
<1>4. ASSUME NEW p \in Procs, NEW gs \in SUBSET Grants, RevokeThese(p, gs) PROVE Undisturbed'
  <2>1. PICK g \in gs : Begin(p, Job("revoke", "line", Tombstone(g), gs))
    BY <1>4 DEF RevokeThese
  <2>2. UNCHANGED <<live, tail, allowed, revoked>>
    BY <1>4 DEF RevokeThese
  <2>3. /\ job'[p] = Job("revoke", "line", Tombstone(g), gs)
        /\ \A q \in Procs \ {p} : job'[q] = None
        /\ tail = <<>> /\ Undisturbed
    BY <2>1, BeginAlone
  <2>4. \A h \in Grants : Exact(h)'
    BY <2>2, <2>3 DEF Undisturbed, Exact
  <2>5. Sound(p)'
    BY <2>2, <2>3 DEF Sound, Alone, Free, Job
  <2>6. QED  BY <2>2, <2>3, <2>4, <2>5, StillAlone
<1>5. ASSUME NEW p \in Procs, NEW a \in Actions, Revoke(p, a) PROVE Undisturbed'
  BY <1>4, <1>5 DEF Revoke, Covering
<1>6. ASSUME NEW p \in Procs, NEW g \in Grants, RevokeById(p, g) PROVE Undisturbed'
  BY <1>4, <1>6 DEF RevokeById
<1>7. ASSUME NEW p \in Procs, WriteLine(p) PROVE Undisturbed'
  <2>1. UNCHANGED <<live, allowed, revoked, disturbed>> /\ ~Free(p) /\ job[p].at = "line"
    BY <1>7 DEF WriteLine, At, Free
  <2>2. Undisturbed /\ Sound(p) /\ \A q \in Procs \ {p} : job[q] = None
    BY <2>1, WorkAlone
  <2>3. tail' = <<job[p].line>>
    BY <1>7, <2>1, <2>2 DEF Sound, WriteLine
  <2>4. /\ job'[p] = Job(job[p].for, "newline", job[p].line, job[p].todo)
        /\ \A q \in Procs \ {p} : job'[q] = None
    BY <1>7, <2>2 DEF WriteLine, Busy, IInv, TypeOK
  <2>5. \A h \in Grants : Exact(h)'
    BY <2>1, <2>2 DEF Undisturbed, Exact
  <2>6. Sound(p)'
    BY <2>1, <2>2, <2>3, <2>4 DEF Sound, Alone, Free, Job
  <2>7. job'[p] # None
    BY <2>1, <2>4, NoneAssumption, JobTypes DEF IInv, Job, Jobs
  <2>8. QED  BY <2>4, <2>5, <2>6, <2>7, StillAlone
<1>8. ASSUME NEW p \in Procs, WriteNewline(p) PROVE Undisturbed'
  <2>1. disturbed' = disturbed /\ ~Free(p) /\ job[p].at = "newline" /\ tail' = <<>>
    BY <1>8 DEF WriteNewline, At, Free
  <2>2. Undisturbed /\ Sound(p) /\ \A q \in Procs \ {p} : job[q] = None
    BY <2>1, WorkAlone
  <2>3. PICK line \in Lines, g \in Grants : line = job[p].line /\ g = line.grant
    BY <2>1, JobTypes DEF IInv
  <2>4. Whole /\ tail[1] = line
    BY <2>1, <2>2, <2>3, NoneAssumption DEF Sound, Whole, Noise
  <2>5. live'[g] = line.uses /\ \A h \in Grants \ {g} : live'[h] = live[h]
    BY <1>8, <2>3, <2>4, ReplayValue DEF WriteNewline, IInv
  <2>6. \A q \in Procs \ {p} : job'[q] = None
    BY <1>8, <2>2 DEF WriteNewline, Done, Busy, IInv, TypeOK
  <2>7. /\ \A h \in Grants \ {g} : allowed'[h] = allowed[h]
        /\ allowed'[g] = IF job[p].for = "use" THEN allowed[g] + 1 ELSE allowed[g]
        /\ revoked' = IF job[p].for = "revoke" THEN revoked \cup {g} ELSE revoked
    BY <1>8, <2>3 DEF WriteNewline, IInv, TypeOK
  <2>8. Exact(g)'
    <3>1. allowed[g] \in Nat /\ MaxUses \in Nat /\ Exact(g)
      BY <2>2, BoundsAssumption DEF IInv, TypeOK, Undisturbed
    <3>2. CASE job[p].for = "use"
      BY <2>1, <2>2, <2>3, <2>5, <2>7, <3>1, <3>2 DEF Sound, Exact
    <3>3. CASE job[p].for = "grant"
      BY <2>2, <2>3, <2>5, <2>7, <3>1, <3>3 DEF Sound, Exact
    <3>4. CASE job[p].for = "revoke"
      BY <2>1, <2>3, <2>5, <2>7, <3>1, <3>4 DEF Exact, IInv, Minted
    <3>5. QED  BY <2>1, <3>2, <3>3, <3>4, JobTypes DEF IInv, Jobs
  <2>9. \A h \in Grants \ {g} : Exact(h)'
    BY <2>2, <2>5, <2>7 DEF Undisturbed, Exact
  <2>10. job'[p] # None => Sound(p)'
    BY <1>8, <2>1, <2>6 DEF WriteNewline, Done, Busy, IInv, TypeOK, Sound, Alone, Free, Job
  <2>11. QED  BY <2>1, <2>6, <2>8, <2>9, <2>10, StillAlone
<1>9. ASSUME NEW g \in Grants, Expire(g) PROVE Undisturbed'
  BY <1>9 DEF Expire, IInv, Undisturbed, Exact, Sound, Alone, Free
<1>10. CASE UNCHANGED vars
  BY <1>10 DEF vars, IInv, Undisturbed, Exact, Sound, Alone, Free
<1>11. ASSUME NEW p \in Procs, Abandon(p) \/ TornWrite(p) PROVE FALSE
  BY <1>11 DEF Abandon, TornWrite
<1>12. QED
  BY <1>1, <1>2, <1>3, <1>5, <1>6, <1>7, <1>8, <1>9, <1>10, <1>11 DEF Next

-----------------------------------------------------------------------------
LEMMA Invariance == Spec => []IInv
<1>1. IInv /\ [Next]_vars => IInv'
  BY TypeStep, ChargedStep, UndisturbedStep DEF IInv
<1>2. QED  BY InitIInv, <1>1, PTL DEF Spec

\* Every record, tombstone and count in the file is well-formed, and names a consent
\* whose ID was handed out, however appends are torn and interleaved.
THEOREM TypeCorrect == Spec => []TypeOK
<1>1. IInv => TypeOK
  BY DEF IInv
<1>2. QED  BY <1>1, Invariance, PTL

\* No grant is ever charged beyond its uses, those being written and those that were
\* interrupted, and until calls overlap or a write fails the counts are exact.
THEOREM CountsTrue == Spec => []CountsAreTrue
<1>1. IInv => NeverOvercharged
  <2> SUFFICES ASSUME IInv, NEW g \in Grants, Replay[g] # None
               PROVE  Replay[g] <= allowed[g] + Cardinality(Counting(g)) + faults
    BY DEF NeverOvercharged
  <2>1. Replay[g] \in Nat /\ Replay[g] <= Charge(g)
    BY ReplayValue DEF IInv, Charged
  <2>2. Written(g) \in SUBSET Counting(g) /\ IsFiniteSet(Counting(g))
    BY ProcsAssumption, FS_Subset DEF Written, Counting
  <2>3. /\ Cardinality(Written(g)) \in Nat /\ Cardinality(Counting(g)) \in Nat
        /\ Cardinality(Written(g)) <= Cardinality(Counting(g))
    BY <2>2, FS_Subset, FS_CardinalityType
  <2>4. allowed[g] \in Nat /\ faults \in Nat
    BY BoundsAssumption DEF IInv, TypeOK
  <2>5. QED  BY <2>1, <2>3, <2>4 DEF Charge
<1>2. ASSUME IInv, ~disturbed PROVE UseBudget /\ RevokedIsNotActive /\ UsesAreCounted
  <2>1. Undisturbed /\ TypeOK /\ Minted
    BY <1>2 DEF IInv
  <2>2. UseBudget
    BY <2>1 DEF UseBudget, Undisturbed, Exact
  <2>3. ASSUME NEW g \in Grants, Replay[g] # live[g]
        PROVE  \E p \in Procs : /\ ~Free(p) /\ Sound(p) /\ job[p].line.grant = g
                                /\ job[p].at = "newline" /\ Replay[g] = job[p].line.uses
    <3>1. Whole /\ tail[1].grant = g /\ Replay[g] = tail[1].uses
      BY <2>1, <2>3, ReplayValue
    <3>2. PICK p \in Procs : ~Free(p) /\ Sound(p)
      BY <2>1, <3>1 DEF Undisturbed, Whole
    <3>3. tail = <<job[p].line>> /\ job[p].at = "newline"
      BY <3>1, <3>2 DEF Sound, Whole
    <3>4. QED  BY <3>1, <3>2, <3>3
  <2>4. ASSUME NEW g \in Grants, g \in revoked PROVE Replay[g] = None
    <3>1. live[g] = None
      BY <2>1, <2>4 DEF Undisturbed, Exact
    <3>2. SUFFICES ASSUME Replay[g] # None PROVE FALSE
      OBVIOUS
    <3>3. PICK p \in Procs : /\ ~Free(p) /\ Sound(p) /\ job[p].line.grant = g
                             /\ Replay[g] = job[p].line.uses
      BY <2>3, <3>1, <3>2
    <3>4. job[p].for \in {"grant", "use", "revoke"}
      BY <2>1, <3>3, JobTypes DEF Jobs
    <3>5. QED  BY <2>1, <2>4, <3>1, <3>2, <3>3, <3>4 DEF Sound, Minted
  <2>5. RevokedIsNotActive
    BY <2>4 DEF RevokedIsNotActive, Active, Covering
  <2>6. ASSUME NEW g \in Grants, Replay[g] # None, Counting(g) = {} PROVE Replay[g] = allowed[g]
    <3>1. CASE Replay[g] = live[g]
      BY <2>1, <2>6, <3>1 DEF Undisturbed, Exact
    <3>2. CASE Replay[g] # live[g]
      <4>1. PICK p \in Procs : /\ ~Free(p) /\ Sound(p) /\ job[p].line.grant = g
                               /\ Replay[g] = job[p].line.uses
        BY <2>3, <3>2
      <4>2. job[p].for \in {"grant", "use", "revoke"}
        BY <2>1, <4>1, JobTypes DEF Jobs
      <4>3. QED  BY <2>1, <2>6, <4>1, <4>2 DEF Sound, Minted, Counting, Free
    <3>3. QED  BY <3>1, <3>2
  <2>7. QED  BY <2>2, <2>5, <2>6 DEF UsesAreCounted
<1>3. IInv => CountsAreTrue
  BY <1>1, <1>2 DEF CountsAreTrue, ExactWhileUndisturbed
<1>4. QED  BY <1>3, Invariance, PTL

-----------------------------------------------------------------------------
(* The file implements the ledger: the newline of a use is Use, that of a  *)
(* tombstone is Revoke, and what overlaps or fails is Disturb.             *)

LEMMA InitRefines == Init => Ledger!Init
BY DEF Init, Ledger!Init

LEMMA NextRefines == IInv /\ TypeOK' /\ [Next]_vars => [Ledger!Next]_(Ledger!vars)
<1> SUFFICES ASSUME IInv, TypeOK', [Next]_vars PROVE [Ledger!Next]_(Ledger!vars)
  OBVIOUS
<1>1. CASE disturbed'
  BY <1>1 DEF Ledger!Next, Ledger!Disturb
<1>2. CASE ~disturbed' /\ UNCHANGED <<allowed, revoked>>
  <2>1. ~disturbed
    BY <1>2 DEF IInv, TypeOK, Next, vars, Grant, RevokeById, Ask, Revoke, RevokeThese, Consume,
                WriteLine, WriteNewline, Abandon, TornWrite, Expire, Begin
  <2>2. QED  BY <1>2, <2>1 DEF Ledger!vars
<1>3. ASSUME NEW p \in Procs, WriteNewline(p), ~disturbed' PROVE [Ledger!Next]_(Ledger!vars)
  <2>1. ~disturbed /\ disturbed' = disturbed /\ ~Free(p) /\ job[p].at = "newline"
    BY <1>3 DEF WriteNewline, At, Free
  <2>2. PICK g \in Grants : g = job[p].line.grant
    BY <2>1, JobTypes DEF IInv
  <2>3. Sound(p) /\ Exact(g)
    BY <2>1, WorkAlone DEF Undisturbed
  <2>4. CASE job[p].for = "use"
    <3>1. g \notin revoked /\ allowed[g] < MaxUses
      BY <2>2, <2>3, <2>4 DEF Sound, Exact
    <3>2. allowed' = [allowed EXCEPT ![g] = @ + 1] /\ revoked' = revoked
      BY <1>3, <2>2, <2>4 DEF WriteNewline
    <3>3. Ledger!Use(g)
      BY <3>1, <3>2 DEF Ledger!Use
    <3>4. QED  BY <2>1, <3>3 DEF Ledger!Next
  <2>5. CASE job[p].for = "revoke"
    <3>1. allowed' = allowed /\ revoked' = revoked \cup {g}
      BY <1>3, <2>2, <2>5 DEF WriteNewline
    <3>2. Ledger!Revoke({g})
      BY <3>1 DEF Ledger!Revoke
    <3>3. QED  BY <2>1, <3>2 DEF Ledger!Next
  <2>6. CASE job[p].for \notin {"use", "revoke"}
    BY <1>2, <1>3, <2>6 DEF WriteNewline
  <2>7. QED  BY <2>4, <2>5, <2>6
<1>4. UNCHANGED <<allowed, revoked>> \/ \E p \in Procs : WriteNewline(p)
  BY DEF Next, vars, Grant, RevokeById, Ask, Revoke, RevokeThese, Consume,
         WriteLine, Abandon, TornWrite, Expire
<1>5. QED  BY <1>1, <1>2, <1>3, <1>4

\* Until calls overlap or a write fails, no grant authorizes more uses than its budget
\* and none after its revocation was acknowledged.
THEOREM Refinement == Spec => ImplementsLedger
<1>1. IInv => TypeOK
  BY DEF IInv
<1>2. QED
  BY <1>1, InitRefines, NextRefines, Invariance, PTL DEF Spec, ImplementsLedger, Ledger!Spec
=============================================================================
