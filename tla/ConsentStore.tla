----------------------------- MODULE ConsentStore -----------------------------
(***************************************************************************)
(* The append-only consent file (credentials/consent.rs) under the callers *)
(* that share it: the policy engine, which finds an active grant and       *)
(* counts the use (credentials/policy.rs, authorize_use), and the commands *)
(* that grant and revoke.  Every caller is a process of its own, or a      *)
(* thread of the CDP server, that reads the whole file, decides, and       *)
(* appends; there is no lock.  An append is two writes, the record and     *)
(* then the newline.                                                       *)
(*                                                                         *)
(* All grants here have the same subject and origin (others never match),  *)
(* and deny rules and passkeys, which answer before the store is asked,    *)
(* are left out.                                                           *)
(***************************************************************************)
EXTENDS Naturals, FiniteSets

CONSTANTS Procs,      \* callers that run concurrently
          Grants,     \* consent IDs, numbered in the order of granted_at
          Actions,    \* actions a use is requested for
          Covers,     \* ConsentRecord.actions: grant -> set of actions
          MaxUses,    \* ConsentRecord.max_uses, the same for every grant
          MaxAsks,    \* bound: uses requested in a behaviour
          MaxFaults,  \* bound: crashes and failed writes in a behaviour
          None        \* no record, no job

ASSUME ProcsAssumption == IsFiniteSet(Procs)
ASSUME GrantsAssumption == Grants \subseteq Nat /\ IsFiniteSet(Grants)
ASSUME CoversAssumption == Covers \in [Grants -> SUBSET Actions]
ASSUME BoundsAssumption == {MaxUses, MaxAsks, MaxFaults} \subseteq Nat

VARIABLES live,      \* what replaying the complete lines yields: uses, or None
          tail,      \* the last, unterminated line, if there is one
          expired,   \* the grants past expires_at
          job,       \* what each caller is doing, or None
          minted,    \* the consent IDs handed out so far
          asks,      \* number of uses requested so far
          faults,    \* number of faults so far
          allowed,   \* history: uses each grant has authorized
          revoked,   \* history: grants whose revocation returned Ok
          disturbed  \* history: a fault, or a job begun while another was under way

vars == <<live, tail, expired, job, minted, asks, faults, allowed, revoked, disturbed>>

(***************************************************************************)
(* The file.  A line is a grant record (with its use count) or a tombstone.*)
(* Only whole lines of one record parse: what follows an unterminated      *)
(* record on the same line spoils both, and what was cut short is noise.   *)
(***************************************************************************)
Lines == [grant : Grants, uses : Nat \cup {None}]
Noise == <<None>>

\* The last line is one that will be read once its newline has been written.
Whole == tail \notin {<<>>, Noise}

Record(g, n) == [grant |-> g, uses |-> n]
Tombstone(g) == [grant |-> g, uses |-> None]

\* One line of the replay: the last record of a grant wins, a tombstone removes.
Apply(records, line) == [records EXCEPT ![line.grant] = line.uses]

\* ConsentStore::replay also reads a last line that has no newline yet, and skips
\* what does not parse.
Replay == IF Whole THEN Apply(live, tail[1]) ELSE live

Covering(a) == {g \in Grants : Replay[g] # None /\ a \in Covers[g]}
Active(a) == {g \in Covering(a) \ expired : Replay[g] < MaxUses}

Newest(gs) == {g \in gs : \A h \in gs : h <= g}

-----------------------------------------------------------------------------
Init ==
    /\ live = [g \in Grants |-> None]
    /\ tail = <<>>
    /\ expired = {}
    /\ job = [p \in Procs |-> None]
    /\ minted = {}
    /\ asks = 0 /\ faults = 0
    /\ allowed = [g \in Grants |-> 0]
    /\ revoked = {}
    /\ disturbed = FALSE

Free(p) == job[p] = None
At(p, step) == job[p] # None /\ job[p].at = step
Busy(p, j) == job' = [job EXCEPT ![p] = j]
Begin(p, j) ==
    /\ Busy(p, j)
    /\ disturbed' = (disturbed \/ \E q \in Procs : ~Free(q))
Done(p) == job' = [job EXCEPT ![p] = None]

\* A job: what it is for, where it stands ("found", "line" or "newline"), the
\* line it is to append, and the grants it still has to revoke.
Job(for, at, line, todo) == [for |-> for, at |-> at, line |-> line, todo |-> todo]
Jobs == [for : {"grant", "use", "revoke"}, at : {"found", "line", "newline"},
         line : Lines, todo : SUBSET Grants]

ASSUME NoneAssumption == None \notin Nat \cup Lines \cup Jobs

\* Variant: the consent ID is not a fresh one.
GrantReusedId(p, g) ==
    /\ Free(p) /\ g \notin minted
    /\ Begin(p, Job("grant", "line", Record(g, 0), {}))
    /\ UNCHANGED <<live, tail, expired, minted, asks, faults, allowed, revoked>>

\* ConsentStore::grant with a fresh ConsentRecord.
Grant(p, g) ==
    /\ Free(p) /\ g \notin minted /\ \A h \in minted : h < g
    /\ minted' = minted \cup {g}
    /\ Begin(p, Job("grant", "line", Record(g, 0), {}))
    /\ UNCHANGED <<live, tail, expired, asks, faults, allowed, revoked>>

\* authorize_use up to the grant active_for returns; without one the use is
\* put to the user instead (RequireConfirmation).
Ask(p, a) ==
    /\ Free(p) /\ asks < MaxAsks
    /\ asks' = asks + 1
    /\ IF Active(a) = {}
       THEN UNCHANGED <<job, disturbed>>
       ELSE \E g \in Newest(Active(a)) : Begin(p, Job("use", "found", Record(g, 0), {}))
    /\ UNCHANGED <<live, tail, expired, minted, faults, allowed, revoked>>

\* Variant: a use is charged once for every action the grant covers.
ConsumePerAction(p) ==
    LET g == job[p].line.grant IN
    /\ At(p, "found")
    /\ IF Replay[g] = None
       THEN Done(p)
       ELSE Busy(p, Job("use", "line", Record(g, Replay[g] + Cardinality(Covers[g])), {}))
    /\ UNCHANGED <<live, tail, expired, minted, asks, faults, allowed, revoked, disturbed>>

\* ConsentStore::consume replays again; a grant that is gone denies the use.
Consume(p) ==
    LET g == job[p].line.grant IN
    /\ At(p, "found")
    /\ IF Replay[g] = None
       THEN Done(p)
       ELSE Busy(p, Job("use", "line", Record(g, Replay[g] + 1), {}))
    /\ UNCHANGED <<live, tail, expired, minted, asks, faults, allowed, revoked, disturbed>>

\* revoke_subject and revoke_by_id: one tombstone for each matching grant.
RevokeThese(p, gs) ==
    /\ Free(p)
    /\ gs # {}
    /\ \E g \in gs : Begin(p, Job("revoke", "line", Tombstone(g), gs))
    /\ UNCHANGED <<live, tail, expired, minted, asks, faults, allowed, revoked>>

Revoke(p, a) == RevokeThese(p, Covering(a))

RevokeById(p, g) == Replay[g] # None /\ RevokeThese(p, {g})

\* append_line, the first write.
WriteLine(p) ==
    /\ At(p, "line")
    /\ tail' = IF tail = <<>> THEN <<job[p].line>> ELSE Noise
    /\ Busy(p, Job(job[p].for, "newline", job[p].line, job[p].todo))
    /\ UNCHANGED <<live, expired, minted, asks, faults, allowed, revoked, disturbed>>

\* Variant: a revocation stops at the first of several grants.
WriteNewlineFirstOnly(p) ==
    LET j == job[p] IN
    /\ At(p, "newline")
    /\ live' = Replay
    /\ tail' = <<>>
    /\ Done(p)
    /\ allowed' = IF j.for = "use" THEN [allowed EXCEPT ![j.line.grant] = @ + 1] ELSE allowed
    /\ revoked' = revoked \cup j.todo
    /\ UNCHANGED <<expired, minted, asks, faults, disturbed>>

\* append_line, the second write, and what the caller does when it returns Ok:
\* the use is allowed, the next tombstone is due, or the revocation is done.
WriteNewline(p) ==
    LET j == job[p]
        rest == IF j.for = "revoke" THEN j.todo \ {j.line.grant} ELSE {}
    IN
    /\ At(p, "newline")
    /\ live' = Replay
    /\ tail' = <<>>
    /\ IF rest = {} THEN Done(p)
                    ELSE \E g \in rest : Busy(p, Job("revoke", "line", Tombstone(g), rest))
    /\ allowed' = IF j.for = "use" THEN [allowed EXCEPT ![j.line.grant] = @ + 1] ELSE allowed
    /\ revoked' = IF j.for = "revoke" THEN revoked \cup {j.line.grant} ELSE revoked
    /\ UNCHANGED <<expired, minted, asks, faults, disturbed>>

\* The process dies, or a write fails: the caller hears an error or nothing.
Abandon(p) ==
    /\ ~Free(p) /\ faults < MaxFaults
    /\ faults' = faults + 1
    /\ Done(p)
    /\ disturbed' = TRUE
    /\ UNCHANGED <<live, tail, expired, minted, asks, allowed, revoked>>

\* The record's write stops half-way (a full disk, a power cut).
TornWrite(p) ==
    /\ At(p, "line") /\ faults < MaxFaults
    /\ faults' = faults + 1
    /\ tail' = Noise
    /\ Done(p)
    /\ disturbed' = TRUE
    /\ UNCHANGED <<live, expired, minted, asks, allowed, revoked>>

Expire(g) ==
    /\ g \in minted \ expired
    /\ expired' = expired \cup {g}
    /\ UNCHANGED <<live, tail, job, minted, asks, faults, allowed, revoked, disturbed>>

Next ==
    \/ \E p \in Procs, g \in Grants : Grant(p, g) \/ RevokeById(p, g)
    \/ \E p \in Procs, a \in Actions : Ask(p, a) \/ Revoke(p, a)
    \/ \E p \in Procs : Consume(p) \/ WriteLine(p) \/ WriteNewline(p)
    \/ \E p \in Procs : Abandon(p) \/ TornWrite(p)
    \/ \E g \in Grants : Expire(g)

Spec == Init /\ [][Next]_vars
-----------------------------------------------------------------------------
(* Properties *)

\* Type invariant; the record of a grant never disappears by itself.
TypeOK ==
    /\ live \in [Grants -> Nat \cup {None}]
    /\ Whole => tail = <<tail[1]>> /\ tail[1] \in Lines
    /\ expired \subseteq minted /\ minted \subseteq Grants
    /\ job \in [Procs -> Jobs \cup {None}]
    /\ asks \in 0..MaxAsks /\ faults \in 0..MaxFaults
    /\ allowed \in [Grants -> Nat]
    /\ revoked \subseteq minted
    /\ disturbed \in BOOLEAN

\* No grant authorizes more uses than its budget (active_at filters exhausted
\* grants, authorize_use counts before it allows).
UseBudget == \A g \in Grants : allowed[g] <= MaxUses

\* A grant whose revocation returned Ok is never again the active grant of any
\* request (replay: tombstones remove).
RevokedIsNotActive == \A a \in Actions : Active(a) \cap revoked = {}

\* Callers between authorize_use's read of a grant and the end of the append that
\* counts the use.
Counting(g) == {p \in Procs : job[p] # None /\ job[p].for = "use" /\ job[p].line.grant = g}

\* A grant is never charged for more than the uses it authorized, those being
\* counted, and those a fault interrupted: whatever concurrent callers overwrite
\* of each other, a lost update can only lower the count (consume).
NeverOvercharged ==
    \A g \in Grants :
        Replay[g] # None => Replay[g] <= allowed[g] + Cardinality(Counting(g)) + faults

\* No use is lost: what the file says of a grant is what it authorized, whichever
\* grants were consumed, granted and revoked in between.
UsesAreCounted ==
    \A g \in Grants : Replay[g] # None /\ Counting(g) = {} => Replay[g] = allowed[g]

\* As long as the callers have come one at a time and nothing has failed, budgets,
\* revocations and counts are exact (authorize_use, consume, revoke_subject).
ExactWhileUndisturbed == ~disturbed => UseBudget /\ RevokedIsNotActive /\ UsesAreCounted

\* The counts in the file are true: exact before, and never too high after calls have
\* overlapped or a write has failed.
CountsAreTrue == NeverOvercharged /\ ExactWhileUndisturbed

Ledger == INSTANCE ConsentLedger WITH trusted <- ~disturbed

\* The file implements the ledger, which promises nothing once it is disturbed.
ImplementsLedger == Ledger!Spec
=============================================================================
