------------------------ MODULE CredentialBrokerProofs ------------------------
(***************************************************************************)
(* Theorems about CredentialBroker, for any sessions, origins, cards and   *)
(* calls: a card resolves once, and a fillCredential fills the document it *)
(* validated, within what the consent store has counted.                   *)
(***************************************************************************)
EXTENDS CredentialBroker, FiniteSetTheorems, TLAPS

Typed ==
    /\ page \in [Sessions -> Pages]
    /\ lock \in [Sessions -> Calls \cup {None}]
    /\ card \in [Cards -> Pages \cup {None}]
    /\ used \subseteq Cards
    /\ call \in [Calls -> CallRecords \cup {None}]
    /\ docs \in Nat /\ uses \in Nat /\ direct \in Nat
    /\ filled \in [Cards -> Nat]

Holding(j) == At(j, "gate") \/ At(j, "authorize") \/ At(j, "act")
Resolving(j) == At(j, "verify") \/ At(j, "fill")
Filling(j) == call[j].do = "fillCredential"

\* A call past its validation has its session locked, so the page it has looked at is
\* still there, unless it was the call's own gate that moved on.
Placed(j) ==
    /\ At(j, "wait") => call[j].do \in Methods
    /\ Holding(j) => lock[call[j].s] = j
    /\ At(j, "gate") => ~Filling(j)
    /\ At(j, "authorize") => Filling(j)
    /\ (At(j, "authorize") \/ At(j, "act")) /\ Filling(j) =>
          call[j].saw = page[call[j].s] /\ call[j].saw.origin \in Allowed
    /\ At(j, "act") /\ Filling(j) => call[j].saw.origin \notin Denied

\* A call that resolves a card has its approval, and has not filled yet.
Approved(j) == Resolving(j) => call[j].card \in approved /\ filled[call[j].card] = 0

\* A card that is up has no approval, and one without approval has filled nothing.
Settled(c) ==
    /\ card[c] # None => c \in used \ approved
    /\ c \notin approved => filled[c] = 0
    /\ filled[c] \in {0, 1}

\* No two calls resolve one card.
OneEach == \A j, k \in Calls : Resolving(j) /\ Resolving(k) /\ call[j].card = call[k].card => j = k

\* The grants charged for a fill that is yet to come.
Acting == {j \in Calls : At(j, "act") /\ Filling(j)}
Charged == direct + Cardinality(Acting) <= uses

IInv ==
    /\ Typed
    /\ \A j \in Calls : Placed(j) /\ Approved(j)
    /\ \A c \in Cards : Settled(c)
    /\ approved \subseteq used
    /\ OneEach
    /\ Charged
    /\ "fillCredential" \notin astray \cup abroad

LEMMA InitIInv == Init => IInv
<1> SUFFICES ASSUME Init PROVE IInv
  OBVIOUS
<1>1. Typed
  <2>1. docs \in Nat /\ 0..docs \subseteq Docs
    BY BoundsAssumption DEF Init, Docs
  <2>2. page \in [Sessions -> Pages]
    BY <2>1 DEF Init, Pages
  <2>3. QED  BY <2>1, <2>2 DEF Init, Typed
<1>2. Acting = {}
  BY DEF Init, Acting, At
<1>3. Charged
  BY <1>2, FS_EmptySet DEF Init, Charged
<1>4. QED
  BY <1>1, <1>3 DEF Init, IInv, Placed, Approved, Settled, OneEach, Holding, Resolving, At

\* The inductive invariant implies both properties.
LEMMA IInvImplies == IInv => CardsResolveOnce /\ FillsWhereValidated
<1> SUFFICES ASSUME IInv PROVE CardsResolveOnce /\ FillsWhereValidated
  OBVIOUS
<1>1. CardsResolveOnce
  BY DEF IInv, Settled, CardsResolveOnce, Typed
<1>2. IsFiniteSet(Acting)
  BY CallsAssumption, FS_Subset DEF Acting
<1>3. direct <= uses
  <2>1. Cardinality(Acting) \in Nat
    BY <1>2, FS_CardinalityType
  <2>2. QED  BY <2>1 DEF IInv, Typed, Charged
<1>4. QED  BY <1>1, <1>3 DEF IInv, FillsWhereValidated

-----------------------------------------------------------------------------
(* The steps *)

\* A call that did nothing in a step that left its session, its card and what it has
\* been granted alone.
LEMMA CallKept ==
    ASSUME IInv, NEW k \in Calls, call'[k] = call[k],
           Holding(k) => lock'[call[k].s] = k /\ page'[call[k].s] = page[call[k].s],
           approved \subseteq approved', Resolving(k) => filled'[call[k].card] = 0
    PROVE  Placed(k)' /\ Approved(k)'
BY DEF IInv, Placed, Approved, Holding, Resolving, Filling, At

\* A step that makes no call ready to fill, and charges and fills nothing without one.
LEMMA ChargeKept ==
    ASSUME IInv, UNCHANGED direct, uses' \in Nat, uses' >= uses, Acting' \subseteq Acting
    PROVE  Charged'
<1>1. IsFiniteSet(Acting)
  BY CallsAssumption, FS_Subset DEF Acting
<1>2. Cardinality(Acting') \in Nat /\ Cardinality(Acting) \in Nat
      /\ Cardinality(Acting') <= Cardinality(Acting)
  BY <1>1, FS_Subset, FS_CardinalityType
<1>3. QED  BY <1>2 DEF IInv, Typed, Charged

\* A call becomes ready to fill: a use has been charged for it.
LEMMA ChargeTaken ==
    ASSUME IInv, NEW j \in Calls, UNCHANGED direct, uses' = uses + 1, Acting' \subseteq Acting \cup {j}
    PROVE  Charged'
<1>1. IsFiniteSet(Acting) /\ IsFiniteSet(Acting \cup {j})
  BY CallsAssumption, FS_Subset, FS_AddElement DEF Acting
<1>2. Cardinality(Acting) \in Nat /\ Cardinality(Acting \cup {j}) <= Cardinality(Acting) + 1
  BY <1>1, FS_AddElement, FS_CardinalityType
<1>3. Cardinality(Acting') \in Nat /\ Cardinality(Acting \cup {j}) \in Nat
      /\ Cardinality(Acting') <= Cardinality(Acting \cup {j})
  BY <1>1, FS_Subset, FS_CardinalityType
<1>4. QED  BY <1>2, <1>3 DEF IInv, Typed, Charged

\* A call that was ready has filled: it is ready no more.
LEMMA ChargeSpent ==
    ASSUME IInv, NEW j \in Acting, direct' \in {direct, direct + 1}, UNCHANGED uses,
           Acting' \subseteq Acting \ {j}
    PROVE  Charged'
<1>1. IsFiniteSet(Acting) /\ IsFiniteSet(Acting \ {j})
  BY CallsAssumption, FS_Subset DEF Acting
<1>2. Cardinality(Acting) \in Nat /\ Cardinality(Acting \ {j}) = Cardinality(Acting) - 1
  BY <1>1, FS_RemoveElement, FS_CardinalityType
<1>3. Cardinality(Acting') \in Nat /\ Cardinality(Acting \ {j}) \in Nat
      /\ Cardinality(Acting') <= Cardinality(Acting \ {j})
  BY <1>1, FS_Subset, FS_CardinalityType
<1>4. QED  BY <1>2, <1>3 DEF IInv, Typed, Charged

\* A step of pages and deadlines only, of sessions that nobody has locked.
LEMMA PagesMove ==
    ASSUME IInv, UNCHANGED <<lock, card, used, call, uses, history>>, docs' \in Nat,
           page' \in [Sessions -> Pages],
           \A s \in Sessions : lock[s] # None => page'[s] = page[s]
    PROVE  IInv'
<1>1. Typed'
  BY DEF IInv, Typed, history
<1>2. ASSUME NEW k \in Calls PROVE Placed(k)' /\ Approved(k)'
  <2>1. Holding(k) => lock[call[k].s] = k /\ page'[call[k].s] = page[call[k].s]
    BY NoneAssumption DEF IInv, Placed, Typed, CallRecords, Holding, At
  <2>2. QED  BY <2>1, CallKept DEF IInv, Approved, history
<1>3. Acting' = Acting
  BY DEF Acting, At, Filling
<1>4. Charged'
  BY <1>3 DEF IInv, Charged, history
<1>5. QED
  BY <1>1, <1>2, <1>4 DEF IInv, Settled, OneEach, Resolving, At, history

LEMMA NavigateKeeps ==
    ASSUME IInv, NEW s \in Sessions, NEW o \in Origins, Navigate(s, o)
    PROVE  IInv'
<1>1. docs + 1 \in Docs /\ [doc |-> docs + 1, origin |-> o] \in Pages
  BY BoundsAssumption DEF Navigate, Loads, IInv, Typed, Docs, Pages
<1>2. docs' \in Nat /\ page' \in [Sessions -> Pages]
  BY <1>1 DEF Navigate, Loads, IInv, Typed
<1>3. \A t \in Sessions : lock[t] # None => page'[t] = page[t]
  BY DEF Navigate, Loads, IInv, Typed
<1>4. QED  BY <1>2, <1>3, PagesMove DEF Navigate, cards

\* What the steps of one call have in common.
LEMMA OneCall ==
    ASSUME IInv, Typed', NEW j \in Calls, Placed(j)', Approved(j)', Charged',
           "fillCredential" \notin astray' \cup abroad',
           \A k \in Calls \ {j} :
              /\ call'[k] = call[k]
              /\ Holding(k) => lock'[call[k].s] = k /\ page'[call[k].s] = page[call[k].s],
           UNCHANGED <<approved, filled>>, used \subseteq used',
           \A c \in Cards : card'[c] # None => card[c] # None \/ c \in used' \ used,
           Resolving(j)' => Resolving(j) /\ call'[j].card = call[j].card
    PROVE  IInv'
<1>1. ASSUME NEW k \in Calls PROVE Placed(k)' /\ Approved(k)'
  <2>1. CASE k = j
    BY <2>1
  <2>2. CASE k # j
    BY <2>2, CallKept DEF IInv, Approved
  <2>3. QED  BY <2>1, <2>2
<1>2. ASSUME NEW c \in Cards PROVE Settled(c)'
  BY DEF IInv, Settled
<1>3. OneEach'
  BY DEF IInv, OneEach, Resolving, At
<1>4. QED  BY <1>1, <1>2, <1>3 DEF IInv

LEMMA RequestKeeps ==
    ASSUME IInv, NEW j \in Calls, NEW s \in Agents, NEW do \in Methods, NEW ref \in Docs,
           Request(j, do, s, ref)
    PROVE  IInv'
<1>1. /\ UNCHANGED <<page, docs, lock, card, used, uses, approved, filled, direct, astray, abroad>>
      /\ call' = [call EXCEPT ![j] = [do |-> do, at |-> "wait", s |-> s, ref |-> ref,
                                      saw |-> None, card |-> None]]
  BY DEF Request, Start, pages, cards, history
<1>2. [do |-> do, at |-> "wait", s |-> s, ref |-> ref, saw |-> None, card |-> None] \in CallRecords
  BY DEF CallRecords, Sessions
<1>3. Typed'
  BY <1>1, <1>2 DEF IInv, Typed
<1>4. call'[j].at = "wait" /\ call'[j].do \in Methods
  BY <1>1 DEF IInv, Typed
<1>5. Placed(j)' /\ Approved(j)' /\ ~Resolving(j)' /\ j \notin Acting'
  BY <1>4 DEF Placed, Approved, Resolving, Holding, At, Acting
<1>6. \A k \in Calls \ {j} : call'[k] = call[k]
  BY <1>1 DEF IInv, Typed
<1>7. Acting' \subseteq Acting
  BY <1>5, <1>6 DEF Acting, At, Filling
<1>8. Charged'
  BY <1>1, <1>7, ChargeKept DEF IInv, Typed
<1>9. \A k \in Calls \ {j} : Holding(k) => lock'[call[k].s] = k /\ page'[call[k].s] = page[call[k].s]
  BY <1>1 DEF IInv, Placed
<1>10. QED  BY <1>1, <1>3, <1>5, <1>6, <1>8, <1>9, OneCall DEF IInv

\* A call that ends with its lock, and has not filled.
LEMMA EndKeeps ==
    ASSUME IInv, NEW j \in Calls, call' = [call EXCEPT ![j] = None],
           \/ UNCHANGED lock
           \/ lock[call[j].s] = j /\ lock' = [lock EXCEPT ![call[j].s] = None],
           UNCHANGED <<filled, approved>>, docs' \in Nat,
           \A k \in Calls \ {j} : Holding(k) => page'[call[k].s] = page[call[k].s],
           page' \in [Sessions -> Pages],
           card' \in [Cards -> Pages \cup {None}], used' \subseteq Cards, used \subseteq used',
           \A c \in Cards : card'[c] # None => card[c] # None \/ c \in used' \ used,
           uses' \in Nat, direct' \in Nat, Charged',
           "fillCredential" \notin astray' \cup abroad'
    PROVE  IInv'
<1>1. Typed'
  BY DEF IInv, Typed
<1>2. call'[j] = None
  BY DEF IInv, Typed
<1>3. Placed(j)' /\ Approved(j)' /\ ~Resolving(j)'
  BY <1>2 DEF Placed, Approved, Resolving, Holding, At
<1>4. ASSUME NEW k \in Calls \ {j}, Holding(k) PROVE lock'[call[k].s] = k
  <2>1. lock[call[k].s] = k /\ call[k] \in CallRecords
    BY <1>4 DEF IInv, Placed, Typed, Holding, At
  <2>2. QED  BY <2>1 DEF IInv, Typed, CallRecords
<1>5. \A k \in Calls \ {j} : call'[k] = call[k]
  BY DEF IInv, Typed
<1>6. QED  BY <1>1, <1>3, <1>4, <1>5, OneCall

\* An end without a charge or a fill.
LEMMA EndCharged ==
    ASSUME IInv, NEW j \in Calls, call' = [call EXCEPT ![j] = None], UNCHANGED direct,
           uses' \in Nat, uses' >= uses
    PROVE  Charged'
<1>1. \A k \in Calls \ {j} : call'[k] = call[k]
  BY DEF IInv, Typed
<1>2. call'[j] = None
  BY DEF IInv, Typed
<1>3. Acting' \subseteq Acting
  BY <1>1, <1>2 DEF Acting, At, Filling
<1>4. QED  BY <1>3, ChargeKept

\* An end that touches no page and no card.
LEMMA EndQuietly ==
    ASSUME IInv, NEW j \in Calls, call' = [call EXCEPT ![j] = None],
           \/ UNCHANGED lock
           \/ lock[call[j].s] = j /\ lock' = [lock EXCEPT ![call[j].s] = None],
           UNCHANGED <<page, docs, card, used, filled, approved>>,
           uses' \in Nat, direct' \in Nat, Charged',
           "fillCredential" \notin astray' \cup abroad'
    PROVE  IInv'
<1>1. /\ \A k \in Calls \ {j} : Holding(k) => page'[call[k].s] = page[call[k].s]
      /\ \A c \in Cards : card'[c] # None => card[c] # None \/ c \in used' \ used
  OBVIOUS
<1>2. page' \in [Sessions -> Pages] /\ card' \in [Cards -> Pages \cup {None}]
      /\ used' \subseteq Cards /\ used \subseteq used' /\ docs' \in Nat
  BY DEF IInv, Typed
<1>3. QED  BY <1>1, <1>2, EndKeeps

LEMMA ValidateKeeps ==
    ASSUME IInv, NEW j \in Calls, Validate(j)
    PROVE  IInv'
<1>1. /\ UNCHANGED <<page, docs, card, used, uses, approved, filled, direct, astray, abroad>>
      /\ At(j, "wait") /\ lock[call[j].s] = None /\ call[j] \in CallRecords
      /\ call[j].do \in Methods
  BY DEF Validate, pages, cards, history, IInv, Placed, Typed, At
<1>2. CASE Done(j) /\ UNCHANGED lock
  <2>1. /\ uses' \in Nat /\ uses' >= uses /\ direct' = direct /\ direct' \in Nat
        /\ "fillCredential" \notin astray' \cup abroad'
    BY <1>1 DEF IInv, Typed
  <2>2. Charged'
    BY <1>2, <2>1, EndCharged DEF Done
  <2>3. QED  BY <1>1, <1>2, <2>1, <2>2, EndQuietly DEF Done
<1>3. CASE Valid(j) /\ Validated(j) /\ lock' = [lock EXCEPT ![call[j].s] = j]
  <2> DEFINE s == call[j].s
             r == [call[j] EXCEPT !.saw = page[s],
                                  !.at = IF call[j].do = "fillCredential" THEN "authorize" ELSE "gate"]
  <2>1. s \in Sessions /\ page[s] \in Pages
    BY <1>1 DEF CallRecords, IInv, Typed
  <2>2. r \in CallRecords
    BY <1>1, <2>1 DEF CallRecords
  <2>3. call' = [call EXCEPT ![j] = r]
    BY <1>3 DEF Validated, IInv, Typed
  <2>4. r.saw = page[s] /\ r.s = s /\ r.do = call[j].do
        /\ r.at = IF r.do = "fillCredential" THEN "authorize" ELSE "gate"
    BY <1>1 DEF CallRecords
  <2>5. r.do = "fillCredential" => r.saw.origin \in Allowed
    BY <1>3, <2>4 DEF Valid
  <2>6. call'[j] = r /\ lock'[s] = j /\ \A k \in Calls \ {j} : call'[k] = call[k]
    BY <1>3, <2>1, <2>3 DEF IInv, Typed
  <2> HIDE DEF r
  <2>7. Typed'
    BY <1>1, <1>3, <2>1, <2>2, <2>3 DEF IInv, Typed
  <2>8. Placed(j)' /\ Approved(j)' /\ ~Resolving(j)' /\ j \notin Acting'
    BY <1>1, <2>4, <2>5, <2>6 DEF Placed, Approved, Resolving, Holding, At, Acting, Filling
  <2>9. Acting' \subseteq Acting
    BY <2>6, <2>8 DEF Acting, At, Filling
  <2>10. Charged'
    BY <1>1, <2>9, ChargeKept DEF IInv, Typed
  <2>11. ASSUME NEW k \in Calls \ {j}, Holding(k) PROVE lock'[call[k].s] = k
    <3>1. lock[call[k].s] = k /\ call[k] \in CallRecords
      BY <2>11 DEF IInv, Placed, Typed, Holding, At
    <3>2. QED  BY <1>1, <1>3, <3>1, NoneAssumption DEF IInv, Typed, CallRecords
  <2>12. QED  BY <1>1, <2>6, <2>7, <2>8, <2>10, <2>11, OneCall DEF IInv
<1>4. QED  BY <1>2, <1>3 DEF Validate

LEMMA PassGateKeeps ==
    ASSUME IInv, NEW j \in Calls, PassGate(j)
    PROVE  IInv'
<1>1. /\ UNCHANGED <<card, used, uses, approved, filled, direct, astray, abroad>>
      /\ call[j] \in CallRecords /\ lock[call[j].s] = j /\ call[j].s \in Sessions /\ ~Filling(j)
      /\ call[j].at = "gate"
  BY DEF PassGate, cards, history, IInv, Typed, Placed, Holding, At, CallRecords, Filling
<1>2. /\ docs' \in Nat /\ page' \in [Sessions -> Pages]
      /\ \A t \in Sessions \ {call[j].s} : page'[t] = page[t]
  <2>1. ASSUME NEW o \in Origins, Loads(call[j].s, o)
        PROVE  /\ docs' \in Nat /\ page' \in [Sessions -> Pages]
               /\ \A t \in Sessions \ {call[j].s} : page'[t] = page[t]
    <3>1. docs + 1 \in Docs /\ [doc |-> docs + 1, origin |-> o] \in Pages
      BY <2>1, BoundsAssumption DEF Loads, IInv, Typed, Docs, Pages
    <3>2. docs' = docs + 1 /\ docs' \in Nat
      BY <2>1 DEF Loads, IInv, Typed
    <3>3. page' = [page EXCEPT ![call[j].s] = [doc |-> docs + 1, origin |-> o]]
      BY <2>1 DEF Loads
    <3>4. QED  BY <3>1, <3>2, <3>3 DEF IInv, Typed
  <2>2. CASE UNCHANGED <<page, docs>>
    BY <2>2 DEF IInv, Typed
  <2>3. QED  BY <2>1, <2>2 DEF PassGate
<1>3. /\ uses' \in Nat /\ uses' >= uses /\ direct' = direct /\ direct' \in Nat
      /\ card' \in [Cards -> Pages \cup {None}] /\ used' \subseteq Cards /\ used \subseteq used'
      /\ "fillCredential" \notin astray' \cup abroad'
  BY <1>1 DEF IInv, Typed
<1>4. ASSUME NEW k \in Calls \ {j}, Holding(k) PROVE page'[call[k].s] = page[call[k].s]
  <2>1. lock[call[k].s] = k /\ call[k].s \in Sessions
    BY <1>4 DEF IInv, Placed, Typed, CallRecords, Holding, At
  <2>2. QED  BY <1>1, <1>2, <2>1
<1>5. \A c \in Cards : card'[c] # None => card[c] # None \/ c \in used' \ used
  BY <1>1
<1>6. CASE Done(j) /\ Release(j)
  <2>1. Charged'
    BY <1>3, <1>6, EndCharged DEF Done
  <2>2. QED  BY <1>1, <1>2, <1>3, <1>4, <1>5, <1>6, <2>1, EndKeeps DEF Done, Release
<1>7. CASE Go(j, "act") /\ UNCHANGED lock
  <2> DEFINE r == [call[j] EXCEPT !.at = "act"]
  <2>1. r \in CallRecords /\ r.do = call[j].do /\ r.s = call[j].s /\ r.at = "act"
    BY <1>1 DEF CallRecords
  <2>2. call' = [call EXCEPT ![j] = r]
    BY <1>7 DEF Go, IInv, Typed
  <2>3. call'[j] = r /\ \A k \in Calls \ {j} : call'[k] = call[k]
    BY <2>2 DEF IInv, Typed
  <2> HIDE DEF r
  <2>4. Typed'
    BY <1>1, <1>2, <1>7, <2>1, <2>2 DEF IInv, Typed
  <2>5. Placed(j)' /\ Approved(j)' /\ ~Resolving(j)' /\ j \notin Acting'
    BY <1>1, <1>7, <2>1, <2>3 DEF Placed, Approved, Resolving, Holding, At, Acting, Filling
  <2>6. Acting' \subseteq Acting
    BY <2>3, <2>5 DEF Acting, At, Filling
  <2>7. Charged'
    BY <1>3, <2>6, ChargeKept
  <2>8. \A k \in Calls \ {j} : Holding(k) => lock'[call[k].s] = k
    BY <1>7 DEF IInv, Placed
  <2>9. QED  BY <1>1, <1>3, <1>4, <1>5, <2>3, <2>4, <2>5, <2>7, <2>8, OneCall
<1>8. QED  BY <1>6, <1>7 DEF PassGate

LEMMA AuthorizeGrantedKeeps ==
    ASSUME IInv, NEW j \in Calls, AuthorizeGranted(j)
    PROVE  IInv'
<1> DEFINE r == [call[j] EXCEPT !.at = "act"]
<1>1. /\ UNCHANGED <<page, docs, lock, card, used, approved, filled, direct, astray, abroad>>
      /\ call[j] \in CallRecords /\ call[j].at = "authorize" /\ call[j].saw.origin \notin Denied
      /\ lock[call[j].s] = j /\ Filling(j)
      /\ call[j].saw = page[call[j].s] /\ call[j].saw.origin \in Allowed
      /\ uses' = uses + 1 /\ uses' \in Nat
  BY DEF AuthorizeGranted, pages, cards, history, IInv, Typed, Placed, Holding, At
<1>2. r \in CallRecords /\ r = [call[j] EXCEPT !.at = "act"]
      /\ r.do = call[j].do /\ r.s = call[j].s /\ r.at = "act" /\ r.saw = call[j].saw
  BY <1>1 DEF CallRecords
<1>3. call' = [call EXCEPT ![j] = r]
  BY DEF AuthorizeGranted, Go, IInv, Typed
<1>4. call'[j] = r /\ \A k \in Calls \ {j} : call'[k] = call[k]
  BY <1>3 DEF IInv, Typed
<1> HIDE DEF r
<1>5. Typed'
  BY <1>1, <1>2, <1>3 DEF IInv, Typed
<1>6. Placed(j)' /\ Approved(j)' /\ ~Resolving(j)'
  BY <1>1, <1>2, <1>4 DEF Placed, Approved, Resolving, Holding, At, Filling
<1>7. Acting' \subseteq Acting \cup {j}
  BY <1>4 DEF Acting, At, Filling
<1>8. Charged'
  BY <1>1, <1>7, ChargeTaken
<1>9. \A k \in Calls \ {j} : Holding(k) => lock'[call[k].s] = k /\ page'[call[k].s] = page[call[k].s]
  BY <1>1 DEF IInv, Placed
<1>10. QED  BY <1>1, <1>4, <1>5, <1>6, <1>8, <1>9, OneCall DEF IInv

LEMMA AuthorizeDeniesKeeps ==
    ASSUME IInv, NEW j \in Calls, AuthorizeDenies(j)
    PROVE  IInv'
<1>1. /\ UNCHANGED <<page, docs, card, used, approved, filled, direct, astray, abroad>>
      /\ Done(j) /\ Release(j) /\ lock[call[j].s] = j /\ uses' \in Nat /\ uses' >= uses
      /\ direct' = direct /\ direct' \in Nat /\ "fillCredential" \notin astray' \cup abroad'
  BY DEF AuthorizeDenies, pages, cards, history, IInv, Typed, Placed, Holding
<1>2. Charged'
  BY <1>1, EndCharged DEF Done
<1>3. QED  BY <1>1, <1>2, EndQuietly DEF Done, Release

LEMMA AuthorizeAsksKeeps ==
    ASSUME IInv, NEW j \in Calls, NEW c \in Cards, AuthorizeAsks(j, c)
    PROVE  IInv'
<1>1. /\ UNCHANGED <<page, docs, uses, approved, filled, direct, astray, abroad>>
      /\ Done(j) /\ Release(j) /\ lock[call[j].s] = j
      /\ c \notin used /\ used' = used \cup {c} /\ card' = [card EXCEPT ![c] = call[j].saw]
      /\ call[j].saw = page[call[j].s] /\ call[j].s \in Sessions
  BY DEF AuthorizeAsks, pages, history, IInv, Typed, Placed, Holding, At, CallRecords
<1>2. call[j].saw \in Pages
  BY <1>1 DEF IInv, Typed
<1>3. /\ uses' \in Nat /\ uses' >= uses /\ direct' = direct /\ direct' \in Nat
      /\ "fillCredential" \notin astray' \cup abroad' /\ page' \in [Sessions -> Pages]
      /\ card' \in [Cards -> Pages \cup {None}] /\ used' \subseteq Cards /\ used \subseteq used'
      /\ docs' \in Nat
  BY <1>1, <1>2 DEF IInv, Typed
<1>4. \A d \in Cards : card'[d] # None => card[d] # None \/ d \in used' \ used
  BY <1>1 DEF IInv, Typed
<1>5. Charged'
  BY <1>1, <1>3, EndCharged DEF Done
<1>6. \A k \in Calls \ {j} : Holding(k) => page'[call[k].s] = page[call[k].s]
  BY <1>1
<1>7. QED  BY <1>1, <1>3, <1>4, <1>5, <1>6, EndKeeps DEF Done, Release

LEMMA ActKeeps ==
    ASSUME IInv, NEW j \in Calls, Act(j)
    PROVE  IInv'
<1>1. /\ UNCHANGED <<page, docs, card, used, uses, approved, filled>>
      /\ Done(j) /\ Release(j) /\ At(j, "act") /\ lock[call[j].s] = j
  BY DEF Act, pages, cards, IInv, Placed, Holding
<1>2. direct' \in Nat /\ uses' \in Nat
  BY <1>1 DEF Act, IInv, Typed
<1>3. "fillCredential" \notin astray' \cup abroad'
  <2>1. CASE UNCHANGED <<astray, abroad>>
    BY <2>1 DEF IInv
  <2>2. CASE Touches(j, call[j].do) /\ ~Filling(j)
    BY <2>2 DEF Touches, IInv, Filling
  <2>3. CASE Touches(j, call[j].do) /\ Filling(j)
    <3>1. page[call[j].s] = call[j].saw /\ call[j].saw.origin \in Allowed \ Denied
      BY <1>1, <2>3 DEF IInv, Placed
    <3>2. QED  BY <2>3, <3>1 DEF Touches, IInv
  <2>4. QED  BY <2>1, <2>2, <2>3 DEF Act
<1>4. call'[j] = None /\ \A k \in Calls \ {j} : call'[k] = call[k]
  BY <1>1 DEF Done, IInv, Typed
<1>5. Acting' \subseteq Acting \ {j}
  BY <1>4 DEF Acting, At, Filling
<1>6. Charged'
  <2>1. CASE Filling(j)
    <3>1. j \in Acting /\ direct' \in {direct, direct + 1} /\ uses' = uses
      BY <1>1, <2>1 DEF Acting, Act
    <3>2. QED  BY <1>5, <3>1, ChargeSpent
  <2>2. CASE ~Filling(j)
    <3>1. direct' = direct /\ uses' \in Nat /\ uses' >= uses
      BY <1>1, <1>2, <2>2 DEF Act, Filling, IInv, Typed
    <3>2. QED  BY <1>1, <3>1, EndCharged DEF Done
  <2>3. QED  BY <2>1, <2>2
<1>7. QED  BY <1>1, <1>2, <1>3, <1>6, EndQuietly DEF Done, Release

\* A card that is answered comes down; a new call resolves it only when its approval
\* is the first and came in time.
LEMMA ResolveKeeps ==
    ASSUME IInv, NEW j \in Calls, NEW v \in Viewers, NEW c \in Cards, NEW yes \in BOOLEAN,
           Resolve(j, v, c, yes)
    PROVE  IInv'
<1> DEFINE r == [do |-> "resolve", at |-> "verify", s |-> v, ref |-> None, saw |-> card[c], card |-> c]
<1>1. /\ UNCHANGED <<page, docs, lock, used, uses, filled, direct, astray, abroad>>
      /\ card[c] # None /\ c \in used \ approved /\ filled[c] = 0
  BY DEF Resolve, pages, IInv, Settled
<1>2. /\ card' \in [Cards -> Pages \cup {None}] /\ card'[c] = None
      /\ \A d \in Cards : card'[d] # None => card[d] # None /\ d # c
  BY DEF Resolve, IInv, Typed
<1>3. CASE UNCHANGED <<call, approved>>
  <2>1. Typed'
    BY <1>1, <1>2, <1>3 DEF IInv, Typed
  <2>2. ASSUME NEW k \in Calls PROVE Placed(k)' /\ Approved(k)'
    <3>1. Holding(k) => lock'[call[k].s] = k /\ page'[call[k].s] = page[call[k].s]
      BY <1>1 DEF IInv, Placed
    <3>2. QED  BY <1>1, <1>3, <3>1, CallKept DEF IInv, Approved
  <2>3. Acting' = Acting
    BY <1>3 DEF Acting, At, Filling
  <2>4. Charged'
    BY <1>1, <2>3 DEF IInv, Charged
  <2>5. ASSUME NEW d \in Cards PROVE Settled(d)'
    BY <1>1, <1>2, <1>3 DEF IInv, Settled
  <2>6. OneEach'
    BY <1>3 DEF IInv, OneEach, Resolving, At
  <2>7. QED  BY <1>1, <1>3, <2>1, <2>2, <2>4, <2>5, <2>6 DEF IInv
<1>4. CASE call' = [call EXCEPT ![j] = r] /\ approved' = approved \cup {c}
  <2>1. r \in CallRecords
    BY DEF CallRecords, Sessions, IInv, Typed
  <2>2. Typed'
    BY <1>1, <1>2, <1>4, <2>1 DEF IInv, Typed
  <2>3. call'[j] = r /\ \A k \in Calls \ {j} : call'[k] = call[k]
    BY <1>4 DEF IInv, Typed
  <2>4. r.at = "verify" /\ r.do = "resolve" /\ r.card = c
    OBVIOUS
  <2> HIDE DEF r
  <2>5. Placed(j)' /\ Approved(j)' /\ j \notin Acting'
    BY <1>1, <1>4, <2>3, <2>4 DEF Placed, Approved, Holding, Resolving, At, Acting, Filling
  <2>6. ASSUME NEW k \in Calls \ {j} PROVE Placed(k)' /\ Approved(k)'
    <3>1. Holding(k) => lock'[call[k].s] = k /\ page'[call[k].s] = page[call[k].s]
      BY <1>1 DEF IInv, Placed
    <3>2. QED  BY <1>1, <1>4, <2>3, <3>1, CallKept DEF IInv, Approved
  <2>7. Acting' \subseteq Acting
    BY <2>3, <2>5 DEF Acting, At, Filling
  <2>8. Charged'
    BY <1>1, <2>7, ChargeKept DEF IInv, Typed
  <2>9. ASSUME NEW d \in Cards PROVE Settled(d)'
    BY <1>1, <1>2, <1>4 DEF IInv, Settled
  <2>10. OneEach'
    <3>1. \A k \in Calls \ {j} : Resolving(k) => call[k].card # c
      BY <1>1 DEF IInv, Approved
    <3>2. QED  BY <2>3, <2>4, <3>1 DEF IInv, OneEach, Resolving, At
  <2>11. QED
    BY <1>1, <1>4, <2>2, <2>5, <2>6, <2>8, <2>9, <2>10 DEF IInv
<1>5. QED  BY <1>3, <1>4 DEF Resolve, Judge, Start

LEMMA VerifyKeeps ==
    ASSUME IInv, NEW j \in Calls, Verify(j)
    PROVE  IInv'
<1>1. /\ UNCHANGED <<page, docs, lock, card, used, uses, approved, filled, direct, astray, abroad>>
      /\ call[j] \in CallRecords /\ call[j].at = "verify" /\ Resolving(j)
  BY DEF Verify, pages, cards, history, IInv, Typed, At, Resolving
<1>2. /\ uses' \in Nat /\ uses' >= uses /\ direct' = direct /\ direct' \in Nat
      /\ "fillCredential" \notin astray' \cup abroad'
  BY <1>1 DEF IInv, Typed
<1>3. CASE Done(j)
  <2>1. Charged'
    BY <1>2, <1>3, EndCharged DEF Done
  <2>2. QED  BY <1>1, <1>2, <1>3, <2>1, EndQuietly DEF Done
<1>4. CASE Go(j, "fill")
  <2> DEFINE r == [call[j] EXCEPT !.at = "fill"]
  <2>1. r \in CallRecords /\ r.do = call[j].do /\ r.card = call[j].card /\ r.at = "fill"
    BY <1>1 DEF CallRecords
  <2>2. call' = [call EXCEPT ![j] = r]
    BY <1>4 DEF Go, IInv, Typed
  <2>3. call'[j] = r /\ \A k \in Calls \ {j} : call'[k] = call[k]
    BY <2>2 DEF IInv, Typed
  <2> HIDE DEF r
  <2>4. Typed'
    BY <1>1, <2>1, <2>2 DEF IInv, Typed
  <2>5. call[j].card \in approved /\ filled[call[j].card] = 0
    BY <1>1 DEF IInv, Approved
  <2>6. Placed(j)' /\ Approved(j)' /\ j \notin Acting'
    BY <1>1, <2>1, <2>3, <2>5 DEF Placed, Approved, Holding, Resolving, At, Acting, Filling
  <2>7. Acting' \subseteq Acting
    BY <2>3, <2>6 DEF Acting, At, Filling
  <2>8. Charged'
    BY <1>2, <2>7, ChargeKept
  <2>9. \A k \in Calls \ {j} : Holding(k) => lock'[call[k].s] = k /\ page'[call[k].s] = page[call[k].s]
    BY <1>1 DEF IInv, Placed
  <2>10. Resolving(j)' => Resolving(j) /\ call'[j].card = call[j].card
    BY <1>1, <2>1, <2>3
  <2>11. QED
    BY <1>1, <1>2, <2>3, <2>4, <2>6, <2>8, <2>9, <2>10, OneCall
<1>5. QED  BY <1>3, <1>4 DEF Verify

\* The approved fill: no other call resolves its card, so the count is one.
LEMMA FillApprovedKeeps ==
    ASSUME IInv, NEW j \in Calls, FillApproved(j)
    PROVE  IInv'
<1> DEFINE c == call[j].card
<1>1. /\ UNCHANGED <<page, docs, lock, card, used, uses, approved, direct>>
      /\ Done(j) /\ Resolving(j) /\ c \in approved /\ filled[c] = 0
  BY DEF FillApproved, pages, cards, IInv, Approved, Resolving
<1>2. /\ uses' \in Nat /\ uses' >= uses /\ direct' = direct /\ direct' \in Nat
  BY <1>1 DEF IInv, Typed
<1>3. "fillCredential" \notin astray' \cup abroad'
  BY DEF FillApproved, Touches, IInv
<1>4. Charged'
  BY <1>1, <1>2, EndCharged DEF Done
<1>5. CASE UNCHANGED filled
  BY <1>1, <1>2, <1>3, <1>4, <1>5, EndQuietly DEF Done
<1>6. CASE filled' = [filled EXCEPT ![c] = @ + 1]
  <2>1. Typed'
    BY <1>1, <1>6 DEF Done, IInv, Typed
  <2>2. call'[j] = None /\ \A k \in Calls \ {j} : call'[k] = call[k]
    BY <1>1 DEF Done, IInv, Typed
  <2>3. Placed(j)' /\ Approved(j)' /\ ~Resolving(j)'
    BY <2>2 DEF Placed, Approved, Holding, Resolving, At
  <2>4. ASSUME NEW k \in Calls \ {j} PROVE Placed(k)' /\ Approved(k)'
    <3>1. Holding(k) => lock'[call[k].s] = k /\ page'[call[k].s] = page[call[k].s]
      BY <1>1 DEF IInv, Placed
    <3>2. Resolving(k) => call[k].card # c
      BY <1>1 DEF IInv, OneEach
    <3>3. Resolving(k) => filled'[call[k].card] = 0
      BY <1>6, <3>2 DEF IInv, Approved, Typed
    <3>4. QED  BY <1>1, <2>2, <3>1, <3>3, CallKept
  <2>5. ASSUME NEW d \in Cards PROVE Settled(d)'
    BY <1>1, <1>6 DEF IInv, Settled, Typed
  <2>6. OneEach'
    BY <2>2, <2>3 DEF IInv, OneEach, Resolving, At
  <2>7. QED  BY <1>1, <1>3, <1>4, <2>1, <2>3, <2>4, <2>5, <2>6 DEF IInv
<1>7. QED  BY <1>5, <1>6 DEF FillApproved

\* Every step keeps the inductive invariant.
LEMMA NextIInv == IInv /\ [Next]_vars => IInv'
<1> SUFFICES ASSUME IInv, [Next]_vars PROVE IInv'
  OBVIOUS
<1>1. docs' = docs /\ page' = page
      => docs' \in Nat /\ page' \in [Sessions -> Pages] /\ \A s \in Sessions : page'[s] = page[s]
  BY DEF IInv, Typed
<1>2. ASSUME NEW s \in Sessions, Observe(s) PROVE IInv'
  BY <1>1, <1>2, PagesMove DEF Observe, cards
<1>3. ASSUME NEW c \in Cards, Expire(c) PROVE IInv'
  BY <1>1, <1>3, PagesMove DEF Expire, pages
<1>4. CASE UNCHANGED vars
  BY <1>1, <1>4, PagesMove DEF vars, pages, cards
<1>5. ASSUME Next PROVE IInv'
  BY <1>2, <1>3, <1>5, NavigateKeeps, RequestKeeps, ValidateKeeps, PassGateKeeps,
     AuthorizeGrantedKeeps, AuthorizeDeniesKeeps, AuthorizeAsksKeeps, ActKeeps, ResolveKeeps,
     VerifyKeeps, FillApprovedKeeps DEF Next
<1>6. QED  BY <1>4, <1>5

\* The inductive invariant holds in every reachable state.
THEOREM Invariance == Spec => []IInv
BY InitIInv, NextIInv, PTL DEF Spec

\* However approvals, timeouts and second answers race, a card fills at most once and
\* only by an approval that came in time (resolve_confirmation, take).
THEOREM ResolvedOnce == Spec => []CardsResolveOnce
BY Invariance, IInvImplies, PTL

\* However long a fillCredential waits for its session and its grant, it fills the
\* document it validated, at an allowed origin, and each fill is charged
\* (fill_credential, authorize_use).
THEOREM FilledWhereValidated == Spec => []FillsWhereValidated
BY Invariance, IInvImplies, PTL
-----------------------------------------------------------------------------
(* Types *)

\* Who has a session locked is at work on it.
Works(s, j) == call[j] # None /\ call[j].s = s /\ call[j].at \in {"gate", "authorize", "act"}
Held == \A s \in Sessions, j \in Calls : lock[s] = j => Works(s, j)
Bounded == docs \in Docs /\ refs \subseteq Docs /\ late \subseteq used /\ uses \in 0..MaxUses

TInv == IInv /\ Held /\ Bounded

\* A step of one call, which has at most the session it works on locked.
LEMMA HeldStep ==
    ASSUME TInv, NEW j \in Calls, \A k \in Calls \ {j} : call'[k] = call[k],
           \A s \in Sessions : lock'[s] = lock[s] \/ lock'[s] \in {None, j},
           \A s \in Sessions : lock'[s] = j => Works(s, j)'
    PROVE  Held'
BY NoneAssumption DEF TInv, Held, Works

\* A call that ends gives back what it has locked.
LEMMA HeldEnds ==
    ASSUME TInv, NEW j \in Calls, Done(j), (UNCHANGED lock /\ ~Holding(j)) \/ Release(j)
    PROVE  Held'
<1>1. /\ call'[j] = None /\ \A k \in Calls \ {j} : call'[k] = call[k]
      /\ lock \in [Sessions -> Calls \cup {None}]
  BY DEF Done, TInv, IInv, Typed
<1>2. ASSUME NEW s \in Sessions PROVE lock'[s] # j /\ lock'[s] \in {lock[s], None}
  <2>1. lock[s] = j => call[j].s = s /\ Holding(j)
    BY DEF TInv, Held, Works, Holding, At
  <2>2. QED  BY <1>1, <2>1, NoneAssumption DEF Release
<1>3. QED  BY <1>1, <1>2, HeldStep

\* A call that goes on in its session with what it has locked.
LEMMA HeldGoes ==
    ASSUME TInv, NEW j \in Calls, NEW at \in {"act", "fill"}, Go(j, at), UNCHANGED lock, call[j] # None,
           ~Holding(j) \/ at = "act"
    PROVE  Held'
<1>1. /\ call'[j].at = at /\ call'[j].s = call[j].s /\ call'[j] # None
      /\ \A k \in Calls \ {j} : call'[k] = call[k]
  <2>1. call[j] \in CallRecords /\ call' = [call EXCEPT ![j] = [call[j] EXCEPT !.at = at]]
    BY DEF Go, TInv, IInv, Typed
  <2>2. [call[j] EXCEPT !.at = at] # None
    BY <2>1, NoneAssumption DEF CallRecords
  <2>3. QED  BY <2>1, <2>2 DEF TInv, IInv, Typed, CallRecords
<1>2. ASSUME NEW s \in Sessions, lock[s] = j PROVE Works(s, j)'
  BY <1>1, <1>2 DEF TInv, Held, Works, Holding, At
<1>3. QED  BY <1>1, <1>2, HeldStep

LEMMA HeldKept == TInv /\ Next => Held'
<1> SUFFICES ASSUME TInv, Next PROVE Held'
  OBVIOUS
<1>1. ASSUME UNCHANGED <<lock, call>> PROVE Held'
  BY <1>1 DEF TInv, Held, Works
<1>2. ASSUME NEW s \in Sessions, Observe(s) \/ \E o \in Origins : Navigate(s, o) PROVE Held'
  BY <1>1, <1>2 DEF Observe, Navigate
<1>3. ASSUME NEW c \in Cards, Expire(c) PROVE Held'
  BY <1>1, <1>3 DEF Expire
<1>4. ASSUME NEW j \in Calls, Free(j), UNCHANGED lock, \A k \in Calls \ {j} : call'[k] = call[k]
      PROVE  Held'
  BY <1>4, HeldStep DEF TInv, Held, Works, Free
<1>5. ASSUME NEW j \in Calls, NEW s \in Agents, NEW do \in Methods, NEW ref \in Docs,
             Request(j, do, s, ref)
      PROVE  Held'
  <2>1. Free(j) /\ UNCHANGED lock /\ \A k \in Calls \ {j} : call'[k] = call[k]
    BY <1>5 DEF Request, Start, TInv, IInv, Typed
  <2>2. QED  BY <1>4, <2>1
<1>6. ASSUME NEW j \in Calls, NEW v \in Viewers, NEW c \in Cards, NEW yes \in BOOLEAN,
             Resolve(j, v, c, yes)
      PROVE  Held'
  <2>1. Free(j) /\ UNCHANGED lock /\ \A k \in Calls \ {j} : call'[k] = call[k]
    BY <1>6 DEF Resolve, Judge, Start, TInv, IInv, Typed
  <2>2. QED  BY <1>4, <2>1
<1>7. ASSUME NEW j \in Calls, Validate(j) PROVE Held'
  <2>1. At(j, "wait") /\ ~Holding(j) /\ call[j] \in CallRecords
    BY <1>7 DEF Validate, Holding, At, TInv, IInv, Typed
  <2>2. CASE Done(j) /\ UNCHANGED lock
    BY <2>1, <2>2, HeldEnds
  <2>3. CASE Validated(j) /\ lock' = [lock EXCEPT ![call[j].s] = j]
    <3> DEFINE r == [call[j] EXCEPT !.saw = page[call[j].s],
                                    !.at = IF call[j].do = "fillCredential" THEN "authorize" ELSE "gate"]
    <3>1. page[call[j].s] \in Pages /\ call[j].s \in Sessions
      BY <2>1 DEF CallRecords, TInv, IInv, Typed
    <3>2. r \in CallRecords /\ r # None /\ r.s = call[j].s /\ r.at \in {"gate", "authorize"}
      BY <2>1, <3>1, NoneAssumption DEF CallRecords
    <3>3. call' = [call EXCEPT ![j] = r]
      BY <2>3 DEF Validated, TInv, IInv, Typed
    <3> HIDE DEF r
    <3>4. call'[j] = r /\ \A k \in Calls \ {j} : call'[k] = call[k]
      BY <3>3 DEF TInv, IInv, Typed
    <3>5. ASSUME NEW s \in Sessions PROVE lock'[s] = lock[s] \/ (lock'[s] = j /\ s = call[j].s)
      BY <2>3 DEF TInv, IInv, Typed
    <3>6. ASSUME NEW s \in Sessions, lock'[s] = j PROVE Works(s, j)'
      <4>1. lock[s] # j
        BY <2>1 DEF TInv, Held, Works, At
      <4>2. QED  BY <3>2, <3>4, <3>5, <3>6, <4>1 DEF Works
    <3>7. QED  BY <3>4, <3>5, <3>6, HeldStep
  <2>4. QED  BY <1>7, <2>2, <2>3 DEF Validate
<1>8. ASSUME NEW j \in Calls, call[j] # None, Go(j, "act") /\ UNCHANGED lock PROVE Held'
  BY <1>8, HeldGoes
<1>9. ASSUME NEW j \in Calls, PassGate(j) \/ AuthorizeGranted(j) PROVE Held'
  BY <1>8, <1>9, HeldEnds DEF PassGate, AuthorizeGranted, At
<1>10. ASSUME NEW j \in Calls,
              AuthorizeDenies(j) \/ (\E c \in Cards : AuthorizeAsks(j, c)) \/ Act(j)
       PROVE  Held'
  <2>1. Done(j) /\ Release(j)
    BY <1>10 DEF AuthorizeDenies, AuthorizeAsks, Act
  <2>2. QED  BY <2>1, HeldEnds
<1>11. ASSUME NEW j \in Calls, Verify(j) \/ FillApproved(j) PROVE Held'
  <2>1. UNCHANGED lock /\ call[j] # None /\ ~Holding(j) /\ (Go(j, "fill") \/ Done(j))
    BY <1>11 DEF Verify, FillApproved, Holding, At
  <2>2. QED  BY <2>1, HeldGoes, HeldEnds
<1>12. QED
  BY <1>2, <1>3, <1>5, <1>6, <1>7, <1>9, <1>10, <1>11 DEF Next

LEMMA BoundedKept == TInv /\ Next => Bounded'
<1> SUFFICES ASSUME TInv, Next PROVE Bounded'
  OBVIOUS
<1>1. /\ docs \in Docs /\ refs \subseteq Docs /\ late \subseteq used /\ uses \in 0..MaxUses
      /\ page \in [Sessions -> Pages] /\ MaxDoc \in Nat /\ MaxUses \in Nat
  BY BoundsAssumption DEF TInv, IInv, Typed, Bounded
<1>2. ASSUME UNCHANGED refs, docs' \in Docs, UNCHANGED <<cards, uses>> PROVE Bounded'
  BY <1>1, <1>2 DEF Bounded, cards
<1>3. ASSUME NEW s \in Sessions, NEW o \in Origins, Loads(s, o) PROVE docs' \in Docs
  BY <1>1, <1>3 DEF Loads, Docs
<1>4. ASSUME NEW s \in Sessions, NEW o \in Origins, Navigate(s, o) PROVE Bounded'
  BY <1>2, <1>3, <1>4 DEF Navigate
<1>5. ASSUME NEW s \in Sessions, Observe(s) PROVE Bounded'
  <2>1. page[s].doc \in Docs
    BY <1>1 DEF Pages
  <2>2. QED  BY <1>1, <1>5, <2>1 DEF Observe, Bounded, cards
<1>6. ASSUME NEW j \in Calls, PassGate(j) PROVE Bounded'
  <2>1. call[j].s \in Sessions
    BY <1>6 DEF PassGate, At, TInv, IInv, Typed, CallRecords
  <2>2. docs' \in Docs
    BY <1>1, <1>3, <1>6, <2>1 DEF PassGate
  <2>3. QED  BY <1>2, <1>6, <2>2 DEF PassGate
<1>7. ASSUME NEW j \in Calls, AuthorizeGranted(j) \/ AuthorizeDenies(j) PROVE Bounded'
  <2>1. UNCHANGED <<pages, cards>> /\ uses' \in {uses, uses + 1} /\ uses' <= MaxUses
    BY <1>1, <1>7 DEF AuthorizeGranted, AuthorizeDenies
  <2>2. QED  BY <1>1, <2>1 DEF Bounded, pages, cards
<1>8. ASSUME NEW c \in Cards,
             \/ Expire(c) \/ \E j \in Calls : AuthorizeAsks(j, c)
             \/ \E j \in Calls, v \in Viewers, yes \in BOOLEAN : Resolve(j, v, c, yes)
      PROVE  Bounded'
  <2>1. UNCHANGED <<docs, refs, uses>> /\ late' \subseteq used'
    BY <1>1, <1>8 DEF Expire, AuthorizeAsks, Resolve, pages
  <2>2. QED  BY <1>1, <2>1 DEF Bounded
<1>9. ASSUME NEW j \in Calls,
             \/ \E s \in Agents, do \in Methods : \E ref \in Docs : Request(j, do, s, ref)
             \/ Validate(j) \/ Act(j) \/ Verify(j) \/ FillApproved(j)
      PROVE  Bounded'
  <2>1. UNCHANGED <<pages, cards, uses>>
    BY <1>9 DEF Request, Validate, Act, Verify, FillApproved
  <2>2. QED  BY <1>1, <1>2, <2>1 DEF pages
<1>10. QED
  BY <1>4, <1>5, <1>6, <1>7, <1>8, <1>9 DEF Next

LEMMA NextTInv == TInv /\ [Next]_vars => TInv'
<1> SUFFICES ASSUME TInv, [Next]_vars PROVE TInv'
  OBVIOUS
<1>1. CASE Next
  BY <1>1, NextIInv, HeldKept, BoundedKept DEF TInv
<1>2. CASE UNCHANGED vars
  <2>1. IInv'
    BY <1>2, NextIInv DEF TInv
  <2>2. QED  BY <1>2, <2>1 DEF TInv, Held, Works, Bounded, vars, pages, cards
<1>3. QED  BY <1>1, <1>2

LEMMA InitTInv == Init => TInv
<1> SUFFICES ASSUME Init PROVE TInv
  OBVIOUS
<1>1. Held
  BY NoneAssumption DEF Init, Held
<1>2. Bounded
  BY BoundsAssumption DEF Init, Bounded
<1>3. QED  BY <1>1, <1>2, InitIInv DEF TInv

\* A session is locked by a call that is at work on it and by no call that has ended,
\* for any number of calls (resolve_and_validate, fill_credential).
THEOREM TypeCorrect == Spec => []TypeOK
<1>1. TInv => TypeOK
  BY DEF TInv, IInv, Typed, Held, Works, Bounded, TypeOK
<1>2. TInv /\ [Next]_vars => TInv'
  BY NextTInv
<1>3. QED  BY <1>1, <1>2, InitTInv, PTL DEF Spec
=============================================================================
