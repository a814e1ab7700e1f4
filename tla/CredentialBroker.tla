-------------------------- MODULE CredentialBroker --------------------------
(***************************************************************************)
(* Acting on an element through a ref, and the injection of credentials    *)
(* (cdp/domains/oxi.rs, cdp/credential.rs, cdp/refs.rs, and the tokens of  *)
(* credentials/policy.rs).  An agent's call validates its ref and acts     *)
(* under the write lock of its session.  When no grant covers a            *)
(* fillCredential, a confirmation card is put up, and a viewer answers it  *)
(* on a session of its own.                                                *)
(*                                                                         *)
(* A document is named by Page::generation, which one counter of the       *)
(* process hands out; a change of the document counts as a new one.  There *)
(* is one credential.  The page's own scripts may change an element, so    *)
(* that a ref of the present document may still be found stale.            *)
(***************************************************************************)
EXTENDS Naturals, FiniteSets

CONSTANTS Agents,    \* sessions of agents
          Viewers,   \* sessions of viewers
          Origins,   \* origins of pages
          Allowed,   \* allowed_origins of the credential
          Denied,    \* origins of the deny rules
          Cards,     \* request ids
          Calls,     \* commands in flight
          MaxDoc,    \* bound: documents
          MaxUses,   \* bound: uses the consent store grants
          None       \* no card, no call

ASSUME OriginsAssumption == Allowed \subseteq Origins /\ Denied \subseteq Origins
ASSUME BoundsAssumption == MaxDoc \in Nat /\ MaxUses \in Nat
ASSUME CallsAssumption == IsFiniteSet(Calls)

Sessions == Agents \cup Viewers
Docs == 0..MaxDoc
Pages == [doc : Docs, origin : Origins]

\* A call: its method and where it stands, its session, the document of its ref, the
\* page it has looked at and the card it is for.
Methods == {"clickRef", "fillCredential"}
CallRecords ==
    [do : Methods \cup {"resolve"}, at : {"wait", "gate", "authorize", "act", "verify", "fill"},
     s : Sessions, ref : Docs \cup {None}, saw : Pages \cup {None}, card : Cards \cup {None}]

ASSUME NoneAssumption == None \notin Calls \cup CallRecords

VARIABLES page,     \* the document of each session and its origin
          docs,     \* GLOBAL_DOC_GENERATION
          refs,     \* RefRegistry: the documents some session has refs of
          lock,     \* who holds the write lock of each session
          card,     \* pending: the page each card was put up for, or None
          used,     \* the request ids handed out so far
          late,     \* cards past their deadline
          call,     \* what each call is doing, or None
          uses,     \* uses the consent store has counted
          approved, \* history: cards a viewer approved before their deadline
          filled,   \* history: credentials filled for each card
          direct,   \* history: credentials filled without a card
          astray,   \* history: the ways a document not looked at was touched
          abroad    \* history: the ways a credential was filled at a wrong origin

pages == <<page, docs, refs>>
cards == <<card, used, late>>
history == <<approved, filled, direct, astray, abroad>>
vars == <<pages, lock, cards, call, uses, history>>

\* Every session has a document of its own.
Init ==
    /\ docs \in Docs
    /\ page \in [Sessions -> [doc : 0..docs, origin : Origins]]
    /\ \A s, t \in Sessions : page[s].doc = page[t].doc => s = t
    /\ \A d \in 0..docs : \E s \in Sessions : page[s].doc = d
    /\ refs = {}
    /\ lock = [s \in Sessions |-> None]
    /\ card = [c \in Cards |-> None] /\ used = {} /\ late = {}
    /\ call = [j \in Calls |-> None]
    /\ uses = 0
    /\ approved = {} /\ filled = [c \in Cards |-> 0] /\ direct = 0
    /\ astray = {} /\ abroad = {}

Free(j) == call[j] = None
At(j, at) == call[j] # None /\ call[j].at = at
Go(j, at) == call' = [call EXCEPT ![j].at = at]
Done(j) == call' = [call EXCEPT ![j] = None]

\* A call begins, with the card it is for if it resolves one.
Start(j, do, at, s, ref, saw, c) ==
    call' = [call EXCEPT ![j] = [do |-> do, at |-> at, s |-> s, ref |-> ref, saw |-> saw, card |-> c]]

Release(j) == lock' = [lock EXCEPT ![call[j].s] = None]

\* The session of a call has a new document.
Loads(s, o) ==
    /\ docs < MaxDoc
    /\ docs' = docs + 1
    /\ page' = [page EXCEPT ![s] = [doc |-> docs + 1, origin |-> o]]

\* The call touches the page of its session, whatever that is by now.
Touches(j, how) ==
    LET on == page[call[j].s] IN
    /\ astray' = IF on = call[j].saw THEN astray ELSE astray \cup {how}
    /\ abroad' = IF how = "clickRef" \/ on.origin \in Allowed \ Denied THEN abroad ELSE abroad \cup {how}
-----------------------------------------------------------------------------
(* Pages *)

\* A navigation, or a script that changes the document, under the lock.
Navigate(s, o) ==
    /\ lock[s] = None
    /\ Loads(s, o)
    /\ UNCHANGED <<refs, lock, cards, call, uses, history>>

\* getInteractiveElements and ariaSnapshot issue refs of the present document.
Observe(s) ==
    /\ lock[s] = None
    /\ refs' = refs \cup {page[s].doc}
    /\ UNCHANGED <<page, docs, lock, cards, call, uses, history>>
-----------------------------------------------------------------------------
(* Calls of agents: clickRef, with fillRef, and fillCredential *)

\* sessionKey may name another session, whose refs are of other documents.
Request(j, do, s, ref) ==
    /\ Free(j) /\ ref \in refs
    /\ Start(j, do, "wait", s, ref, None, None)
    /\ UNCHANGED <<pages, lock, cards, uses, history>>

Valid(j) ==
    LET p == page[call[j].s] IN
    call[j].ref = p.doc /\ (call[j].do = "fillCredential" => p.origin \in Allowed)

Validated(j) ==
    call' = [call EXCEPT ![j].saw = page[call[j].s],
                         ![j].at = IF call[j].do = "fillCredential" THEN "authorize" ELSE "gate"]

\* Variant: the lock is given back once the ref has been validated.
ValidateAndRelease(j) ==
    /\ At(j, "wait") /\ lock[call[j].s] = None
    /\ (Valid(j) /\ Validated(j)) \/ Done(j)
    /\ UNCHANGED <<pages, lock, cards, uses, history>>

\* Variant: the lock stays taken when the ref is stale.
ValidateAndKeep(j) ==
    /\ At(j, "wait") /\ lock[call[j].s] = None
    /\ lock' = [lock EXCEPT ![call[j].s] = j]
    /\ (Valid(j) /\ Validated(j)) \/ Done(j)
    /\ UNCHANGED <<pages, cards, uses, history>>

\* resolve_and_validate, and for a credential its allowlist.
Validate(j) ==
    /\ At(j, "wait") /\ lock[call[j].s] = None
    /\ \/ Valid(j) /\ Validated(j) /\ lock' = [lock EXCEPT ![call[j].s] = j]
       \/ Done(j) /\ UNCHANGED lock
    /\ UNCHANGED <<pages, cards, uses, history>>

\* irreversible_gate and the password check evaluate a script, which runs the timers
\* that are due and carries out a navigation the page has asked for.
PassGate(j) ==
    LET s == call[j].s IN
    /\ At(j, "gate")
    /\ UNCHANGED <<page, docs>> \/ (\E o \in Origins : Loads(s, o))
    /\ \/ Go(j, "act") /\ UNCHANGED lock
       \/ Done(j) /\ Release(j)
    /\ UNCHANGED <<refs, cards, uses, history>>

\* authorize_use: a deny rule refuses, a grant is charged ...
AuthorizeGranted(j) ==
    /\ At(j, "authorize") /\ call[j].saw.origin \notin Denied
    /\ uses < MaxUses /\ uses' = uses + 1
    /\ Go(j, "act")
    /\ UNCHANGED <<pages, lock, cards, history>>

\* ... and without one a card is registered and the call answers consentRequired.
AuthorizeAsks(j, c) ==
    /\ At(j, "authorize") /\ call[j].saw.origin \notin Denied
    /\ c \notin used /\ used' = used \cup {c}
    /\ card' = [card EXCEPT ![c] = call[j].saw]
    /\ Done(j) /\ Release(j)
    /\ UNCHANGED <<pages, late, uses, history>>

\* Denied, or the use could not be saved, after it was counted or before.
AuthorizeDenies(j) ==
    /\ At(j, "authorize")
    /\ uses' \in {uses, uses + 1} /\ uses' <= MaxUses
    /\ Done(j) /\ Release(j)
    /\ UNCHANGED <<pages, cards, history>>

\* The click or the fill by the selector of the ref; or the credential cannot be
\* resolved.
Act(j) ==
    /\ At(j, "act")
    /\ \/ /\ Touches(j, call[j].do)
          /\ direct' = IF call[j].do = "fillCredential" THEN direct + 1 ELSE direct
       \/ UNCHANGED <<direct, astray, abroad>>
    /\ Done(j) /\ Release(j)
    /\ UNCHANGED <<pages, cards, uses, approved, filled>>
-----------------------------------------------------------------------------
(* Cards *)

Expire(c) ==
    /\ c \in used \ late
    /\ late' = late \cup {c}
    /\ UNCHANGED <<pages, lock, card, used, call, uses, history>>

\* An answer counts when it approves a card that has not expired.
Judge(j, v, c, yes) ==
    IF yes /\ c \notin late
    THEN /\ Start(j, "resolve", "verify", v, None, card[c], c)
         /\ approved' = approved \cup {c}
    ELSE UNCHANGED <<call, approved>>

\* Variant: the card is read and left where it is.
ResolveKeeping(j, v, c, yes) ==
    /\ Free(j) /\ card[c] # None /\ filled[c] < 2
    /\ Judge(j, v, c, yes)
    /\ UNCHANGED <<pages, lock, cards, uses, filled, direct, astray, abroad>>

\* resolveConfirmation: take removes the card; when that has expired it counts as
\* missing, and every other one that has expired goes with it.
Resolve(j, v, c, yes) ==
    /\ Free(j) /\ card[c] # None
    /\ Judge(j, v, c, yes)
    /\ card' = [d \in Cards |-> IF d = c \/ {c, d} \subseteq late THEN None ELSE card[d]]
    /\ UNCHANGED <<pages, lock, used, late, uses, filled, direct, astray, abroad>>

\* verify_confirmation, once the viewer's session can be read.  The token, which has
\* a deadline of its own, is compared with the very request it was minted from.
Verify(j) ==
    /\ At(j, "verify") /\ lock[call[j].s] = None
    /\ Go(j, "fill") \/ Done(j)
    /\ UNCHANGED <<pages, lock, cards, uses, history>>

\* The fill waits for the viewer's own session and runs there.
FillApproved(j) ==
    /\ At(j, "fill") /\ lock[call[j].s] = None
    /\ \/ Touches(j, "approved") /\ filled' = [filled EXCEPT ![call[j].card] = @ + 1]
       \/ UNCHANGED <<filled, astray, abroad>>
    /\ Done(j)
    /\ UNCHANGED <<pages, lock, cards, uses, approved, direct>>

Next ==
    \/ \E s \in Sessions : Observe(s) \/ \E o \in Origins : Navigate(s, o)
    \/ \E j \in Calls, s \in Agents, do \in Methods : \E ref \in Docs : Request(j, do, s, ref)
    \/ \E j \in Calls : Validate(j) \/ PassGate(j) \/ AuthorizeGranted(j) \/ AuthorizeDenies(j)
    \/ \E j \in Calls : Act(j) \/ Verify(j) \/ FillApproved(j)
    \/ \E j \in Calls, c \in Cards : AuthorizeAsks(j, c)
    \/ \E j \in Calls, v \in Viewers, c \in Cards, yes \in BOOLEAN : Resolve(j, v, c, yes)
    \/ \E c \in Cards : Expire(c)

Spec == Init /\ [][Next]_vars
-----------------------------------------------------------------------------
(* Properties *)

\* Type invariant; a session is locked by a call that is past its validation, and by
\* no call that has ended.
TypeOK ==
    /\ page \in [Sessions -> Pages] /\ docs \in Docs
    /\ refs \subseteq Docs
    /\ lock \in [Sessions -> Calls \cup {None}]
    /\ card \in [Cards -> Pages \cup {None}]
    /\ used \subseteq Cards /\ late \subseteq used /\ approved \subseteq used
    /\ call \in [Calls -> CallRecords \cup {None}]
    /\ uses \in 0..MaxUses /\ direct \in Nat /\ filled \in [Cards -> Nat]
    /\ \A s \in Sessions, j \in Calls :
          lock[s] = j => call[j] # None /\ call[j].s = s /\ call[j].at \in {"gate", "authorize", "act"}

\* A card resolves at most once, by the approval of a viewer that came before its
\* deadline: no timeout and no second answer fills a credential (take).
CardsResolveOnce ==
    \A c \in Cards : filled[c] > 0 => filled[c] = 1 /\ c \in approved /\ card[c] = None

\* However long a fillCredential waited and whatever was navigated meanwhile, it fills
\* the document its ref was validated against, at an origin of the credential that no
\* deny rule names, and for each such fill a use has been counted.
FillsWhereValidated == "fillCredential" \notin astray \cup abroad /\ direct <= uses

(* Statements TLC refutes; see the README. *)

\* A click lands on the document its ref was validated against (clickRef, fillRef).
ClicksWhereValidated == "clickRef" \notin astray

\* An approved fill lands on the page the card was put up for (PendingConfirmation:
\* any change voids the approval).
FillsWhereApproved == "approved" \notin astray

\* An approved fill lands on an origin of the credential.
FillsAtItsOrigin == "approved" \notin abroad
=============================================================================
