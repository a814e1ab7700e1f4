---------------------------- MODULE PageSession ----------------------------
(***************************************************************************)
(* A session and its JS thread (core/session.rs, core/js/runtime.rs):      *)
(* navigation and its history, the injection of a document, the journal    *)
(* of navigations that scripts ask for, timers, and localStorage with the  *)
(* thread that carries its writes to the context.                          *)
(*                                                                         *)
(* A command holds the session; one that a script asked for runs inside    *)
(* the command that drains the journal, so the commands in progress form a *)
(* stack.  An action of the interactive session is given up after three    *)
(* seconds wherever it then is.  Every URL is of an origin of its own;     *)
(* localStorage has one key and a write is known by its number.            *)
(***************************************************************************)
EXTENDS Naturals, Sequences, FiniteSets

CONSTANTS Urls,      \* URLs
          Local,     \* about: and data: URLs, loaded without a fetch
          MaxDocs,   \* bound: documents loaded
          MaxWrites, \* bound: writes to localStorage
          MaxAsks,   \* bound: navigations in the journal
          MaxTimers, \* bound: documents with a timer
          None       \* no page, no URL, no localStorage

Documents == [url : Urls \cup {None}, doc : 0..MaxDocs]

ASSUME LocalAssumption == Local \subseteq Urls
ASSUME BoundsAssumption == MaxDocs \in Nat /\ {MaxWrites, MaxAsks, MaxTimers} \subseteq Nat
ASSUME NoneAssumption == None \notin Urls \cup Documents

VARIABLES page,     \* active_page: its URL and its number, or None
          history,  \* history
          index,    \* history_index
          docs,     \* documents loaded so far
          op,       \* the commands in progress, the innermost first
          busy,     \* the JS thread is at a command
          live,     \* the document of the JS thread
          site,     \* the URL the JS thread has for window and localStorage, or None
          map,      \* the JS thread's localStorage: its last write, or None
          timers,   \* documents with a timer that has not fired
          journal,  \* mutations: navigations that scripts have asked for
          box,      \* localStorage messages on their way
          bucket,   \* the context's localStorage: the last write of each origin
          strayed,  \* history: a failed back or forward has moved the index
          lost,     \* history: the last injection was not completed
          late,     \* history: the last drain barrier timed out
          torn,     \* history: an action was given up while its script ran
          reset,    \* history: an evaluation has timed out since the last SetPageUrl
          outlived, \* history: a timer, or a document left in place, has written
                    \* after its page was gone
          last      \* history: the last write made for each origin

session == <<page, history, index, docs, op>>
thread == <<busy, live, site, map, timers, journal>>
storage == <<box, bucket>>
flags == <<strayed, lost, late, torn, reset, outlived, last>>
sessionVars == <<session, thread, storage, flags>>

Frame(do, at, u) == [do |-> do, at |-> at, url |-> u, list |-> <<>>, seed |-> 0, late |-> FALSE]

NoCommand == op = <<>>
Top == Head(op)
At(at) == op # <<>> /\ Top.at = at
Advances(at) == op' = [op EXCEPT ![1].at = at]
Returns == op' = Tail(op)

\* navigate: about: and data: are loaded locally, everything else is fetched.
Navigation(do, u) == Frame(do, IF do = "navigate" /\ u \in Local THEN "load" ELSE "fetch", u)

SessionInit ==
    /\ page = None /\ history = <<>> /\ index = 0 /\ docs = 0 /\ op = <<>>
    /\ busy = FALSE /\ live = [url |-> None, doc |-> 0] /\ site = None /\ map = None
    /\ timers = {} /\ journal = <<>>
    /\ box = <<>> /\ bucket = [u \in Urls |-> [n |-> 0, by |-> u]]
    /\ strayed = FALSE /\ lost = FALSE /\ late = FALSE /\ torn = FALSE /\ reset = FALSE
    /\ outlived = FALSE
    /\ last = [u \in Urls |-> 0]
-----------------------------------------------------------------------------
(* Commands *)

Goto(do, u) ==
    /\ NoCommand
    /\ op' = <<Navigation(do, u)>>
    /\ UNCHANGED <<page, history, index, docs, thread, storage, flags>>

\* Variant: the index moves once the page has come, and is checked as before.
GoBackInPlace ==
    /\ NoCommand /\ history # <<>> /\ index > 0
    /\ op' = <<Frame("back", "fetch", history[index])>>
    /\ UNCHANGED <<page, history, index, docs, thread, storage, flags>>

\* go_back and go_forward move the index before they fetch.
GoBack ==
    /\ NoCommand /\ history # <<>> /\ index > 0
    /\ index' = index - 1
    /\ op' = <<Frame("back", "fetch", history[index])>>
    /\ UNCHANGED <<page, history, docs, thread, storage, flags>>

GoForward ==
    /\ NoCommand /\ index + 1 < Len(history)
    /\ index' = index + 1
    /\ op' = <<Frame("forward", "fetch", history[index + 2])>>
    /\ UNCHANGED <<page, history, docs, thread, storage, flags>>

\* go_forward without a history takes one from zero.  A build that checks for overflow
\* panics there, one that does not moves the index and panics at the lookup.
GoForwardFromNothing ==
    /\ NoCommand /\ history = <<>> /\ index = 0
    /\ index' = 1
    /\ UNCHANGED <<page, history, docs, op, thread, storage, flags>>

Reload ==
    /\ NoCommand /\ page # None
    /\ op' = <<Frame("reload", "fetch", page.url)>>
    /\ UNCHANGED <<page, history, index, docs, thread, storage, flags>>

\* evaluate_js: run_eval clears the journal before it runs the expression.
Evaluate ==
    /\ NoCommand /\ ~busy
    /\ op' = <<Frame("evaluate", "scripts", None)>>
    /\ busy' = TRUE /\ journal' = <<>>
    /\ UNCHANGED <<page, history, index, docs, live, site, map, timers, storage, flags>>

\* native_act, through the guard of the interactive session.
NativeAct ==
    /\ NoCommand /\ ~busy
    /\ op' = <<Frame("act", "scripts", None)>>
    /\ busy' = TRUE
    /\ UNCHANGED <<page, history, index, docs, live, site, map, timers, journal, storage, flags>>
-----------------------------------------------------------------------------
(* Loading *)

\* An error, or a status from 400 on, ends the command and all it runs in.
FetchFails ==
    /\ At("fetch")
    /\ op' = <<>>
    /\ strayed' = (strayed \/ Top.do \in {"back", "forward"})
    /\ UNCHANGED <<page, history, index, docs, thread, storage, lost, late, torn, reset, outlived, last>>

\* An attachment is saved; the page stays.
Downloads ==
    /\ At("fetch") /\ Top.do = "navigate"
    /\ Returns
    /\ UNCHANGED <<page, history, index, docs, thread, storage, flags>>

\* Where a load ends up: a redirect may lead elsewhere, which a history step ignores.
Final(f) ==
    IF f.at = "fetch" /\ f.do \in {"navigate", "post"} THEN Urls \ Local
    ELSE IF f.at = "fetch" THEN {f.url} \ Local
    ELSE {f.url}

\* Variant: the index is the length.
PushPastTheEnd(u) ==
    /\ history' = Append(IF history = <<>> THEN <<>> ELSE SubSeq(history, 1, index + 1), u)
    /\ index' = Len(history')

\* What is ahead in the history is dropped.
Push(u) ==
    /\ history' = Append(IF history = <<>> THEN <<>> ELSE SubSeq(history, 1, index + 1), u)
    /\ index' = Len(history') - 1

\* The page is replaced; only navigate and post enter it in the history.
Opens(u) ==
    /\ op # <<>> /\ Top.at \in {"fetch", "load"} /\ u \in Final(Top)
    /\ docs < MaxDocs /\ docs' = docs + 1
    /\ page' = [url |-> u, doc |-> docs + 1]
    /\ IF Top.do \in {"navigate", "post"}
       THEN Push(u)
       ELSE UNCHANGED <<history, index>>
    /\ strayed' = (strayed /\ Top.do = "reload")
    /\ lost' = TRUE
    /\ op' = [op EXCEPT ![1].at = "seed", ![1].url = u]
    /\ UNCHANGED <<thread, storage, late, torn, reset, outlived, last>>

\* inject_dom_snapshot: the drain barrier is answered when every write before it has
\* been applied, or times out; then the bucket of the page's origin is read.
Seed ==
    /\ At("seed")
    /\ op' = [op EXCEPT ![1].at = "locate", ![1].seed = bucket[Top.url].n, ![1].late = (box # <<>>)]
    /\ UNCHANGED <<page, history, index, docs, thread, storage, flags>>

\* SetPageUrl is waited for, and so for whatever the JS thread is at.
SetPageUrl ==
    /\ At("locate") /\ ~busy
    /\ site' = Top.url /\ map' = Top.seed /\ late' = Top.late /\ reset' = FALSE
    /\ Advances("clear")
    /\ UNCHANGED <<page, history, index, docs, busy, live, timers, journal, storage,
                   strayed, lost, torn, outlived, last>>

\* Variant: the journal is left alone.
ClearNothing ==
    /\ At("clear")
    /\ Advances("replace")
    /\ UNCHANGED <<page, history, index, docs, thread, storage, flags>>

\* set_document_with_scripts clears the journal itself ...
ClearJournal ==
    /\ At("clear")
    /\ journal' = <<>>
    /\ Advances("replace")
    /\ UNCHANGED <<page, history, index, docs, busy, live, site, map, timers, storage, flags>>

\* ... and has the JS thread replace the document and run its scripts; timers stay.
SetDocument ==
    /\ At("replace") /\ ~busy
    /\ live' = page
    /\ lost' = FALSE /\ busy' = TRUE
    /\ Advances("scripts")
    /\ UNCHANGED <<page, history, index, docs, site, map, timers, journal, storage,
                   strayed, late, torn, reset, outlived, last>>

\* A document that cannot be built leaves the old one in place, with a warning.
SetDocumentFails ==
    /\ At("replace") /\ ~busy
    /\ busy' = TRUE
    /\ Advances("scripts")
    /\ UNCHANGED <<page, history, index, docs, live, site, map, timers, journal, storage, flags>>
-----------------------------------------------------------------------------
(* The JS thread at work, for the document it has or in a timer of an earlier one *)

Runs(d) == busy /\ d \in {live} \cup timers

Fired(d) == timers' = IF d = live THEN timers ELSE timers \ {d}

\* localStorage.setItem: the message carries the origin of the localStorage it was
\* called on.
Writes(d) ==
    /\ Runs(d) /\ map # None /\ d.url # None
    /\ \E n \in 1..MaxWrites :
          /\ \A u \in Urls : last[u] < n
          /\ map' = n
          /\ box' = Append(box, [to |-> site, n |-> n, by |-> d.url])
          /\ last' = [last EXCEPT ![site] = n]
    /\ outlived' = (outlived \/ lost \/ d # live)
    /\ Fired(d)
    /\ UNCHANGED <<session, busy, live, site, journal, bucket, strayed, lost, late, torn, reset>>

\* location.assign, location.reload or the submission of a form.
Asks(d, do, u) ==
    /\ Runs(d) /\ Len(journal) < MaxAsks
    /\ do = "reload" <=> u = None
    /\ journal' = Append(journal, [do |-> do, url |-> u, by |-> live.doc])
    /\ Fired(d)
    /\ UNCHANGED <<session, busy, live, site, map, storage, flags>>

SetsTimer ==
    /\ busy /\ live.url # None
    /\ Cardinality(timers \cup {live}) <= MaxTimers
    /\ timers' = timers \cup {live}
    /\ UNCHANGED <<session, busy, live, site, map, journal, storage, flags>>

\* Commands that reconcile_native_mutations follows, so that the journal is drained.
Reconciles(f) == f.do \in {"evaluate", "act"} \/ (f.do = "navigate" /\ f.url \notin Local)

\* The thread answers: a command that is still there drains the journal, or is over.
ThreadAnswers ==
    /\ busy /\ busy' = FALSE
    /\ IF ~At("scripts") THEN UNCHANGED <<op, journal>>
       ELSE IF Reconciles(Top)
       THEN op' = [op EXCEPT ![1].at = "drain", ![1].list = journal] /\ journal' = <<>>
       ELSE Returns /\ UNCHANGED journal
    /\ UNCHANGED <<page, history, index, docs, live, site, map, timers, storage, flags>>

\* An evaluation that takes too long: its context is made anew, without timers and
\* localStorage, and with an empty URL until the next SetPageUrl.
EvaluationTimesOut ==
    /\ At("scripts") /\ Top.do = "evaluate"
    /\ busy' = FALSE /\ timers' = {} /\ map' = None /\ site' = None /\ reset' = TRUE
    /\ op' = [op EXCEPT ![1].at = "drain", ![1].list = journal] /\ journal' = <<>>
    /\ UNCHANGED <<page, history, index, docs, live, storage,
                   strayed, lost, late, torn, outlived, last>>

\* reconcile_native_mutations carries out one request after the other.
CarriesOut ==
    /\ At("drain") /\ Top.list # <<>>
    /\ LET m == Head(Top.list)
           rest == [op EXCEPT ![1].list = Tail(@)]
       IN  IF m.do = "reload"
           THEN op' = IF page = None THEN <<>> ELSE <<Frame("reload", "fetch", page.url)>> \o rest
           ELSE op' = <<Navigation(m.do, m.url)>> \o rest
    /\ UNCHANGED <<page, history, index, docs, thread, storage, flags>>

Drained ==
    /\ At("drain") /\ Top.list = <<>>
    /\ Returns
    /\ UNCHANGED <<page, history, index, docs, thread, storage, flags>>

\* native_act_guarded: the action is dropped where it is; the JS thread goes on.
GivesUp ==
    /\ op # <<>> /\ op[Len(op)].do = "act"
    /\ op' = <<>>
    /\ torn' = (torn \/ busy)
    /\ UNCHANGED <<page, history, index, docs, thread, storage, strayed, lost, late, reset, outlived, last>>

\* Variant: the write goes to the page the session is on by now.
SyncToPage ==
    /\ box # <<>> /\ page # None
    /\ bucket' = [bucket EXCEPT ![page.url] = [n |-> Head(box).n, by |-> Head(box).by]]
    /\ box' = Tail(box)
    /\ UNCHANGED <<session, thread, flags>>

\* handle_local_storage_sync applies a write to the bucket of its own origin.
Sync ==
    /\ box # <<>>
    /\ bucket' = [bucket EXCEPT ![Head(box).to] = [n |-> Head(box).n, by |-> Head(box).by]]
    /\ box' = Tail(box)
    /\ UNCHANGED <<session, thread, flags>>

SessionNext ==
    \/ \E do \in {"navigate", "post"}, u \in Urls : Goto(do, u)
    \/ GoBack \/ GoForward \/ GoForwardFromNothing \/ Reload \/ Evaluate \/ NativeAct
    \/ FetchFails \/ Downloads \/ \E u \in Urls : Opens(u)
    \/ Seed \/ SetPageUrl \/ ClearJournal \/ SetDocument \/ SetDocumentFails
    \/ \E d \in {live} \cup timers :
          Writes(d) \/ \E do \in {"navigate", "post", "reload"}, u \in Urls \cup {None} : Asks(d, do, u)
    \/ SetsTimer \/ ThreadAnswers \/ EvaluationTimesOut \/ CarriesOut \/ Drained \/ GivesUp \/ Sync

SessionSpec == SessionInit /\ [][SessionNext]_sessionVars
-----------------------------------------------------------------------------
(* Properties *)

Requests == [do : {"navigate", "post", "reload"}, url : Urls \cup {None}, by : 0..MaxDocs]
Frames ==
    [do : {"navigate", "post", "back", "forward", "reload", "evaluate", "act"},
     at : {"fetch", "load", "seed", "locate", "clear", "replace", "scripts", "drain"},
     url : Urls \cup {None}, list : Seq(Requests), seed : 0..MaxWrites, late : BOOLEAN]

\* Type invariant; the index is one of the history's.
SessionTypeOK ==
    /\ page \in Documents \cup {None}
    /\ history \in Seq(Urls) /\ index \in Nat /\ (history # <<>> => index < Len(history))
    /\ docs \in 0..MaxDocs /\ op \in Seq(Frames)
    /\ busy \in BOOLEAN /\ live \in Documents /\ site \in Urls \cup {None}
    /\ map \in 0..MaxWrites \cup {None}
    /\ timers \subseteq Documents /\ journal \in Seq(Requests)
    /\ box \in Seq([to : Urls, n : 1..MaxWrites, by : Urls])
    /\ bucket \in [Urls -> [n : 0..MaxWrites, by : Urls]]

\* Between commands the session, its history and the JS thread agree on the page:
\* however commands were nested, redirected, failed or given up, the page is the one
\* the history is at, unless a back or a forward has failed, and the document scripts
\* see is that page's, unless its injection was not completed; they see it at the
\* page's URL, or at none once an evaluation has timed out there.
AgreesOnThePage ==
    op = <<>> =>
        /\ page = None <=> history = <<>>
        /\ page # None /\ ~strayed => page.url = history[index + 1]
        /\ page # None /\ ~lost => live = page /\ site = IF reset THEN None ELSE page.url

\* A navigation that is carried out was asked for under the document that is live: no
\* request of a page that is gone sends its successor away, even when the script of a
\* given-up action goes on running (set_document_with_scripts).
JournalIsOfTheLiveDocument ==
    \A i \in DOMAIN journal : journal[i].by = live.doc

\* Until a script outlives its page, a value in the bucket of an origin, or on its way
\* there, was written by a page of that origin; and a page finds in localStorage what
\* was last written for its origin, unless the drain barrier timed out or a script
\* went on by itself (handle_local_storage_sync, inject_dom_snapshot).
StorageIsKept ==
    /\ ~outlived =>
          /\ \A u \in Urls : bucket[u].by = u
          /\ \A i \in DOMAIN box : box[i].by = box[i].to
    /\ map # None /\ ~late /\ ~torn => map = last[site]

(* Statements TLC refutes; see the README. *)

\* A back or forward that fails leaves the session where it was.
FailsInPlace == op = <<>> /\ page # None => page.url = history[index + 1]

\* Between commands window.location is the page's (the context of an evaluation that
\* timed out is made with an empty page URL).
LocationIsThePage == op = <<>> /\ page # None /\ ~lost => site = page.url

\* What the scripts of a page asked for is not left waiting (the comment of
\* set_document_with_scripts: until the reconcile drains it).
NothingIsLeftWaiting == op = <<>> /\ ~torn => journal = <<>>

\* Values never bleed across origins (the comment of inject_dom_snapshot).
NeverBleeds == ~lost => \A u \in Urls : bucket[u].by = u
=============================================================================
