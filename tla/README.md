# TLA+ models of oxibrowser

oxibrowser is a headless browser for agents: a core library (sessions, tabs,
network, a JavaScript runtime), a CDP server over it, account and credential
management with human takeover, and a command line with an agent, a read-eval-print
session, an MCP server and a "Ghost" child process that a supervisor shares between
an agent and a human. This directory models the parts whose correctness depends on
order: who may operate a browser, who may use a credential, what becomes of an
account when calls and crashes interleave, what becomes of sessions, connections and
requests when commands run concurrently, and what a page, a script or an agent is
told when somebody has given up waiting.

The models are written from the source under `src/crates`. `PROJECT.json` maps
each definition to its lines, lists the runs, the theorems, and the hazards.

## 1. Inventory

Paths are relative to `src/crates`.

### Ghost child (`oxibrowser/src/mcp/ghost.rs`, `ghost/handoff.rs`)

- *State.* `State` (phase, control epoch, handoff, used handoffs, the pending
  handoff, what is to be observed again after a resume), `Runtime` (tabs, each with a
  generation and the element refs its last snapshot issued), two `Ledger`s of
  request ids, the one operation in flight.
- *Operations.* Agent `tools/call` behind `agent_gate`; host `handoff`, `resume`,
  `human` calls, `cancel`, `status`; deadlines, signals, and the end of either channel.
- *Interaction.* One select loop reads both channels while one operation runs.
- *Hard.* A handoff that arrives during an operation; interrupted operations whose
  effect is unknown; calls written for an earlier epoch; duplicate requests.
- *Correct when* only the owner operates the browser, no ref outlives the epoch it
  was issued in, the agent has seen every tab before it may act after a human, a pause
  ends, no request acts twice, every accepted request is answered, and acknowledgements
  count transfers exactly.
- *Modelled by* `Ownership`, `GhostOwnership`, `GhostSession`.

### Consent store and policy engine (`oxibrowser-credentials/src/consent.rs`, `policy.rs`)

- *State.* An append-only file of grants, use counters and tombstones; confirmation
  tokens in memory.
- *Operations.* `grant`, `consume`, `revoke_subject`, `revoke_by_id`, replay;
  `authorize_use`; issuing and verifying confirmation tokens.
- *Interaction.* Every process opens the same file, without a lock.
- *Hard.* Read-decide-append races, torn and interleaved lines, partial revocations.
- *Correct when* a grant authorizes no more than its budget and no use after its
  revocation, and no use is charged that was not authorized.
- *Modelled by* `ConsentLedger`, `ConsentStore`; the tokens by `CredentialBroker`.

### Accounts (`oxibrowser-core/src/account/*`, `storage/session_store.rs`)

- *State.* `account.json` with a state machine of six states, a sealed session
  envelope, an advisory `flock`, the table of login windows of each process.
- *Operations.* `AccountManager`: capture, verify, logout, update.
  `LoginOrchestrator`: begin, complete, end, abort, the armed timeout, import.
  `AgentLoginEngine`: an unattended login.
- *Interaction.* A serve process and CLI commands share the files; probes and
  restores run without the lock.
- *Hard.* Two processes, a timer racing a capture, a busy lock under the fail-fast
  policy, a crash between the envelope and the record.
- *Correct when* updates are not lost, changes follow the machine, the record
  tells of a session exactly when there is an envelope, windows and logins end.
- *Modelled by* `Account`, `AccountLifecycle`.

### CDP login surface (`oxibrowser-cdp/src/account.rs`)

- *State.* Takeovers of browser contexts, one-time viewer tokens, the sessions the
  login windows are captured from, the binding of an account to its context.
- *Operations.* `begin_login`, `report_success`, `end_login`, `close_login`,
  `take_viewer`, the gate that an agent's commands pass (`gate_role`), which denies the
  methods it lists while a takeover is in force.
- *Interaction.* Each table has its own mutex; the orchestrator's timer ends windows
  without telling the surface.
- *Hard.* Two logins of one account at once, a viewer who comes when the window is
  running out, an end that fails, a rebinding.
- *Correct when* a window that is open keeps the takeover of its context, the methods
  the gate lists do not pass it under a takeover, an open window can be completed, a
  token lets one viewer in.
- *Modelled by* `LoginSurface`.

### Credential broker and refs (`oxibrowser-cdp/src/credential.rs`, `refs.rs`, `domains/oxi.rs`)

- *State.* Element refs with the generation of the document they were issued for,
  pending confirmation cards with a deadline, the write locks of the sessions.
- *Operations.* `clickRef`, `fillCredential`, `resolveConfirmation`.
- *Interaction.* `authorize_use` counts a use or asks for a card, which a viewer
  answers on another session while the agent goes on.
- *Hard.* A document replaced between validation and act, a card answered when it is
  just expiring or twice.
- *Correct when* a card fills once, in time and approved, and a granted fill lands where
  its ref was validated, at an allowed origin, and is counted.
- *Modelled by* `CredentialBroker`.

### Sessions of a browser (`oxibrowser-core/src/browser.rs`, `tab.rs`, `session.rs`)

- *State.* The list of sessions, the tab counter, the closed flags, named contexts.
- *Operations.* `new_session_in`, `new_tab_in`, `Tab::close`, `Session::close`,
  `cleanup_closed_sessions`, `Browser::close`.
- *Interaction.* Shared by all tasks of a server; a session is used under its
  readers-writer lock: a command that changes it has it alone, those that read it share it.
- *Hard.* Check-then-act at the limit, reclaiming of a session that is busy, closing
  while a session is being created.
- *Correct when* the limit is respected (up to the callers in progress), the counter
  is exact, no open session is lost.
- *Modelled by* `SessionPool`.

### CDP server, connections and targets (`oxibrowser-cdp/src/server.rs`, `session.rs`, `domains/mod.rs`, `domains/target.rs`)

- *State.* The connection counter, a main session for each connection, its
  `TargetRegistry` of child sessions and tombstones.
- *Operations.* Accept, upgrade, dispatch and routing by `sessionId`; `createTarget`,
  `closeTarget`, `attachToTarget`, `detachFromTarget`; the end of a connection.
- *Interaction.* Each command is a task of its own; sessions come from the pool.
- *Hard.* A target closed while a command is on its way to it; a connection that
  ends while commands run; slots that nobody gives back.
- *Correct when* a command for a child works on that child and never in the place of one
  that was closed, ended connections close their main session, and every open session has
  an owner.
- *Modelled by* `CdpTargets`.

### A session and its JavaScript thread (`oxibrowser-core/src/session.rs`, `page.rs`, `js/runtime.rs`)

- *State.* The active page, the history and its index; in the thread the document, its
  timers, the journal of what scripts ask for, localStorage, the table of pending fetches.
- *Operations.* `navigate`, `submit_form`, `go_back`, `go_forward`, `reload`, `eval_js`,
  the click of an interactive session, `reconcile`, `inject_dom_snapshot`.
- *Interaction.* Commands to the thread are answered within a time limit, after which the
  session goes on while the thread still works; localStorage writes travel to the
  context on a channel.
- *Hard.* Navigations nested in navigations, failures between page and history, a script
  that outlives its command or its page, a bucket read before the writes to it.
- *Correct when* page, history and document agree between commands, a page's requests
  end with it, and localStorage keeps what was written, by origin.
- *Modelled by* `PageSession`; its requests by `FetchBridge`.

### Requests and their interception (`network/intercept.rs`, `session.rs`, `js/runtime.rs`, `oxibrowser-cdp/src/domains/fetch.rs`)

- *State.* Paused requests waiting for a decision, the patterns of the process and of each
  connection, the pending fetches of a thread, the counter of requests in flight.
- *Operations.* fetch, XMLHttpRequest, `Page.navigate`, `Fetch.enable`, `disable`, `continue`, `fail`
  and `fulfill`, an `AbortSignal`, a disconnection.
- *Hard.* A client that leaves with requests paused; an abort that races the answer; a
  synchronous request that is served while it blocks the thread.
- *Correct when* requests obey the decision, are answered once where they were made, and
  the counter that `NetworkIdle` reads counts every request.
- *Modelled by* `FetchBridge`.

### Agent (`oxibrowser/src/agent/*`)

- *State.* The loop with its steps and its evaluations, the world thread with the program
  it evaluates, the channel of commands, the host with the session's lock, the event queue,
  the dialog gate.
- *Operations.* A model's reply, an evaluation, its consent and retry; observe, act, fill,
  load, wait and resolve; dialogs; every time limit.
- *Hard.* Everybody waits for somebody with a limit and whoever gives up goes on while the
  other still works; a dialog parks the thread while the host holds the lock.
- *Correct when* a program is told the truth, acts keep their order, nothing is filled
  beyond the consents, and the task ends.
- *Modelled by* `AgentWorld`.

### Serve and hosted login (`oxibrowser/src/account_cli.rs`, `main.rs`)

- *State.* The command, the server task and the login window.
- *Hard.* Each waits for another.
- *Correct when* the host is told where to connect.
- *Modelled by* `ServeLogin`.

### The other parts

| Part | What it keeps and does | Why it is not modelled |
|---|---|---|
| Interactive session, MCP server (`oxibrowser/src/session`, `mcp.rs`) | a tab manager with a current tab, one command after the other | sequential; what it does to a session is in `PageSession` |
| Network stack (`network/*`) | cookies, origin policy, robots, redirects, websockets | the client is I/O; the rest are functions of strings, whose content is data |
| Script runner (`script`) | a list of browser actions | a sequential interpreter |
| Credential providers | adapters of keyrings and files, TOTP | I/O, and one function |
| Page domains of CDP | one handler for each method | they hold their session for a while (`Enter`, `Leave` of `CdpTargets`); their content is the session's |
| JavaScript engine, DOM, canvas, WebGL | the web APIs | their state is data of the page; the thread around them is in `PageSession`, `FetchBridge` and `AgentWorld` |
| Audit and redaction, layout, rendering, extraction, search, command line | functions of documents or text; printing | their content is data, not order |

More than two fifths of the lines of the implementation are the JavaScript engine with
its DOM and WebGL, style sheets, rendering, search and argument parsing, and most of the rest are
conversions as well: the share of lines a model of order can stand for is bounded by that.

## 2. Plan

Done, in this order: Ghost ownership and its refinement, its request channels, the
consent file, accounts, the session pool, CDP targets over the pool, hosted login; the
login surface, the credential broker, the session with its thread, the bridge of
requests, the agent; then the proofs of section 6.

Left, in the order of what it would add:

1. Named contexts (`new_context`, `dispose_context`, the jars they share with live
   sessions) in `SessionPool`, and the accounts bound to them in `CdpTargets`.
2. The event stream of the orchestrator and the waiters that subscribe to it.
3. Popups' sessions and the account login command in `AgentWorld`.
4. The cookie jar as a machine (insertion, replacement, eviction, restore), and the pure
   matching functions with reference definitions.

## 3. The modules

Definitions marked `Variant:` are mutated forms of the definition that follows them.
Nothing of the model uses them; each shows which property notices the fault. Variables
marked `history` are not in the code and change nothing in the model; properties (and bounds) read them.

### Ownership, GhostOwnership

`Ownership` is the promise of the supervisor: one owner, work in progress only by
the owner, hand-over only between pieces of work, an epoch for each hand-over.

`GhostOwnership` is the controlled mode of `run_ghost_stdio`. Its variables
are the fields of `State`, the runtime and the operation slot. An operation starts in
one step (`AgentCall`, `HumanCall`) and its effect is taken when it ends: nothing
else touches the runtime while it is pinned. `CallOutcomes` enumerates what a
tool may leave and report; `PartialOutcomes` what it may leave when it is
interrupted. `BeginHandoff` is a handoff during an operation, `IdleHandoff` one
without; `SettleAndTransfer` is the end of an operation that a handoff waits for;
`Uncertain` is an uncertain result, a deadline, a signal, a cancellation or a lost
channel during an operation, all of which abort the handoff and end the child.
A ref is named by its tab and the generation of the tab, as in the code; `seen` and
`spent` are history. `ImplementsOwnership` is the refinement, under
`owner <- Owner, working <- op # None`.

### GhostSession

The two ledgers in front of `GhostOwnership`: each action of that module is taken
together with its ledger entries, and requests answered on the spot are actions of
their own. `AnswerToDuplicate` is what `reject_agent` and the ledger give to a
repeated request. A request with a known id and another payload is refused and
changes nothing, so it is no action.

### ConsentLedger, ConsentStore

`ConsentLedger` is the abstract account of grants: granted, used, revoked, as long as it
is `trusted`. `ConsentStore` is the file: `live` is what the complete lines replay to,
`tail` the last line while it is unterminated. An append is two steps (`WriteLine`,
`WriteNewline`), which may be torn or abandoned, and appends of different
callers may join into a line that does not parse. `Ask` and `Consume` are the two reads of
`authorize_use`, with any step of another caller between them. All grants
share subject and origin (other grants never match) and differ in the actions they
cover; expiry is an action. `disturbed` tells that a job began while another was under
way or that something failed; until then the file implements the ledger.

### Account, AccountLifecycle

`Account` is the promise: a state that moves along the machine's edges, and a session that
comes with a capture and goes with a logout, in one step with what the record tells of it.
It speaks of the session as long as the account is `whole`, which ends when a process dies
between the envelope and the record.

`AccountLifecycle` is the code: one account on disk, calls that run in one process or another, the lock, windows
and timers. A mutation is `Acquire` (lock and read), `ChangeEnvelope` when it
captures or logs out, and `Save` (check the transition, write, unlock); `Continue`
says where a call goes on after success or failure. Everything else a call looks at
it reads without the lock, as the code does. Under `FailFast` a busy lock is an
error; under `Block` the call waits; the run covers both (`policy` is chosen at the
start), and `LockPolicy::Timeout` does one or the other.
`Crash` ends the calls, timers and windows of a process and releases its lock.
Abstractions: the timer is armed in the step that enters the window in the table;
the outcomes of probes and of the page are choices; adding and removing accounts
is left out; the agent login writes `challenge` where the engine asks for it, and the
machine decides. `ImplementsAccount` is the refinement. A mutation takes effect when the record is
written: from the change of the envelope until then `Shown`, the abstract envelope, is still
what the record tells, and nobody else can hold the lock to see the difference.

### LoginSurface

`cdp/account.rs` for one account. `begin_login` goes through its steps one mutex at a
time: it looks for the context, opens a window with the orchestrator, registers the
takeover, the token and the session. An end is judged by the orchestrator first and then
clears the tables in the order of `close_login`. `TimerFires` is the orchestrator's
timer, which knows nothing of the tables; `lapsed` are takeovers past their `until`, which
`active_takeover` prunes when it meets them. An agent's command is two steps: the gate,
and the command itself, which may have waited for its session in between. `gate_role`
denies a list of methods under a takeover (`Input.*`, `OXI.fillRef`, `OXI.clickRef`,
`Runtime.evaluate`, the captures) and lets the others pass (`Page.navigate`,
`Runtime.runScript`, `Runtime.callFunctionOn`, `OXI.fillCredential`); in the model
`"input"` stands for the first kind and `"act"` for the second. The rest of the
orchestrator is in `AccountLifecycle`.

### CredentialBroker

A call validates its ref and acts under the write lock of its session; `fillCredential`
looks at the page again after the authorization. A document is the number that
`Page::generation` would give it; navigations and scripts change documents between any
two steps that do not hold the lock. A card keeps the page it was put up for, its
deadline passes in a step of its own, and the answer of a viewer takes it, verifies the
token and fills in three steps.

### PageSession

The commands in progress are a stack of frames, since a command that drains the journal
runs the navigation it finds there inside itself. A load goes `fetch`, `load`, `seed` (read
the bucket), `locate`, `clear`, `replace`, `scripts`, `drain`. Of these only the barrier
before `seed` has a limit; the new URL and the new document are waited for as long as the
thread takes, and the thread may keep the old document when it cannot build the new one
(`SetDocumentFails`). An evaluation has a limit too: when it runs out the thread makes its
context anew, without timers and localStorage and with an empty location until the next
`SetPageUrl` (`EvaluationTimesOut`). An override of the user agent, which registers the
location again, is left out. `GivesUp` is the three-second limit of the interactive session's
actions, which drops the whole stack wherever it is. The thread answers, fires timers, and
writes localStorage, whose writes travel in `box` to the buckets. What the limits leave
behind is remembered in `strayed`, `lost`, `late`, `torn`, `reset`, `outlived`, so that the properties
can say exactly which of them voids which promise.

### FetchBridge

A request is at one stage of its way: queued by the script, taken by the bridge's task,
paused, decided, sent, replied; synchronous ones and navigations have their own
entries. The patterns that pause a script's request are one table of the process, those
of a navigation belong to the connection, as in the code. An abort removes the pending
fetch whenever it fires, a navigation of the page leaves its requests on the way.

### AgentWorld

Five parties with the channels between them, each waiting for another with a limit. There
are no clocks: a limit may be reached at any moment of the wait. What was sent before
somebody gave up stays in its channel and is executed later, as in the code. A consent
appends a grant and the whole program is evaluated again.

### SessionPool, CdpTargets

`SessionPool` has the steps of the methods of `Browser` between which other tasks can
run. The capacity check is one step, since the read guard of the list lives to the end
of the statement that adds the tab counter. `Session::new` does not fail in the
code and does not fail here. `CdpTargets` EXTENDS it: connections, tasks for
commands, registries. A command is routed in two steps (`Route`, then `Missed` for
tombstones), waits for the lock of its session (`Enter`), runs, and leaves. The lock is a
readers-writer lock: a command that changes the session is alone on it (`locked`), those
that only read it overlap (`shared`), and the last of them gives it back. `Cleanup` keeps a
session it cannot read at once; of one that is being read this is a choice, since a writer
may be waiting. The
`sessionId` that `createTarget` announces is identified with the child session; the
one from `attachToTarget` is an alias. In the code `with_upgrades` completes hyper's
connection future at the upgrade, which is where `Upgrade` stops counting.

### ServeLogin

`account login --json` as three parties: the command, `CdpServer::start`, the
window.

### Proof modules

`GhostOwnershipProofs` (also about `GhostSession`), `ConsentStoreProofs`,
`AccountLifecycleProofs`, `LoginSurfaceProofs`, `CredentialBrokerProofs`,
`SessionPoolProofs` (also about `CdpTargets`), `FetchBridgeProofs`, `AgentWorldProofs` (also
about `PageSession`, the session that the agent works in; the two share no names): section 6.

## 4. The runs

Passing runs:

| Run | Specification | What it shows |
|---|---|---|
| `ghost_ownership` | `GhostOwnership!FairSpec` | `ControlIsExclusive`: only the owner has an operation, in its epoch, and a pause has one to wait for. `NothingStaleIsUsed`: refs are of this epoch, void ones never come back, an agent in control has observed every tab. `PauseSettles`; `ImplementsOwnership` |
| `ghost_session` | `GhostSession!FairSessionSpec` | `OnceAndInEpoch`: no id runs twice, and a recorded result is replayed only in its epoch. `AnswersAreTrue`: nobody in flight is without an operation or a pause that will answer, and acknowledged transfers equal the epoch. `EveryRequestAnswered` |
| `consent` | two callers, one fault | `CountsAreTrue`: a grant is never charged for more than was authorized, is being counted or was interrupted, and before calls overlap or something fails budgets, revocations and counts are exact. `ImplementsLedger` |
| `account_lifecycle` | two processes, either lock policy, a crash, fair | `DiskIsConsistent`: no lost update, and record and envelope agree when nobody holds the lock and no crash came between them. `ImplementsAccount`: the state moves along the machine's edges only, and record and envelope change as one. `NothingIsWedged`: under the blocking lock, without a crash and without an unattended login, windows and logins end |
| `session_pool` | the pool alone, with the closing of the browser | `BoundedOvershoot`: overshoot below the number of callers. `BooksAreExact`: the counter is exact and open sessions are listed |
| `cdp_targets` | connections, targets and commands, fair | `RegistryMatchesSessions`: the registry holds live sessions and open sessions have an owner. `NoFallback`: a command with the id `createTarget` issued works on its child, or on the default session only after the client detached the child, which is then still open. `EndedConnectionsClose`: the main session is closed whatever commands hold it |
| `login_surface` | two windows, two contexts, two calls | `LockoutHolds`: an open window in its time keeps its entry in the takeover table unless two begins crossed. `OpenWindowCompletes`: its session is there. `GateAndTokensHold`: a command of the listed methods that is in flight passed the gate before the takeover, a token lets one viewer in |
| `credential_broker` | an agent and a viewer | `CardsResolveOnce`: at most one fill for a card, by a timely approval. `FillsWhereValidated`: a granted fill is on the validated document, at an allowed origin, and counted |
| `page_session` | a session with its thread | `AgreesOnThePage`: between commands history, page, document and location agree. `JournalIsOfTheLiveDocument`: no navigation of a page that is gone waits. `StorageIsKept`. The first and the last hold up to the flags that say what has failed or which limit has been hit |
| `fetch_bridge` | two connections with a session each | `WorkIsCounted`: the counter of requests in flight is the work on its way (plus one for each stylesheet fetched). `DecisionIsObeyed`: a request goes out only as decided and is answered at most once, in its frame |
| `agent_world` | a task of two model replies, fair | `ActsAreTrue`: what a program is told is true and final, acts come in order, fills stay within the consents. `TaskEnds` |

One run ends in a counterexample, a sentence of the repository the code does not keep:

| Run | Sentence | Counterexample |
|---|---|---|
| `serve_login` | account_cli.rs:1189-1192 | `start` returns its address after shutdown only; the command shuts down only after it has printed the address. The block is never printed. |

### Statements without a run of their own

These were met on the way and TLC refutes them as well. They are kept as named
definitions beside the others. Each can be reproduced by naming the definition in the
configuration of its module (as the only property, without the symmetry where it is an
action or temporal property).

| Definition | Module | What happens |
|---|---|---|
| `UseBudget` | `ConsentStore` | Two callers read the same counter and both take the last use. |
| `RevokedIsNotActive` | `ConsentStore` | A use reads the grant, a revocation appends its tombstone and returns Ok, the use appends the record with its new counter: the grant is alive again. Or the tombstone joins a line that is torn or being written, and is skipped with it. |
| `ChallengeIsRecorded` | `AccountLifecycle` | An attempt runs from `logging_in`; `challenge` is no successor of it, so `mark_challenge` always errs (agent_login.rs:33-34). From the page the account ends in `needs_login`, from `restore_jar` it stays in `logging_in`. |
| `WindowsEnd` | `AccountLifecycle` | Under `FailFast` the timeout finds the lock busy, gives up once and for all, and the window stays. |
| `LoginsEnd` | `AccountLifecycle` | A process dies during a login. Without a crash, under `FailFast`: an import fails because the lock is busy, its revert takes the same lock and fails, and the account stays in `logging_in`. |
| `OneWindow` | `AccountLifecycle` | Two `begin_login` look into the table before either enters its window; the second `logging_in` is a legal transition. |
| `TimeoutSparesValid` | `AccountLifecycle` | The timer takes the account between the capture and `close_window` and reverts a valid account. |
| `ValidHasEnvelope` | `AccountLifecycle` | A verify restores and probes without the lock, a logout removes the envelope, and the verdict moves `needs_login` to `valid`. |
| `CapacityHolds` | `SessionPool` | Two callers pass the check before either adds its session. `BoundedOvershoot` is what does hold. |
| `ClosedBrowserHasNoSession` | `SessionPool` | The closed flag is read at the start of `new_session_in` only; the session is added after the list has been drained. |
| `ClosedTargetsFail` | `CdpTargets` | `attachToTarget` issues an id that is registered nowhere; after `closeTarget` a command with it runs on the default session (domains/mod.rs:50-51). |
| `MainSlotFreed` | `CdpTargets` | A command still holds the closed session when it is to be reclaimed; or a pong that cannot be sent leaves `run` past closing and reclaiming. |
| `RefusedOnlyWhenInUse` | `CdpTargets` | `closeTarget` reclaims nothing: closed children fill the limit while the client stays. |
| `RoomWhenNobodyIsConnected` | `CdpTargets` | Children outlive their connection, nobody can reach them, and no client is admitted any more. |
| `ConnectionsBounded` | `CdpTargets` | Upgraded connections are not counted. |
| `TokenOfItsWindow` | `LoginSurface` | A token lets its viewer into whatever takeover its context has by then: that of a window whose begin overlapped, or of the next one. |
| `TokensEndWithTheirWindow` | `LoginSurface` | The timer ends a window in the orchestrator, which does not tell the surface. |
| `ViewerCanCome` | `LoginSurface` | `take_viewer` removes the token before it looks whether its context can be opened; and `close_login` takes the tokens of the context after its takeover, when the next window's may be among them. |
| `AgentsKeepOff` | `LoginSurface` | The gate lists methods; `Runtime.runScript`, `Runtime.callFunctionOn`, `OXI.fillCredential` and `Page.navigate` are not among them and act on the human's page under a live takeover, although the comments (mod.rs:200-204, 247-249) count paths that evaluate as denied. |
| `NoInputUnderTakeover` | `LoginSurface` | An input passes the gate, waits for its session, and a takeover is registered meanwhile; the gate is not asked again. |
| `FailedBeginLeavesNoWindow` | `LoginSurface` | The window is open when opening the account context fails, and `begin_login` returns the error; after a failed session it is aborted, and whether that worked is not asked. |
| `ClicksWhereValidated` | `CredentialBroker` | The gate evaluates a script after the ref was validated, and a navigation the page has asked for is carried out there. |
| `FillsWhereApproved`, `FillsAtItsOrigin` | `CredentialBroker` | The approved fill runs on the viewer's own session, whose page nobody compares with the card's. |
| `FailsInPlace` | `PageSession` | `go_back` moves the index before the page is fetched, and keeps it when the fetch fails. |
| `LocationIsThePage` | `PageSession` | An evaluation times out; its context is made anew with an empty page URL, and `window.location` is empty until the next navigation (js/runtime.rs:2605-2621, 5270-5280). |
| `NothingIsLeftWaiting` | `PageSession` | A load that no reconcile follows (`post`, back, forward, reload, a local URL) leaves what its scripts asked for in the journal; and a timer asks between commands. |
| `NeverBleeds` | `PageSession` | A timer of the old page writes when `site` is the new page's already. |
| `CounterReturns` | `FetchBridge` | The guard of a stylesheet's fetch counts one that nobody counts off (session.rs:2220), so that `NetworkIdle` is out of reach afterwards. |
| `PausedIsKnown` | `FetchBridge` | The patterns are the process's, so requests of a page are paused whose client has not asked for it and is not told; or the client that is to decide disconnects. |
| `EnabledIsAsked` | `FetchBridge` | Another connection disables interception, which drops the patterns of the process. |
| `WaitFindsTheEvent` | `AgentWorld` | An event is pushed between the look into the queue and the registration of the waiter. |
| `AnswersItsDialog` | `AgentWorld` | An answer given when no dialog is open stays in the gate and answers the next one. |
| `PendingIsTrue` | `AgentWorld` | A dialog ends by its own limit, or its event is taken when it has ended already; only an answer clears the flag. |
| `DoneIsOfItsProgram` | `AgentWorld` | A program that was given up on sets the mark later, and the next evaluation reads it as its own. |

### Seen while reading

Met in the source and in no module, as notes for whoever extends them.

- *Session.* A navigation asked for by a script is carried out inside the command that
  drains it, without a limit on the depth; `SetPageUrl` waits with a blocking receive in
  async code; back to, or a reload of, `data:` and `about:` goes to the HTTP client and fails.
- *Interception.* A fulfilled navigation goes to a base64 `data:` URL that nobody decodes;
  `continueRequest` of a script's fetch ignores a new URL unless a method is given.
- *Browser contexts.* Named contexts and their jars are cleared before their sessions are closed, and
  live sessions can fill them again; `Browser::browse` never frees its slot.
- *Cookies.* Those of a response are stored twice, by the HTTP client and, after the
  await, under the original URL, so that a deletion in between is undone and after a redirect
  to another host a host-only cookie lands under the first; `insert_entry` computes the expiry
  again from `max_age` at every import, so that a restore prolongs it; a replaced cookie keeps
  its place and is evicted as the oldest; `clear_and_count` counts domains (cookie.rs:734-740);
  `default_path` (cookie.rs:252) keeps the trailing slash.
- *Unattended login.* The deadline is looked at between attempts only; the origin gate judges the
  candidate's URL, not the page reached, and is not repeated on the retry; TOTP posts against
  the URL of the login form.
- *Orchestrator.* `wait` subscribes when it is called, so it can miss the event of a
  window that has ended; the events of a begin are published before it returns.
- *Targets.* Child sessions get the dialog gate of the root connection (cdp/session.rs:496-539).
- *Agent.* A `__replSettled` of a program that timed out can settle a later one; `agent resume`
  drops the account; `world.eval` blocks a worker of the runtime; a
  retry after a consent does again what the program had done; the consent for irreversible acts is out of
  reach with `--account`.
- *Interactive session.* `get_active_tab` says "most recently created", but ids are
  compared as strings, so t9 wins over t10 (executor.rs:976-988); the login window's session of
  `open_account_context` is never closed; `takeover done` takes `active` before `complete_login`, so a
  failed capture leaves the window without a session until its timer, whose end does not clear `active`.

## 5. Bounds and fairness

- `ghost_ownership`: two handoffs, so that a second one can interrupt the refresh
  after the first; two tabs, so that one is observed and the other not; `MaxGen = 1`
  beyond the generations that transfers consume, so that a snapshot's refs can be voided
  by the agent itself and by a transfer.
- `ghost_session`: one handoff and its resume, two agent ids, four host ids with
  room for three in a ledger: a handoff, a resume and an operation of the host or a
  cancellation, with duplicates of everything answered and a ledger that gets full.
- `consent`: two callers; two grants, the older covering two actions, the newer one of
  them, so that an exhausted or revoked newer grant gives way to the older; a budget of
  two; three uses, of which two can overlap. One fault is enough to tear a line and to let
  another line join it.
- `account_lifecycle`: three calls of any kind, two in a serve process and one in a
  command beside it, and their timers: a window, an end of it, and an intruder. One crash.
- `session_pool`: limit two, four sessions, two callers: the limit reached and overrun,
  and slots reused.
- `cdp_targets`: limit two with two sessions, so that a connection and its child fill
  the browser; two connections of which one is counted at a time; two commands
  in flight, which change or read their session, so that a close overtakes a command and
  two readers meet.
- `login_surface`: two windows, after each other or crossed; two contexts, so that the
  account can be rebound while its window is open; two calls besides the begins: an end
  against a viewer, a viewer against another, a command of an agent, listed by the gate
  or not, against either.
- `credential_broker`: an allowed, a denied and a foreign origin; two cards, since taking one that has expired
  takes the other; two calls, so that one works while the other waits; two documents loaded
  after the first, so that a page can change twice under a call; one use, after which fills ask.
- `page_session`: two remote pages and a local one; three documents, so that a load can be
  nested in a load; one write, one request of a script and one timer, each of which may
  come at any time and from a document that is gone.
- `fetch_bridge`: two connections with a session each, as the script patterns are shared
  and the others not; two frames, as a response may come while the other is pumped; two
  requests of any kind; one stylesheet.
- `agent_world`: two replies, each evaluated twice at most; two commands and two
  dialogs, so that an answer to the first can meet the second; one use for each consent.

Every bound is a guard on what the environment does (requests made, tabs opened, documents
served, faults) or the size of a set of names; no transition of the program is
disabled by one, except that `MaxGen` stops an operation on a tab whose generation has used it
up. Symmetry is used only in runs without liveness.

Fairness:

- *Ghost.* Weak fairness of the end of an operation. Every admitted operation has a
  deadline of at most 30 s that the select polls first, so it settles or is
  interrupted. Clients need not send anything.
- *Accounts.* Weak fairness of calls in progress, of timers, and of mutations: HTTP
  deadlines bound the waits, the runtime fires the timers. `NothingIsWedged` supposes the
  blocking lock, no crash and no unattended login because the statements are false
  otherwise (section 4); an unattended login leaves the account in `logging_in` after
  a failed `mark_challenge`, or when an origin does not parse, until somebody logs in again.
- *CDP.* Weak fairness of dispatched tasks and of the end of a connection: a spawned
  task is polled to its end and a blocked dialog resolves itself after 30 s.
- *Agent.* Weak fairness of the loop and of the host, whose waits are all limited, of the end of a
  dialog (an answer or its 30 s), and of the thread's going on (the engine limits loops). The
  world thread needs none: the loop does not wait for it longer than its limit.
- *ServeLogin.* Weak fairness of the whole: every step is the runtime's own, and the
  window ends by its timer.

The other specifications have no fairness, since no liveness is asked of them:
`FetchBridge` waits for clients, `LoginSurface` and `CredentialBroker` for people, and
a page may keep its thread busy.

Deadlock is not checked where the system may rest: a closed child, a server
nobody calls, calls used up. Whether something is stuck is asked by the
liveness properties, by `ControlIsExclusive` and `AnswersAreTrue` (a pause or a request in flight has
somebody to end it) and by `OpenWindowCompletes`.

## 6. What is proved

TLAPS checks these for every value of the constants that satisfies the named
assumptions of the modules.

- **`GhostOwnershipProofs`**, from `TabsAssumption` and `NoneAssumption`. The
  inductive invariant adds to the checked invariants `RuntimeInv` (no ref is newer
  than its tab's generation or both accepted and spent, and open tabs that accept refs were
  seen in this epoch), `RefreshInv` (during a refresh, tabs that are not in `fresh`
  have been seen) and `RoomForNew` (an admitted `new` has a tab id left).
  `RuntimeInv` is needed since generations alone say nothing of epochs; `RefreshInv`
  because the observation of every tab is due in the phase the refresh leads to. From it:
  `TypeCorrect`, `OneDriver`, `NothingStale`, and `Refinement`, in which each action maps to
  one of `Begin`, `End`, `HandOver`, `Withdraw`, or a stutter.

  Its last part is about `GhostSession`, from `IdsAssumption` and `NoIdAssumption` besides (the
  two sides use different ids, the host finitely many). `LInv` adds that every entry in flight is the
  operation's or the pause's, that a recorded result was told in its epoch, and that what a duplicate
  can hear is answerable now; the acknowledgements are counted as the cardinality of a
  set that grows by one where the epoch does. From it: `SessionTypes`, `ActsOnce`, `Told`. Since each
  step of the channels is a step of the child or leaves it alone, they implement `Ownership` as
  well (`SessionRefinement`).
- **`ConsentStoreProofs`**, from the assumptions of the module. The invariant is that what
  the file tells of grants was minted, that charges are bounded by the uses written,
  being written and interrupted, and that before a disturbance the one caller reads the truth. A
  newline maps to `Use` or `Revoke`, overlap and failure to `Disturb`. From it: `TypeCorrect`,
  `CountsTrue`, `Refinement`.
- **`AccountLifecycleProofs`**, from the assumptions on the constants. A job between
  reading and writing is the lock's holder, so no other job can change the record it
  has read; what a job will do to the envelope and what it will write agree, so that with the lock free
  record and envelope do. From it: `TypeCorrect`, `DiskConsistent`, `MachineRespected`, and `Refinement`,
  in which each saving of the record maps to the operation of `Account` it completes, a crash inside a
  mutation of the envelope to `Tear`, and every other step to a stutter.

  The part "Nothing is left alone" is the safety half of `NothingIsWedged`. `Attended` adds to the
  invariant what each step of a job tells of its window (`Apt`) and that an open window has its
  timer, armed or at the abort: `WindowsHaveTimers`. As long as no process dies and no unattended login is
  made, whoever takes the last window or job away from an account in `logging_in` has first written another
  state: `LoginsHaveTenders`. Whether those actors get to run is left to fairness.
- **`LoginSurfaceProofs`**. The invariant says of every window where its begin stands and what is registered, of a
  closing call that its window has left the table, and that while begins do not cross a context has
  one open window. From it: `TypeCorrect`, `Lockout`, `CanComplete`, `GateAndTokens`
  (of the methods the gate lists; of the others nothing is claimed).
- **`CredentialBrokerProofs`**, from the assumptions of the module. A call past its validation holds its session,
  so its page is the one it saw; an approval is a call of its own and there is one for a card; the fills
  made and those under way are at most the uses counted, which needs finitely many calls. From it: `TypeCorrect`,
  `ResolvedOnce`, `FilledWhereValidated`.
- **`SessionPoolProofs`**, from finiteness of sessions and callers and a natural limit.
  The invariant adds `Apart` (what is listed or being drained exists and is no tab,
  and nothing is being drained before the browser has closed): without it the closing of a
  drained session could hit a tab and a second drain lose the first. The overshoot is
  inductive only with the callers in progress on its left side: admitting adds
  one of them under the limit, adding the session takes one away. From it: `TypeCorrect`,
  `OvershootBound`, `Exact`.

  Its last part is about `CdpTargets`, from `ConnsAssumption` and `NoneAssumption` besides: the pool's invariant
  holds of its steps, a tombstone is set before its session is closed, a child is nobody's before it is
  registered, and a session has one owner. From it: `TargetTypes`, `RegistriesMatch`, `NeverFallsBack`. Each step of the
  server is a step of the pool or none (`ServerDrivesThePool`), so what is proved of the pool
  alone holds under it. `NeverFallsBack` needs that the main session of a connection never
  changes under a command (`Sessionless`: it has none before it is connected), and that a detached child,
  which nothing can find any more to close it, stays detached and open. `LocksAreHeld` says that the lock
  of a session is held, for writing and for reading, exactly by the commands that run so, and that one that
  writes is alone; from it follows `ClosesWait`, that no session is closed under a running command. Together
  they are `CommandsExclude`: nothing but a running command can keep the end of a connection waiting.
- **`FetchBridgeProofs`**, from the assumptions of the module. For each request its stage, its origin, its entry in the
  registry and what the page heard of it fit together, which gives `Obeyed`; the counter of a session is the
  cardinality of the set of its requests on the way, and each action moves both alike, which gives
  `Counted` for finitely many requests. `TypeCorrect` comes with it.
- **`AgentWorldProofs`**. The invariant says where a command can be: in the channel, with the host or in the thread, in
  their order, none in two of them, and none of them after an answer that does not leave it open. From it:
  `TypeCorrect`, `Truth`. With `NobodyWaitsInVain` it is proved that whoever waits, waits
  for something that another still has: the loop for an evaluation, the program for a command, the host for
  what the thread is doing for it (`WaitsAreServed`).

  Its part about `PageSession`, from the assumptions of that module, has the invariant `SessionInv`. The commands
  form a stack (`Stacked`): those under the innermost drain their journals, and none that a script asked for
  is a step in the history. The page is the one the history is at, but for a back or forward that is being
  fetched (`OnThePage`); the location is the page's, but after an evaluation that timed out, which
  `reset` tells. During an injection the page is the command's, the thread is idle once it has the new
  URL, and `lost` is set until the document is there (`Injected`); a busy thread has its command, unless
  that was given up (`Working`), so the journal is empty when the document changes (`Journaled`). The last
  write to an origin is the last message to it in the box, or in the bucket when there is none
  (`Stored`), so the barrier finds it. From it: `SessionTypeCorrect`, `SessionAgreesOnThePage`,
  `JournalIsNeverStale`, `StorageIsAlwaysKept`.

Only model-checked: the five liveness properties `PauseSettles`, `EveryRequestAnswered`, `NothingIsWedged`,
`EndedConnectionsClose` and `TaskEnds` (fairness and ENABLED are out of the prover's reach). Their
safety halves are theorems: that somebody is there who will end the wait, by `OneDriver`, `Told`, `WindowsHaveTimers`
with `LoginsHaveTenders`, `CommandsExclude` and `WaitsAreServed`. Every invariant and every refinement a passing
run checks is proved. Nothing here is recursive over data, and no module declares a RECURSIVE operator.

## 7. Running

    tlc -config GhostOwnership.cfg MCGhostOwnership.tla
    tlapm GhostOwnershipProofs.tla

Each configuration `X.cfg` belongs to the module `PROJECT.json` names beside it.
