# AgentTab in TLA+

This directory models AgentTab: the Rust host (`src/host-rs`), the browser
extension (`src/packages/extension`), the client SDK and its MCP and OMP adapters,
and the installer. Models are written in TLA+, checked with TLC on small
instances, and the central facts are proved with TLAPS for every instance.
`PROJECT.json` lists the components, runs, mutants, theorems, findings, hazards
and, for every definition, the source lines it stands for.

## 1. The system

```
 agent process            host process (Rust)                 browser extension
 +-----------+  IPC  +---------------------------+  native  +--------------------+
 | MCP / OMP |       | server -> runtime         | messaging| native bridge      |
 | client SDK| <---> |   |        |    |         | <------> | start-up queue     |
 | store file|       |   |   lifecycle native.rs |          | background, popup  |
 +-----------+       |   +-> journal (SQLite)    |          | scheduler, handoff |
                     +---------------------------+          | browser, ownership |
  installer: files, manifest, registry, client configs      +--------------------+
```

A client connects to the host over a local socket, is given a *task* (or resumes
one with a stored capability), and sends requests. The runtime looks the request
up in a durable journal, takes a lock scope, writes a *started* row, dispatches the
command over native messaging, and writes the terminal answer before it
acknowledges it. Irreversible actions are *staged*: the extension holds the action,
a human may approve it in the popup, and `browser_commit` consumes it once. In the
extension a scheduler chains the mutations of each tab and task, a ledger says
which task owns which Chrome tab, commands use shared debugger sessions, page
revisions and snapshot refs, and the user may pause, revoke permissions, move or
close tabs at any time. The worker that holds all this in memory may be stopped at
any `await`.

### Components

| Component | State it keeps | Operations | What is hard | What makes it correct |
|---|---|---|---|---|
| `runtime.rs` | mutexes per lock scope, nothing durable | `handle`, `dispatch`, `disconnect`, popup review | threads of several connections, replies after a timeout, crash between steps | at most one effect per key, no invented verdicts, no stuck request |
| `journal.rs` idempotency | `idempotency_journal` rows | lookup, begin, complete, replace, purge | retention against key age, crash | a key is never new twice; answers durable before acknowledged |
| `journal.rs` tasks | `tasks`, `capability_tombstones` | create, resume, acknowledge, rollback, detach, close, inventory, cleanup | rotation in two phases, cleanup in several statements | never an abandoned task, one live capability, exact counts |
| `journal.rs` staged commits | `staged_commits` | store, bind, approve, consume, finish, abandon, expire, replay, reconcile | approval, expiry, crash and retry in any order | one use, approved before executed, truthful replay |
| `task.rs` | lease and delivery flags of a connection | negotiate, `ensure_task`, deliver, confirm, cancel | request threads outlive the connection | a pending rotation always has an owner |
| `lifecycle.rs`, `native.rs` (host) | state, generation, pending map | transitions, dispatch, inbound, `fail_all` | reader thread against dispatchers | only a ready host admits; every dispatch ends once |
| `scheduler.ts` | tails per tab, task and global, epochs, generations | enqueue*, `readAfterWrites`, pause, resume, disconnect, invalidations | promise chains read once and replaced later | serial per tab and task, stop means stop, no cycle |
| `ownership.ts` | ledger of tabs and tasks, ended tasks (memory) | open, adopt, close, finish, keep, tab events, inventories | Chrome callbacks in any order, overruns, worker restarts | user tabs survive, agent tabs do not stay, host and ledger agree |
| `handoff.ts` | persisted pause, notices, alarm | pause, resume, request, resolve, settle, trim | two serial chains, awaits, worker stops | one notice per tab, ended stays ended, notices retire |
| `native.ts` (extension) | port, ready, acks, timer, alarm | connect, hello, ready, disconnect, decisions | port replaced across awaits | nothing of a former port counts; it comes back |
| `background.ts` permissions | cleanup epoch, stored candidates | revocation, detach, grant | events during awaits, restarts | recorded before attached, detached after revocation |
| `startup.ts`, `bounded.ts` | phase, queue, serial chains | start, enqueue, run | failed start, overrunning operations | every operation begins once, in order |
| `storage.ts`, `revisions.ts` | one persisted object, page revisions | migrate, `readState`, `mutateState` | failing writes, restarts | writes serial, told is stored |
| `browser.ts` | sessions, cursors, waits, scans | open, act, wait, snapshot, fill, debugger sessions | the page moves between any two awaits | answers are about the page they were read from |
| `challenge*.ts` | episodes of a task | detect, fold, guard, notify | scans side by side | one episode per scope, ended once |
| `target-resolution.ts` | snapshot refs, mirrored to storage | load, persist, forget, clear | loads that overlap changes | a handed-out ref is found, a closed tab forgotten |
| `popup.ts` | a copy of the state | view, actions, confirmation | dropped events, late answers | controls show what is true |
| `sdk-typescript`, `mcp`, `omp` | pending requests, capability file, kept client, keys | request, connect, finish, retries | timers, breaks, session switches | results are resumable, retries run once |
| `installer` | files, registry, client configs | plan, apply, roll back | failure or kill between two renames | all or nothing |
| `server.rs` | permits and an ordered response queue | connections | slow readers, limits | responses in order |
| `credentials.rs`, `email_codes.rs`, `guardrails.rs`, `audit.rs` | grants, policy, a file | fill, decide, append | external tools | origin bound use |
| protocol crate, `protocol.ts`, content scripts, `profile.ts`, rendering | none that outlives a call | parse, render, DOM access | - | - |

### Interactions

* client -> host: requests on a connection, each on a blocking thread; the
  server's disconnect runs on another one.
* host -> journal: every call is one SQLite transaction under one mutex, except
  `cleanup_expired_tasks`, which is a sequence of statements on its own.
* host <-> extension: two FIFO streams. Hello, ready, commands, results, events
  and acknowledgements. Either side may vanish at any message.
* extension: single threaded; the interleaving is at each `await`. Its state is
  written through one queue, and a read waits for the writes queued before it.
* user -> extension: popup decisions, pause, resume, permissions, and tabs moved,
  closed or navigated.

## 2. Modules

| Module | Models | Uses |
|---|---|---|
| `JournalRecords` | rows of the idempotency journal as pure operators | - |
| `MutationRuntime` | a mutation through `Runtime::handle`, with locks, lifecycle and native dispatch | `JournalRecords` |
| `OneEffect`, `MutationRefinement` | what a client is promised about one key, and that `MutationRuntime` implements it | `MutationRuntime` |
| `TaskRows`, `TaskLeases` | rows of tasks and tombstones; connections, rotation, the client's store, cleanup | - |
| `StagedCommits` | staging, review, `browser_commit`, expiry, replay, reconciliation | - |
| `ExtensionScheduler` | the scheduler with the two parties that open and close it | - |
| `AgentClients` | SDK client and the adapters that keep one | - |
| `OwnershipLedger` | the ledger of tabs, its chain and the host's inventory | - |
| `StartupQueue` | start of the worker and the operations that wait for it | - |
| `NativeConnection` | ports, hello, ready, reconnection, popup decisions | - |
| `PermissionCleanup` | revocation and grant of scripting, recorded debuggers | - |
| `Handoffs` | notices, expiry, system notifications | - |
| `Popup` | the popup's copy of the state and its one action | - |
| `PageSettling` | what `browser_open` and a navigating act wait for | - |
| `PageWaits` | load, URL, text and selector waits | - |
| `PageActs` | snapshots, batches of actions, fills | - |
| `DebuggerSessions` | attach, leases, idle detach, reports of Chrome | - |
| `Downloads` | which action a download is attributed to | - |
| `TargetRefs` | the stored registry of snapshot refs | - |
| `ChallengeRules`, `Challenges` | the detection table and fold; scans, guard, notices | rules |
| `StateStore` | migration, parser, queue of writes, revisions | - |
| `InstallTransaction` | plan, staging, backups, renames, registry, rollback | - |
| `*Proofs` | theorems | their module |
| `MC*` | instances for TLC | one or several of the above |

`MCServices`, `MCPages`, `MCRecords` and `MCAgents` put several modules into one run.
The modules share no variable; the run chooses a `part` at the start, and only that
part takes steps. So the run checks each part as a run of its own would: the others
stay in their initial states, where their invariants hold, and what they are fair to
is disabled (they wait for an event, a message or a call).

### MutationRuntime

One element of `Request` is one attempt; a retry is another element with the same
key. `req[r].phase` is the place of the thread in `handle`: `Lookup` (the lookup,
lifecycle gate, policy and first scope check), `Acquire` (the lock), `Admit` (the
checks under the lock), `Begin` (`begin_mutation` with its purge), `Dispatch`,
`NativeReply` or `NativeTimeout`, `Settle` (`complete_mutation`), `Return` (the
lock guard is dropped). `audited_value` may turn any early answer into unknown, so
every such answer is a choice. `command[r]` is the command as the extension sees
it: it may be executed or refused at any time after it was written, also after the
host gave up, or executed and `denied`: an effect whose page is lost before its result
is answered `not_started` (`stale_ref`, `browser.ts:3664`, `background.ts:386`). `HelloBegins`/`HelloEnds`, `SetPaused`, `ExtensionDisconnected`,
`StreamEnds`, `Disconnect`, `CloseTask`, `DeleteTask` and `Restart` may come
between any two steps. A restart keeps the rows and the extension's commands,
and forgets threads and locks. `HostInventsNoDenial` is therefore about the host's own
word, and about methods other than `browser_commit`; that one's replays are in
`StagedCommits`.

### TaskLeases

`conn[c]` joins `ConnectionContext` with its server task and the thread of one
request, which may run on after the disconnect; a number is used again once all three
are over. The client keeps the two-slot file of the SDK and may crash or leave in any
phase. `SweptRows` and `SweptTombs` are the statements of `cleanup_expired_tasks` in
their order; a crash may fall between them (`Crash`) or during the cleanup at opening
(`Boot`). A disconnected connection whose fresh capability was never confirmed closes
its task even if another connection resumed it meanwhile. Assumed: one client process
per store. Staged commits, which also hold off the idle close, and I/O errors of
single journal statements are left out.

### StagedCommits

One task with one tab; a token names a stage and the key of the `browser_act` that
made it. `stage` is the extension's storage, `row` and `journal` are the host's.
`ExtStages` to `ActCompletes`/`ActFails` follow a `browser_act`; `HumanDecides`,
`HostApproves`/`HostAbandons` and `PopupEnds` a popup review; `Submit`, `Lookup`,
`Begin`, `Consume`, `Send`, `Receive`/`Timeout`, `Finish`, `Complete` a
`browser_commit`; `ExtChecks` and `ExtPerforms` are apart because the page may move
in between, and a commit that executed may be denied here too. `inbox` is the FIFO stream to the host. `PortLost` drops it; threads
of the old host run on until `Reconnect`, the hello of a new one. The seven days of
journal retention are far beyond the five minutes of a stage, so no row is purged.

### ExtensionScheduler and AgentClients

A promise of the scheduler is named by the operation whose end settles it;
`op[o].waits` is the set of tails read when `o` was queued. `Settle` ends the work, which may also go on for ever (a developer command and the polls
of a wait have no limit), and `ForgetTab` and `ForgetTask` are the microtasks that drop an entry that is still the own
one. Epochs and generations are compared in `Admitted` as in the closures passed to
`then`. `PauseBegins` to `ResumeEnds` are `HandoffController.pause` and `resume`;
`Ready*` is `reconcileReady` cut at its awaits. No command makes a read without a tab,
so that branch is left out; so are the epochs of the permission cleanup.

In `AgentClients` each promise an adapter or its harness waits for is a `call` with
the phase it is in (connecting, sent, saving, confirming, clearing); `link` is an
`AgentTabClient`, `host` what the connection sees of the host: the first mutation makes
the task, its answer carries the capability, and later requests wait until it is
confirmed. An answer with a second capability before that (`SecondCapability`) makes
`#handleResponse` throw after it took the call off the pending ones: nothing settles that
promise (`stranded`, `index.ts:1253`). `Resuming` lets the continuations of a settled promise run before any other
event. `Listed` are the methods the adapters give one key per invocation; others (among
them `browser_credentials`) get a key per request. Rotation and `closeTask` are in
`TaskLeases`.

### OwnershipLedger

`tab` is Chrome's truth, `events` what it has raised and the start-up queue has not
handled, `ledger` the stored task records, `call` the operations in flight, each with
the place (`pc`) of its next await, `chain` the `BoundedChain` with its holder first.
`Overrun` lets a successor in beside its holder. `KeepLists` are the lists of tabs to keep
that `finishTask` may be given, `None` one that it refuses. One module has open, adopt, assert,
close, finish and keep, the revocation of a removed or moved tab, the sweep at start and
the publication of inventories. `Stored` refuses a ledger
that `parseState` would not accept: under an overrun `GrantMark` may name a created tab
that the record has lost meanwhile. An ambiguous one (`ambiguous`) is never tried.
`LedgerMatchesChrome` and `NothingLeftBehind` say what holds without
overruns (`Orderly`). `finishTask` uses the list of tabs it read, and the host may miss a tab
that left and came back during another emission.

### The services: StartupQueue, NativeConnection, PermissionCleanup, Handoffs, Popup

* `StartupQueue`: `startupPhase`, `waiting`, the drain and the operation it waits for.
  An operation that outlives its hold goes on beside its successors.
* `NativeConnection`: `links` are Chrome's ports and their hosts, `reconciling` the
  awaits of `reconcileReady`. A port that is given up and replaced leaves messages,
  awaited acknowledgements and commands behind. An alarm that finds a working host not
  yet ready recycles it, which counts as one of the bounded faults; `ComesBack` says
  nothing once all `MaxPorts` are used.
* `PermissionCleanup`: `saved` is the stored request, `writes` the queue of
  `mutateState`, `cleanup` the place in `clearAutomationRuntime`, `use` a command's way to
  an attached debugger. A cleanup waits for the commands under way without a limit. Kills
  may fall between any two steps.
* `Handoffs`: `op[c]` is an operation on the chain, at its next await; `settle` is cut
  into `SettleReads`, `SettleArms`, `SettleSweeps`. A settle that was overtaken can take
  back the notification of a newer notice, and a notice of a tab that `assertOwned`
  takes away is cancelled by nobody (`lostTo`); the properties name these cases.
* `Popup`: messages are answered in any order; `guard` is the pending action. After
  `fatal` the rows stay, and the first click on Finish arms it without showing it.

### The pages: PageSettling, PageWaits, PageActs, DebuggerSessions

* `PageSettling`: Chrome's page, its undelivered events, the start-up queue with
  barriers, and one open and one act that wait for them. A deadline may come first.
* `PageWaits`: one wait; every read it makes comes back through the same channel as
  Chrome's events. `network_idle` and `download` waits are not here. A match read from an
  error page is returned when a later navigation commits while it is revalidated. Where
  Chrome refuses the debugger a poll is one read, guarded by the revision (`since`); a poll
  may throw (`PollThrows`), and one that the page never answers keeps the deadline from
  being looked at (`Unanswered`), which `WaitsEnd` states as the one exception.
* `PageActs`: `op` is the operation at its next await, `reached` the input that got to
  a page, `verdict` the answer. Assumed: Chrome refuses a node of a gone document
  (`extension.test.ts:1921`). On the scripting route a document lost under a fill is
  answered as a stale ref, so `not_started`, also when the code had been written; the one
  exception that `EarlierInputAdmitted` names for a fill. Focus, pointer cues, dialog texts, frames and the
  scripting screenshot are left out.
* `DebuggerSessions`: one tab; `session` are the `DebugSession` objects, `calls` and
  `inbox` the channel to and from Chrome. The report of a late detach may end the next
  session (`overtaken`), and a re-attach may lose the candidate record of a failed
  detach. When storage fails after a detach (`HearDetachUnwritten`) the count of expected
  reports is taken down (`browser.ts:966`) before the report comes: it is then taken for the
  end of the next session, whose attachment nobody lets go (`miscounted`).

### The records: Downloads, TargetRefs, Challenges, StateStore, InstallTransaction

* `Downloads`: a cursor is named by its action. Chrome names no initiator, so the armed
  cursor takes a download unless two could. Assumed: the page starts none of its own
  (it would be attributed to the armed cursor), and a download begins within the
  retention of its cursor.
* `TargetRefs`: `memory` and `rows` are the two copies, `loader` and `writes` the awaits.
  A load that overlaps `clear()` brings back earlier refs; a load that fails makes
  `forgetTab` fail, which is only warned of (`unforgotten`).
* `ChallengeRules` is the catalogue as a table with detection and the fold of a scan as
  operators; `Challenges` runs the lane of a tab and a resolution beside it. A read or
  write of the store that fails (`StoreFails`) leaves it and ends the scan.
* `StateStore`: `Parse` says which stored records an earlier build could have left are
  loaded; `queue` is `mutateState`, one read, change, verify and write each.
* `InstallTransaction`: one installer after another; any step may fail or be the last.
  A failure while staging leaves staged files behind, a client edit between its backup
  and its rename is lost, a failing rollback stops midway, before it restored a file or
  after, at the sync of its directory. Two installers side by
  side, signature checks and the readiness probe are left out.

## 3. Runs

| Run | Question | Bounds |
|---|---|---|
| `mutation_core` | at most one dispatch per key, no not_started the host makes up, durable before acknowledged, refinement of `OneEffect` | 2 attempts, 1 key with a stamp of 0 or 1 and no skew, clock to 3 with retention 1, 1 restart |
| `mutation_scopes` | one thread per scope, every request settles | 2 attempts, 2 keys, a global and a tab input, room for 1 row |
| `mutation_future_key` | finding | as `mutation_core`, with a skew of 1 |
| `tasks` | what a stored capability is answered, rotation, counts, no abandoned task | 1 task, 2 connections, 3 capabilities, clock to 2, 1 crash |
| `staged_commits` | one use, approval, no denial the host makes up, what a crash leaves | 1 stage, 2 keys, 2 requests, life 1, clock 1, 1 navigation, 1 lost port |
| `scheduler_and_clients` | serial per tab and task, global work alone, no cycle of tails; clients, keys and capabilities accounted for; every call ends if the commands that run do | 3 operations, 2 tabs, 1 task, always open; 2 invocations, 2 clients, 2 tries, a cache of 1 key, 1 end of turn, 1 break |
| `scheduler_admission` | stop means stop | 2 operations, 2 tabs, 2 stops, 1 invalidation |
| `ownership_ledger` | user tabs survive, agent tabs do not stay, records agree, ended stays ended | 2 tabs, 2 tasks, 2 operations, 2 groups, 2 touches, 2 commands, 1 overrun or restart |
| `services` | start-up order, ports, attachments, notices, popup; and that each recovers, once the commands under way end | 3 events and 2 failed starts; 4 ports and 2 host faults; 1 page, 3 changes, 1 kill, 1 failed detach; 2 notices of which 1 is kept; 2 clicks |
| `pages` | revisions, waits, acts and debugger sessions | 2 navigations each, 1 poll, 2 requests, 2 users of 3 sessions, 1 trouble |
| `records` | downloads, refs, challenges, the store, the installer | 2 actions; 3 refs, 1 kill, 1 failure, 1 browser start; 2 documents, 2 operations; 2 writes, 1 stop, 1 failure; 2 installs, 2 keys, 2 faults |
| `acts_not_started` | finding | 2 navigations, 2 requests |

Why the bounds are enough: a second effect needs two attempts; a clock of 3 with
retention 1 lets a key be used, its row purged and the key used again, and it ends
past the age of any key. Three capabilities are the active one, its replacement and
one created anew. A stage is used twice by two keys or by one key twice, and both are
in `staged_commits`. In the scheduler a third operation can be queued on a tail that the
second one replaced while the first still runs, and the first then finds, or does not
find, its own entry when it forgets it. Two clients are needed for a leak and for a
retry over a new connection. In the ledger a second operation on the chain is enough to
overtake one, and two tabs let a task lose one and keep the other. The other parts
relate one operation to the event, the failure or the restart that overtakes it, and
each has room for two of the first and at least one of the second. All bounds are
CONSTANTS named as such in their module. Deadlock is not checked: clocks, attempts and
events run out, and the bounded system stops.

Symmetry is used for requests, connections, capabilities, operations, tabs and tasks in
runs without liveness, and never where liveness is checked (`EndedStaysEnded`,
`NeverAbandoned` and `PromiseKept` are action properties or refinements of safety).

Properties that are conjunctions name the parts of one promise: `RecordsAgree`,
`OperationsInOrder`, `PortsTrusted`, `AttachmentsAccounted`, `NoticesAccounted`,
`ControlsAreFresh`, `ServicesRecover`, `RevisionsSettled`, `RefsAreCurrent`,
`SessionsAgree`, `MatchesAreReal`, `PagesLetGo`, `AttributedOrWithheld`, `RefsFollowTabs`,
`EpisodesAccounted`, `StateSurvives`, `InstallsAllOrNothing`, `RunsAsDeclared`,
`AdmissionKept`, `CallsAccounted`, `EveryCallEnds`, `LeasesCounted`. Each conjunct is a
definition of its own with its comment in the module.

`PROJECT.json` has a mutant for every property of a passing run: a change a
plausible bug would make, after which TLC finds the property violated.

### Fairness

* `MutationRuntime`: weak fairness of each thread's own next step. Blocking
  threads of tokio are scheduled, locks are released by the guards, and the wait for
  a reply is `recv_timeout`. Nothing is assumed of the extension or the client.
* `ExtensionScheduler`: continuations run (`Dispatch`). Nothing is assumed of the user,
  the host or the work of a command: `EveryOpSettles` is claimed of the behaviours in which
  no operation runs for ever.
* `AgentClients`: `Advances`: timers fire, connecting ends by its own deadline, file
  operations and continuations end. Nothing is asked of the host, but `CallsSettle` leaves
  out a call that is `stranded`.
* Services and pages: the event loop runs what is due, Chrome delivers the events and
  answers the calls it accepted, timers and alarms fire, a stopped worker is started
  by an event or alarm that is due. Never: that an operation of a client ends, that the
  user does anything, that a page loads or answers. What needs that says so in the
  property: `RevocationDetaches` and `GrantReopens` have the premise `CommandsEnd`, and
  `WaitsEnd` has its exception. In `PageWaits` only the browser's own answers (`tabs.get`)
  are fair.

## 4. Proofs

All theorems hold for every value of the constants that satisfies the assumptions of the
module (`RecordsAssumption`, `RuntimeAssumption`, `RowsAssumption`, `LeasesAssumption`,
`StagesAssumption`, `SchedulerAssumption`, `StartupAssumption`, `OwnershipAssumption`,
`InstallConstants`, `ActsConstants`, `DownloadConstants`, `RefsConstants`,
`SettlingConstants`, `WaitConstants`: bounds,
retentions and skew are naturals, `None` is no value, the keys of acts and of commits
differ, every input has a scope, and what stands for an absent file is no content of one).
Each inductive invariant was an invariant of a TLC run before it was proved.

| Theorem | States | By |
|---|---|---|
| `MutationRuntimeProofs.TypeCorrect` | `TypeOK` | itself |
| `DispatchedOnce` | `AtMostOnce` | `OnceInv` |
| `OneThreadPerScope` | `SerializedPerScope` | `HoldersLock` |
| `NoDenialInvented` | `HostInventsNoDenial` | `TruthInv`, `OnceInv` |
| `AcknowledgedOnDisk` | `DurableBeforeAcknowledged` | `DurableInv` |
| `PromiseKeptWhenHonest`, `PromiseKeptWithoutSkew` | `PromiseKept` (refinement of `OneEffect`) | all of the above |
| `TaskLeasesProofs.LeasesTypeCorrect` | `TypeOK` | itself |
| `OldCapabilityDies` | `OldCapabilityIsDead` | `CapInv` |
| `LeasesAreCounted` | `LeasesCounted` | `CountInv`, `CapInv` |
| `TasksNotAbandoned`, `FileRecognised` | `NeverAbandoned`, `StoredIsRecognised` | `FileInv`, `CapInv` |
| `StagedCommitsProofs.StagesTypeCorrect` | `TypeOK` | `TypeInv` |
| `ApprovalUsedOnce`, `NothingWithoutApproval` | `OneUse`, `ExecutedWasApproved` | `UseInv` |
| `ConsumersOnRecord` | `ConsumedKeyJournaled` | `KeysRecorded` |
| `CommitAnswersAreTheExtensions` | `HostDeniesNoCommit` | `TruthInv` |
| `UsedRowsOwned` | `UsedRowHasOwner` | `OwnerInv` |
| `ExtensionSchedulerProofs.OneAtATime` | `RunsAsDeclared` | `ChainInv` |
| `StoppedStaysStopped` | `AdmissionKept` | `AdmissionInv` |
| `OwnershipLedgerProofs.LedgerTypeCorrect` | `TypeOK`, `WellFormed(ledger)` | `TypeInv` |
| `EndedTasksStay` | `EndedStaysEnded` | `TypeInv` |
| `UserTabsKept` | `UserTabsSurvive` | `MadeInv` |
| `OwnershipUnambiguous` | `NothingAmbiguous` | `GroupsInv` |
| `HostIsTold` | `HostKnowsNoMore` | `HostInv` |
| `RecordsAgreed` | `RecordsAgree` | `PlaceInv`, `ChainInv`, `GroupsInv`, `HostInv` |
| `NothingIsLeft` | `NothingLeftBehind` | `LeftInv`, `PlaceInv`, `ChainInv`, `GroupsInv` |
| `ServicesProofs.BeginsInOrder` | `OperationsInOrder` | `QueueInvariant` |
| `PortsAreTrusted` | `PortsTrusted` | `ConnectionInv` |
| `AttachmentsStayAccounted` | `AttachmentsAccounted` | `PermissionInv` |
| `ControlsStayFresh` | `ControlsAreFresh` | `PopupInv` |
| `RecordsProofs.InstallIsAllOrNothing` | `InstallsAllOrNothing` | `InstallInv` |
| `DownloadsAreAttributedOrWithheld` | `AttributedOrWithheld` | `DownloadInv` |
| `RefsOutliveWorkers` | `RefsFollowTabs` | `RefsInv` |
| `PagesProofs.PageCommandsActOnWhatWasSeen` | `RefsAreCurrent` | `ActsInv` |
| `RevisionsAreSettled` | `RevisionsSettled` | `SettlingInv` |
| `MatchesStayReal` | `MatchesAreReal` | `WaitInv` |

**MutationRuntime.** `TypeOK` also says what a request knows by the time its thread
reaches a phase. `AtMostOnce` says nothing of why a second attempt is kept out;
`DispatchedStayOut` does: a dispatched attempt with an honest stamp keeps every later
one out by its row, or else by the age of its key, or because the task is deleted. The
purge in `Begin` removes a row only when its key is too old to be accepted. `HoldersLock`
says that a thread from admission to acknowledgement has the lock of its scope. In
`TruthInv` a dispatched attempt that ended with `not_started` has a command that was never
sent, that the extension refused or that it denied, none of which can still run, and a stored
or replayed `not_started` comes from such an attempt with the same key. That no other attempt
with the key ran either needs `OnceInv`, and so keys that were never used ahead of the host's clock (`HonestKey`). `DurableInv` says that a
running attempt owns the row of its key, and that what it was told is on disk until the
retention or `DeleteTask` takes the row.

**MutationRefinement.** `OneEffect` is implemented with `KeyEffect` and `KeyVerdict` as its
variables. The hypothesis `[]HonestClocks`, no dispatched attempt has a stamp ahead of
the host's clock, is needed: without it the code dispatches a key twice (finding
`mutation_future_key`). A host with `FutureSkew = 0` needs no hypothesis; the run checks
that instance. The effect is `none`, `done` or `disowned`, one that the extension denied:
the host reports no effect of its own making and hides none, but a `not_started` of the
extension is passed on. Most steps map to stutters (`Silent`); the extension that executes and the
thread that stores an answer map to the two actions of `OneEffect`.

**TaskLeases.** `CapInv` says what each capability is good for: it was generated once
(`FromIssued`), is held by one row and in one column (`HeldOnce`), belongs to the
connection that was given it (`CapsOwned`); a connection at the barrier has the two
columns of its row (`AtBarrier`), and past the barrier what it offered is in no row
(`Spent`). `CountInv` adds to the properties that only finitely many connections are
attached, so that one more or less can be counted; the step that matters is
`DisconnectEnds`, and a crash that sets all counts back to 0 while it ends all
connections. `FileInv` joins the file of the client to the rows: by the phase of the
client, what the file has (`FileOK`); a confirmation is under way only for a replacement
that was saved (`Prepared`); all in the file is of one task (`FileOfOneTask`); a tomb
has the closing time of its task and is written before the row goes (`TombsOK`, through
each of the four statements of the cleanup); an answered close closed (`DoneIsClosed`);
the file always has the current capability of a row (`FileIsCurrent`). None of these is
inductive alone: `Confirm` keeps a file current only because it was prepared, and giving
the file up on `task_closed` is right only because the rejected capability is of the
task of everything else in the file.

**StagedCommits.** In `TypeInv`, `AttemptsOK` says what a thread has at each phase and
`ActsOK` that the key of a `browser_act` is recorded before its stage exists. `UseInv`:
whoever sent a command had taken its row, a taken row is used, a used row is approved,
a row is approved only after a human decided, and no two attempts took one row. The
steps that matter are `HumanDecides`, `HostApproves` and `Consume` (`KeptStep` is for
the rest). `KeysRecorded` rests on rows not being purged while a stage lives, which the
model takes from the constants of the code (five minutes against seven days). `TruthInv`
follows an answer back over the wire: replies in the inbox, recorded keys and answers
each tell whether a command of their key executed, was refused or was denied, and a thread
that has not sent has no command. `OwnerInv` says that a stage without a row has none stored, and a used row has
a thread at work on it or one that died with its host.

**ExtensionScheduler.** A lane is a tab, a task or all global work. `Ordered` says that a
rank exists, the order of acceptance, in which every pending operation waits for the
tails of the operations before it in its lanes; the tail of a lane is the last of them or
is forgotten once all have ended. `Settle` may run before or after the microtasks that forget the
tails, and the rank is what survives both. `AdmissionInv` says that no epoch of an
queued operation is ahead of the scheduler's (`NotAhead`), that what a stop barred has an
older one or has settled (`BarredIsStale`), and that after a drain the scheduler is
closed with nothing running (`DownIsClosed`).

**OwnershipLedger.** Each action has a lemma (`MovesX`) that says what becomes of its
operation, and the lemmas `...Stays` what each leaves alone; the invariants are proved
from these. `TypeInv` says by `CallOK` what an operation knows at each place of its code.
That an ended task gets no new record needs `Recordable`, read in the same transition as
the write. `MadeInv` follows a tab from where it is opened to where `finishTask` closes
it: what a record counts as created, what an operation has read of a record, is to mark
or has doomed, and what a `child` event names, was not opened by the user. `GroupsInv` says
that the group of a grant on its way is of no other task, nor of a grant for one, and that
what a grant read of a task is still there or empty unless the task ended; `Recordable`
is checked in the transition that writes. `HostInv` says that a pair that the host has,
or is about to be sent, and that is not in the ledger any more is still to be corrected:
whatever takes a tab away publishes afterwards, and publications are sent in the order
in which they read.

`RecordsAgreed` and `NothingIsLeft` hold as long as no operation overran its hold.
`ChainInv` says that only the head of the chain works, so that a step of an operation is
a step of the only one (`StepsAlone`). `PlaceInv` says that a tab of the ledger is in
the group of its task, or an event that says otherwise is pending, or the operation
it began is (`Handled`), or a sweep has found the tab missing (`Placed`); and that what the
working operation read of the ledger is still so (`Knows`). Each action has a lemma
(`PlaceX`) for these two; a grant may record a tab that the user has moved meanwhile only
because the event of that move is still to be handled (`Grouped`). A restart needs none
of this: the new worker reconciles first.

`NothingLeftBehind` also needs that no worker died at its work: one that dies between
`chrome.tabs.create` and the record leaves a tab nobody knows. Its invariant `LeftInv` says
that a tab that would be left behind (`Needs`) has an owner or an operation that will
record it, put it back or close it (`Answers`), and that a tab of the ledger is in its
group unless the user touched it or it is closed (`LedgerLeft`). The undo and the end of a
task rest on `TabKnown` and `TabsKnown`, what an operation remembers of its tabs: the tab
a grant took had no owner and no group, or is not its to put back; and what `Sweep`, `Classify`
and `Forget` drop from the ledger was touched, is closed, or is released next. Each action
has a lemma (`LeftX`).

**StartupQueue.** `QueueInvariant` adds to the order of arrival that a ready queue has an
operation under way if it has one waiting (`HoldsWhenReady`).

**NativeConnection.** `ConnectionInv` says that a port that is ready has discarded the stale
stages, so that a command it is sent comes after; that a decision still waiting was sent
on the current port, which alone can acknowledge it; and what a worker waits for when its
port is not ready: the host's answer, the reconciliation, its timer or its alarm.

**PermissionCleanup.** `PermissionInv` rests on the order of the writes to storage: a tab is
recorded before its attach is asked for (`RecordedFirst`) and forgotten only while it is
detached (`ForgetsTheDetached`), and each write has one who waits for it
(`WritesAwaited`). A cleanup marks its request after the commands under way are over
(`CleanupHoldsUses`), so that what is attached when it reads is all it has to scrub
(`CleanupScrubsAll`). The last event still to come says how the grant stands
(`EventsTellTheGrant`): that is why a cleanup may be closed by the epoch alone.

**Popup.** `PopupInv` says that while an action runs one message is on its way for it, the
action first and then the read (`GuardSends`), and that what the read has seen is no older
than the answer to the action (`ReadsAfterAction`): that is why the controls come back over a
state that has the action in it, although reads that events caused are answered in any
order. A row is armed with the epoch of its timer, and whoever takes the question back
moves the epoch on (`ArmedIsTimed`).

**InstallTransaction.** `InstallInv` says what a run has seen (`Seen`: each file of the plan
with what was found of it, and of these the ones to change), where the disk stands
(`DiskFollows`: applied files are as planned, all others as they were found but for what
a client saved meanwhile), and the same of the registry (`KeysFollow`). The host is the first file of the plan and
the last to be undone, so that a manifest or a receipt never names a host that is not there; for
the undoing `FoundNames` says that what the run found was consistent already. A lookup of
the registry that failed is counted among the faults met, and so a restored key is
claimed only of runs that met no further fault. A rollback that ends at a file may leave it
either way.

**Downloads.** `DownloadInv` says that at most one cursor is armed, that of the action performed
last (`ActionsInOrder`), and that a download that can still begin, or whose beginning is
still to be heard, finds the cursor of its action armed or as a tombstone and not past its
time (`CursorsAwait`). So where there is no tombstone the armed cursor is the right one; where
there is one, another action came first (`LossesExplained`). What is reported has
happened, and a session that ends is the last thing heard of it (`SessionReports`,
`ReportsTrue`). All this is claimed up to the first session that ended under an armed
cursor: nothing remembers what it was armed for.

**TargetRefs.** A ref is promised when its write has ended. `RefsInv` follows it from the
snapshot on: while its write is asked for, its tab is dirty, or the write under way or the
storage has it already (`WritesCover`); afterwards storage has it, a write under way leaves
it (`Survives`), and a load that is not done has read it or is still to read its row
(`PromisesKept`). Chrome's storage replaces whole rows, so all this needs that memory has
every ref of the latest snapshot of a tab that is asked for (`AskedAreLatest`) whenever the
row is taken. `clear()` stands first in the queue of a new browser, before anything of it is
stored (`ClearFirst`). A ref of a closed tab waits for its `forgetTab` (`ClosedAreForgotten`).

**PageActs.** Documents only go forward. `ActsInv` says that a debugger snapshot has read documents
between the one it began with and the one loaded, so that finding the first still loaded
means that it read no other (`SnapshotReads`); the scripting route reads one document and
names it. A step that a ref aims has the document of the ref for its target from
`Resolve` on (`AimsAtView`), and Chrome finds an element only where its document is
loaded. An operation has done fewer steps than the one it is at (`OpShape`), and a code
fill writes once (`EmailUntouched`); a failure is answered `not_started` only where this
leaves nothing done, or for the stale ref of a fill on the scripting route.

**PageSettling.** Both waits end at what is heard of a load, so `SettlingInv` says what that
tells of the page. Chrome dispatches the events of a tab in order: a page that was quiet has
told nothing of a load before the next one starts, and no `loading` comes after its
`complete` (`OneLoad`); so once the `complete` is over nothing of the load is left to mark a
revision (`NoMoreLoads`), and a removal is the last event of its tab (`RemovedLast`).
`OpenIsSettled` claims this of a created tab from its release on. A removal lets go of a wait as soon
as it is delivered, while the ledger still has the tab; the answer is withheld all the same,
because the removal stands in the queue before the barrier that the wait queues next
(`HeardBefore`), and only one barrier of a navigation is queued at a time (`ActBarriers`).
`ActIsSettled` claims nothing after the deadline, which passes barriers. `RevisionCounted` (each
navigation is marked once) bounds the revisions.

**PageWaits.** A tab's documents only go forward and the channel keeps its order, so what a
poll reads is never of an older document than what it read before (`DocumentsGoOn`): finding
the first document again after the last read means that all reads were of it. For load and URL
waits `FailureTold` says that, while the tab shows the error page of a load that failed
during the wait, the failure has been heard or is on the channel ahead of every answer that
shows that page; so a read of the error page finds the failure recorded, and the match is not
returned. On the scripting route a poll is one read, of one document. The commit that takes a failure back belongs to a later document.
`RevisionsCounted` bounds the revisions.

Only model-checked: liveness under fairness (`EveryRequestSettles`, `EveryCallEnds`,
`ServicesRecover`, `PagesLetGo`), since TLAPS does not reason about ENABLED; and the
properties of the modules that have no proofs: `AgentClients`, `Handoffs`,
`DebuggerSessions`, `Challenges` and `StateStore`. Nothing is proved that needs induction over data,
such as what a recursive definition computes for every input; the theorems use none.

## 5. Where the code and its documents differ

Findings (a run shows them):

* `mutation_future_key`: a key stamped ahead of the host's clock is accepted after
  its row is purged, and dispatched again. ADR 0001 says expired keys are never new.
* `acts_not_started`: an answer `not_started` is given for an act whose input had
  already reached the page. The host passes it on: what it promises is only that it
  invents none itself.

Statements that documents or comments make and the code refutes; the definitions are
kept in the modules, and TLC shows a counterexample when one is checked:

| Definition | What happens |
|---|---|
| `TaskLeases.ClosedOnlyAfterIdle`, `IdleIsClosed` | the 24 hours do not start when the last tab goes away; a task made by a request that outlived its connection keeps a count nobody gives back |
| `StagedCommits.NotStartedMeansNoEffect` | a retry after the stage expired is answered not_started, although its command may have run |
| `ExtensionScheduler.PausedIsClosed` | `reconcileReady` acts across awaits; a persisted pause may be left over an open scheduler |
| `AgentClients.SubsequentCallsUsable` | a first request that times out drops the late answer with its capability (`index.ts:1256`); the host waits for its confirmation for ever (against `CHANGELOG.md:81`) |
| `AgentClients.PlainMeansNotRun` | close and a failed confirmation reject with a plain error, without outcome or key (against `docs/mcp.md:141`) |
| `AgentClients.CallsStayInTheirSession` | a session switch during a failed connect, or with a closed client kept, leaves the connection of the old session in use (against `docs/mcp.md:55`) |
| `AgentClients.RetryRunsOnce` | a first call lost before its capability was stored runs again in a new task (stronger than the documents: keys are per task) |
| `PermissionCleanup.RevokedStaysClosed` | a grant's late read opens admission after a newer removal (`background.ts:264`, `:724`, `:1013`; ADR 0001) |
| `NativeConnection.SilentPortRecycled` | after the alarm hung up on a silent host nothing is under way that connects again (`native.ts:214`; `extension.test.ts:4816`) |
| `Handoffs.AlarmAlwaysCovers` | the comment at `handoff.ts:387` holds only while nothing overtakes a settle between its read and its alarm |
| `PageSettling.NavigationWaitsForItsLoad`, `NotStartedMeansNothingOpened` | the watch may look before the navigation starts (`background.ts:850`); a failed open leaves its tab (`docs/mcp.md:132`) |
| `DebuggerSessions.IdleSparesHolders`, `DetachedAfterIdle` | the timer of a session that ended looks at that session's leases and detaches the next (`browser.ts:4124`; `CHANGELOG.md:78`); a staged dialog attaches without an idle timer (`browser.ts:2698`; `docs/security.md:66`) |
| `Downloads.ThrottledNeverBegan` | a wait says Chrome blocked a download that did begin (`browser.ts:2295`) |
| `Challenges.SameResponseNeverClears`, `EmbeddedFoldsIn`, `NoRecordsAfterEnd`, `ScannedThisRevision` | scans side by side, and a scan that ends after its task (`browser.ts:4436`, ADR 0002) |
| `InstallTransaction.BackedUp` | a backup an earlier run was killed in counts as one (`transaction.ts:133`; `docs/setup.md:250`) |
| `Popup.UiCannotDrift` | events heard during an action are dropped (`popup.ts:508`) |
| `PageActs.SelectorsActOnTheSeenPage` | a selector without a ref acts on whatever page is shown (`browser.ts:3446`; `docs/multi-agent.md:39`) |
| `TargetRefs.ClearedMeansGone` | a load that overlaps `clear()` restores earlier refs (`target-resolution.ts:118`) |

## 6. Plan

1. `IpcConnection` (`server.rs`): permits and the ordered response queue of a connection.
2. Compositions: `MutationRuntime` with `TaskLeases` (a mutation on a closed task),
   `TaskLeases` with staged rows (what holds off an idle close), `OwnershipLedger` with
   `ExtensionScheduler`.
3. `Guardrails`, `EmailCodeClaims`, `AuditLog`: small state machines and pure decisions.
4. Proofs: see the end of section 4 for what is only model-checked so far.

## 7. Not modelled

Parsing and validation of frames, the DOM and content scripts, geometry and pointer
paths, screenshots, console and network capture, frames of a page, rendering, secret
stores and mail servers, the GPT driver, packaging and CI: they keep no state between
calls that another part depends on, or their state is in a program outside the
repository. The Python SDK follows the protocol of the TypeScript one with the same file
format. What the plan lists and no module has yet is marked `not_modelled` in
`PROJECT.json`.
