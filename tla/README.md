# Plexi: a verification project

Plexi is a desktop host for terminals, apps and agents.  Agents act through
tools; a permission monitor decides what they may do, a person decides what the
monitor cannot, and a journal keeps retries from doing things twice.  This
directory holds TLA+ modules of the parts where that depends on the order of
events, their TLC instances, and proofs checked by TLAPS.  Paths are relative to
the repository (`src/...` is the Rust crate of the host).

## The system

| component | state | operations | interacts with |
|---|---|---|---|
| permission gate (`src/broker/gate.rs`, `src/broker/mod.rs`) | grant rows, pending asks, resolutions, needs-you items, continuations, epoch | admit, persist_pending, approve_pending, note_use, note_outcome, consume_once, revoke, allow, reset, expire | every tool dispatcher, the pane-send handler, the Agents API, the attention queue |
| tool dispatch (`src/plexi_ai/tool_dispatch.rs`), app-call ingress (`src/app/app_call.rs`), host MCP (`src/app/host_mcp.rs`) | one worker thread per call or connection | dispatch_call_admitted, the waiting presenter | gate |
| pane send and waits (`src/app/lifecycle.rs`, `src/app/pane_wait.rs`) | parked senders, pending submits, the frame loop | SendToPane, service_pending_send_approvals, service_pending_submits | gate, terminal panes |
| needs-you queue and store (`src/broker/needs_you_store.rs`, `src/app/attention_queue.rs`) | items, sealed queue file, continuation file | file, resolve, answer, persist, restore, quarantine | gate, phone relay |
| seal, host key, integrity (`src/broker/seal.rs`, `host_key.rs`, `integrity.rs`) | keys, MACs | seal, open, quarantine | every durable file |
| Agents API (`src/agent/runs.rs`) and fleet (`src/agent/fleet.rs`, `team.rs`) | definitions, runs, scopes, run grants | create_agent, issue_run, delegate, invoke, finish_run, mcp_call | gate, ledger, panes |
| AI ledger (`src/plexi_ai/ledger.rs`) | sealed append-only rows | append, verify | Agents API |
| distribution (`crates/distribution/src/transaction.rs`, `release.rs`) | receipt, journal, versions, owned paths, lock | install, update, rollback, uninstall, recover, register path, launch | file system |
| host services: scheduler, event subscriptions, typed pipes, resource leases, changes (`src/host/*.rs`) | routines and live runs; subscriptions; rings and drain threads; lease table | due/fire/reap; subscribe/publish/consent; open/push/close; acquire/release/observe | apps, agents |
| document models and editor (`crates/daw-model`, `crates/video-model`, `src/editor`) | documents, undo history | edit, undo, redo | apps |
| UI, rendering, CLI, phone client, relay service | | | |

What is hard: the gate is entered by the frame loop, by one thread per app call,
by one thread per MCP connection and by the phone relay, and releases its locks
between steps; every audit and file write may fail; the host may die between the
effect of a pane send and its record; waiters time out while a person decides;
retries come under the same operation id.

Properties that make the components correct, and where they are stated:

* gate: a call commits only under an allowing row for its own binding; a revoke
  is a boundary; a decision is all or nothing; one ask per binding, always
  listed; every caller is answered (`PermissionGate`).
* pane send: an operation is delivered at most once; one text per operation id;
  what is reported is what happened; every sender is answered (`PaneSend`).
* stores: what was saved is what is restored; a row that was taken away does not
  come back; a crash never breaks a file that was whole (`ProfileStore`).
* Agents API: one active run per agent; a run uses what it was given and nothing
  else; authority always comes from somebody who had it (`AgentRuns`).
* distribution: after recovery the installed files are those of one version;
  a file the installer does not own is lost only if it appears between a check
  and the write it guards (`Installer`).
* pipes: no accepted frame is lost or doubled; close returns; what the guest is
  told of its handles is true (`TypedPipe`).
* change sets: an operation changes its own edit only; status, ledger and text
  agree (`ChangeSets`).

## Plan

| step | module | what it adds | state |
|---|---|---|---|
| 1 | `PermissionGate`, `PermissionGate_proofs` | gate and tool dispatch; invariants | checked, safety proved |
| 2 | `PaneSend`, `PaneSend_proofs` | operation ids, journal, crash, retries | checked, safety proved |
| 3 | `Installer`, `Installation`, `Installer_proofs` | journalled installation, failure and kill at every step, recovery, foreign edits; the abstract promise and the refinement | checked, safety and refinement proved |
| 4 | `AgentRuns`, `AgentRuns_proofs` | runs, delegation, finish, permission requests, run-only rows, soft grants | checked, safety proved |
| 5 | `TypedPipe`, `FrameStream`, `TypedPipe_proofs` | ring, drain thread, handles, close; the abstract stream and the refinement | checked, safety and refinement proved |
| 6 | `ProfileStore`, `ProfileStore_proofs` | queue file and grant file, races of their writers, crash and restart | checked, safety proved |
| 7 | `ChangeSets`, `ChangeSets_proofs` | edits of one file by processes without a lock | checked, safety proved |
| 8 | | an abstract statement of the gate and of the send journal, as `Installation` is of the installer, and its refinement | open |

The modules are not composed into one: each takes what the others do as the
nondeterminism its component sees.  `AgentRuns` has the decision of the gate on
one call as one step, `PermissionGate` has its steps; `ProfileStore` has the
files behind both.

## PermissionGate

One step is one critical section of one thread.  `pc` is where the worker of a
call stands in `dispatch_call_admitted`:

| action | code |
|---|---|
| `Dispatch`, `Readmit` | evaluation in `admit_with_posture`; after a decision the call is admitted again from scratch |
| `FileAsk` (`JoinAsk`, `NewAsk`) | `persist_pending` under the pending lock |
| `FindGrant` | the second store lock, where the grant id is looked up |
| `NoteUse` | commit point under the admission lock; audit may fail |
| `Execute`, `Consume` | handler, `note_outcome`, `consume_once` |
| `SeeDecision`, `GiveUp`, `CancelAsk`, `TimedOut` | `WaitingApproval::present` of `app_call.rs` |
| `Decide`, `RecordRow`, `SaveRow`, `AuditRow`, `DropPending`, `Publish`, `CloseItem` | `approve_pending`; `dec` is whoever holds `decision_lock` |
| `Revoke`, `AllowEntry`, `SwapEntry`, `SaveEntry`, `RestoreEntry`, `Lapse` | the permissions list and expiry |

`minted` is a history of the rows ever built; `store` the rows present.
`Vec::find` returns the first match; `save_durable` reorders the vector, so the
model lets the lookup return any matching row.  A binding is a model value; two
bindings of one tool differ in what an `args_unbound` or `tool_scoped` row
ignores.  Sessions are one: a row of another session never matches.

Runs.  `gate`: two calls of one tool with different arguments, the second under
a closed posture, with decisions for this time, for the tool, for always and
never; four asks, no new decision after two rows.  `gate_answers`: two callers of
one binding, who share its ask; the queue and liveness.  Two callers and two rows
are enough for each hazard: a row replaced or revoked between one caller's
evaluation and commit, an ask shared by two callers of whom one gives up, a denial
and an allowance of overlapping scope.

Fairness: weak fairness of each worker, of the decision in progress and of the
edit in progress, which are threads that run to the end of a function; none for
people.  A run may deadlock when all calls are answered, so deadlock is not
checked.

## PaneSend

The frame loop runs one handler at a time; `ui` names the send in progress,
split where the host may die (`Restart`) or the relay thread may deny an ask
(`Deny`, `DenyClose`).  Requests carry an operation id and a text; one caller
pane, one target pane.

| action | code |
|---|---|
| `Arrive`, `Refuse`, `AskPerson`, `Admitted` | `SendToPane` of `lifecycle.rs`: identity check, admission, parking |
| `Claim` | `claim_pane_send`: the unknown marker on disk before the effect |
| `Deliver`, `Settle` | the write to the pane; `note_use`, `note_outcome` |
| `SubmitDone` | `service_pending_submits` |
| `Detach`, `WakeApproved`, `WakeDenied` | `service_pending_send_approvals`, which looks at deadlines before decisions |
| `Approve`, `DecisionFails`, `Deny`, `DenyClose`, `Revoke` | `approve_pending`, `resolve_needs_you`, `revoke_entry` |
| `Restart` | `restore_queue`, `restore_continuations` |

`conts` is the map of continuations by run id with `Rank` standing for the
order of its keys (asks are random identifiers, so any order may occur; the
instance puts the operation between two asks); `disk` is what survives.  Writes
the code only logs when they fail may fail silently; writes it checks fail with
the reply the code gives.  Deadlines and vanished callers are one action that
may happen at any time.  The identity check reads the record under the operation
id, a claim marks the first record of the operation in key order, as the code
does.  `rewound` is a history variable: operations whose claimed record a
departing waiter (`detach_pane_send_waiter`) or a new ask (`upsert_continuation`)
put behind one that is still in flight.

Runs.  `pane_send`: three submits, the second with another text, approvals once
and always, one revocation, one crash, two asks.  `pane_send_answers`: liveness
of two tries with denials; four asks suffice for two requests and one revocation,
so the bound never stops a request.  `pane_send_replay`: the finding.

Fairness: weak for the handler in progress and a denial in progress, strong per
request for the two services of the frame loop, which visit every waiter in every
frame; a waiter always has a deadline (`SEND_APPROVAL_WAIT_TIMEOUT`).  People and
crashes are not fair.

## Installer and Installation

`Installer` is the installer of one channel: several processes, each in one
operation, over what is on disk.  `disk` holds the integrations (the launcher
and registry files, drop-in completions, the user's shell profiles, on macOS the
application bundle), `receipt` is `installation.json`, `journal`
`transaction.json`, `generations` the packages.  A version stands for a digest;
a file of a version is that version.  A profile is the user's text and our block.
`Order` is the order in which the integrations are prepared; the changes of a
transaction and a removal follow it (`InOrder`).  A package has at most one
application bundle, as the code has one `aside` per transaction.

| action | code |
|---|---|
| `Start` | what a caller read before any lock: the build an update expects, the package a rollback goes to |
| `LockChannel`, `LockIntegrations` | `lock` of the channel root and of `integration-lock`; a lock belongs to the file, not to its name |
| `Recover`, `FindOurs`, `PutBack`, `FindBundle`, `TearBundle`, `DropBundle`, `RestoreBundle`, `RestoreReceipt`, `ClearUndone` | `recover`, `restore_bundle`: what the transaction wrote is found by its digest, then replaced by the backup |
| `Stage`, `PrepareInstall`, `BackUp`, `WriteJournal`, `ApplyFile`, `MoveAside`, `ActivateBundle`, `WriteReceipt`, `Verify`, `ClearJournal`, `Finish` | `install_checked`, `apply_changes`, `swap_bundle` |
| `PrepareRegister` | `register_path`, which then goes the same way |
| `Preflight`, `Unregister`, `StripProfile`, `CheckOwned`, `RemoveOwned`, `RemoveBundle`, `TearGeneration`, `DropGeneration`, `RemoveReceipt`, `Unlink` | `uninstall`; a profile is read and written, a path checked and removed in two steps, and a recursive removal takes two |
| `Fail` | any refusal or I/O error; from the journal on, it leads to `recover` |
| `Crash`, `UserEdits` | a kill; the user replaces or deletes a file or edits a profile |

The launcher (`launch`) recovers under the channel lock alone and then runs the
version of the receipt, which changes nothing.  `cut`, `touched` and `late` are
history: whether a removal has begun and not ended, the paths the user ever
edited, and those edited since each process last looked at them.

Nothing keeps the user out between a check and the write it guards: the
ownership check and the backup copy (`prepare_file`), the copy and the
replacement, the digest of an undo and what it puts back
(`transaction.rs:466`), the text of a profile read and written without our
block, the check of an owned path and its removal (`transaction.rs:1226`).  What
appears in one of these windows is backed up as ours, overwritten or removed, and
the model loses it as the code does.  `ForeignContentKept` says that nothing else
is lost: who changes content of the user looked at its path before it was there,
since when `late` has the path.  The copies of a transaction are one step
(`BackUp`), as are its ownership checks: what the user does to one path does not
depend on another.

`Installation` is the promise: one version in force, or none; a request takes
effect at one instant while its process lives, or not at all; an update only on
the version its caller saw.  `OneVersionInForce` says that `Installer` implements
it, where the version in force is the journal's `before` while there is a journal
and the receipt's otherwise: writing the journal and the receipt, undoing and
recovering are stutters, removing the journal is the instant of effect.

Runs.  `install`: two operations of any kind, by two processes or in turn, from
an empty or an installed channel, any number of failures, one kill and one edit.
Two operations are enough for an update whose base changed, for an operation
that finds what a killed one left (also a kill inside the undo of a failed one),
and for a removal and a reinstallation.  Three are enough for the split lock
(below), after which `FilesMatchReceipt` and `OneVersionInForce` do not hold
either.  There is no liveness: an installer refuses rather than waits.

## AgentRuns

Requests (`op`) are served by the frame loop and one thread per MCP connection.
`runs` is `runs.jsonl` folded to the last record of each run and has the journal
lock; `card` is the `agent.json` of each agent and has none; `rows` are the grant
rows a call of an agent and tool can match: the scope row a card made, the
run-only row, the one-shot row.

| action | code |
|---|---|
| `StartCreate`, `RefuseCreate`, `TakeExisting`, `NoneExists`, `WriteCard`, `RecordScope` | `create_agent`, also inside `delegate` and `agents.create`: subset check, look for a card, card, one row per tool |
| `StartSpawn`, `StartDelegate`, `FindChild`, `Issue` | `spawn_run`, `delegate`, `issue_run` (one step, under the journal lock) |
| `StartFinish`, `RevokeRows` | `finish_run`: the journal, then the rows |
| `StartCall`, `Admit`, `Commit`, `Consume` | `invoke`: scope of the run, `admit`, `note_use` and the tool, `consume_once` |
| `AllowCall`, `DenyCall`, `AllowAsk`, `MintRunOnly`, `DenyAsk` | what a person does with a pending call or a permission request (`resolve_needs_you`) |
| `Lapse`, `Expire`, `ReadCard`, `SyncCard`, `SyncRuns` | time passes; `expire_soft_grants`: the row, then the card, read and written back without a lock, then the runs |

`Star` is the tool name `"*"`, which `covers` takes for every tool.  A creator
cannot ask for it (`parse_grant_spec` refuses it), but a call under that name is
refused with an ask, and a run whose ask was allowed covers whatever a child
wants (`Covering`).  `Admit` has the three answers of the gate: a commit to come,
a pending ask, or a denial, by a lasting row or for arguments that are not valid,
which files a permission request like a refusal by the run's scope.

A refusal joins an open ask of the same run tag and tool; a child files under
its parent's tag, the ask keeps the run that filed it.  Histories (`issued`,
`ever`, `sources`, `filed`, `approved`, `ran`) say what runs started with, what
they were ever recorded to hold, what creators held, and what ran under which
row.

Runs.  `agents`: two threads, one agent with a card whose tool it may use for a
while and one without, two spawns, three calls, one finish: enough for a soft
grant that expires between the check of a call and its commit, for an ask that is
allowed after its run finished, and for two spawns that race.
`agents_delegate`: one creation, spawn and delegation and two calls, over
`agents.create` and `"*"`, so that parent and child may both be refused and join
one ask, and a parent that was allowed `"*"` may create.  Two children that share
an ask take two delegations more than this run has; the theorem covers them.
`agents_race`: the finding.  Threads and admission ids are symmetric.  No liveness: every request
ends, nothing waits.

`BorrowedAcrossFinish` says how far a run-only row can reach beyond its run.  A
test asserts that a "subsequent run must not inherit run-only grant"
(`runs.rs:2137`), and `finish_run` does revoke it; an ask decided after the finish
mints it again, and the row matches by agent, not by run.

## TypedPipe and FrameStream

`handles` is the handle table of one app pane, `entries` its registry; for each
pipe name `ring`, `hand`, `drain`, `shutdown` and `failed` are the ring, the frame
the drain thread holds, where that thread stands, and the two flags.  Guest and
host enter the registry one at a time (`joining`: a close that awaits its
thread); each pop, write and flag load of the thread is a step, on Unix or
Windows (`windows`).

| action | code |
|---|---|
| `Open`, `OpenBinary`, `SendBinary`, `Close` | the pipe imports of `wasm_app.rs`, `open_json`, `open_binary` |
| `RegisterDirected` | `register_directed_pipe` |
| `Drop`, `DropEntry`, `Joined` | `Drop` of the registry; `close` after the join |
| `Connected`, `NotConnected`, `AcceptFails`, `Pop`, `Written`, `WriteFails`, `CheckShutdown`, `WriteEos` | the drain thread |

A thread that found the ring empty loads the shutdown flag next; a frame pushed
in between is accepted and, if a close follows in the same window, never written.
`late` remembers the frames taken in that window: `OnlyLateFramesCut` says that
they are all a thread without an error leaves behind.  `crossed` remembers names
that the host registered over a binary pipe.

Run `pipe`: one name, a ring of two, four frames per open pipe, three handles,
so a ring can fill, a pipe be closed and opened again, and a name be crossed.
Names do not interact but through the handle table and the one close at a time.

Fairness: weak for what the thread does by itself (`DrainStep`) and for the end of
a call (`Call`), which are threads that run; none for the client, whose silence
blocks a write.  `CloseReturns` and `FramesDrain` therefore assume that the client
lets no write wait forever, in their statement; without it they do not hold, nor
does the code promise them.

`FrameStream` is the promise of one pipe: a bounded stream in order, without gaps
or repetition until it ends.  `ImplementsStream` says that each pipe implements
it, where accepted and delivered frames are themselves and the stream is open
while its thread serves or listens; it is checked step by step.

## ProfileStore

`queue` and `tmp` are `needs-you.json` and its temporary file, `grants` is
`grants.toml`; `pending`, `item` and `store` are their counterparts in memory.
Decisions are those that differ on disk: a row for once (memory only), for
always and for never, and no row for a plain denial.

| action | code |
|---|---|
| `FileApproval`, `JoinApproval`, `FileQuestion`, `Answer` | `persist_pending`, `file_needs_you_with_details`, `answer_needs_you_from`; other ends of a question go the same way |
| `Decide`, `SaveRow`, `AuditRow`, `Drop`, `Close` | `approve_pending`, `record_tool_scoped`, `close_needs_you` |
| `CopyPending`, `CopyItems` | the two copies of `persist_queue` |
| `OpenTmp`, `WriteTmp`, `Rename`, `RenameFails`, `Clean`, `SaveQueueFails` | `write_private`; a thread keeps the file it opened when another renames it (`at`) |
| `Revoke` | `revoke_locked`, whose failed save is only logged |
| `Restart` | `restore_queue`, `install_restored`, the load of the rows |

A save that meets another may leave the file behind, or its text mixed so that
the seal does not verify; `doubt`, `shared` and `owed` are histories of when this
may be so, and the invariants say that it is so in no other case.  The tip in the
key store is left out: `load` looks at it only when the queue file is missing.

Run `store`: two threads, one ask and one question, four choices, two rows, one
crash.  Two saves are what can meet; a third thread adds only longer queues of
them.

## ChangeSets

One file, edited by agents through change sets and by its user.  A text is a
revision of the user's and the set of edits in it; a digest is the text.

| action | code |
|---|---|
| `Propose` | `prepare_edit`, `stage` |
| `Look`, `Mark` | `accept_gated` before admission: the published editor buffers, `mark_stale` |
| `Load`, `Read`, `Write`, `Save`, `Ledger`, `Undo`, `Unsave` | `commit_prepared`, `refresh_prepared`, `revert_prepared`, `reject_pending` |
| `Publish`, `Type`, `UserSaves`, `CloseBuffer` | the editor of the text (`text_editor_app.rs`): the buffers it publishes, clean or not, and its saves |
| `EditFile` | another program |
| `Crash` | a process dies between two steps |

Each read and write of a file is a step, since nothing locks the file, a set or
the ledger.  `overtaken` marks an operation after whose read somebody wrote the
file: the compare and the write of an accept are two steps, and what is written
in between is lost.  `OnlyItsOwnEdit` says that this window is the only one.
`doubt` marks sets that two operations worked on at once, whose operation died or
could not record its result, or whose edit came back with an old text.

The editor saves what was typed and asks first when it saw the disk change
(`flush_with`); `UserSaves` may save any published text at any time, which is
more.  An editor that follows the disk or a commit takes the text of the file
(`Publish`).  On a refresh the editor marks a set stale over another text or disk,
and its accept commits without the gate (`text_editor_app.rs:587`): both are an
accept of the model that is refused, or admitted.

Run `changes`: two processes, two edits, three operations, one revision of the
user: an accept and the accept, refresh or revert that meets it, and one before.

## Where the code and its texts disagree

Two runs expect a violation:

* `pane_send_replay`: a waiter whose deadline passes after another try of its
  operation completed reopens the completed record, and a third try repeats the
  send.  `ReplayOnlyAfterRewind` (passing, and proved) shows that a departing
  waiter and a new ask are the only ways to a second delivery.
* `agents_race`: two parents delegate to one child name at once.  Both find no
  card, both write one; the child of the first is issued with the card of the
  second and may hold more than its parent ever did, where `runs.rs:8` promises a
  subset.  `AuthorityHasSource` (passing) shows that what it holds was at least
  held by some creator of it.

Others are in the models as the code has them, without a run of their own:

* `gate.rs:2258` calls the unknown marker written by a claim what stops a replay.
  The marker goes on the operation's first record in key order (`gate.rs:2268`),
  the identity check reads the record under the operation id (`gate.rs:2246`), and
  an ask of an operation whose record names another ask gets a record of its own
  (`gate.rs:2163`).  Ask 1 is approved and its grant revoked; a retry files ask 2,
  whose key sorts first, and is approved; the claim marks ask 2's record, the text
  is typed, and the outcome cannot be saved.  The grant is revoked again, a retry
  passes the identity check and files ask 3, whose key sorts before both: approved,
  it types the text again.  This takes four requests, three asks and two
  revocations, more than `pane_send` has; it is the new ask of the item above.
* `broker/mod.rs:205` says a consumed one-shot no longer authorizes a commit;
  `note_use` (`gate.rs:2978`) does not look at the flag, so two calls admitted
  before the first is consumed both commit.
* The waiting presenter "observes a human decision" (`app_call.rs:17`), but its
  cancellation is a Deny of an ask that other callers share, who then report a
  refusal nobody took.
* `uninstall` unlinks `install.lock` after it dropped the lock
  (`transaction.rs:1526`), so two processes may hold the lock of one channel;
  installers are still kept apart by `integration-lock`, a launcher is not: it may
  undo the transaction of an installer that is at work.
* An undo that stops inside the removal of the new application bundle is not
  resumed by the next recovery (`transaction.rs:1143`, macOS).
  `DisplacedBundleKept` (passing) shows that the displaced bundle is never lost
  before that, and says nothing of what follows.
* A run-only grant minted after its run finished serves the agent's next run
  (above).
* "Exits when `shutdown` is set and ring is empty" (`typed_pipes.rs:210`): in the
  window above the ring need not be empty.  On Unix a failed accept ends the
  thread without the error flag, so the pipe is reported connected and serves
  nobody (`typed_pipes.rs:229`).

## Proofs

Every safety property that a passing run checks is a theorem, proved for every
value of the constants: any number of processes, threads, requests, asks, rows,
paths, and any bounds.  The `ASSUME`s are the only assumptions: types of the
constants, finiteness of the installer's processes, and that keys of the send
journal are ordered.  Each theorem goes by `Init => Inv`, one lemma per action or
group of actions for `Inv /\ [Next]_vars => Inv'`, and PTL.  Fairness is not used.
No property of a run is inductive alone; what each needs follows.

| module | theorem | property |
|---|---|---|
| `PermissionGate_proofs` | `TypeCorrect` | `TypeOK` |
| | `CommitsMatch`, `RevocationIsABoundary` | `CommitMatchesGrant`, `RevokeBoundary` |
| | `AsksAreShared`, `ItemsTellTheDecision`, `NoWaiterIsStranded` | `AskQueueConsistent`, `ItemMatchesDecision`, `WaitersAskIsLive` |
| | `DecisionsAreAtomic` | `DecisionAtomic` |
| `PaneSend_proofs` | `TypeCorrect` | `TypeOK` |
| | `DeliveredOnce`, `WaitingIsUnclaimed` | `ReplayOnlyAfterRewind`, `WaitingProvesNoEffect` |
| | `SuccessIsTrue`, `OneText` | `SuccessIsDelivery`, `OneTextPerOperation` |
| `Installer_proofs` | `TypeCorrect` | `TypeOK` |
| | `FilesMatchTheReceipt`, `LaunchersLeadToPackages`, `DisplacedBundleIsKept` | `FilesMatchReceipt`, `LaunchersResolve`, `DisplacedBundleKept`, each under `[]LaunchersApart` |
| | `ForeignContentIsKept` | `ForeignContentKept`, under `[]LaunchersApart` |
| | `PromiseIsKept` | `OneVersionInForce`, under `[]LaunchersApart` |
| | `LaunchersWorkAlone` | `LaunchersApart` without removals or without launchers |
| `AgentRuns_proofs` | `TypeCorrect` | `TypeOK` |
| | `RunsAreExclusive`, `FinishedIsFinal` | `OneRunAtATime`, `FinishedStaysFinished` |
| | `ApprovalsReachFilers`, `BorrowingIsAcrossFinish` | `ApprovalReachesFiler`, `BorrowedAcrossFinish` |
| | `ScopesHold`, `AuthorityComesFromCreators` | `ScopeHolds`, `AuthorityHasSource` |
| `TypedPipe_proofs` | `TypeCorrect` | `TypeOK` |
| | `FramesAreKept`, `OnlyLateCut`, `HandlesAreTrue` | `NoFrameLost`, `OnlyLateFramesCut`, `HandlesTellTruth` |
| | `PipesAreStreams` | `ImplementsStream` |
| `ProfileStore_proofs` | `TypeCorrect`, `GrantsSurvive`, `QueueSurvives` | `TypeOK`, `GrantsFaithful`, `QueueFaithful` |
| `ChangeSets_proofs` | `TypeCorrect`, `SetsSayWhatIs`, `EditsStayApart` | `TypeOK`, `StatusFaithful`, `OnlyItsOwnEdit` |

`PermissionGate_proofs`.  `TypeInv` adds to `TypeOK` that the references in
`dec`, `edit` and the rows point to asks and rows that exist.  `CommitInv` adds
what a call holds before it commits: the row named at `FindGrant` covers the
binding whatever its effect, and a revoked allowing row is out of the store for
good (what a failed `allow_entry` puts back is the denial it took out).  `AskInv`
adds the states of an ask between `DropPending` and `CloseItem`; that an item
tells the decision and that no waiter's ask is gone without a resolution need
them.  `DecisionInv` says for every ask and every step of `approve_pending` which
rows were made for it and which of them are audited.

`PaneSend_proofs`.  `JournalInv` says of the journal in memory and of the one on
disk alike (`Good`) that every record of an operation is about one text, that the
operation's own record is there once it has any, that no two records have one
ask, that a completed record was delivered, and that what was delivered, or is
about to be, is recorded.  That the disk has it too is what carries it over
`Restart`.  `SpentInv` says that the first record in key order of an operation
that took effect refuses a claim, unless it was rewound; `OnceInv` that such an
operation was delivered at most once and that a delivery under way is its first.
The first record exists because `Rank` is a well-founded order (`FirstIsThere`).
Most actions change one record: `StillStep`, `QuietStep` and `MovingStep` are the
three shapes of what they do to the journal, and the lemmas of the actions cite
them.

`Installer_proofs`.  `TypeInv` says what an operation has in its record at each
step (`Placed`): a kind that may be there, a transaction after `journal`, a rest
of its changes.  An `XIs` lemma says what action `X` does to single fields and
paths; the rest of the module uses these and does not expand actions again.

The other invariants need that one process works on the installation at a time
(`Apart`).  Then `DiskInv` says, of whatever is under way: the changes of the
journal are those from the receipt before to the one after (`SoundTx`), each path
once; a path they do not reach fits the receipt in force, a path they reach has
what was backed up or what was staged, and what was backed up fits that receipt
(`Unreached`, `BackedUp`); a file of a version is the receipt's or the journal's,
and both lead to whole packages (`Traced`, `TxWhole`); the displaced bundle is in
place or aside (`BundleInv`).  `Phase` says how far the process is: the changes
no longer in `todo` are applied, or reverted; the receipt is the transaction's at
`commit` and at `undone`; a removal has in `todo` every file that is still there;
the transaction is the one that was asked for (`RequestPhase`).  A crash needs
nothing further, since `DiskInv` does not mention the process: whoever recovers
finds `Phase` of an undo from the journal alone (`UndoBegins`).  `LateInv` is for
`ForeignContentKept`: a path that a process has checked, and that nobody edited
since (`late`), still has what the process saw, until it writes there itself
(`Sees`); so a write over something else is late.

`Apart` follows for installers from the integration lock (`SharedInv`), which is
one file that nobody unlinks.  A launcher takes the channel lock only, and
`uninstall` unlinks that lock's file after dropping it, so a launcher may hold an
unlinked file while an installer works.  It takes three operations, and then the
invariants and the refinement do fail (above).  The theorems therefore have
the hypothesis `[]LaunchersApart`, that no launcher works beside another process,
and `LaunchersWorkAlone` shows where it is sure: in every behaviour without
removals, because the lock file then stays and has one holder (`HeldInv`), and in
every one without launchers.  So the theorems say both that the promises hold and
that the unlinked lock is the only thing that can break them.

`PromiseIsKept` maps `Installer` to `Installation`.  Writing the journal stutters
because its `before` is the receipt, the receipts written under a journal because
the journal's `before` is what counts, the end of an undo because the receipt is
the journal's `before` again; the removal of the journal is `Activate` or
`Register` because the receipt is `after`, and `RequestPhase` says that `after` is
what `Installation` computes from the version in force and the wish; the removal
of the receipt is `Remove`.  Each failure and kill is `GiveUp` or a stutter.

`AgentRuns_proofs`.  `StepRuns` says what a step may do to the journal of runs,
`StepMoves` how a request comes by the copies of cards and scopes it goes on
with.  On these rest: `AllowInv`, asks and run-only rows are of the run that
filed them, and a row's run was allowed the tool; `BorrowInv`, the same of what
already ran; `ScopeInv`, every tool in the scope of a run was there when it was
issued or was allowed to it later, also for the calls between check and commit;
`SourceInv`, every copy of a card, wherever it is, is within what some creator of
that agent held.

`TypedPipe_proofs`.  `ThreadInv` ties the thread of a name to its entry and
flags: a binary entry has a thread and a clear shutdown flag, a name without one
has no running thread unless a close awaits it, and a thread that stopped was
told to or failed.  Without it, nothing would keep a new pipe from starting next
to the thread of an old one.  `FlowInv` carries the frames: what was accepted is
what was delivered, is in hand and in the ring, and the frames in the ring of a
thread that is about to look at the flag were pushed in its window.  `HandleInv`
says that a live handle names an entry of its kind and that no two of them share
a name unless it was crossed, which is what a close must leave true.  `LagInv`
bounds how far delivery lags, by the ring and the frame in hand, which is what
`FrameStream` promises of its buffer; with it each step is a step of the stream
or a stutter.

`ProfileStore_proofs`.  `LockInv` is mutual exclusion, `AskInv` what the decision
lock guarantees of the item a thread decides.  `GrantInv` says which durable rows
are on file while a row is being saved, and that what is on file but not in
memory is owed to a save that failed.  For the queue, `AloneInv` says who saves
alone, `WriterInv` that such a thread has the temporary file to itself from open
to rename, and `FreshInv` that the copies it took are current, unless somebody is
between a change and its save; these together show that the file is behind only
where `doubt` says so.

`ChangeSets_proofs`.  `MadeInv`: every set and every copy of one holds a text and
that text with the set's edit.  `WindowInv`: the file is the text an operation
read or wrote, until somebody overtakes it.  `StatusInv`: how far set, ledger and
file are apart at each step of an operation that has its set to itself (`Mid`),
and that at rest they agree (`Faithful`).

Only model-checked.  Liveness (`EveryCallAnswered`, `EverySendAnswered`,
`CloseReturns`, `FramesDrain`) needs fairness and `ENABLED`, which are out of the
prover's reach.  `AtMostOnce` and `ChildWithinParent` are the properties that do not
hold.

## Not modelled

* Gate: pane-session rows, reset, the order of the rows, other sessions.
* Pane send: human callers, which no broker sees; several callers or targets
  under one operation id, which the fingerprint tells apart just as it does
  texts; the other waits of `pane_wait.rs`.
* Installer: the Windows search path, legacy commands that are adopted, the
  `installed_tag` marker, scratch directories that a kill leaves behind, shell
  blocks shared with other channels, packages that do not validate.
* Agents API: pane-session grants, run tokens, denials and approvals of a call as
  rows that last (a denial is an answer `Admit` may give), the ledger row, several
  workspaces and host sessions.
* Stores: keys that cannot be read, the quarantine of a grant file, legacy files,
  expiry times of items.
* Change sets: a write that stops half way (`std::fs::write` of a text or a set),
  an empty note, which a save deletes (`text_editor_app.rs:1127`),
  audit facts, the grant an accept uses, the listing by path, `prepare_replace`.
* Pipes: the audio callback as a second producer of one ring, socket files.

The components without a module are listed in `PROJECT.json` with the reason:
drawing, parsing, layout and document models are sequential and tested where they
are; the scheduler, subscriptions and fleet run on the frame loop alone; leases
and the relay depend on processes and services outside this code.  They are most
of the repository's lines, and a model of them would restate them.
