# Vaulthalla in TLA+

Vaulthalla is a storage daemon: vaults of encrypted files, served through FUSE, HTTP,
WebSocket, an S3 gateway and a shell, and synchronised with S3 buckets. This directory
models the parts of the daemon (`src/core`) where several threads, a database and a disk
have to agree, model-checks them on small instances with TLC, and proves the central
invariants with TLAPS for every value of the constants.

## 1. The system

| Part (under `src/core/src`) | State | Operations | What makes it hard |
|---|---|---|---|
| Content at rest: `fs/Filesystem`, `fuse/WorkingCopies` | files row, backing file, sidecar, content lock, cached entry | create, overwrite, seal of a working copy, remove, `repairAtRest` | no transaction spans the database and the disk; a crash falls between any two steps |
| Key rotation: `sync/rotation` | sidecars, rows still on the old key | recovery walk, `rotateFile`, `runPass` | runs beside user writes; recovery knows only what authenticates |
| Vault keys: `vault/EncryptionManager`, `db/query/vault/Key` | key version in memory and database, outgoing key | prepare, finish, load | two copies of one state, updated one after the other |
| Sync scheduling: `sync/Controller`, `Local`, `Cloud` | task map, queue, pool, pass lease, waiting mark | run loop, `runNow`, `runScoped`, refresh | tasks are replaced while they are queued or run; checks and acts under separate locks |
| Sync pool: `concurrency/ThreadPool` | queue, workers, futures | submit, worker loop, stop | a pass blocks a worker while it waits for subtasks of the same pool |
| Events: `sync/events`, `db/query/upstream` | inbox, own-write intents, remote index | poll, apply, schedule, settle | late, duplicated, reordered and lost events; own writes come back as events |
| Planning and conflicts: `sync/Planner`, `ConflictResolver` | local row, index row, baseline, conflict | plan, transfer, resolve | three views that may disagree, read one after the other |
| Cost control: `storage/s3/pricing/PriceBudget` | policies, ledger, overrides | preflight, commit, release, expire | concurrent transactions against one limit |
| Engines and S3: `storage` | remote index, manifest | upload, download, remove | requests in flight, retries |
| Recovery: `recovery` | versions, snapshots, backlog | capture, replay, restore | order towards the provider |
| Retention: `vault/Retention*`; shares; auth; access control; previews; protocols; operations | mostly database rows | | see `PROJECT.json`, `components` |

The parts meet in the sync pass: the controller schedules it, one lease per S3 vault keeps
it apart from event batches, its startup stage settles sidecars and repairs old files,
its rotation stage re-encrypts files under the same content lock user writes take, and
its end decides whether the task is queued again. An S3 pass reserves its price before
it transfers anything and settles it afterwards, runs its transfers as subtasks on the
pool it runs on itself, and plans from an index that the event applier and listings keep.

The hazards this reading turned up are in `PROJECT.json`, each with its line and the
properties that would catch it.

## 2. Modules

| Module | What it is |
|---|---|
| `ContentStore` | what a vault promises about the content of a file: a register |
| `VaultContent` | content at rest, key rotation, recovery and crashes of one vault; implements `ContentStore` |
| `MCVaultContent` | symmetry for TLC |
| `VaultContentFiles`, `VaultContentSafety` | proofs about `VaultContent`; the second that it implements `ContentStore` |
| `SyncController` | scheduling of one vault's sync passes |
| `MCSyncController` | symmetry for TLC |
| `SyncControllerSafety` | proofs about `SyncController` |
| `SyncPool`, `MCSyncPool` | the thread pool, and passes that wait for their own subtasks |
| `SyncPoolSafety` | proofs about `SyncPool` |
| `EventInbox`, `MCEventInbox` | bucket events of one key: inbox, index, intents, listings |
| `EventInboxTypes`, `EventInboxSafety` | proofs about `EventInbox` |
| `FileSync`, `MCFileSync` | plan, transfer and conflict of one file |
| `FileSyncSafety` | proofs about `FileSync` |
| `PriceBudget`, `MCPriceBudget` | the price ledger: policies, reservations, overrides |
| `PriceBudgetSafety` | proofs about `PriceBudget` |

### VaultContent

Every content change follows one order: new ciphertext into `<backing>.vh-rotate`, row
moved to the new IV and key version, sidecar renamed over the backing file. The model has
one action per step that another thread, or a crash, can observe:

* `CreateBegin`, `CreatePlace`, `CreateRow`, `CreateFail`: a new file
  (`Filesystem::createFile`);
* `WriteBegin`, `WriteStage`, `WriteCommit`, `WriteRename` and their failures: an
  overwrite, or the seal of a FUSE working copy (`WorkingCopies::seal`), under the
  content lock of the file;
* `TrashRow`, `TrashBacking`: `Filesystem::remove`; `OpenCopy`, `ReleaseCopy`: FUSE;
* `PrepareCheck`, `PrepareDb`, `PrepareMem`: the check, the transaction and the memory
  half of starting a rotation, each for itself; `FinishDb`, `FinishMem`: of finishing one.
  A COMMIT may fail (`PrepareDbFail`, `FinishDbFail`) or take effect although it reports a
  failure (`PrepareDbInDoubt` and the second case of `FinishDbFail`);
* `PassBegin`, `StartWalk`, `WalkLoad`, `WalkJudge`, `WalkAct`, `WalkPartial`,
  `StartupWalkDone`: `recoverSidecars`, at startup and at the head of a rotation;
* `RepairBytes`, `RepairRow`, `RepairRowFail`, `RepairSkip`, `RepairDone`: `repairAtRest`;
* `Sweep`, `RotationList`, `RotBegin`, `RotStage`, `RotBusy`, `RotCommit`, `RotRename`,
  their refusals and failures, `RotationDone`: `runPass` and `rotateFile`;
* `Crash`: the daemon dies and starts again; memory, locks and working copies are gone,
  the disk and the database stay, and the keys are loaded as `load_key` does.

A plaintext is a value. An IV stands for one act of sealing: bytes authenticate under a
row when both name the same act and the key version is loaded. `FreshSeals` picks an IV
nothing in the state remembers, which is what a random 96-bit IV gives.

### The environment

Nine things the code excludes by no lock are events an instance admits or not
(`Admit`). Three of them can cost a key (`KeyEvents`), six can cost content
(`ContentEvents`):

| Event | Where | What it is |
|---|---|---|
| write meets walk | `Rotation.cpp:306` | the walk reads rows once and takes no content lock |
| emptying cut short | `Rotation.cpp:279` | a write that empties a file stops after its row |
| leftover unsettled | `Filesystem.cpp:933` | a write starts over a sidecar its row still describes |
| commit in doubt | `Filesystem.cpp:986` | COMMIT throws although it took effect |
| repair cut short | `Filesystem.cpp:1595`, `:1612` | a crash between the bytes and the row of a repair, or a failed update of the row, which is caught and skipped |
| directory sync fails | `Filesystem.cpp:993` | fsync throws after the rename, before the cached entry follows |
| seal spans rotation | `Local.cpp:350` | a write sealed under the old key commits after the last query |
| prepare meets finish | `EncryptionManager.cpp:267` | a rotation is requested inside `finish_key_rotation` |
| prepares race | `EncryptionManager.cpp:199` | a second request passes the check before the first has rotated |

The runs about content admit the key events and not the content events; the runs about
keys do the reverse. So each claim reads: it holds whatever happens on the other side,
and on its own side it rests on the absence of exactly these events. The other modules
have switches of the same kind. Section 3 lists what fails when one is turned on.

### SyncController

One vault. `taskMap`, `queue`, `popped` and `pool` are the places a task can be in, `run`
says how far the worker inside a task is, `thread` where a caller or the run loop is in
`runNow` or `refreshEngines`. The steps are cut where the code releases a lock:

* `Pop`, `Submit`, `LoopRefresh`: `Controller::runLoop`;
* `Take`, `Denied`, `StartTask`, `NewEvent`, `Work`, `Shutdown`, `Requeue`, `StartFails`,
  `ReleasePass`: a pass, from the pool to the destructor of its lease guard;
* `RunNow`, `LookAgain`, `AskRunning`, `Rerun`, `Interrupt`, `Publish`: `runNow`;
* `ApplyRefresh`, `ChangeEngine`: `pruneStaleTasks` and `processTask` on the engines read
  before, and the operations that change the engine;
* `ApplyVault`, `ApplyLease`, `Applied`, `RunScoped`: the event applier;
* `Expire`: a waiting mark reaches `kRegularWaitBound`.

Abstractions: `next_run` only orders the queue, so any queued task may be the next one.
A task is an object behind `shared_ptr`: it exists while something refers to it
(`Referenced`), and its name is free again afterwards (`Collect`). Engines are not
reused while something refers to them. What the stages of a pass do is left out; a pass
succeeds or fails. Shell indexing and provider restores also take the lease, with guards
of the same shape as the applier's; they are not separate actors. One applier is modelled.

### SyncPool

The workers of `ThreadPool`, the queue, and passes (`Passes`: a vault may have several,
and nothing in the code relates their number to that of the workers). `Take`, `Return` and
`Exit` are `workerLoop`; `Schedule` and `SubmitPart` are `submit`; `BeginBatch`,
`EndBatch` and `Finish` are a pass that hands out a batch of subtasks and blocks its
worker in `processFutures` or `rotateFilesOnSyncPool`; `RunPart` is a subtask;
`RequestStop` and `Destroy` are the two halves of `requestStop`. The two kinds of batch
differ in one point that matters (`held`): a rotation keeps references to its tasks, so a
dropped task is not destroyed and its promise is not broken. `Stuck` names the state in
which every worker is blocked in a pass and what the passes wait for is queued behind them.

### EventInbox

One key. The provider's operations are a sequence (`ops`); `queue` holds the messages not
acknowledged. `pollOnce` stores a message and may lose the acknowledgement;
`checkDeadLetters` and `checkContinuity` notice a gap. The applier runs
`claimForVault`, then `OwnRemoval` or a HEAD (`HeadGone`, `HeadFinds`, `HeadFails`) for a
removal, then `Supersede` for each older row (a transaction of its own), `Settle`,
`markApplied`, `releasePass` and `schedule`. The pass is
`scopedFinish`, or the listing of a regular pass (`beginListing`, `ListObjects`,
`onBaselineListed`), or a write of our own (`noteOwnWrite`, `Request`,
`applyRemoteIndexMutation`, `RequestFails`). An intent is open from `Note` until `done`
gives it an ETag or `Failed` removes it; each of these may itself fail (`intentFails`). A
conflict resolution uploads and writes the index row without the lease (`noteResolution`,
`ResolutionRequest`, `ResolutionFails`, `ResolutionDone`, `ResolutionIndexed`; `unleased`).
The subscription the applier read may be out of date once it has the lease (`staleRead`);
`skipInactive` and `delayProtected` are its ways out before the lease. Times order events
only where the provider sends no sequencers.

Assumed: the subscription imports events, the vault's sync is on, the writes of passes
hold the lease, an own delete is of an object that exists, and a PUT returns its ETag. A
request that took effect although it reported failure is an operation of another writer
followed by `RequestFails`. One applier stands for the service's and a manual ingest.
The transactions of `HeadFinds` are one step, under the lease. `staleRead` lets any
earlier state of the subscription be the one that was read. A listing begins when the
baseline is held; that the code also lists when the index is empty, and that a protected
bucket sets the subscription to failed, is left out. The request budget, the yielding to a waiting regular pass (in
`SyncController`), the republishing of the manifest and the sweep of finished rows are
left out. All objects have one size, the hardest case for telling own writes apart.

### FileSync

One file under one strategy and one conflict policy. `BeginPass` and `loadConflictState`
read the index row, the local row, the baseline and the open conflict one after the
other; `planPass` is `Planner::build` with the conflict state it flushes; `Upload`,
`DownloadGet`, `DownloadStore`, `IndexRemoteOnly`, `DeleteLocal`, `DeleteRemote` and
`applyRemoteIndexMutation` are the executor. `ResolveBegin` to `ResolveFinish` are
`ConflictResolver::resolve`, which runs on a request thread. `ApplyEvents` stands for
`EventInbox`: the index learns of the bucket's last event. Contents are numbers in
the order of the changes. The hash of a local file is of its sealed bytes, so the same
content downloaded again has another hash. `Sent` keeps the row that was loaded apart
from the bytes that are there by now.

Left out: deletion by users and the purge of trash, replay of local versions, archive
restores, manifests, a change of policy, request and price budgets.

### PriceBudget

A run is one reservation and its settlement: a sync pass, a guarded operation (conflict
resolution, recovery), a remote fetch or a gateway request. A preflight is a transaction
of several steps (`Open`, `ExpireNext` per stale ledger row, `SelectPolicies`, `LockNext`
per policy row, `SumWindow` per window, `Decide`), with the row locks of PostgreSQL and
the time of its BEGIN; other transactions commit in between. `PreflightFails` rolls it
back. Then `Start`, `Touch`, `commit`, `release`, or `SettleFails`, which leaves the rows
reserved. A preflight whose COMMIT took effect unnoticed is an admitted run that does not
start. Operators request, approve and deny overrides
and edit policies. Time is in days, and a month has three: long enough for daily and
monthly windows to differ, and for a reservation to go stale inside a month.

## 3. What TLC checks

| Run | Instance | Shows | Distinct states |
|---|---|---|---|
| `vault_content` | 1 file, 2 values, 3 IVs, 3 key versions, 2 crashes, legacy plaintext | `TypeOK`, `ContentSurvives`, `ContentInv`, `CopiesAgree`, refinement of `ContentStore` | 546,284 |
| `vault_keys` | 1 file, 3 key versions, 2 crashes | `KeyHeld`, `KeyInv` | 1,362,585 |
| `vault_live` | 1 file, 3 key versions, 1 crash | `RotationFinishes`, `Decidable` | 87,346 |
| `sync_safety` | 5 tasks, 2 engines, 1 caller, 2 calls, every event | `TypeOK`, `OneLeaseHolder`, `InOnePlace` | 1,212,137 |
| `sync_live` | 3 tasks, 1 engine, 1 caller, 2 calls, sync switched | `RunNowServed`, `RegularPassRuns` | 228,172 |
| `pool_drains` | 2 workers, 3 passes, batches of 1 and 2, a stop | `PoolInv`, `PassFinishes`, `StuckUntilStopped`, `StopDrains` | 38,380 |
| `inbox_quiet` | 3 operations, 1 fault, with and without sequencers | `TypeOK`, `InboxInv`, `AgreeInv`, `QuietAgrees`, `RemovalIsReal` | 1,708,748 |
| `inbox_settle` | 2 operations, 1 fault, every event but a restart in a write and a tie | `OwnClaimsExact`, `RowsSettle` | 297,528 |
| `filesync_converge` | 3 changes or faults, 3 strategies, 4 conflict policies | `TypeOK`, `WholeInv`, `SyncInv`, `InSyncIsSame`, `NoUndecidedOverwrite`, `Converges` | 2,153,637 |
| `budget_spend` | 2 policies, 2 runs, 4 days, 1 edit, crashes, failed settlements | `TypeOK`, `SpendWithinLimit`, `PreflightDecides` | 253,485 |
| `budget_override` | 1 policy, 2 passes, 1 gateway request, 1 override, every event but a failed settlement | `OverrideBacked`, `OverrideLifecycle`, `GrantedOnce` | 1,319,179 |

One run ends in a violation, `vault_v_walk`: `Filesystem.cpp:908` says overwrites and
rotation of one file are serialised; the recovery walk is not, and discards the sidecar
of a write that commits meanwhile.

**Where a switch matters.** Each of these was found by turning the switch on, with the
property named; the runs above leave it off where the property is checked.

| Module, switch | Fails | Because | The source says |
|---|---|---|---|
| VaultContent, emptying cut short | `ContentSurvives` | the sidecar of a write that empties a file holds no bytes, and recovery discards it | sidecars only ever hold ciphertext (`Rotation.cpp:278`) |
| VaultContent, seal spans rotation | `KeyHeld` | a write sealed under the old key commits after the pass made sure | until then the old key stays loaded (`Rotation.hpp:19`) |
| VaultContent, prepares race | `KeyHeld` | two requests pass the check, the key is rotated twice, and memory holds one outgoing key of two | "EncryptionManager holds one outgoing key" (`Key.cpp:66`, of salvage only) |
| SyncController, pass fails | `RunNowServed` | `shutdown` requeues only after success, and the promised rerun is a flag of the task | an immediate rerun was queued (`Controller.hpp:36`) |
| SyncController, mark expires | `RegularPassRuns` | the mark keeps the time of the first refusal | event traffic cannot starve uploads (`Controller.hpp:54`) |
| SyncController, vault retires | `TaskDroppedWithEngine` | the task leaves the map, not the queue, and is not interrupted | the controller drops the task (`Manager.cpp:356`) |
| SyncPool, no switch, no stop | `QueueDrains` | every worker is in a pass that waits for the queue | workers draining one queue (`ThreadPool.hpp:16`) |
| SyncPool, cut rotation | `StopDrains` | a rotation holds its dropped tasks, so their promises stay unset | waiters see broken_promise (`ThreadPool.cpp:61`) |
| EventInbox, ownDelete | `QuietMirrors` | the event of an own delete leaves a row that a late create brought back | |
| EventInbox, ownDelete, four operations | `QuietMirrors` | the intent of an own delete claims a later delete of somebody else, which is then not applied | a stale intent can never claim a later external event (`Applier.cpp:258`) |
| EventInbox, no switch | `QuietReconciled` | a HEAD that finds an object settles its rows without a scoped pass | |
| EventInbox, tie | `QuietAgrees` | two events of one millisecond without sequencers are not ordered | a late, older event never overwrites newer state (`event-sync.md`) |
| EventInbox, opFails or crashInWrite | `QuietAgrees` | an own write that reached the bucket is not put in the index by its pass | |
| EventInbox, lost, with `Skew` > 0 | `QuietAgrees` | the newest event is lost; an older one, of the `Skew` before the listing that closes the gap, is applied after it and overwrites what the listing saw | |
| EventInbox, unleased | `QuietAgrees`, `RemovalIsReal` | the upload of a resolution has an open intent, and then an index row, while the applier holds the lease | |
| EventInbox, intentFails | `QuietAgrees` | an intent that stays open claims another writer's create of the same size | never another writer's same-size object (`CloudEngine.cpp:955`) |
| EventInbox, staleRead | `QuietAgrees` | events are judged by a baseline that a listing has replaced | |
| EventInbox, inactive | `QuietAgrees` | the due events of a vault without an engine are skipped, and no gap is on record | |
| FileSync, sameSize | `NoUndecidedOverwrite` | without hashes on both sides only the size tells contents apart | a file changed on both sides is recorded as a conflict, once (`sync.md`) |
| FileSync, overlap | `InSyncIsSame` | a resolution takes no pass lease | |
| FileSync, unindexed | `Converges` | the baseline follows an upload and the index row does not; it takes four changes or faults, one more than the run has | |
| PriceBudget, outlive | `SpendWithinLimit` | a reservation expires after 24 hours while its pass runs, and its window is given away | `enforce` blocks work that exceeds policy unless an approved override is consumed (`price-budgets.md:39`) |
| PriceBudget, overrun | `SpendWithinLimit` | work that costs more than its estimate has been admitted by the estimate | |
| PriceBudget, let off, with a gateway request or a guarded operation | `SpendWithinLimit` | what was used before a later failure is released | |

`protected` breaks nothing: its rows wait. With crashes or failed settlements
`SpendWithinLimit` holds because it excepts, in a month, reservations that expired: the
code gives their amount away after 24 hours, spent or not. `NoUndecidedOverwrite` excepts
an object that changed after the resolver looked: between its HEAD and its PUT a change is
overwritten, although `sync.md:104` says the resolution is refused. No property shows
that, and none is about two passes of one local vault.

**Bounds.** The protocol of a file touches one file at a time, so one file covers what a
crash, a walk and a rotation do to it, and the proofs of section 4 extend it to any
number. Three key versions let a second rotation start after the
first. Three IVs are enough: with four or five the number of states under symmetry does
not change. In `sync_safety` five tasks are the most that two calls, a refresh and a
scoped pass keep alive; with fewer a step that creates a task can be left without a
name. `MaxCalls` bounds only how
often callers call. In `pool_drains` there are fewer workers than passes, so that the
passes can block each other. In `budget_override` the two passes are interchangeable. In
`inbox_settle` two operations are enough for an intent to meet another writer's event, and
one fault for it to stay open. In `inbox_quiet` three operations are the least with which a removal
can be overtaken by a create on either side; its clock orders events only where the
provider sends no sequencers, so with sequencers it may stop earlier (`MaxSeqClock`). In
`filesync_converge` three events let both
sides change and something fail. Faults and changes share one budget there, so that every
combination of them is reached, in every order.

**Fairness.** `vault_live`: threads that have begun an operation take their next step,
and the sync pass of the vault runs again and again. The pass that failed is excepted
(`PassFailed`): `Local::shutdown` requeues only after success, so after a failure a pass
comes only if somebody asks for one, and `RotationFinishes` does not claim more. Strong
fairness on the pass reflects that a writer cannot hold the content lock for ever.
`sync_live`: workers, callers inside a call and the applier inside a batch take their
next step. The run loop alternates between refreshing and popping, so each is enabled
again and again rather than continuously: both are strongly fair. Nobody has to call
`runNow`, and events need not come. Popping a given task is fair because `next_run` of
every other task moves on each time it is requeued.
`pool_drains`: workers that are not blocked run, and the thread in `requestStop` finishes
it. `inbox_settle`: the loop of the applier and passes that hold the lease go on, and
retries come due (`passBackoff` is at most ten minutes); nobody has to write.
`filesync_converge`: what has begun goes on; regular passes come round by the
controller's interval and scoped ones follow their events. These are strongly fair, as
resolutions and other passes disable them for a while. `budget_spend`: a transaction that
can go on goes on; nothing is assumed of runs and operators.

## 4. What is proved

| Theorem | Statement |
|---|---|
| `VaultContentFiles!TypeCorrect` | `Spec => []TypeOK` |
| `VaultContentFiles!KeysStayTracked` | no key event admitted: `Spec => []KeyInv` |
| `VaultContentFiles!KeysStayHeld` | no key event admitted: `Spec => []KeyHeld` |
| `SyncControllerSafety!SchedulerTyped` | `Spec => []TypeOK` |
| `SyncControllerSafety!TaskInOnePlace` | `Spec => []InOnePlace` |
| `SyncControllerSafety!OnePassPerVault` | `Spec => []OneLeaseHolder` |
| `VaultContentSafety!ContentAlwaysInv` | no content event admitted: `Spec => []ContentInv` |
| `VaultContentSafety!ContentStaysLive` | no content event admitted: `Spec => []ContentSurvives` |
| `VaultContentSafety!SidecarsStayDecidable` | no content and no key event admitted: `Spec => []Decidable` |
| `VaultContentSafety!CopiesAlwaysAgree` | no content event admitted: `Spec => []CopiesAgree` |
| `VaultContentSafety!VaultIsContentStore` | no content event admitted: `Spec => ImplementsContentStore` |
| `SyncPoolSafety!PoolConsistent` | `Spec => []PoolInv` |
| `SyncPoolSafety!OnlyStopFrees` | `Spec => StuckUntilStopped` |
| `PriceBudgetSafety!LocksAreHeld` | `Spec => []TypeOK` |
| `PriceBudgetSafety!OneRunPerOverride` | `Spec => []OverrideBacked` |
| `PriceBudgetSafety!OverridesDecidedOnce` | `Spec => OverrideLifecycle` |
| `EventInboxTypes!TypeCorrect` | `Spec => []TypeOK` |
| `EventInboxTypes!WorkInHand` | `Spec => []InboxInv` |
| `EventInboxTypes!RemovalsReal` | nobody writes without the lease: `Spec => RemovalIsReal` |
| `EventInboxSafety!ClaimsExact` | `Spec => OwnClaimsExact` |
| `EventInboxSafety!NoForeignClaim` | nobody writes without the lease, no intent is left open: `Spec => NoneClaimed` |
| `EventInboxSafety!IndexFollows` | `Orderly`: `Spec => []AgreeInv` |
| `EventInboxSafety!QuietIndex` | `Orderly`: `Spec => []QuietAgrees` |
| `FileSyncSafety!TypeCorrect` | `Spec => []TypeOK` |
| `FileSyncSafety!NothingHalf` | `Spec => []WholeInv` |
| `FileSyncSafety!SidesRelated` | `Calm`: `Spec => []SyncInv` |
| `FileSyncSafety!InSyncHolds` | `Calm`: `Spec => []InSyncIsSame` |
| `FileSyncSafety!NothingUndecided` | `Calm`: `Spec => NoUndecidedOverwrite` |

They hold for any sets of files, values, IVs, tasks, engines, callers, workers, passes,
policies, runs, overrides, operations of the provider, strategies and conflict policies,
any bounds and, where no condition is named, any admitted events, from the named
assumptions `ContentAssumption`, `SyncAssumption`, `PoolAssumption`, `BudgetAssumption`,
`InboxAssumption` and `FileSyncAssumption` only. Except in `SyncControllerSafety`, Zenon
is the prover of every leaf that names none (the `USE` after `EXTENDS`); a leaf with
arithmetic or many cases of a record names the SMT solver.

*Keys.* `KeyHeld` (every encrypted row is on a loaded key) is not inductive: it says
nothing of what is about to be put in a row. `KeyInv` adds that writes and repairs in
flight are sealed under a loaded key, that a rotation seals under the current one, that
memory and database differ only inside prepare and finish or after a COMMIT in doubt, with
one prepare at a time (`KeyStateInv`), and that once
the pass has decided to finish nothing is left on the old key (`FinishInv`). The proof
has a frame lemma per kind of step (a user operation, a rotation, a pass step that leaves
rows alone, a change of keys), then one case per action. TLC checks `KeyInv` in
`vault_keys`.

*Lease.* `OneLeaseHolder` says the lease is held exactly by one pass inside its guard, or
one guard about to be destroyed, or the applier. Its proof needs that a task is in one
place (`InOnePlace`, itself inductive over the types: every step moves a task out of one
place into the next, and a new task takes a name nothing refers to) and that scoped passes
never go through the controller's queue (`QueuedIsRegular`), because a scoped task that
was queued would enter without asking for the lease. `ScopeKept` shows that a task keeps
its kind as long as something refers to it. `Typed` adds to `TypeOK` that a caller inside
`runNow` holds a task.

*Content.* `ContentSurvives` (a row describes bytes that are in the backing file or in the
sidecar) says nothing of an operation that is half done. `ContentInv` says, for every
file, what each half-done write, create, removal, rotation, repair and walk may rely on:
which bytes are staged, which row they belong to, who holds the content lock, and what a
walk that has read its rows may still do. It speaks of one file at a time, so the proof
has a frame lemma (`FileFrame`: a step that leaves a file's variables alone keeps its
part) and one lemma per action that shows the file of the step. `Sheltered` names the
condition on the environment. `Decidable` follows from `ContentInv` and `KeyInv`.

*Refinement.* The register of a file is mapped to the content of the bytes its row
describes (`Live`), its pending request to the write in flight (`Asked`). `CreateBegin`
and `WriteBegin` are `Ask`; `CreateRow` and `WriteCommit`, the updates of the row, are
`TakeEffect`; a failed create or write and a crash are `Abandon`; `TrashRow` is `Remove`.
Everything else, renames, rotation, recovery and repair included, moves bytes and shows
nothing. `ContentInv` alone does not give that: during a rename or a repair both the
backing file and the sidecar may fit the row, and the step may change which one is read.
`CopiesAgree` says that the same IV means the same content, so it does not matter. The
proof has one lemma per action (`...Shows`) that gives both the step of the register and
`CopiesAgree` for the file of the step, and `Untouched`/`Kept` for all other files.

*Pool.* `PoolInv` says a job is in one place, that a future is pending exactly while its
task is queued, runs, or was dropped, and that a pass outside a batch has no task out. It
is inductive as it stands. `StuckUntilStopped` follows from it: in `Stuck` every worker
holds a pass that waits, so no worker can take a task, return or go on, and a future is
settled only by a worker or by `requestStop`.

*Budget.* `TypeOK` carries the locks: a policy's `lock` names a run exactly when the run
holds it, and only an open transaction holds any. `OverrideBacked` is inductive with it: a
step other than a consumption leaves used rows and `over` alone (`Fine`), and
`consumeApprovedOverride` marks a row that is approved, hence backs nobody. That it finds
one is not free: the `CHOOSE` of `FirstFitting` (ORDER BY expires_at, id LIMIT 1) needs a
least element of a set of pairs of naturals (`FirstFits`, from well-foundedness). The same
case split shows what a step may do to an override (`OverridesMove`).

*Inbox.* `RemovalIsReal` is about one step, but rests on everything the applier read
before it: that the rows of its batch are still pending, that the removal it confirmed
was confirmed while it held the lease, and that nobody else touches the index meanwhile,
which is why a resolution without the lease is excluded.
`InboxInv`, with `TypeOK`, is inductive with every event admitted; the lease in `TypeOK`
is what keeps the pass and the applier out of each other's rows.

`QuietAgrees` speaks of the states where nothing is on its way and says nothing of how
they come about. `AgreeInv` says what holds on the way there. The index row agrees with
the object, or the last operation of the provider is still ahead of it: its message is in
the queue, its inbox row is pending, or it was lost after the baseline began, so that the
gap is on record (`Follows`). Only the last operation matters, and the proof shows why no
older event undoes what it did: the older rows of a batch are settled before the newest
(`ApplierInv`), a row is dropped when the inbox holds a newer one, a listing that began
after the last operation settles the matter (`ListingSettles`), and an own write is
recognised by an intent that names its ETag (`IntentsOwn`). That last part needs
`NoForeignClaim`, which is therefore proved first, with `ClaimsExact`: every step accounts
for every intent (`IntentsAccounted`), a complete one carries the ETag of an operation of
ours (`EtagsOwn`), so only an open one can claim a create of somebody else, and the pass
that has one open holds the lease the applier would need. What the applier read of the
subscription is still so while it holds the lease (`SubRead`). `Orderly` is the condition:
no operation of a pass fails alone, no restart hits a write in progress, intents are stored
and removed, nobody writes without the lease, the subscription that was read is not stale,
the engine is present, no two operations tie, and events are not lost while `Skew` is
above 0. Each of them breaks `QuietAgrees`
(section 3), so none can be dropped. The proof has a lemma per action and, for the steps
of the applier, one per conjunct the step can disturb; the two `CHOOSE`s over rows
(`Newest`, `First`) need that the orders of the code have an extremal element in every
finite set of rows, which follows from well-foundedness. `EventInbox` takes its sequence
helpers from `Sequences` alone: the prover carries every definition of an extended module
into each proof.

*File sync.* `TypeOK` says that a fresh hash or ETag always exists: at most seventeen
hashes and nine ETags are in use at a time, and the proof counts them (`OneIsFree`, over
injections, since the numbers are small). `WholeInv` says that no half of a row, a file or
a conflict is ever in hand; both hold with every event admitted.

`InSyncIsSame` and `NoUndecidedOverwrite` compare what a pass decided with contents it
cannot see: the code compares sizes, hashes and ETags only. `SyncInv` relates these to
the contents. A size stands for one content (`Sized`), and so does a hash wherever it is
kept (`HashesTell`). A content is settled once both sides have shared it, or when neither
side has it nor will have it again (`Settled`): a content found on both sides is settled
(`Met`), and so are both sides of a baseline (`BaseInv`). An object nobody has seen is as
its writer left it, and a row with its ETag is its own row (`Unseen`). A row that gets the
ETag of an object it does not describe, because an own upload was overtaken, is of a
content the local file has already left (`RowInv`). The last three conjuncts say what a
pass and a resolution still know at each step between a read and the use of it
(`PassInv`, `ResolverInv`), and why under `ask` a transfer replaces settled contents only
(`AskInv`). `InHand` says that nothing a pass or a resolution loaded has been changed by
somebody else; this is where `Calm` comes in. `Calm` is the condition: a resolution does
not overlap a pass, and sizes tell contents apart. Each of the two breaks a property
(section 3). The proof has, for each conjunct, a lemma that says which changes keep it
(`MetBy`, `UnseenBy`, `BaseBy`, ...), and one lemma per action that applies them.

Only model-checked: the liveness properties (fairness and ENABLED are out of the prover's
reach). `SpendWithinLimit` and `GrantedOnce` are about sums over sets of runs,
which need induction over data.

## 5. Not modelled, and what comes next

Not modelled: see `components` in `PROJECT.json`, with reasons. Inside the modelled parts:
rename and copy of entries, writes by restores, remote objects during a rotation, the
order of the controller's queue, setting up subscriptions, manifests, and the request
budgets. `VaultContent`, `EventInbox`, `FileSync` and `PriceBudget` are not composed:
each takes from the others what its switches and its environment actions name, and the
pass lease that separates them is proved in `SyncControllerSafety`.

In order:

1. `RemoteRotation`: the object, its index row and the manifest, with a backlog that has
   to go first.
2. Local versions and backlog: capture before overwrite, replay before an upload.
3. Retention of deleted vaults; shares and their limits.
4. Access control as operators over permission sets.
