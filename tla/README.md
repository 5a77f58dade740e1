# majutsu: TLA+ models, checks and proofs

This directory holds TLA+ specifications of majutsu, the TLC configurations
that model-check them, and TLAPS proofs about them. Source paths are relative to
`src/src/` and documents to `src/`, unless a longer path is given.
`PROJECT.json` lists every component, run, mutant, hazard and theorem, and maps
each definition to the lines it models.

Contents: 1 the system, 2 the modules and how they correspond to the code, 3 the
runs, their bounds and their fairness, 4 the proofs, 5 what the models show of
the code that the reader should know, 6 what is not modelled.

## 1. The system

majutsu records snapshots of directory trees and keeps them in an object store.

| part | source | state it owns |
|---|---|---|
| snapshot building, rules | `main.rs`, `snapshot_rules.rs`, `snapshot_state.rs` | local objects, database rows |
| roots | `root_runtime.rs`, `root_state.rs` | table `roots`, `config.toml` |
| watch loop | `watch_runtime.rs`, `watch_recovery.rs` | event buffer, retry file, snapshot child |
| daemon supervision | `daemon_runtime.rs` | pid file, identity, lock, socket |
| event journal | `queue_runtime.rs` (from 579) | journal files, remote journal objects |
| upload queue | `queue_runtime.rs` (57-578) | queue items, payload files |
| sync pipeline | `sync_runtime.rs` | sync cache, exports, gc marks, tombstones |
| cluster master | `cluster_runtime.rs` | store, backend queue, intents, receipts, tombstones |
| object stores | `remote_store.rs` | temporary files, lock files, multipart uploads, negative cache |
| branches, operation log | `branch_runtime.rs`, `db_refs.rs`, `operation_log.rs` | refs, table `operations`, log file |
| history reports | `history_runtime.rs` | none: functions of snapshots and live tree |
| prune, gc, cache, packs | `prune_runtime.rs`, `cache_runtime.rs`, `pack_runtime.rs` | what may be deleted |
| restore, clone, mounts | `restore_runtime.rs`, `clone_runtime.rs`, `mount_runtime.rs` | the restored tree, jobs |
| fsck | `fsck_runtime.rs`, `remote_runtime.rs` | none: verdicts, payload index |
| keys | `key_runtime.rs` | key files |
| process locks | `process_runtime.rs` | lock files |

A snapshot writes local objects and rows and leaves a record in the event
journal. A sync sends journal, metadata, content and refs to a remote: a
directory, S3, or the cluster master. The master makes objects durable in files
of its own, acknowledges, and moves them to its backend (S3) afterwards; readers
ask the master, which answers from its store and falls back on the backend.
`BackendCommitted` tells a slave which objects are in the backend, and the slave
then marks its journal records as acknowledged. Clone, fsck and restore read
what syncs have published.

Nothing but files, SQLite transactions and lock files ties the processes of a
host together, and no transaction spans two of these. Most of the properties
below are therefore about what is true between two writes of one command, seen
by another command or after a stop.

## 2. Modules

| module | models | state |
|---|---|---|
| `ClusterMaster` | durable writes, recovery, worker, local GC and lock-free reads of the master | files, lock holder, worker, reader |
| `ObjectService` | what the master promises a slave, the abstract specification | four variables |
| `ClusterFront` | connections, limits, list cache and backend gate of the master | threads and counters |
| `ProcessLock` | the pid lock file of sync, snapshot, prune and gc | file, open files, places |
| `SyncPipeline` | the upload queue and the phases of one host's sync | queue, payloads, remote, cache |
| `EventJournal` | from a change of a file to the remote: watch loop, snapshot, journal, sync, compaction, overlay | files, journal, queue, remote |
| `Repository` | object files, rows and remote of one host under snapshot, pack, prune, gc, cache prune and sync of several processes | objects, rows, locks |
| `Publish` | what syncs of several hosts publish, and clone, fsck and repair that read it | keys of the remote |
| `Restore` | restore, restore jobs, mounted views | the target tree, objects, a job |
| `Fsck` | local fsck, payload index, untrack, prune | rows, index, objects |
| `Scan` | which files a snapshot and the live diff take | rules, tracked paths |
| `Roots` | the two copies of the root table | table, file, processes |
| `KeyRotation` | `mj key rotate` beside the commands that store objects | key files, objects, rows |
| `RemoteStore` | the client library of directories and S3 | objects, requests, caches |
| `Changes` | the reports of `mj diff`, `mj log`, `mj state` | snapshots, live tree |
| `Daemon` | start, stop, restart and status of the watch daemon | its four files, processes |
| `Branches` | branch commands, `op restore`, notes, the operation log | refs, table, file |
| `MC...` | instances for TLC, one per module; `MCMasterPair`, `MCProgress` and `MCHost` explore several instances or components in one run | |
| `ClusterMasterInvariants`, `...Proofs` | section 4 | |

An action is a step between two effects that another process can see or a stop
can separate: a file write, a statement, a transaction, a request. What holds a
lock and makes no visible write in between is one step. Variables named as
history or ghost in a module exist for properties and bounds only; no guard of
the program reads them.

### ClusterMaster and ObjectService

| variable | in the code |
|---|---|
| `store`, `queue`, `intent`, `receipt`, `tomb` | the object files, `backend-queue/`, `write-intents/`, `backend-receipts/`, `local-gc/` |
| `flush`, `migrated` | the flush request file, the migration marker |
| `backend` | the objects in S3 (external) |
| `cs` | the thread that holds `durable_lock`, and where it is |
| `wk`, `snap`, `up`, `gcq` | the worker thread: phase, copy of the queue, uploads of the round, tombstones to visit |
| `rd` | a GET under way; it takes no lock until hydration |
| `enq`, `pub`, `seen`, `stale`, `faults` | history |

| actions | code (`cluster_runtime.rs`) |
|---|---|
| `BeginPut` .. `AckPut` | `process_puts` (2419-2540) |
| `BeginDelete`, `DeleteEnqueue` | `durable_delete` (2618-2630) |
| `Recover*`, `WorkerRecover` | the replay of write intents (2688-2750) |
| `Reconcile`, `Serve` | `reconcile_legacy_backend_queue` (2752-2786), end of startup |
| `WorkerWake` .. `RoundEnd` | `run_backend_worker_once`, `drain_backend_queue` (3350-3499) |
| `Upload*`, `Complete*`, `DeleteBegin` | uploads, completions, deletes (3527-3868) |
| `FlushCheck`, `RemoveFlushRequest`, `RequestFlush` | 3357-3374, `cluster_flush_cmd` (1800) |
| `TombExpires`, `Gc*` | `run_local_gc` (3069-3128) |
| `BeginGet`, `Get*` | `master_get_optional` (2232-2259) |

Every file write is an action, so that `Crash`, `WriteFails` and `RetryMarkFails`
can fall between any two. The steps of one lock holder do not interleave with
those of another, because all need `cs.pc = "idle"` to begin; they do interleave
with readers and with the worker outside the lock.

Abstractions: a digest is the content, contents have size 1; a key determines
its host and whether its PUTs are conditional, as the key layout does; the
generation and `updated_at` of a queue item are its position in `enq`, so the
wall clock is taken to be strictly increasing; time is nondeterminism;
`write_atomic` is atomic; the tombstone catalog in memory equals the files; a
failing S3 call took effect at that moment or never does. The uploads of a tier
all run in parallel and the worker's replay gives the lock back between two keys,
supersets of what the code does. There is one reader at a time.

`ObjectService` is what a slave may rely on: a key shows a content or nothing; a
PUT is taken on, shown, and settled only once it is shown; a DELETE hides the
key. `ClusterMaster` maps `shown` to what a GET would return now, `offered` to the
write intents, `late` to the keys that a read has filled too late (section 5).

### ClusterFront

`conn` holds the thread of each connection with its request, `clients`,
`inflight` and `gate` are `ClientLimiter`, `FrameBudget` and `BackendGate`, `cache` is the
list cache with one entry per kind of listing, `store`, `hidden`, `back` and
`queue` are the master's files and its backend, with the versions of each key, as far
as GETs and listings see them (a PUT, a DELETE or a local GC of a key is one step
here, its inner steps are those of `ClusterMaster`). `want`, `disturbed` and `revived`
are history: what the host was told, the keys with a request that ran on after
its client had given up, and those that a GET has put back after their DELETE.
`Send` .. `Close` follow `handle_connection`; `ListHidden`, `ListStore`, `Enter`,
`Leave`, `ListDone` are the parts of List; a GET that misses the store goes through the
gate as well and ends with `Hydrate`, which stores what it read. `Visible` is what
`master_get_optional` answers. `UploadTake`, `UploadEnter`, `UploadLeave` are an upload
of the worker at the gate, `LocalGc` follows it;
`Wake` is the `notify_all` of a returned permit; `ClientTimeout`, `ApplyFails`,
`Restart` and `Expire` what may happen meanwhile. Frames are their sizes.

### ProcessLock, SyncPipeline, EventJournal

`ProcessLock`: `lock` is what is at the path (nothing, a file without a pid, a
pid) and `fd` the processes that have this very file open, because a file can be
removed and replaced while its creator still writes to it. `Open` .. `WritePid`
are `acquire_process_lock`, `Release` is `Drop`, `AskOwner` .. `RemoveStale` are
`process_lock_owner` and `wait_for_sync_catchup` (`process_runtime.rs` 113-168,
`sync_runtime.rs` 661-670). A process is its pid; `Reuse` gives a pid to a new
process.

`SyncPipeline`: `want` is what the host would publish under each key, as a version
1, 2, ...; `item` and `payload` are `upload-queue/` and `upload-payloads/`,
`remote` the objects of a store or the cluster master, `cache` is
`cache/remote-sync.json`, `acked` the events with `remote_journal_synced_at`; `sy`,
`todo` and `up` say where the sync and each upload is. `Start` .. `Return` are
`sync_current_if_remote` and `sync_configured_remote` (`sync_runtime.rs` 304-488),
`WritePayload`, `WriteItem` and `Finish` are `enqueue_and_drain_sync` (757-1169)
with the enqueueing of `queue_runtime.rs` 57-127, the rest the two ways to drain
(136-475). The key of an event stands for its record and its payload; a listing
of the remote may fail, in which case more is enqueued.

`EventJournal`: a root stands for its one file. `journal` holds the records,
named by their time; `queue` and `remote` what is queued and published (records,
contents and the snapshot the refs show), and the queue's `cache` is the sync cache; `job` the
snapshot or sync that holds the maintenance lock; `watch` the watch process with
its batch; `chan` notifications not yet received; `retry` the retry file. The
actions are the steps of a snapshot (`SnapBegin` .. `SnapFinish`), of the journal
part of a sync (`SyncDiff` .. `SyncEnd`) with the queueing and draining of the snapshot
(`SyncQueue`, `SyncPublish`), of the watch loop (`WatchStart` ..
`WatchRescan`) and of compaction, with crashes, failing steps and lost
notifications. `Restored` and `Cloned` compute what a restore of the head would
give, on the host and in a clone, from snapshot and overlay.

### Repository, Publish, Fsck

`Repository` takes the objects by name: `disk`, `rem` (canonical aliases), `raw`
(the journal's keys), the tables `snaps`, `blob`, `packs`, `large`, `chunk`, and of the
sync the content (`queue`) and metadata (`meta`) in the upload queue, the cache with its
state fingerprint (`cache`, `fp`) and the published rows (`pub`). A sync begins with its
fast lane, which drains what an earlier sync has left (`SyncStart`, `LaneFails`). `Snap*`, `Pack*`, `CompactStart`,
`Evict*`, `PruneTx`, `Gc*`, `Sync*`, `Repair` and `Fetch` are the commands, cut
where they commit or touch files. `hit` and `bare` are history: the contents that one of six
named lock-free races has reached, and content that a sync had not queued when it stopped.

`Publish` takes a remote as a map from keys to values. The sync of a host is cut
at every upload, prune and write of cache or prune state, and may stop at any place of the
filling of its upload queue (`EnqueueStops`); its prune goes by a listing that may be
the cached one of an earlier sync (`Listings`). A clone is cut at every file
it validates. `Clonable`, `FsckQuick`, `FsckObjects` and `FsckDeep` are the
validators as functions of the remote. `mem` is history.

`Fsck` has the rows (pins included), the payload index and the objects (`ok`, undecodable,
or decodable and wrong) of one host with two roots, the commands that change them,
cache eviction of payload or of metadata too, and fsck as `FsckQuick`, `FsckFull` and `FsckSince` with its backfill of the
index. `short` is history: contents that an index once left out.

### Restore, Scan, Roots, KeyRotation

`Restore`: a tree is a function from paths to entries. `Selected`, `Overlaid`,
`PlanFiles` and `PlanDeletes` are `build_restore_plan`; the actions are prefetch,
conflict check, deletion and writing of one entry at a time (`write_atomic` is two
steps), the restore job with its queue file, and a mounted view as it fills.
Users may edit, objects may be evicted, archived objects thaw, and the command
may stop between any two steps.

`Scan`: paths are sequences of names, patterns sequences of parts. `Glob`,
`PathMatch`, `Managed` and `Descend` follow `snapshot_rules.rs`; `SnapCount` and
`SnapTake` are the two walks of a snapshot, `LiveCount` and `LiveTake` those of the
live diff; `Track`, `Untrack`, `UntrackExcluded` and `SetRules` the commands, with the
rewriting of the history that may be skipped or fail (`Cleanup`; `kept` is history: the
paths it has left) or be done before a stop loses the rules it was done for.

`Roots`: `db` and `conf` are the two copies of the root table; every process
first imports the file row by row, changes a row, and writes the file from the
table, and each of these is a step.

`KeyRotation`: an object is its identity, the key it is under and the objects it
names. The rotation is cut where it stores, commits, replaces the key file and
removes the spare keys; snapshot, pack, gc, sync and eviction run beside it.

### RemoteStore, Changes, Daemon, Branches

`RemoteStore`: a directory store writes a temporary file and links or renames it,
or uses a lock file after a link has failed, which each call finds out for itself; entries
are durable only after an `fsync` of their directory, and a directory that a put creates
only after one of its parent, which no put does; an S3 request takes effect in `Serve` and its
answer arrives in `Reply*`, or is lost and tried again. Puts, conditional puts,
multipart uploads, deletes, lookups with the negative cache and listings of two
threads interleave at these steps.

`Changes` has no protocol: users edit, snapshots are taken and pruned, and the
reports are operators (`EntryDiff` over records, the tree walk of `mj log` with the
folding of large trees beyond `Detail` rows and its warnings for nodes that cannot be read, the
two implementations of `mj state`; `PerSecond` steps of the clock share a second) that invariants compare with plain definitions
of what they should say.

`Daemon`: `pidf`, `ident`, `lockf` and `sock` are the four files, `w` the
processes of watchers, `c` the invocations of `mj`. A watcher goes through
`acquire_daemon_lock`, registration and binding one file operation at a time; a
command through reading, checking, finding, killing, cleaning, waiting and confirming. A
lock file has an inode, because unlinking and re-creating matters. A watcher in state `near`
is that of a home whose path begins with this one's (`Neighbour`); `lost` marks a command
that has looked at a process which has ended since.

`Branches`: a command reads the refs, decides, and is then a list of statements
(`...Todo`), each committed alone. The operation log is a table and a file;
`LogStep` inserts, appends, and rewrites the file from the table.

### Compositions

`MCProgress` runs `ProcessLock` and `SyncPipeline`, each on an instance of its own,
in one run with their fairness; `MCMasterPair` two instances of `ClusterMaster`;
`MCHost` the nine components of one host that have no liveness property. In all
three a variable (`part`, `mode`) says which one a behaviour belongs to; the
others rest. They share a run, not state: how components depend on each other is
stated where it is used. `EventJournal` and `Repository` take the maintenance lock
to be exclusive, which `ProcessLock` shows up to a removed file; `EventJournal` takes
uploads to be drained payload first, which is `RefsFollowContent` of
`SyncPipeline`; a journal record is acknowledged from `BackendCommitted`, which is
`CommittedIsInBackend` of `ClusterMaster`; all other modules take a store to be a map
with atomic put, get and delete, which is what `StoreIsSound` says of `RemoteStore` and
`ServiceSpec` of the master.

## 3. Runs

`tlc -config X.cfg M` in this directory repeats a run. The passing runs reach
between 40,000 and 1,050,000 distinct states each, in one to four minutes.

| run | module, config | bounds | what it checks |
|---|---|---|---|
| `writes` | `MCClusterMaster`, `MCMasterWrites` | one ref, two contents, 3 queue entries, 2 faults | `AckedIsDurable`, `LiveIsProtected`, `CommittedIsInBackend`, `ServiceSpec` |
| `pair` | `MCMasterPair` | content and ref taken over from an older version, batches of 2, 1 fault; or one ref, two contents, a reader and flush requests | `LiveIsProtected`, `GetIsRegular`, `RefsFollowContent` |
| `live` | `MCClusterMaster`, `MCMasterLive` | one ref, two contents, 2 queue entries, 1 fault, with fairness | `BacklogDrains` |
| `front` | `MCClusterFront`, `MCFront` | 3 connections, 1 uploader, 2 clients admitted, 1 backend connection | `PermitsAreExact`, `AckedStands`, `CachedListIsCurrent`, `Quiesces` |
| `progress` | `MCProgress` | 2 processes with 3 faults; a sync of an event, an object and a head, 2 versions, 1 kill | `OwnerIsHonoured`, `ExclusiveUnlessBroken`, `SyncedIsPublished`, `LockIsObtainable`, `RefsFollowContent`, `CatchesUp` |
| `journal` | `MCEventJournal`, `MCJournal` | 2 roots, 2 versions, 5 times, 1 fault | `RemoteIsComplete`, `QuietIsCovered`, `UnackedIsKept`, `RestoreStep` |
| `journal_live` | `MCEventJournal`, `MCJournalLive` | 1 root, 4 versions (the last equal to the second), 8 times, 1 fault, with fairness | `SyncIsComplete`, `Converges` |
| `repo` | `MCRepository`, `MCRepo` | 2 processes, 2 small files and a large one, seven instances over S3 and directories | `ListedIsReadable`, `PublishedIsComplete`, `QueueHasSource` |
| `publish` | `MCPublish` | instances of one or two hosts with the commands, stops and faults each allows | `SyncIsSound`, `RemoteIsBacked`, `FsckIsEnough`, `CloneIsSound` |
| `host` | `MCHost` | nine components, each in small scenes | one property each, below |
| `publish_shared` | `MCPublish`, `MCPublishShared` | two hosts, one directory | finding: `SharedIsBacked` is violated |
| `fsck_untrack` | `MCFsck`, `MCFsckUntrack` | two roots, one snapshot | finding: `OthersRestore` is violated |

What the properties say:

- **The master.** `AckedIsDurable`: when a batch is answered "durable", each
  object in it is what a GET returns and is queued or in the backend.
  `LiveIsProtected`: bytes a reader can see are in the backend, or queued, or have
  an intent. `CommittedIsInBackend`: what `BackendCommitted` reports is in the
  backend with the same bytes. `ServiceSpec`: the refinement of
  `ObjectService`. `GetIsRegular`: a GET that takes no lock answers something
  that was visible during the GET or being written. `RefsFollowContent`: an
  upload of a ref starts only when no content queued before it still waits.
  `BacklogDrains`: after the last PUT the queue and the intents become and stay
  empty.
- **Its front.** `PermitsAreExact`: clients, frame bytes and gate permits are
  counted exactly. `AckedStands`: what a host was told of a key is what a GET finds
  in store or backend. `CachedListIsCurrent`: a fresh cached listing agrees with what hosts
  were told. `Quiesces`: when no request arrives, all threads end and the queue drains.
- **Lock and sync.** `OwnerIsHonoured`: who starts while the file names a living
  owner neither removes the file nor takes the lock. `ExclusiveUnlessBroken`: two
  owners only after someone removed or truncated a file that was not theirs.
  `LockIsObtainable`: a file left behind does not keep the lock for ever.
  `SyncedIsPublished`: after a sync reported success the remote has the host's
  state. `RefsFollowContent`: a key is uploaded only after all that is queued with
  lower priority. `CatchesUp`: after the last change the remote catches up.
- **Journal.** `UnackedIsKept`: a record without acknowledgement disappears only
  by a compaction whose finished snapshot holds its content. `RemoteIsComplete`:
  the remote has what its records and its head name. `QuietIsCovered`: at rest, every change
  is in a snapshot, in the journal, or pending for the watcher. `RestoreStep`:
  what a restore of the head gives goes back to an older version only in the
  named cases. `SyncIsComplete`: a successful sync has made every earlier change
  recoverable from the remote. `Converges`: after the last change, snapshot,
  journal and remote catch up.
- **Repository and remote.** `ListedIsReadable`: each content of a listed snapshot
  can be read locally or fetched. `PublishedIsComplete`: the published current
  snapshot is complete on the remote. `QueueHasSource`: a queued upload has bytes
  to send. `RemoteIsBacked`: published metadata names only what is there.
  `SyncIsSound`: a synced host can be cloned, passes fsck and shows its state.
  `FsckIsEnough`: what fsck calls sound a clone accepts. `CloneIsSound`: a clone
  has all content and events of what it cloned.
- **Host** (the property for each mode): `RestoreIsExact` (the restored tree is
  the planned one; nothing else is lost; a stop loses at most the entry being
  written; a job and a view show what they say), `FsckIsSound` (no error in
  what fsck passes, no false alarm, untrack forgets, rows are kept),
  `WalkTakesManaged` (a walk takes what the rules manage, the live diff agrees with
  the snapshot, and what was untracked stays out), `ChangeIsKept` (a root command's change survives),
  `KeepsHistory` (what could be restored before a rotation can be after it),
  `StoreIsSound` (objects are whole, acknowledged puts stored, one winner of a
  conditional put, uploads closed, absence and listings true),
  `ChangesAreExact` (diff, log and state say what changed), `DaemonIsSound` (one
  watcher, commands report and stop what there is, strangers are spared),
  `RefsAreSound` (the head of the active branch is current, a snapshot follows
  it, named snapshots exist, the two copies of the log agree).

**Exceptions in properties.** Where the code has a race or a gap that falsifies
the plain statement, the module has a ghost variable that records that this very
thing has happened, and the property excepts only what the ghost names. Section 5
describes each. In `repo` these are the six members of `hit`: a chunk passed over
because its row exists while its file is nowhere; a pack recorded after gc took
its file; a gc sweeping a pack that a row names; a cache prune removing what the
remote has lost since its plan; a sync passing over missing content of the
current snapshot; a cleanup deleting remote objects still needed.

**Bounds.** A fault is a crash, a failing write or a lost message at any place,
so one fault reaches every single point of failure, and two reach a failure
during the recovery from one. Two contents and three queue entries let a PUT, a
DELETE and a second PUT of one key all be pending, which is what every race of
the master needs; its keys interact only through tiers and batches, the two keys
of `pair`. Three connections are a holder, a waiter and one that is
refused; the instances of `front` begin with all keys in the backend or none, and some
may begin with a store that is empty beside a filled backend, so that GETs fill it. Two processes suffice for the races of lock files, and a third
would only repeat one of them; the proofs have no bound. In `EventJournal` a
state needs an event before, during and after a snapshot and one acknowledged
earlier, hence 5 and 8 times; after `CalmTime` no file changes and nothing fails,
but syncs, retries and rescans go on. The scenes of `host` each allow two or
three commands, one or two edits and one stop; a scene is a start the code can
be in together with the commands allowed, and scenes exist because all commands
together would not fit. `MCHost`'s constraint `Unhurt` does not explore on from a
state in which a key rotation, a daemon command or a branch command has met one
of the races named in section 5, since properties except everything after it.

**Deadlock** is checked where the system has no natural end (`writes`, `pair`,
`live`, `progress`); elsewhere a behaviour may end when its budget of
commands is used up.

**Fairness.**

| module | assumed | why the code justifies it |
|---|---|---|
| `ClusterMaster` | weak for the lock holder; strong for startup, draining, the cycle and its timer; strong for each upload; weak for the passing of retry delays and tombstone ages | the lock holder never waits for another thread; the service restarts the process and the worker loops for ever; a retried S3 call succeeds at last; time passes |
| `SyncPipeline` | weak for the steps of a sync, of an upload and for the next sync; strong for the end of the journal phase, for an upload and for a batch; weak for retry delays | a sync is sequential; the daemon starts one after another; an upload that is retried succeeds at last |
| `ProcessLock` | weak for acquiring and releasing, strong for opening | a process that runs goes on and ends; it retries `create_new` in a loop |
| `ClusterFront` | weak for each connection thread and each upload thread | threads run; nothing forces requests, timeouts, failures or restarts |
| `EventJournal` | weak for the running job, the watch loop, the periodic rescan, the retry file's due time and the retry of queued uploads | the job is a sequential process, the others are timers of a loop |

Strong fairness is used where a step is disabled again and again by a failure
that the environment may repeat, a finite number of times by the fault budget or, for
uploads, without a budget.

**Mutants.** For each property of each passing run `PROJECT.json` names a
definition and a mutated form of it, a dropped guard or a swapped order, with which
TLC finds the property violated. The mutated forms stand before the definitions
they change (`RemovableAny`, `CheckOwnerAlways`, ...).

## 4. Proofs

`tlapm M.tla` checks the proofs of a module. All theorems hold for every value of
the constants, with no bound on keys, contents, processes, connections, faults or the
length of the queue, from these assumptions only: `ConstantsAssumption` of
`ClusterMaster` and of `SyncPipeline` (types of the constants), `LockConstants`
(the two marks are no processes) and `FrontAssumption` (finitely many
connections and uploaders, limits at least 1).

| theorem | module | states |
|---|---|---|
| `TypeCorrect` | `ClusterMasterProofs` | types of the master |
| `CommittedCorrect` | `ClusterMasterProofs` | `Spec => []CommittedIsInBackend` |
| `AckedDurable` | `ClusterMasterProofs` | `Spec => []AckedIsDurable` |
| `LiveProtected` | `ClusterMasterProofs` | `Spec => []LiveIsProtected` |
| `ServiceCorrect` | `ClusterMasterProofs` | `Spec => ServiceSpec`, the refinement of `ObjectService` |
| `GetRegular` | `ClusterMasterProofs` | `Spec => []GetIsRegular` |
| `LockTypeCorrect`, `LockExclusive`, `LockHonoured` | `SyncProofs` | types, `ExclusiveUnlessBroken`, `OwnerIsHonoured` |
| `SyncTypeCorrect`, `SyncPublishesState`, `RefsFollow` | `SyncProofs` | types, `SyncedIsPublished`, `RefsFollowContent` |
| `PermitsExact`, `AckedStandsAlways`, `ListCacheCurrent` | `ClusterFrontProofs` | `PermitsAreExact`, `AckedStands`, `CachedListIsCurrent` |

### The master

None of the four invariants is inductive. `ClusterMasterInvariants` builds the
inductive one in layers; each layer uses those before it.

1. `StateTypes` and `WriterOK`: the types, and what the lock holder carries.
2. `ReceiptInv`, for `CommittedIsInBackend`. The worker works on copies, made
   before it released the lock. `Agrees` says a copy equals the queue item as
   long as the generation is the same; `StageInv` that an upload that was sent or
   skipped, and whose generation is still queued, is in the backend; `HeldInv` and
   `CompletionInv` that a receipt is written before its item is removed. Hence a
   receipt without an item is true, and with an item `BackendCommitted` does not
   report it.
3. `DurInv`, for `LiveIsProtected`. For each place the lock holder can be at,
   `LockInv` says which of the writes before it are on disk. `UploadInv`,
   `PutInv`, `TombInv` and `LiveInv` say of each key, lock or not, what an item, a
   tombstone and live bytes imply of the other files.
4. `BatchInv`, for `AckedIsDurable`. The objects of a batch that are done stay
   durable while the lock is held, unless a later object of the batch has the same key.
   The worker and the readers may write meanwhile; `Safe` is what they preserve.
5. `ReadInv`, for `GetIsRegular`. A reader looks at queue, tombstone, store and
   backend in this order. `PastQueue`, `PastTomb` and `PastStore` say what the next
   file may hold, given what the reader has passed and what has been visible since
   it began (`seen`); `SendInv` and `Watches` that what an upload will put into the
   backend is accounted for.

`ClusterMasterReceiptProofs` proves that each action keeps 1 and 2, for types on the
proviso that a round counts finitely many keys (`Counted`, which `TypeCorrect` discharges).
`ClusterMasterStepProofs` divides the actions into those that leave files alone
(`QuietStep`) and those that write (`WriteStep`), and states the effect of each
write on one key; `ClusterMasterDurableProofs` proves 3 and 4 from these effects.
`ClusterMasterServiceProofs` proves 5 and the refinement: writing an intent is
`Offer`, the write that makes it visible is `Show`, removing the intent is
`Settle`, queueing a DELETE is `Hide`, and every other write changes nothing that
`ObjectService` sees, except for late keys (`Linger`). `ClusterMasterProofs` puts the theorems
together.

### Lock, pipeline and front

- `SyncProofs`, the lock: `LockInv` adds to the types `OwnFile` (only a writer has the
  file at the path open, and as long as no file was broken that file is the one its
  writer opened or names its holder) and `LateOnlyLooks` (a process that began while a
  living owner was named has only looked, and what it read is the owner's pid).
- `SyncProofs`, the pipeline: `SyncInv` adds to `SyncedIsPublished` that versions are
  bounded by what the host wants (`Bounded`), that acknowledged events are on the
  remote (`AckedHeld`), what each stage of an upload has done (`StageInv`), and that
  each key not yet published is still to be enqueued, queued, or a reason for the
  sync to fail (`Progress`, `Covered`). `RefsFollow` needs `Ordered`: a key about
  to be uploaded has nothing queued of lower priority, except in the batch it is
  sent with.
- `ClusterFrontPermitProofs` and `ClusterFrontProofs`: `FrontInv` has `ThreadInv` (what
  a thread at each place holds) and `PermitInv` (each counter is the cardinality of a
  set of threads, proved with the lemmas on finite sets there), which the first module
  shows to be kept, and `FileInv` and `DataInv`, which the second does. `FileInv` says of
  each key that a PUT queued or being uploaded has its bytes in the store, that one upload
  at a time works on it, and that a GET about to store what it read has the backend's bytes
  unless the store has the key or the backend lost it; hence uploads, the local GC and
  hydration leave `Visible` alone (`UploadSettled`, `GcSettled`, `HydrateSettled`), except
  where hydration revives a key. `ChangeInv` says that two requests under way for a
  key disturb it, and that what a request on a key not excepted reports is so;
  `ListInv` and `CacheInv` say what a listing under way and a cached one contain,
  up to the keys whose change came too late for them. A listing finds a key in the store or
  in the backend, so the invariant follows a key that the one may lose after the other
  was listed (`Finds`, `Archived`).

Most leaves name their prover (`ZenonT(30)`). tlapm tries its SMT backend first and
prepares every obligation for it with all the definitions in scope; in modules of this
size that costs more than the proof, and what is set and record reasoning goes to Zenon
at once. The leaves without a pragma are mostly those with arithmetic.

### Only model-checked

Liveness (`BacklogDrains`, `Quiesces`, `CatchesUp`, `LockIsObtainable`, `Converges`)
is out of the prover's reach. What `Glob` of `Scan` computes is a recursion over
sequences, about which the installed provers cannot do induction. `RefsFollowContent`
of the master and the properties of `EventJournal`, `Repository`, `Publish` and of the
nine components of `host` are checked by TLC within their bounds and have no
proof: they hold for many commands of one or two processes, where small instances say much,
while the four modules with proofs are those in which any number of clients, threads,
processes or objects meet. `GetIsRegular` and `RefsFollowContent` as the run `pair` checks
them are the definitions of `ClusterMaster` applied to the part chosen; `GetRegular`
proves the first.

## 5. What the models show about the code

### Findings checked by runs

- **`publish_shared`.** `prune_remote_unreferenced_content_objects`
  (`sync_runtime.rs:2705`) lists the content of a directory remote without a
  host prefix and deletes what the syncing host does not reference. When two hosts
  sync to one directory, the second deletes the content of the first.
- **`fsck_untrack`.** `forget_unmanaged_root_history` (`root_runtime.rs:796`)
  indexes a manifest that holds the changed root only. The payload index of the snapshot
  then misses the other roots, and the next prune deletes their rows and packs.
  (`short` in `Fsck` names contents an index has left out in this way, when a
  manifest cannot be expanded because its trees are evicted, or in a clone.)

### Claims that are false as they stand

Each is a definition of its module. No run lists it; checking it with the
module's instance gives the counterexample described. The properties of section
3 are the weaker statements that do hold.

| definition | claim | what happens |
|---|---|---|
| `HiddenStaysHidden` (`ClusterMaster`) | `docs/CLUSTER_MASTER_SLAVE.md:158`: a deleted key is hidden at once | A GET reads the backend, the key is deleted and collected, and hydration (`cluster_runtime.rs:2248`) stores the bytes without asking `key_is_logically_deleted` again. The key is visible, unprotected and, until the next PUT or DELETE, `late`. |
| `QueueDrains` (`ClusterMaster`) | comment at `cluster_runtime.rs:1417`: over quota the backlog still drains | An intent the quota refuses is replayed, and fails, at the head of each worker cycle (2712), so the cycle never reaches the queue. |
| `Exclusive` (`ProcessLock`) | `docs/releases/v0.6.13.md:13`: sync, snapshot, prune and gc are serialised | Between `create_new` and the write of the pid (`process_runtime.rs:129`, `141`) the file is empty and taken for stale; two processes that find the same stale file may also remove each other's new one. |
| `RefsAreComplete` (`SyncPipeline`) | test `upload_publish_priority_keeps_current_refs_last` (`queue_runtime.rs:1703`) | Refs are enqueued before content (`sync_runtime.rs:856`, `902`). A stop between leaves a queue of refs alone, which the next drain publishes. |
| `SyncPublishes` (`SyncPipeline`) | `docs/REMOTE_AND_SECURITY.md:8` | The early return (`sync_runtime.rs:385`) compares with the cache only. After a sync that uploaded and stopped before writing the cache, a host that goes back to the cached state reports success while the remote shows the other one. |
| `QueueIsRetried` (`SyncPipeline`) | `docs/FEATURES.md:45` | The payload is removed before its item (`queue_runtime.rs:461`). After a kill between, every drain fails at that item (`sync_runtime.rs:368`). |
| `PrunedIsUnneeded` (`Repository`) | `docs/MOON_ROOT_STORAGE_OPTIMIZATION.md:66` | An object counts as present under its canonical or its local key, the prune (`sync_runtime.rs:2699`) keeps the canonical ones only, and may delete the only copy. |
| `PendingIsHonest` (`EventJournal`) | `docs/HEAD_ROOT_PERFORMANCE.md:40` | The finish record (`main.rs:869`) names no root, so a snapshot of one root makes events of the other look covered. |
| `OpIsRestored` (`Restore`) | `docs/RESTORE_TUTORIAL.md:61` | `restore --op` and `--ago` overlay journal events that are later than the operation. |
| `IncludeIsReached` (`Scan`) | `docs/COMMANDS.md:379` | An include with a wildcard inside a name is not reached below an excluded directory. |

### Exceptions the properties name

**Master front.** Requests carry no number: one whose client timed out may be
applied after the client's next request for the key (`disturbed`). A GET that has read
the backend before a DELETE reached it stores the bytes after (`revived`, as
`HiddenStaysHidden` above), until the next PUT or DELETE of the key. A listing
under way is not reached by the cache updates of PUTs and DELETEs and is stored
when it ends (`late`), until it expires; so is one whose backend LIST failed, without the
keys that only the backend has.

**Journal.** A change never notified (`missed`) waits for a rescan. The watcher gives a
snapshot up when another process holds the lock (`skipped`); an event recorded
while another process's snapshot runs may fall between its scan and its
timestamp (`raced`). Content that came back, an event whose file could not be read and a root that
went away are `odd`: the overlay cannot tell them from an older state. An event
that an earlier sync had read, and then failed to upload, is not read again. A watcher that
finds pending events when it starts ends if a sync holds the maintenance lock at that moment,
because `snapshot_lock_error` knows the snapshot lock only; what it was notified of waits
for the next watcher.

**Metadata before content.** `enqueue_and_drain_sync` queues metadata and refs before
content. When it stops between, killed or because content can neither be found nor
hydrated, the next sync's fast lane uploads the queued metadata before that sync queues
anything: until a sync has ended its uploads, the remote's current metadata may name
content that is not there (`unqueued` in `EventJournal` and `Publish`, `bare` in
`Repository`; `RefsAreComplete` above is the same gap in `SyncPipeline`).

**Publish.** The properties except hosts of which a gc mark names a payload whose
journal record has been compacted (`drafts`), a prune has stopped between a tombstone and
its deletion, so that the next one writes it again (`scarred`), the current snapshot
has changed between the two exports of a sync (`torn`), a repair has uploaded what no
sync has published (`ahead`), a sync has stopped before it wrote the sync cache
(`halfway`) or the prune state (`unpruned`), each until a later sync has mended it.
The prune goes by a listing of the remote that is cached for an hour
(`root_size_summary_remote_objects`, `sync_runtime.rs:1288`), so it may overlook what was
uploaded since and is no longer live; it deletes nothing that is live. Packs left in this
way (`left`) are in the way of clones until a later prune.
The gc mark does not name the journal's keys. Deep fsck looks for content under
unprefixed keys, also in S3. A clone that runs beside a sync may miss events pruned
between its reading of the metadata and of the journal. A clone does not verify the
hash of a pack.

**Restore.** Resuming a job drops the journal overlay. A hydrated object is written
without a rename (`main.rs:3022`): a stop leaves a torn object that later reads
use, and its hash is not checked. A file created between the conflict check and
its writing is overwritten. Restores take no lock. Manifests that are evicted while
the remote is away leave a plan without their files' objects; links and special
files at the place of a directory make a restore refuse half way.

**Scan and Roots.** Rules that change between the two walks of a snapshot mix
(`mixed`). The walk does not enter an excluded directory for an include such as `d/b*/f`
(`IncludeIsReached` above). An untrack with `--skip-history-rewrite`, or whose rewriting of the
history fails under `--continue-on-history-error`, leaves the path in the current
snapshot until the next one (`kept`); the hint to rerun `mj untrack --excluded` then finds nothing, as the
rows are untracked already. A stop between the rewriting and `save_root` has rewritten the
history for rules that are not kept. `mj track dir` does not take new large files or large batches; a track
below an untracked directory has no effect; files below a volatile-excluded directory
count as managed and are not walked; an anchored `/a/**` also excludes `x/a/`. The
filter of the watcher does not know the track and include exceptions
(`watch_runtime.rs:2122`). An open of the database by another process between a root
command's statement and its writing of `config.toml` brings the old value back, as does
a crash there; an import of a stale file may leave a root active and degraded.

**KeyRotation.** Nodes of the second tree format keep the old key
(`main.rs:3636`, against `docs/REMOTE_AND_SECURITY.md:236`); journal payloads are not
rotated. The rotation takes no lock (`overlap`). A rotation to a further key after a
crash overwrites `key.pending`, the only copy of the key the rows need (`stacked`).
A tree that cannot be read is rewritten without its records (`main.rs:5110`, `blind`). After a
crash a record may name a blob of the old key.

**RemoteStore.** A negative answer of `put_if_absent` does not say that the other
writer's directory entry is durable. The entry of a directory that a put creates is not
synced: a power loss may take it with the object. A `put_if_absent` whose link fails takes the lock
file and renames, without regard to one that links meanwhile: both may be told that they created
the object (`rough`). After a failed link a crash with `.mjlock` blocks its key. A listing of a directory returns temporary files and
fails if one vanishes meanwhile. A large conditional put to S3 is not atomic. A
lookup that races a put may leave a false absence in the cache until it expires, since a put
invalidates before it and not after. The delimiter fallback of
`list_common_prefixes` takes the first part of the whole key.

**Changes.** `mj state <ref> --json` says M where the terminal says A for files
tracked since by the journal or by hand. Within a root it prints
root-relative and root-prefixed paths in different forms, so pathspecs match nothing. Time references
leave out changes of files with older modification times, and those of the same second
(`docs/CLI_LAYOUT.md:102` says otherwise). Without `--full` the log shows a large tree as one
row. A lifecycle shows no D for paths that
were not in the first snapshot. Summaries leave out directories and are cut at a
limit, with a warning. A pathspec that starts with the root's name is taken for the root.

**Daemon.** A watcher started without `--home` on its command line is not
recognised (`docs/GETTING_STARTED.md:168` starts one): status calls it stale, and
start cleans its lock up and starts a second. `mj --home H watch --foreground
false` with a stale pid file finds itself and adopts its own pid. No signal handler is
installed, so SIGTERM skips the destructors; destructors and clean-up remove files
whoever they belong to, so an overlapping stop and start may leave two watchers
(`broken`, `overlap`). A start that waits in vain adopts the pid of its
child even when that is dead. Stop kills at most one further daemon.
`watch_command_matches` (`daemon_runtime.rs:598`) looks for the home as a substring of the command line: start
adopts, and stop kills, the watcher of a home whose path begins with this one's (`near`), and
after such an adoption the pid file may name it while this home's own watcher runs. A
watcher may die, and its pid be used again, between the check and the signal or the report (`lost`).

**Branches.** Branch commands take neither lock nor transaction. A stop between two
statements of a switch (`torn`) or an overlapping snapshot (`raced`) leaves the head
of the active branch different from `current`; the next snapshot moves the branch
away from a head it does not descend from, which prune then may delete. `op
restore` does not check that its snapshot still exists, and `prune
--drop-missing-remote-history` deletes heads of other branches, against
`docs/BRANCHING.md:69` (`loose`). `set-head` and `delete` of a branch that is not
active record that branch's head as before, so their `op restore` moves the
active branch there. A rewrite of the log file may lose or repeat a
concurrent append (`crossed`); a snapshot appends its record before its transaction
commits (`gap`), and the next rewrite repairs it.

## 6. Not modelled

- The cluster protocol's framing, tokens and client proxy, request signing, ciphers,
  chunk boundaries, pack and manifest formats: no protocol state, and the models
  take contents by name.
- SQLite: a transaction is atomic and durable, a statement outside of one is a
  transaction of its own.
- Argument parsing, configuration beyond the root table, platform calls, service
  managers, FUSE calls, output layout, statistics, status and audit reports.
- The checks of fsck on the host file, the configured roots, the parents of operations and
  the upload and event queues, which no command in `Fsck` changes. Fsck's removal of cached
  objects is modelled for both settings of `MAJUTSU_FSCK_PRUNE_*_CACHE`.
- Which snapshots a retention policy picks: `Repository` and `Fsck` choose any.
- Adaptive intervals and health output of the watch loop; wall clocks that go back.
- Malformed input: files that no version of the program writes, except for the lost and
  damaged objects of `Publish` and `Fsck`.
