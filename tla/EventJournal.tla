---------------------------- MODULE EventJournal ----------------------------
(***************************************************************************)
(* How a change of a file reaches a snapshot, the durable event journal    *)
(* and the remote: the snapshot command (src/src/main.rs), the event       *)
(* journal (src/src/queue_runtime.rs), the journal part of mj sync         *)
(* (src/src/sync_runtime.rs) and the watch loop with its retry state       *)
(* (src/src/watch_runtime.rs, watch_recovery.rs).                          *)
(*                                                                         *)
(* A root stands for its one file, whose contents follow each other as     *)
(* versions 1, 2, ...; version 0 is "no file".  Journal records are named  *)
(* by the time they were observed, as snapshots are by their timestamp.    *)
(* At most one snapshot or sync runs at a time: both hold the maintenance  *)
(* lock (see ProcessLock).  The upload queue is drained as SyncPipeline    *)
(* shows: payloads first, then records.                                    *)
(***************************************************************************)
EXTENDS Naturals, FiniteSets, Functions

CONSTANTS
    Roots,
    Content,    \* the bytes of each version: two versions may be equal
    MaxVer,     \* bound: versions of a file
    MaxTime,    \* bound: observation times
    CalmTime,   \* bound: no change of a file and no fault after this time
    MaxFaults,  \* bound: crashes, failures, losses and manual commands
    Unread      \* the body of a record whose file was not read yet

ASSUME ConstantsAssumption ==
    /\ MaxVer \in Nat \ {0} /\ MaxTime \in Nat /\ CalmTime \in Nat /\ MaxFaults \in Nat
    /\ DOMAIN Content = 0..MaxVer
    /\ \A v \in 1..MaxVer : Content[v] # Content[0]
    /\ Unread \notin 0..MaxVer

VARIABLES
    live,    \* the version of each file
    place,   \* of a root: "here", "gone" (no such path) or "bare" (not mounted)
    active,  \* roots with status active
    snap,    \* the current snapshot: trees, timestamp; what all snapshots hold
    journal, \* local journal records by time
    clock,   \* the last time used
    queue,   \* the upload queue: records, contents, the snapshot to publish, whether a
             \* retry time is set; and the sync cache, the snapshot last published
    remote,  \* in the remote: records, payloads, the published snapshot
    job,     \* the snapshot or the sync that holds the maintenance lock
    watch,   \* the watch process: where it is, the roots of its batch and the
             \* snapshot before it
    chan,    \* roots with notifications the watch process did not receive yet
    retry,   \* watch-snapshot-retry.json: none, wait or due
    hist,    \* history, for the properties
    faults

disk == <<journal, clock>>
vars == <<live, place, active, snap, disk, queue, remote, job, watch, chan, retry, hist, faults>>

Versions == 0..MaxVer
Times == 0..MaxTime
Same(v, w) == Content[v] = Content[w]
Bytes(S) == {Content[v] : v \in S \ {0}}

\* A journal record; root is empty if it names no file.
Record(kind, root) == [kind |-> kind, root |-> root, body |-> Unread, keyed |-> FALSE, synced |-> FALSE]

\* f with the value v at k
With(f, k, v) == [x \in DOMAIN f \cup {k} |-> IF x = k THEN v ELSE f[x]]

NoJob == [step |-> "idle", by |-> "none", sel |-> {}, todo |-> {}, list |-> {}, seen |-> <<>>,
          tree |-> [r \in Roots |-> 0], at |-> 0, got |-> {}, old |-> {}, calm |-> FALSE]
Step(s) == [job EXCEPT !.step = s]
Snapping == job.step \in {"scan", "commit", "finish"}

Emptied(q) == [q EXCEPT !.recs = <<>>, !.objs = {}, !.head = {}, !.late = FALSE]

Fault == faults < MaxFaults /\ clock <= CalmTime /\ faults' = faults + 1

\* What a process sees at the path of the file
View(r) == IF place[r] = "here" THEN live[r] ELSE 0

-----------------------------------------------------------------------------
(* The journal *)

Triggers(j) == {t \in DOMAIN j : j[t].kind \in {"fs", "rescan"}}
Finishes(j) == {t \in DOMAIN j : j[t].kind = "finish"}

\* has_pending_journal_events
Pending == \E t \in Triggers(journal) : \A f \in Finishes(journal) : f < t

\* Fault: not only acknowledged records
RemovableAny(j) == {t \in DOMAIN j : \E f \in Finishes(j) : t < f}

\* Fault: all acknowledged records
RemovableAcked(j) == {t \in Triggers(j) : j[t].synced}

\* event_removable_after_snapshot: a trigger that is acknowledged and older than
\* the last snapshot-finish; another record that is older than the last but one.
Removable(j) ==
    {t \in DOMAIN j :
        LET later == {f \in Finishes(j) : t < f}
        IN IF t \in Triggers(j) THEN j[t].synced /\ later # {} ELSE Cardinality(later) > 1}

\* compact_event_journal_inner
Compacted(j) == Restrict(j, DOMAIN j \ Removable(j))

\* overlay_durable_journal_records: a restore of the head takes the version of r
\* from the last acknowledged record after the snapshot.
Overlay(s, j, r) ==
    LET later == {t \in DOMAIN j : t > s.at /\ j[t].synced /\ j[t].root = {r} /\ j[t].body # Unread}
    IN IF later = {} THEN s.tree[r]
       ELSE j[CHOOSE t \in later : \A u \in later : u <= t].body

Restored(r) == Overlay(snap, journal, r)

\* import_remote_event_journal_keys: a clone takes the records of the remote as
\* acknowledged.
Imported == [t \in DOMAIN remote.recs |-> [remote.recs[t] EXCEPT !.synced = TRUE]]
Cloned(r) == Overlay(remote.head, Imported, r)

-----------------------------------------------------------------------------
(* Files and roots, which change at any time *)

\* The file of r changes and the kernel queues a notification, if the watch
\* process is there to receive it.
Change(r) ==
    /\ live[r] < MaxVer /\ clock <= CalmTime /\ place[r] = "here"
    /\ live' = [live EXCEPT ![r] = @ + 1]
    /\ chan' = IF watch.pc = "down" THEN chan ELSE chan \cup {r}
    /\ hist' = [hist EXCEPT
                  !.missed = IF watch.pc = "down" THEN @ \cup {r} ELSE @,
                  !.odd = IF \E v \in 0..live[r] : Same(v, live[r] + 1) THEN @ \cup {r} ELSE @]
    /\ job' = [job EXCEPT !.calm = FALSE, !.got = @ \ {r}]
    /\ UNCHANGED <<place, active, snap, disk, queue, remote, watch, retry, faults>>

\* The notification is dropped: the queue of the kernel overflows.
LoseNotification(r) ==
    /\ Fault /\ r \in chan
    /\ chan' = chan \ {r}
    /\ hist' = [hist EXCEPT !.missed = @ \cup {r}]
    /\ UNCHANGED <<live, place, active, snap, disk, queue, remote, job, watch, retry>>

\* The path of the root disappears, or its file system is unmounted.
Leave(r, p) ==
    /\ Fault /\ place[r] = "here"
    /\ place' = [place EXCEPT ![r] = p]
    /\ hist' = [hist EXCEPT !.odd = @ \cup {r}]
    /\ job' = [job EXCEPT !.calm = FALSE]
    /\ UNCHANGED <<live, active, snap, disk, queue, remote, watch, chan, retry>>

\* It comes back, without notifications; mj root resume makes the root active
\* again.
Return(r) ==
    /\ place[r] # "here" /\ clock <= CalmTime
    /\ place' = [place EXCEPT ![r] = "here"]
    /\ active' \in {active, active \cup {r}}
    /\ hist' = [hist EXCEPT !.missed = @ \cup {r}]
    /\ job' = [job EXCEPT !.calm = FALSE, !.got = @ \ {r}]
    /\ UNCHANGED <<live, snap, disk, queue, remote, watch, chan, retry, faults>>

-----------------------------------------------------------------------------
(* snapshot *)

\* The active roots in sel are scanned; the others keep the trees of the parent.
SnapBegin(by, sel) ==
    /\ job.step = "idle"
    /\ job' = [NoJob EXCEPT !.step = "scan", !.by = by, !.todo = sel \cap active,
                            !.tree = snap.tree]

SnapScan(r) ==
    /\ job.step = "scan" /\ r \in job.todo /\ place[r] = "here"
    /\ job' = [job EXCEPT !.todo = @ \ {r}, !.tree[r] = live[r], !.got = @ \cup {r}]
    /\ UNCHANGED <<live, place, active, snap, disk, queue, remote, watch, chan, retry, hist, faults>>

\* A root that is gone, not mounted or not readable keeps its tree and gets
\* another status.
SnapSkip(r) ==
    /\ job.step = "scan" /\ r \in job.todo /\ place[r] # "here"
    /\ job' = [job EXCEPT !.todo = @ \ {r}]
    /\ active' = active \ {r}
    /\ UNCHANGED <<live, place, snap, disk, queue, remote, watch, chan, retry, hist, faults>>

\* The manifest gets its timestamp when the scans are done: later than the
\* records so far.
SnapStamp ==
    /\ job.step = "scan" /\ job.todo = {}
    /\ job' = [job EXCEPT !.step = "commit", !.at = clock]
    /\ UNCHANGED <<live, place, active, snap, disk, queue, remote, watch, chan, retry, hist, faults>>

\* One transaction; snapshot_is_noop keeps the current snapshot.
SnapCommit ==
    /\ job.step = "commit"
    /\ snap' = IF \A r \in Roots : Same(job.tree[r], snap.tree[r]) THEN snap
               ELSE [tree |-> job.tree, at |-> job.at, kept |-> snap.kept \cup Bytes(Range(job.tree))]
    /\ job' = Step("finish")
    /\ UNCHANGED <<live, place, active, disk, queue, remote, watch, chan, retry, hist, faults>>

\* The watch loop goes on when a job of its own ends.
Resting == [pc |-> "wait", batch |-> {}, before |-> 0]
Goes(pc) == watch' = IF job.by # "watch" THEN watch
                     ELSE IF pc = "wait" THEN Resting
                     ELSE [watch EXCEPT !.pc = pc]

\* The watch process ends.
Down ==
    /\ watch' = [Resting EXCEPT !.pc = "down"]
    /\ chan' = {}
    /\ hist' = [hist EXCEPT !.missed = @ \cup chan]

\* The snapshot-finish record and the compaction of the journal.  The watch loop
\* removes its retry state and syncs if there is a new snapshot.
SnapFinish ==
    /\ job.step = "finish" /\ clock < MaxTime
    /\ clock' = clock + 1
    /\ journal' = Compacted(With(journal, clock + 1, Record("finish", {})))
    /\ IF watch.pc = "replay"
       THEN Goes("startsync") /\ UNCHANGED retry
       ELSE /\ Goes(IF snap.at # watch.before THEN "postsync" ELSE "wait")
            /\ retry' = IF job.by = "watch" THEN "none" ELSE retry
    /\ hist' = [hist EXCEPT !.missed = @ \ job.got, !.skipped = @ \ job.got,
                            !.raced = @ \ job.got]
    /\ job' = NoJob
    /\ UNCHANGED <<live, place, active, snap, queue, remote, chan, faults>>

\* The process is killed, or it fails: on an object of the cluster that cannot
\* be fetched, which the watch loop retries, or otherwise, which ends it.
SnapFails ==
    /\ Fault /\ Snapping
    /\ job' = NoJob
    /\ IF job.by = "watch"
       THEN \/ /\ retry' = "wait"
               /\ Goes(IF watch.pc = "replay" THEN "startsync" ELSE "wait")
               /\ UNCHANGED <<chan, hist>>
            \/ Down /\ UNCHANGED retry
       ELSE UNCHANGED <<watch, chan, retry, hist>>
    /\ UNCHANGED <<live, place, active, snap, disk, queue, remote>>

-----------------------------------------------------------------------------
(* mj sync: the journal fast lane, the snapshot, the compaction *)

\* The differences are looked for in the active roots of sel.
SyncBegin(by, sel) ==
    /\ job.step = "idle"
    /\ job' = [NoJob EXCEPT !.step = "diff", !.by = by, !.sel = sel, !.todo = sel \cap active,
                            !.seen = journal, !.calm = TRUE,
                            !.old = UNION {journal[t].root : t \in {u \in Triggers(journal) :
                                               ~journal[u].synced /\ journal[u].body # Unread}}]

\* Fault: any record after the snapshot
CoveredAny(r) == \E t \in DOMAIN job.seen : job.seen[t].root = {r} /\ t > snap.at

\* live_diff_event_already_covered
Covered(r) ==
    \E t \in DOMAIN job.seen :
        LET rec == job.seen[t]
        IN /\ rec.root = {r} /\ t > snap.at
           /\ ~rec.synced \/ (rec.body # Unread /\ Same(rec.body, View(r)))

\* enqueue_live_diff_event_journals, one root: a difference between the snapshot
\* and the file that no record covers is journaled.
SyncDiff(r) ==
    /\ job.step = "diff" /\ r \in job.todo
    /\ job' = [job EXCEPT !.todo = @ \ {r}]
    /\ IF place[r] # "gone" /\ ~Same(View(r), snap.tree[r]) /\ ~Covered(r)
       THEN /\ clock < MaxTime
            /\ clock' = clock + 1
            /\ journal' = With(journal, clock + 1, Record("fs", {r}))
       ELSE UNCHANGED disk
    /\ UNCHANGED <<live, place, active, snap, queue, remote, watch, chan, retry, hist, faults>>

\* The records to upload
SyncList ==
    /\ job.step = "diff" /\ job.todo = {}
    /\ job' = [job EXCEPT !.step = "enrich", !.seen = <<>>,
                          !.list = {t \in Triggers(journal) : ~journal[t].synced}]
    /\ UNCHANGED <<live, place, active, snap, disk, queue, remote, watch, chan, retry, hist, faults>>

\* enrich_remote_event_journal_payload reads the file as it is now, once.
Enriched(rec) ==
    [rec EXCEPT !.keyed = TRUE,
                !.body = IF rec.body # Unread \/ rec.root = {} THEN @
                         ELSE View(CHOOSE r \in Roots : rec.root = {r})]

\* enqueue_remote_event_journal_uploads, one record: the payload, the record and
\* then the local record.
Enqueued(t, rec) == [queue EXCEPT !.recs = With(@, t, rec),
                                  !.objs = IF journal[t].body # Unread THEN @
                                           ELSE @ \cup Bytes({rec.body} \ {Unread})]

SyncEnrich(t) ==
    /\ job.step = "enrich" /\ t \in job.list /\ \A u \in job.list : t <= u
    /\ queue' = Enqueued(t, Enriched(journal[t]))
    /\ journal' = With(journal, t, Enriched(journal[t]))
    /\ job' = [job EXCEPT !.list = @ \ {t}]
    /\ UNCHANGED <<live, place, active, snap, clock, remote, watch, chan, retry, hist, faults>>

\* The file cannot be read: the record waits for the next sync.
SyncDefer(t) ==
    /\ Fault /\ job.step = "enrich" /\ t \in job.list /\ journal[t].body = Unread
    /\ job' = [job EXCEPT !.list = @ \ {t}]
    /\ hist' = [hist EXCEPT !.odd = @ \cup journal[t].root]
    /\ UNCHANGED <<live, place, active, snap, disk, queue, remote, watch, chan, retry>>

Uploaded(recs, objs, head) ==
    [recs |-> [t \in DOMAIN remote.recs \cup recs |->
                 IF t \in recs THEN queue.recs[t] ELSE remote.recs[t]],
     objs |-> remote.objs \cup objs,
     head |-> IF head = {} THEN remote.head ELSE CHOOSE h \in head : TRUE]

Drain ==
    /\ remote' = Uploaded(DOMAIN queue.recs, queue.objs, queue.head)
    /\ queue' = Emptied(queue)

\* A drain that ends after some of the uploads: contents go first.
DrainFails ==
    \E S \in SUBSET queue.objs, T \in SUBSET DOMAIN queue.recs, H \in SUBSET queue.head :
        /\ T # {} \/ H # {} => S = queue.objs
        /\ remote' = Uploaded(T, S, H)
        /\ \/ queue' = [queue EXCEPT !.recs = Restrict(@, DOMAIN @ \ T), !.objs = @ \ S,
                                     !.head = @ \ H,
                                     !.late = <<T, S, H>> # <<DOMAIN queue.recs, queue.objs, queue.head>>]
           \/ UNCHANGED queue

\* drain_upload_queue, with what an earlier sync has left there, and the records to
\* acknowledge
SyncDrain ==
    /\ job.step = "enrich" /\ job.list = {}
    /\ Drain
    /\ job' = [job EXCEPT !.step = "ack",
                          !.list = {t \in Triggers(journal) : journal[t].keyed /\ ~journal[t].synced}]
    /\ UNCHANGED <<live, place, active, snap, disk, watch, chan, retry, hist, faults>>

\* acknowledge_remote_event_journal_uploads, one record
SyncAck(t) ==
    /\ job.step = "ack" /\ t \in job.list
    /\ journal' = IF t \in DOMAIN remote.recs /\ Bytes({journal[t].body} \ {Unread}) \subseteq remote.objs
                  THEN With(journal, t, [journal[t] EXCEPT !.synced = TRUE]) ELSE journal
    /\ job' = [job EXCEPT !.list = @ \ {t}]
    /\ UNCHANGED <<live, place, active, snap, clock, queue, remote, watch, chan, retry, hist, faults>>

\* Nothing else changed since the last sync.
SyncUnchanged ==
    /\ job.step = "ack" /\ job.list = {} /\ queue.cache = snap
    /\ job' = Step("done")
    /\ UNCHANGED <<live, place, active, snap, disk, queue, remote, watch, chan, retry, hist, faults>>

\* enqueue_and_drain_sync: metadata and refs of the snapshot are queued, then its
\* contents
Queued(objs) == [queue EXCEPT !.head = {snap}, !.objs = @ \cup objs]

SyncQueue ==
    /\ job.step = "ack" /\ job.list = {}
    /\ queue' = Queued(snap.kept)
    /\ job' = Step("publish")
    /\ UNCHANGED <<live, place, active, snap, disk, remote, watch, chan, retry, hist, faults>>

SyncPublish ==
    /\ job.step = "publish"
    /\ Drain
    /\ hist' = [hist EXCEPT !.unqueued = {}]
    /\ job' = Step("compact")
    /\ UNCHANGED <<live, place, active, snap, disk, watch, chan, retry, faults>>

\* compact_event_journal_force, write_remote_sync_cache; a sync that does not prune the
\* remote is done.
SyncCompact ==
    /\ job.step = "compact"
    /\ journal' = Compacted(journal)
    /\ queue' = [queue EXCEPT !.cache = snap]
    /\ \E s \in {"prune", "done"} : job' = Step(s)
    /\ UNCHANGED <<live, place, active, snap, clock, remote, watch, chan, retry, hist, faults>>

\* prune_remote_stale_event_journals
SyncPruneRecords ==
    /\ job.step = "prune"
    /\ remote' = [remote EXCEPT !.recs = Restrict(@, {t \in DOMAIN @ : t \in DOMAIN journal /\ journal[t].keyed})]
    /\ job' = Step("sweep")
    /\ UNCHANGED <<live, place, active, snap, disk, queue, watch, chan, retry, hist, faults>>

\* Fault: what the journal names is not kept
SyncPruneUnkept ==
    /\ job.step = "sweep"
    /\ remote' = [remote EXCEPT !.objs = @ \cap snap.kept]
    /\ job' = Step("done")
    /\ UNCHANGED <<live, place, active, snap, disk, queue, watch, chan, retry, hist, faults>>

\* prune_remote_unreferenced_content_objects: what a snapshot or a keyed record
\* of the local journal names is kept.
SyncPruneObjects ==
    /\ job.step = "sweep"
    /\ remote' = [remote EXCEPT !.objs = @ \cap (snap.kept \cup
                      Bytes({journal[t].body : t \in {u \in DOMAIN journal : journal[u].keyed}} \ {Unread}))]
    /\ job' = Step("done")
    /\ UNCHANGED <<live, place, active, snap, disk, queue, watch, chan, retry, hist, faults>>

\* A sync of the watch loop before the snapshot is followed by the snapshot.
AfterSync == IF watch.pc = "presync" THEN "snap" ELSE "wait"

SyncEnd ==
    /\ job.step = "done"
    /\ job' = NoJob
    /\ Goes(AfterSync)
    /\ UNCHANGED <<live, place, active, snap, disk, queue, remote, chan, retry, hist, faults>>

\* The process fails or is killed: in a drain after some of the uploads, in the
\* enqueueing of a record before the local record is written, in that of the snapshot
\* before all its contents are queued.
SyncFails ==
    /\ Fault /\ job.step \notin {"idle", "done"} /\ ~Snapping
    /\ job' = NoJob
    /\ Goes(AfterSync)
    /\ \/ UNCHANGED <<queue, remote, hist>>
       \/ /\ job.step = "publish" \/ (job.step = "enrich" /\ job.list = {})
          /\ DrainFails
          /\ UNCHANGED hist
       \/ /\ job.step = "enrich"
          /\ \E t \in job.list : queue' = Enqueued(t, Enriched(journal[t]))
          /\ UNCHANGED <<remote, hist>>
       \/ /\ job.step = "ack" /\ job.list = {}
          /\ \E S \in SUBSET snap.kept :
               /\ queue' = Queued(S)
               /\ hist' = [hist EXCEPT !.unqueued = @ \cup (snap.kept \ S)]
          /\ UNCHANGED remote
    /\ UNCHANGED <<live, place, active, snap, disk, chan, retry>>

-----------------------------------------------------------------------------
(* The watch process *)

\* mj watch is started, again by its supervisor; it replays the journal.
WatchStart ==
    /\ watch.pc = "down"
    /\ watch' = [Resting EXCEPT !.pc = "replay", !.batch = Roots]
    /\ UNCHANGED <<live, place, active, snap, disk, queue, remote, job, chan, retry, hist, faults>>

\* replay_pending_journal_events: a snapshot of all roots if an event is pending.  It
\* is given up if another snapshot runs; if a sync holds the maintenance lock, which
\* snapshot_lock_error does not recognise, the watch process ends.
WatchReplay ==
    /\ watch.pc = "replay" /\ job.by # "watch"
    /\ \/ /\ Pending
          /\ SnapBegin("watch", Roots)
          /\ UNCHANGED <<watch, chan, hist>>
       \/ /\ ~Pending \/ Snapping
          /\ watch' = [watch EXCEPT !.pc = "startsync"]
          /\ hist' = IF ~Pending THEN hist
                     ELSE [hist EXCEPT !.skipped = @ \cup UNION {journal[t].root : t \in Triggers(journal)}]
          /\ UNCHANGED <<job, chan>>
       \/ /\ Pending /\ job.step # "idle" /\ ~Snapping
          /\ Down
          /\ UNCHANGED job
    /\ UNCHANGED <<live, place, active, snap, disk, queue, remote, retry, faults>>

\* An event is received and recorded; it starts a batch or extends it.
WatchReceive(r) ==
    /\ watch.pc \in {"wait", "buffer"} /\ r \in chan /\ clock < MaxTime
    /\ clock' = clock + 1
    /\ journal' = With(journal, clock + 1, Record("fs", {r}))
    /\ chan' = chan \ {r}
    /\ watch' = [watch EXCEPT !.pc = "buffer", !.batch = @ \cup {r}]
    /\ hist' = IF Snapping THEN [hist EXCEPT !.raced = @ \cup {r}] ELSE hist
    /\ job' = [job EXCEPT !.got = @ \ {r}]
    /\ UNCHANGED <<live, place, active, snap, queue, remote, retry, faults>>

\* Fault: the retry scans the roots of the batch
RunBatch(batch) ==
    watch' = IF retry = "wait" THEN Resting
             ELSE [Resting EXCEPT !.pc = "presync", !.batch = batch]

\* Fault: the retry time is not looked at
RunNever(batch) ==
    watch' = IF retry # "none" THEN Resting
             ELSE [Resting EXCEPT !.pc = "presync", !.batch = batch]

\* watch_recovery::run: nothing before the retry time; after it, all roots.
Run(batch) ==
    watch' = IF retry = "wait" THEN Resting
             ELSE [Resting EXCEPT !.pc = "presync",
                                  !.batch = IF retry = "due" THEN Roots ELSE batch]

\* The buffer is flushed: quiet, full or too old.
WatchFlush ==
    /\ watch.pc = "buffer"
    /\ Run(watch.batch)
    /\ UNCHANGED <<live, place, active, snap, disk, queue, remote, job, chan, retry, hist, faults>>

\* No event for the rescan interval, which is longer than the delay of an upload
\* (3600 s, at most 360 s), or until the retry time of the snapshot.  One record
\* stands for all the rescans since the last snapshot-finish.
WatchRescan ==
    /\ watch.pc = "wait" /\ chan = {} /\ (queue.late => retry # "none")
    /\ IF \E t \in DOMAIN journal : /\ journal[t].kind = "rescan"
                                    /\ \A f \in Finishes(journal) : f < t
       THEN UNCHANGED disk
       ELSE /\ clock < MaxTime
            /\ clock' = clock + 1
            /\ journal' = With(journal, clock + 1, Record("rescan", {}))
    /\ Run(Roots)
    /\ UNCHANGED <<live, place, active, snap, queue, remote, job, chan, retry, hist, faults>>

\* The retry time of the snapshot, and of the uploads
RetryDue ==
    /\ \/ retry = "wait" /\ retry' = "due" /\ UNCHANGED queue
       \/ queue.late /\ queue' = [queue EXCEPT !.late = FALSE] /\ UNCHANGED retry
    /\ UNCHANGED <<live, place, active, snap, disk, remote, job, watch, chan, hist, faults>>

\* sync_current_external: not while an upload is delayed; the child gives up if
\* another process holds the lock.
WatchSync ==
    /\ watch.pc \in {"startsync", "presync", "postsync"} /\ job.by # "watch"
    /\ \/ /\ SyncBegin("watch", watch.batch)
          /\ UNCHANGED watch
       \/ /\ job.step # "idle" \/ queue.late
          /\ watch' = IF AfterSync = "wait" THEN Resting ELSE [watch EXCEPT !.pc = "snap"]
          /\ UNCHANGED job
    /\ UNCHANGED <<live, place, active, snap, disk, queue, remote, chan, retry, hist, faults>>

\* capture_snapshot_and_sync: the child process, or Deferred if another process
\* holds the lock: nothing is retried then, but for a retry that is pending.
WatchSnap ==
    /\ watch.pc = "snap" /\ job.by # "watch"
    /\ \/ /\ SnapBegin("watch", watch.batch)
          /\ watch' = [watch EXCEPT !.before = snap.at]
          /\ UNCHANGED <<retry, hist>>
       \/ /\ job.step # "idle"
          /\ watch' = Resting
          /\ retry' = IF retry = "due" THEN "wait" ELSE retry
          /\ hist' = IF retry = "none" THEN [hist EXCEPT !.skipped = @ \cup watch.batch] ELSE hist
          /\ UNCHANGED job
    /\ UNCHANGED <<live, place, active, snap, disk, queue, remote, chan, faults>>

\* The watch process is killed; its child goes on.
WatchCrash ==
    /\ Fault /\ watch.pc # "down"
    /\ Down
    /\ job' = IF job.by = "watch" THEN [job EXCEPT !.by = "child"] ELSE job
    /\ UNCHANGED <<live, place, active, snap, disk, queue, remote, retry>>

-----------------------------------------------------------------------------
(* Other processes *)

\* mj snapshot, mj sync
Command ==
    /\ Fault
    /\ SnapBegin("user", Roots) \/ SyncBegin("user", Roots)
    /\ UNCHANGED <<live, place, active, snap, disk, queue, remote, watch, chan, retry, hist>>

\* upload_retry_scheduler_loop, a thread of the watch process, syncs the records
\* and the uploads that are left, without looking for differences.
RetryQueued ==
    /\ watch.pc # "down"
    /\ \/ \E t \in Triggers(journal) : ~journal[t].synced
       \/ (queue.recs # <<>> \/ queue.objs # {} \/ queue.head # {}) /\ ~queue.late
    /\ SyncBegin("scheduler", {})
    /\ UNCHANGED <<live, place, active, snap, disk, queue, remote, watch, chan, retry, hist, faults>>

\* mj event compact, which takes no lock
EventCompact ==
    /\ Removable(journal) # {}
    /\ journal' = Compacted(journal)
    /\ UNCHANGED <<live, place, active, snap, clock, queue, remote, job, watch, chan, retry, hist, faults>>

-----------------------------------------------------------------------------
FirstSnapshot == [tree |-> [r \in Roots |-> 1], at |-> 0, kept |-> Bytes({1})]

\* After the first snapshot and sync
Init ==
    /\ live = [r \in Roots |-> 1] /\ place = [r \in Roots |-> "here"] /\ active = Roots
    /\ snap = FirstSnapshot
    /\ clock = 1 /\ journal = [t \in {1} |-> Record("finish", {})]
    /\ queue = [recs |-> <<>>, objs |-> {}, head |-> {}, late |-> FALSE, cache |-> FirstSnapshot]
    /\ remote = [recs |-> <<>>, objs |-> Bytes({1}), head |-> FirstSnapshot]
    /\ job = NoJob /\ watch = Resting /\ chan = {} /\ retry = "none"
    /\ hist = [missed |-> {}, skipped |-> {}, raced |-> {}, odd |-> {}, unqueued |-> {}]
    /\ faults = 0

JobNext ==
    \/ \E r \in Roots : SnapScan(r) \/ SnapSkip(r) \/ SyncDiff(r)
    \/ \E t \in Times : SyncEnrich(t) \/ SyncAck(t)
    \/ SnapStamp \/ SnapCommit \/ SnapFinish
    \/ SyncList \/ SyncDrain \/ SyncUnchanged \/ SyncQueue \/ SyncPublish \/ SyncCompact
    \/ SyncPruneRecords \/ SyncPruneObjects \/ SyncEnd

WatchNext ==
    \/ WatchStart \/ WatchReplay \/ WatchFlush \/ WatchSync \/ WatchSnap
    \/ \E r \in Roots : WatchReceive(r)

Next ==
    \/ JobNext \/ WatchNext \/ WatchRescan \/ RetryDue \/ RetryQueued
    \/ SnapFails \/ SyncFails \/ WatchCrash \/ Command \/ EventCompact
    \/ \E r \in Roots : Change(r) \/ LoseNotification(r) \/ Return(r)
    \/ \E r \in Roots, p \in {"gone", "bare"} : Leave(r, p)
    \/ \E t \in Times : SyncDefer(t)

Spec == Init /\ [][Next]_vars

FairSpec == /\ Spec
            /\ WF_vars(JobNext) /\ WF_vars(WatchNext) /\ WF_vars(WatchRescan)
            /\ WF_vars(RetryDue) /\ WF_vars(RetryQueued)

-----------------------------------------------------------------------------
(* Properties *)

Tree == [Roots -> Versions]
Snapshots == [tree: Tree, at: Times, kept: SUBSET Bytes(Versions)]
Records == [kind: {"fs", "rescan", "finish"}, root: SUBSET Roots, body: Versions \cup {Unread},
            keyed: BOOLEAN, synced: BOOLEAN]
IsJournal(j) == DOMAIN j \subseteq Times /\ \A t \in DOMAIN j : j[t] \in Records

\* The type invariant.  The records a sync still has to upload or to acknowledge
\* are in the journal and are not acknowledged, although mj event compact takes
\* no lock; no time of a record or of a snapshot is in the future.
TypeOK ==
    /\ live \in Tree /\ place \in [Roots -> {"here", "gone", "bare"}] /\ active \subseteq Roots
    /\ snap \in Snapshots /\ clock \in Times
    /\ IsJournal(journal) /\ IsJournal(queue.recs) /\ IsJournal(remote.recs)
    /\ \A t \in DOMAIN journal \cup {snap.at, job.at} : t <= clock
    /\ queue.objs \subseteq Bytes(Versions) /\ queue.late \in BOOLEAN
    /\ queue.head \subseteq Snapshots /\ queue.cache \in Snapshots
    /\ remote.objs \subseteq Bytes(Versions) /\ remote.head \in Snapshots
    /\ job.step \in {"idle", "scan", "commit", "finish", "diff", "enrich", "ack", "publish", "compact",
                     "prune", "sweep", "done"}
    /\ job.by \in {"none", "watch", "user", "scheduler", "child"}
    /\ job.sel \subseteq Roots /\ job.todo \subseteq Roots
    /\ job.got \subseteq Roots /\ job.old \subseteq Roots
    /\ job.tree \in Tree /\ job.at \in Times /\ job.calm \in BOOLEAN /\ IsJournal(job.seen)
    /\ job.list \subseteq {t \in Triggers(journal) : ~journal[t].synced}
    /\ watch \in [pc: {"down", "replay", "startsync", "wait", "buffer", "presync", "snap", "postsync"},
                  batch: SUBSET Roots, before: Times]
    /\ chan \subseteq Roots /\ retry \in {"none", "wait", "due"} /\ faults \in 0..MaxFaults
    /\ hist \in [missed: SUBSET Roots, skipped: SUBSET Roots, raced: SUBSET Roots, odd: SUBSET Roots,
                 unqueued: SUBSET Bytes(Versions)]

\* The comment in event_removable_after_snapshot: no event is deleted before the
\* remote has it, whichever snapshots, syncs and compactions run, with or
\* without the maintenance lock.
UnackedIsKept ==
    [][\A t \in Triggers(journal) : journal[t].synced \/ t \in DOMAIN journal']_vars

\* A clone at any moment finds the contents of the published snapshots and of
\* every event record it imports: uploads put payloads before records, and the
\* remote prune deletes records before payloads.  An acknowledged event of the
\* local journal, which remote_journal_synced_at vouches for, is in the remote
\* with what was read from the file, through failed drains and remote prunes.
\* Excepted are the contents of a snapshot that a sync had not queued when it stopped
\* between its metadata and its contents (unqueued), until the next sync that publishes:
\* the drain of its journal publishes the queued metadata first.  The journals are well
\* formed all the while.
RemoteIsComplete ==
    /\ TypeOK
    /\ remote.head.kept \subseteq remote.objs \cup hist.unqueued
    /\ \A t \in DOMAIN remote.recs : Bytes({remote.recs[t].body} \ {Unread}) \subseteq remote.objs
    /\ \A t \in Triggers(journal) : journal[t].synced =>
          t \in DOMAIN remote.recs /\ remote.recs[t].body = journal[t].body

AtRest == watch.pc = "wait" /\ chan = {} /\ retry = "none" /\ job.step = "idle"

\* When the watch loop waits with nothing pending in the journal and no retry,
\* the current snapshot has the files as they are.  So after a failed snapshot,
\* whose changed roots are forgotten, the retry scans all roots before it removes
\* the retry state.  What can be left out: roots with a change that was never
\* notified (missed), whose snapshot was given up because another process held
\* the lock (skipped), or whose event was recorded while another process was
\* taking a snapshot (raced), until they are scanned again.
QuietIsCovered ==
    AtRest /\ ~Pending =>
        \A r \in active : \/ place[r] # "here" \/ Same(snap.tree[r], live[r])
                          \/ r \in hist.missed \cup hist.skipped \cup hist.raced

\* docs/HEAD_ROOT_PERFORMANCE.md: pending_journal_events false means that no work
\* is left, only records that were processed.
PendingIsHonest ==
    AtRest /\ ~Pending =>
        \A r \in active \ hist.missed : place[r] # "here" \/ Same(snap.tree[r], live[r])

Older(v, w) == v < w /\ ~Same(v, w)

\* What a restore of the head gives for a file, snapshot and acknowledged events
\* together, never goes back to an earlier version: not when a snapshot replaces
\* the events before it, nor when the journal is compacted.  But for the roots a
\* partial snapshot leaves behind, see QuietIsCovered, and those with a content
\* that came back, an event that could not be read or a root that went away (odd).
RestoreStep ==
    [][\A r \in Roots :
         \/ ~Older(Restored(r)', Restored(r))
         \/ r \in chan' \cup hist'.missed \cup hist'.skipped \cup hist'.raced \cup hist'.odd]_vars

\* A successful sync of all roots during which no file changes makes the files
\* restorable, from this host and from a clone, also those whose change was
\* never notified; with the exceptions of RestoreStep, and of an event that an
\* earlier sync read and failed to upload: it is not read again (job.old).
SyncIsComplete ==
    job.step = "done" /\ job.calm /\ job.sel = Roots =>
        \A r \in active : \/ r \in hist.skipped \cup hist.raced \cup hist.odd \cup job.old
                          \/ Same(Restored(r), live[r]) /\ Same(Cloned(r), live[r])

\* When nothing changes or fails any more, the snapshot and the remote catch up
\* with the files of the active roots: the periodic rescan finds what was missed,
\* skipped or raced, and retries go on.
Converges ==
    <>[](/\ remote.head = snap
         /\ \A r \in active : place[r] = "here" => Same(snap.tree[r], live[r]))

=============================================================================
