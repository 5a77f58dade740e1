------------------------------ MODULE Publish ------------------------------
(***************************************************************************)
(* What hosts publish in a remote, and who reads it: mj sync of every      *)
(* host (src/src/sync_runtime.rs), mj clone (src/src/clone_runtime.rs with *)
(* the validators of src/src/main.rs), mj remote fsck                      *)
(* (src/src/fsck_runtime.rs, src/src/remote_runtime.rs) and mj remote      *)
(* repair.                                                                 *)
(*                                                                         *)
(* A remote is a map from keys to values.  The metadata, the exports, the  *)
(* operation log, the refs, the gc mark and the tombstones of a host are   *)
(* under its prefix.  Content objects are under the host's prefix in S3,   *)
(* and under none in a directory.  A content object stands for its legacy  *)
(* key and its canonical alias.  The payload of a snapshot is a blob, a    *)
(* large object or a pack.                                                 *)
(***************************************************************************)
EXTENDS Naturals, FiniteSets, Functions, TLC

CONSTANT
    Instances \* records of the kind of remote, the hosts, the kind of payload
              \* and the bounds on snapshots, events, syncs, clones and faults

VARIABLES
    inst, \* the instance
    loc,  \* the state of each host
    rem,  \* the remote: the value of each key
    rot,  \* keys whose bytes are damaged
    sy,   \* the sync of each host
    cl,   \* the clone
    mem   \* history: faults so far, and sets of hosts:
          \*   synced    the last sync ended well
          \*   dirty     changed since the last sync has read the state
          \*   drafts    a gc mark names a payload whose journal record is compacted
          \*   scarred   a prune has stopped between a tombstone and its deletion
          \*   torn      the current snapshot has changed between the two exports of a sync
          \*   ahead     a repair has uploaded what no sync has published
          \*   halfway   a sync has stopped before it wrote the sync cache
          \*   unpruned  a sync has stopped before it wrote the prune state
          \*   left      a prune that went by a cached listing has overlooked an object
          \* and the content that a sync has stopped before queueing: unqueued

vars == <<inst, loc, rem, rot, sy, cl, mem>>

Hosts == inst.hosts
IsFile == inst.kind = "file"

-----------------------------------------------------------------------------
(* Keys *)

Meta(h) == <<h, "metadata">>
Mark(h) == <<h, "mark">>
Oplog(h) == <<h, "oplog">>
Current(h) == <<h, "current">>
LastSynced(h) == <<h, "last-synced">>
Head(h) == <<h, "head">>
Shard(h) == <<h, "shard">>
SnapExport(h, s) == <<h, "snapshot", s>>
OpExport(h, o) == <<h, "op", o>>
Journal(h, e) == <<h, "journal", e>>
Tombstone(h, n) == <<h, "tombstone", n>>

Tree(h, s) == <<"tree", h, s>>
Payload(h, s) == <<"payload", h, s>>
Draft(h, e) == <<"draft", h, e>>

IsContent(k) == k[1] \in {"tree", "payload", "draft"}
Stored == DOMAIN rem
Under(h, what) == {k \in Stored : k[1] = h /\ k[2] = what}

\* Fault: metadata and content in one group
PriorityFlat(k) == IF k[2] \in {"current", "last-synced", "head"} THEN 3 ELSE 1

\* upload_publish_priority
Priority(k) == CASE k[2] \in {"current", "last-synced", "head"} -> 3
                 [] k[2] \in {"metadata", "journal"} -> 2
                 [] OTHER -> 1

\* local_object_keys
RowKeys(h, x) == {Tree(h, s) : s \in x.snaps} \cup {Payload(h, s) : s \in x.snaps}
Chunks(x) == IF inst.payload = "chunk" THEN x.snaps ELSE {}
ShardKeys(h, x) == IF Chunks(x) = {} THEN {} ELSE {Shard(h)}

\* The operations of an export; the one for S3 leaves out those of syncs.
Ops(l) == {<<"local", i>> : i \in 1..l.ops}
          \cup (IF IsFile THEN {<<"sync", i>> : i \in 1..l.syncs} ELSE {})

\* export_metadata
Exported(l) == [snaps |-> l.snaps, cur |-> l.cur, ops |-> Ops(l), last |-> l.last]

\* The exports of snapshots and operations
Exports(h, x) ==
    [k \in {SnapExport(h, s) : s \in x.snaps} \cup {OpExport(h, o) : o \in x.ops} |-> TRUE]

\* remote_sync_state_fingerprint leaves out operations and last-synced.
Fingerprint(l) == <<l.snaps, l.cur>>

\* durable_journal_live_keys: of records that have been given a remote key
JournalKeys(l) ==
    {l.journal[e].payload : e \in {e \in DOMAIN l.journal : l.journal[e].st # "new"}}

\* build_gc_mark_export
GcMark(h, x) == [cur |-> x.cur,
                 keys |-> RowKeys(h, x) \cup JournalKeys(loc[h]) \cup ShardKeys(h, x)]

-----------------------------------------------------------------------------
(* The validators of mj clone: each is TRUE if it finds nothing wrong with x, *)
(* the metadata of h that the clone has read. *)

Readable(k) == k \in Stored /\ k \notin rot
Shows(k, v) == Readable(k) /\ rem[k] = v

\* validate_clone_host_summary: summary is the first reading of the metadata.
HostSummaryOk(summary, x) == summary.cur = x.cur /\ summary.last = x.last

\* validate_clone_remote_refs
RefsOk(h, x) ==
    /\ x.cur # 0 => Shows(Current(h), x.cur)
    /\ Shows(LastSynced(h), x.last)

\* remote_durable_journal_live_keys: of records that can be read
RemoteJournalKeys(h) == {rem[k] : k \in Under(h, "journal") \ rot}

\* validate_clone_remote_gc_tombstones
TombstonesOk(h) ==
    /\ \A k \in Under(h, "tombstone") : k \notin rot /\ rem[k] \notin Stored
    /\ \A j, k \in Under(h, "tombstone") : rem[j] = rem[k] => j = k

\* validate_clone_remote_gc_mark: live objects that are not in the mark do not
\* matter.
MarkOk(h, x) ==
    /\ Readable(Mark(h))
    /\ rem[Mark(h)].cur = x.cur
    /\ rem[Mark(h)].keys \subseteq
           RowKeys(h, x) \cup ShardKeys(h, x) \cup RemoteJournalKeys(h)
    /\ TombstonesOk(h)

\* validate_clone_remote_oplog
OplogOk(h, x) == Shows(Oplog(h), x.ops)

\* validate_clone_remote_timeline_exports
TimelineOk(h, x) ==
    /\ Under(h, "snapshot") \subseteq {SnapExport(h, s) : s \in x.snaps}
    /\ \A s \in x.snaps : Readable(SnapExport(h, s))
    /\ Under(h, "op") \subseteq {OpExport(h, o) : o \in x.ops}
    /\ \A o \in x.ops : Readable(OpExport(h, o))

\* validate_clone_remote_snapshot_objects
SnapshotObjectsOk(h, x) == \A s \in x.snaps : Readable(Tree(h, s))

\* Fault: only the presence of a large object matters
LargeUnverified(h, x) == TRUE

\* validate_clone_remote_large_objects: what is there has the sizes and the hashes of
\* its manifest.
LargeOk(h, x) == inst.payload = "chunk" => \A s \in x.snaps : Payload(h, s) \notin rot

\* validate_clone_remote_blob_objects: what is there has the size and the hash of the
\* metadata.
BlobsOk(h, x) == inst.payload = "blob" => \A s \in x.snaps : Payload(h, s) \notin rot

\* validate_clone_remote_chunk_index
ChunkIndexOk(h, x) == Chunks(x) # {} => Shows(Shard(h), Chunks(x))

\* validate_clone_remote_pack_objects: no other packs anywhere in a directory;
\* of a pack it checks the size and its index, not the hash.
PacksOk(h, x) ==
    inst.payload = "pack" =>
        {k \in Stored : k[1] = "payload"} \subseteq {Payload(h, s) : s \in x.snaps}

\* materialize_clone_objects
Materializable(h, x) == RowKeys(h, x) \subseteq Stored

ObjectsOk(h, x) ==
    /\ SnapshotObjectsOk(h, x) /\ BlobsOk(h, x) /\ ChunkIndexOk(h, x)
    /\ PacksOk(h, x) /\ LargeOk(h, x)

\* A clone of h would succeed now.
Clonable(h) ==
    /\ Readable(Meta(h))
    /\ IsFile =>
         LET x == rem[Meta(h)]
         IN /\ RefsOk(h, x) /\ MarkOk(h, x) /\ OplogOk(h, x) /\ TimelineOk(h, x)
            /\ ObjectsOk(h, x) /\ Materializable(h, x)

-----------------------------------------------------------------------------
(* mj remote fsck *)

HasHead(h) == ~IsFile /\ Head(h) \in Stored

\* The head, or without one the refs, agree with the metadata.
FsckRefsOk(h, x) ==
    IF HasHead(h)
    THEN Shows(Head(h), [cur |-> x.cur, last |-> x.last])
    ELSE RefsOk(h, x)

\* validate_quick_gc_records
FsckQuickGcOk(h, x) ==
    HasHead(h) \/ (Readable(Mark(h)) /\ rem[Mark(h)].cur = x.cur
                   /\ Under(h, "tombstone") \cap rot = {})

\* validate_quick_host_metadata
FsckQuickOk(h) ==
    /\ Readable(Meta(h))
    /\ FsckRefsOk(h, rem[Meta(h)]) /\ FsckQuickGcOk(h, rem[Meta(h)])

\* scan_remote_object_availability: the objects of the host's own database
MissingObjects(h) == RowKeys(h, loc[h]) \ Stored

\* remote_fsck_objects
FsckObjects(h) == (\E g \in Hosts : Meta(g) \in Stored) /\ MissingObjects(h) = {}

\* remote_fsck_quick
FsckQuick == \A h \in Hosts : Meta(h) \in Stored => FsckQuickOk(h)

\* Fault: only trees are looked up
FsckObjectsTrees(h, x) == {Tree(h, s) : s \in x.snaps} \subseteq Stored

\* The loop of remote_fsck_export over the object keys asks for keys without the
\* prefix of the host.
FsckObjectsOk(h, x) == IF IsFile THEN RowKeys(h, x) \subseteq Stored
                       ELSE RowKeys(h, x) = {}

\* validate_remote_snapshot_objects: as for blobs and large objects, those that are
\* not there are left to the loop above.
FsckSnapshotsOk(h, x) == \A s \in x.snaps : Tree(h, s) \notin rot

\* validate_remote_blob_objects, validate_remote_large_manifest_objects
FsckBlobsOk(h, x) == BlobsOk(h, x)
FsckLargeOk(h, x) == LargeOk(h, x)

\* validate_remote_chunk_index
FsckChunkIndexOk(h, x) == ChunkIndexOk(h, x)

\* validate_remote_pack_objects: other packs are looked for in directories only.
FsckPacksOk(h, x) == IsFile => PacksOk(h, x)

\* validate_remote_oplog
FsckOplogOk(h, x) == IsFile \/ Oplog(h) \in Stored => OplogOk(h, x)

\* validate_remote_gc_tombstones
FsckTombstonesOk(h) == TombstonesOk(h)

\* validate_remote_gc_records: the keys of the event journal are not expected.
FsckGcOk(h, x) ==
    /\ ~HasHead(h) =>
         Shows(Mark(h), [cur |-> x.cur, keys |-> RowKeys(h, x) \cup ShardKeys(h, x)])
    /\ FsckTombstonesOk(h)

\* validate_remote_timeline_prefixes
FsckTimelineOk(h, x) ==
    /\ Under(h, "snapshot") \subseteq {SnapExport(h, s) : s \in x.snaps}
    /\ Under(h, "op") \subseteq {OpExport(h, o) : o \in x.ops}

\* The exports of snapshots and operations are there and agree with the metadata.
FsckExportsOk(h, x) == \A k \in DOMAIN Exports(h, x) : Readable(k)

\* remote_fsck_export, and what remote_fsck_with_options checks of a host
FsckDeepOk(h) ==
    /\ Readable(Meta(h))
    /\ LET x == rem[Meta(h)]
       IN /\ FsckChunkIndexOk(h, x) /\ FsckObjectsOk(h, x)
          /\ FsckSnapshotsOk(h, x) /\ FsckBlobsOk(h, x) /\ FsckLargeOk(h, x)
          /\ FsckPacksOk(h, x) /\ FsckOplogOk(h, x) /\ FsckTimelineOk(h, x)
          /\ FsckExportsOk(h, x) /\ FsckRefsOk(h, x) /\ FsckGcOk(h, x)

\* remote_fsck_with_options: all hosts, and no gc records without metadata
FsckDeep ==
    /\ \E h \in Hosts : Meta(h) \in Stored
    /\ \A h \in Hosts :
         IF Meta(h) \in Stored THEN FsckDeepOk(h)
         ELSE Mark(h) \notin Stored /\ Under(h, "tombstone") = {}

-----------------------------------------------------------------------------
(* What a host does between two syncs *)

Idle(h) == sy[h].pc = "idle"
Set(h, l) == loc' = [loc EXCEPT ![h] = l]

\* mj snapshot: the events before it are processed.  Snapshots, prunes and syncs
\* exclude each other (maintenance.lock).
Snapshot(h) ==
    /\ Idle(h) /\ loc[h].taken < inst.snaps
    /\ LET l == loc[h]
           s == l.taken + 1
       IN Set(h, [l EXCEPT !.taken = s, !.snaps = @ \cup {s}, !.cur = s, !.ops = @ + 1,
                           !.journal = [e \in DOMAIN @ |->
                               [@[e] EXCEPT !.covered = IF @ = 0 THEN s ELSE @]]])
    /\ mem' = [mem EXCEPT !.dirty = @ \cup {h}]
    /\ UNCHANGED <<inst, rem, rot, sy, cl>>

\* mj prune of a snapshot that is not the current one
Prune(h, s) ==
    /\ Idle(h) /\ s \in loc[h].snaps \ {loc[h].cur}
    /\ Set(h, [loc[h] EXCEPT !.snaps = @ \ {s}, !.ops = @ + 1])
    /\ mem' = [mem EXCEPT !.dirty = @ \cup {h}]
    /\ UNCHANGED <<inst, rem, rot, sy, cl>>

\* mj branch switch and mj undo, which take no lock
Switch(h, s) ==
    /\ loc[h].switches < inst.switches /\ s \in loc[h].snaps \ {loc[h].cur}
    /\ Set(h, [loc[h] EXCEPT !.cur = s, !.ops = @ + 1, !.switches = @ + 1])
    /\ mem' = [mem EXCEPT !.dirty = @ \cup {h},
                          !.torn = IF sy[h].pc = "content" THEN @ \cup {h} ELSE @]
    /\ UNCHANGED <<inst, rem, rot, sy, cl>>

\* A file is written: its contents are those the next snapshot finds, or they are
\* overwritten before.
Event(h, payload) ==
    /\ loc[h].events < inst.events
    /\ payload \in {Draft(h, loc[h].events + 1), Payload(h, loc[h].taken + 1)}
    /\ LET e == loc[h].events + 1
       IN Set(h, [loc[h] EXCEPT !.events = e,
                    !.journal = (e :> [payload |-> payload, st |-> "new", covered |-> 0]) @@ @])
    /\ UNCHANGED <<inst, rem, rot, sy, cl, mem>>

-----------------------------------------------------------------------------
(* mj sync *)

Goto(h, pc) == sy' = [sy EXCEPT ![h].pc = pc]
Drop(f, S) == Restrict(f, DOMAIN f \ S)

\* The journal fast lane: records and payloads that are not acknowledged join
\* what earlier syncs have left in the upload queue.
SyncStart(h) ==
    /\ Idle(h) /\ loc[h].started < inst.syncs
    /\ LET l == loc[h]
           new == {e \in DOMAIN l.journal : l.journal[e].st # "acked"}
           records == [k \in {Journal(h, e) : e \in new} |-> l.journal[k[3]].payload]
           objects == [k \in {l.journal[e].payload : e \in new} |-> TRUE]
       IN Set(h, [l EXCEPT !.started = @ + 1, !.queue = records @@ objects @@ @,
                           !.journal = [e \in DOMAIN @ |->
                               [@[e] EXCEPT !.st = IF e \in new THEN "sent" ELSE @]]])
    /\ Goto(h, "lane")
    /\ mem' = [mem EXCEPT !.synced = @ \ {h}]
    /\ UNCHANGED <<inst, rem, rot, cl>>

\* The order of the names of the keys of one priority; ids are in some order.
Rank(k) == CASE k[2] \in {"mark", "current", "journal"} -> 1
             [] k[2] = "op" -> 2
             [] k[2] \in {"oplog", "last-synced", "metadata"} -> 3
             [] k[2] = "shard" -> 4
             [] k[2] = "snapshot" -> 5
             [] k[1] \in {"payload", "draft"} -> 6
             [] OTHER -> 7

\* drain_upload_queue: the keys of one priority after those of another.  A directory
\* gets them one by one in the order of their names, S3 in parallel.
Drainable(Q) ==
    LET first == {k \in Q : \A j \in Q : Priority(k) <= Priority(j)}
        low == {k \in first : \A j \in first : Rank(k) <= Rank(j)}
    IN IF IsFile /\ Q # {} THEN {CHOOSE k \in low : TRUE} ELSE first

\* Content that is there is not put again.
Put(h, k) ==
    /\ sy[h].pc \in {"lane", "drain"}
    /\ k \in Drainable(DOMAIN loc[h].queue)
    /\ IF IsContent(k) /\ k \in Stored
       THEN UNCHANGED <<rem, rot>>
       ELSE rem' = (k :> loc[h].queue[k]) @@ rem /\ rot' = rot \ {k}
    /\ Set(h, [loc[h] EXCEPT !.queue = Drop(@, {k})])
    /\ UNCHANGED <<inst, sy, cl, mem>>

\* acknowledge_remote_event_journal_uploads
Acked(h, l) ==
    [l EXCEPT !.journal = [e \in DOMAIN @ |->
        [@[e] EXCEPT !.st = IF @ = "sent" /\ Journal(h, e) \in Stored
                            THEN "acked" ELSE @]]]

\* remote_prune_due: the state has changed, or (always in S3) the interval is over.
PruneDue(l) == IF l.pruned = <<>> \/ (IsFile /\ l.pruned # Fingerprint(l)) THEN {TRUE}
               ELSE BOOLEAN

\* Nothing to publish: sync_configured_remote returns early.
Unchanged(h) ==
    /\ sy[h].pc = "lane" /\ DOMAIN loc[h].queue = {}
    /\ loc[h].cache = Fingerprint(loc[h]) /\ FALSE \in PruneDue(loc[h])
    /\ Set(h, Acked(h, loc[h]))
    /\ Goto(h, "idle")
    /\ mem' = [mem EXCEPT !.synced = @ \cup {h}, !.dirty = @ \ {h}]
    /\ UNCHANGED <<inst, rem, rot, cl>>

\* The content that is not uploaded again: a directory is asked for it, S3 is not.
Held(h) ==
    IF IsFile THEN Stored
    ELSE IF loc[h].cache = <<>> THEN {} ELSE RowKeys(h, [snaps |-> loc[h].cache[1]])

\* The metadata, the refs and the operation log are of the remote export x, the mark
\* of the content export c.
Records(h, x, c) ==
    (Meta(h) :> x) @@ (Mark(h) :> GcMark(h, c))
    @@ [k \in ShardKeys(h, x) |-> Chunks(x)]
    @@ (IF IsFile
        THEN (Oplog(h) :> x.ops) @@ (LastSynced(h) :> x.last)
             @@ (IF x.cur = 0 THEN <<>> ELSE Current(h) :> x.cur)
        ELSE Head(h) :> [cur |-> x.cur, last |-> x.last])

\* What enqueue_and_drain_sync enqueues: everything for a directory, for S3 what has
\* changed, and the mark if a prune follows.
Wanted(h, x, c) ==
    LET same(k) == k \in Stored /\ rem[k] = Records(h, x, c)[k] /\ ~sy[h].due
    IN [k \in RowKeys(h, c) \ Held(h) |-> TRUE]
       @@ Restrict(Exports(h, x),
                   {k \in DOMAIN Exports(h, x) : IsFile \/ k \notin Stored})
       @@ Restrict(Records(h, x, c),
                   {k \in DOMAIN Records(h, x, c) : IsFile \/ ~same(k)})

\* The order in which enqueue_and_drain_sync fills the upload queue: the metadata and
\* all that goes with it before the content, the mark last.
QueueRank(k) == CASE k[2] = "metadata" -> 1
                  [] k[2] = "snapshot" -> 2
                  [] k[2] = "op" -> 3
                  [] k[2] = "oplog" -> 4
                  [] k[2] = "current" -> 5
                  [] k[2] \in {"last-synced", "head"} -> 6
                  [] k[2] = "shard" -> 7
                  [] k[2] = "mark" -> 9
                  [] OTHER -> 8

\* What a sync that stops on the way may have queued; the exports of one kind count as one.
Prefixes(Q) ==
    LET Before(i) == {k \in Q : QueueRank(k) < i}
    IN {Before(i) : i \in 1 .. 10}
       \cup {Before(8) \cup P : P \in SUBSET {k \in Q : QueueRank(k) = 8}}

\* Something is to be published: last-synced and the operation are written and the
\* content is exported.
Begin(h, due) ==
    /\ sy[h].pc = "lane" /\ DOMAIN loc[h].queue = {}
    /\ due \in PruneDue(loc[h])
    /\ due \/ loc[h].cache # Fingerprint(loc[h])
    /\ LET l == [Acked(h, loc[h]) EXCEPT !.last = loc[h].started, !.syncs = @ + 1]
       IN /\ Set(h, l)
          /\ sy' = [sy EXCEPT ![h] = [pc |-> "content", x |-> <<>>, c |-> Exported(l),
                                      due |-> due, last |-> loc[h].last, dead |-> <<>>,
                                      list |-> {}]]
    /\ UNCHANGED <<inst, rem, rot, cl, mem>>

\* The metadata is exported, and everything is enqueued.
Enqueue(h) ==
    /\ sy[h].pc = "content"
    /\ LET x == Exported(loc[h])
       IN /\ Set(h, [loc[h] EXCEPT !.queue = Wanted(h, x, sy[h].c)])
          /\ sy' = [sy EXCEPT ![h].pc = "drain", ![h].x = x]
    /\ mem' = [mem EXCEPT !.dirty = @ \ {h}]
    /\ UNCHANGED <<inst, rem, rot, cl>>

\* compact_event_journal_force: the acknowledged records that a snapshot has processed
Compacted(l) ==
    Restrict(l.journal, {e \in DOMAIN l.journal :
                 l.journal[e].covered = 0 \/ l.journal[e].st # "acked"})

\* remote_content_object_keys: of all hosts in a directory
Listed(h) == {k \in Stored : k = Shard(h) \/ (IsContent(k) /\ (IsFile \/ k[2] = h))}

\* root_size_summary_remote_objects: the listing that the host has cached, while it is
\* fresh (an hour), or a new one, which is then cached.  One that fails counts as new: the
\* prune then lists the remote itself.
Listings(h) == loc[h].list \cup {Listed(h)}

\* Everything is uploaded: the remote is listed, the event journal compacted, the sync
\* cache written.
Drained(h, list) ==
    /\ sy[h].pc = "drain" /\ DOMAIN loc[h].queue = {}
    /\ LET l == Acked(h, loc[h])
       IN /\ Set(h, [l EXCEPT !.journal = Compacted(l), !.cache = Fingerprint(sy[h].x),
                              !.list = {list}])
          /\ mem' = [mem EXCEPT
                       !.drafts = IF rem[Mark(h)].keys \subseteq RowKeys(h, sy[h].c)
                                     \cup ShardKeys(h, sy[h].c)
                                     \cup JournalKeys([journal |-> Compacted(l)])
                                  THEN @ \ {h} ELSE @ \cup {h},
                       !.torn = IF sy[h].x.cur = sy[h].c.cur THEN @ \ {h} ELSE @,
                       !.halfway = @ \ {h}, !.ahead = @ \ {h},
                       !.unqueued = {k \in @ : k[2] # h},
                       !.synced = IF sy[h].due THEN @ ELSE @ \cup {h}]
    /\ sy' = [sy EXCEPT ![h].pc = IF sy[h].due THEN "exports" ELSE "idle",
                        ![h].list = IF sy[h].due THEN list ELSE {}]
    /\ UNCHANGED <<inst, rem, rot, cl>>

-----------------------------------------------------------------------------
(* The remote prune of a sync *)

\* Fault: the exports of pruned snapshots are kept
StaleExportsKept(h) == {}

StaleExports(h) == Under(h, "snapshot") \ {SnapExport(h, s) : s \in sy[h].x.snaps}

\* prune_remote_host_exports: a tombstone with a new name, then the deletion
Entomb(h, k) ==
    /\ sy[h].pc = "exports" /\ sy[h].dead = <<>> /\ k \in StaleExports(h)
    /\ rem' = (Tombstone(h, Cardinality(Under(h, "tombstone")) + 1) :> k) @@ rem
    /\ sy' = [sy EXCEPT ![h].dead = k]
    /\ UNCHANGED <<inst, loc, rot, cl, mem>>

Bury(h) ==
    /\ sy[h].pc = "exports" /\ sy[h].dead # <<>>
    /\ rem' = Drop(rem, {sy[h].dead})
    /\ rot' = rot \ {sy[h].dead}
    /\ sy' = [sy EXCEPT ![h].dead = <<>>]
    /\ UNCHANGED <<inst, loc, cl, mem>>

\* prune_remote_stale_event_journals
PruneJournals(h) ==
    /\ sy[h].pc = "exports" /\ sy[h].dead = <<>> /\ StaleExports(h) = {}
    /\ LET stale == {k \in Under(h, "journal") : k[3] \notin DOMAIN loc[h].journal}
       IN /\ rem' = Drop(rem, stale) /\ rot' = rot \ stale
          /\ cl' = [cl EXCEPT !.missed = @ \cup {k[3] : k \in stale}]
    /\ Goto(h, "objects")
    /\ UNCHANGED <<inst, loc, mem>>

Live(h) == RowKeys(h, sy[h].c) \cup JournalKeys(loc[h]) \cup ShardKeys(h, sy[h].c)
           \cup rem[Mark(h)].keys

\* prune_remote_unreferenced_content_objects goes by the listing of this sync;
\* a mark that cannot be read fails it.  The listing is cached no more once
\* something was pruned.
PruneObjects(h) ==
    /\ sy[h].pc = "objects" /\ Readable(Mark(h))
    /\ LET dead == sy[h].list \ Live(h)
       IN /\ rem' = Drop(rem, dead) /\ rot' = rot \ dead
          /\ Set(h, [loc[h] EXCEPT !.pruned = Fingerprint(sy[h].x),
                                   !.list = IF dead = {} THEN @ ELSE {}])
          /\ mem' = [mem EXCEPT !.synced = @ \cup {h}, !.unpruned = @ \ {h},
                                !.left = IF Listed(h) \subseteq dead \cup Live(h)
                                         THEN @ \ {h} ELSE @ \cup {h}]
    /\ sy' = [sy EXCEPT ![h].pc = "idle", ![h].list = {}]
    /\ UNCHANGED <<inst, cl>>

\* A sync that fails, or is killed: the upload queue stays, and what was queued of it
\* so far.  last-synced is restored by a failure.
Stopped(h, queue) ==
    /\ ~Idle(h) /\ mem.stops < inst.stops
    /\ \E last \in {loc[h].last, IF sy[h].pc = "lane" THEN loc[h].last ELSE sy[h].last} :
         Set(h, [loc[h] EXCEPT !.last = last, !.queue = queue])
    /\ sy' = [sy EXCEPT ![h].pc = "idle", ![h].dead = <<>>, ![h].list = {}]
    /\ UNCHANGED <<inst, rem, rot, cl>>

SyncStops(h) ==
    /\ sy[h].pc # "content" /\ Stopped(h, loc[h].queue)
    /\ mem' = [mem EXCEPT !.stops = @ + 1,
                          !.halfway = IF sy[h].pc = "drain" THEN @ \cup {h} ELSE @,
                          !.unpruned = IF sy[h].pc \in {"drain", "exports", "objects"}
                                       THEN @ \cup {h} ELSE @,
                          !.scarred = IF sy[h].dead = <<>> THEN @ ELSE @ \cup {h}]

\* enqueue_and_drain_sync stops while it fills the upload queue: killed, or because
\* content can neither be found nor hydrated.
EnqueueStops(h) ==
    /\ sy[h].pc = "content"
    /\ LET wanted == Wanted(h, Exported(loc[h]), sy[h].c)
       IN \E P \in Prefixes(DOMAIN wanted) :
            /\ Stopped(h, Restrict(wanted, P))
            /\ mem' = [mem EXCEPT
                 !.stops = @ + 1,
                 !.halfway = IF P = {} THEN @ ELSE @ \cup {h},
                 !.unpruned = IF P = {} THEN @ ELSE @ \cup {h},
                 !.unqueued = IF P = {} THEN @ ELSE @ \cup {k \in DOMAIN wanted \ P : IsContent(k)}]

-----------------------------------------------------------------------------
(* Storage faults and mj remote repair *)

\* An object is lost or damaged in the storage.
Lose(k) ==
    /\ mem.faults < inst.faults /\ k \in Stored /\ IsContent(k)
    /\ rem' = Drop(rem, {k})
    /\ rot' = rot \ {k}
    /\ mem' = [mem EXCEPT !.faults = @ + 1]
    /\ UNCHANGED <<inst, loc, sy, cl>>

Damage(k) ==
    /\ mem.faults < inst.faults /\ k \in Stored \ rot
    /\ rot' = rot \cup {k}
    /\ cl' = [cl EXCEPT !.late = IF cl.pc = "copy" THEN @ \cup {k} ELSE @]
    /\ mem' = [mem EXCEPT !.faults = @ + 1]
    /\ UNCHANGED <<inst, loc, rem, sy>>

\* remote_repair_summary: the scan
RepairScan(h) ==
    /\ inst.faults > 0 /\ loc[h].repair = {}
    /\ \E g \in Hosts : Meta(g) \in Stored
    /\ MissingObjects(h) # {}
    /\ Set(h, [loc[h] EXCEPT !.repair = MissingObjects(h)])
    /\ UNCHANGED <<inst, rem, rot, sy, cl, mem>>

\* put_file_if_absent of what the scan has missed
RepairPut(h) ==
    /\ loc[h].repair # {}
    /\ rem' = rem @@ [k \in loc[h].repair |-> TRUE]
    /\ Set(h, [loc[h] EXCEPT !.repair = {}])
    /\ mem' = [mem EXCEPT !.ahead = IF Meta(h) \in Stored
                                       /\ loc[h].repair \subseteq RowKeys(h, rem[Meta(h)])
                                    THEN @ ELSE @ \cup {h}]
    /\ UNCHANGED <<inst, rot, sy, cl>>

-----------------------------------------------------------------------------
(* mj clone of a host, beside the syncs *)

CloneTo(pc) == cl' = [cl EXCEPT !.pc = pc]
CloneCheck(at, ok, next) ==
    /\ cl.pc = at
    /\ CloneTo(IF ok THEN next ELSE "failed")
    /\ UNCHANGED <<inst, loc, rem, rot, sy, mem>>

\* clone_metadata_selection
CloneSelect(h) ==
    /\ cl.pc = "none" /\ h \in inst.cloned /\ Readable(Meta(h))
    /\ cl' = [cl EXCEPT !.pc = "metadata", !.host = h, !.x = rem[Meta(h)],
                        !.had = {e \in DOMAIN loc[h].journal : loc[h].journal[e].st = "acked"},
                        !.missed = {}]
    /\ UNCHANGED <<inst, loc, rem, rot, sy, mem>>

\* The metadata is read again.  For S3 the summary follows it, and nothing more is
\* validated (refresh_s3_bootstrap_host_summary).
CloneMetadata ==
    /\ cl.pc = "metadata"
    /\ LET k == Meta(cl.host)
       IN IF k \in rot \/ (IsFile /\ ~HostSummaryOk(cl.x, rem[k]))
          THEN CloneTo("failed")
          ELSE cl' = [cl EXCEPT !.pc = IF IsFile THEN "refs" ELSE "journals",
                                !.x = rem[k]]
    /\ UNCHANGED <<inst, loc, rem, rot, sy, mem>>

CloneRefs == CloneCheck("refs", RefsOk(cl.host, cl.x), "mark")
CloneMark == CloneCheck("mark", MarkOk(cl.host, cl.x), "oplog")
CloneOplog == CloneCheck("oplog", OplogOk(cl.host, cl.x), "timeline")
CloneTimeline == CloneCheck("timeline", TimelineOk(cl.host, cl.x), "objects")
CloneObjects == CloneCheck("objects", ObjectsOk(cl.host, cl.x), "copy")

\* materialize_clone_objects
CloneCopy ==
    /\ cl.pc = "copy"
    /\ IF Materializable(cl.host, cl.x)
       THEN cl' = [cl EXCEPT !.pc = "journals", !.objects = RowKeys(cl.host, cl.x) \cap Stored,
                             !.spoilt = RowKeys(cl.host, cl.x) \cap rot]
       ELSE CloneTo("failed")
    /\ UNCHANGED <<inst, loc, rem, rot, sy, mem>>

\* import_remote_event_journals, and the rename of the staging directory
CloneJournals ==
    /\ cl.pc = "journals"
    /\ cl' = [cl EXCEPT !.pc = "done",
                        !.journal = {k[3] : k \in Under(cl.host, "journal") \ rot}]
    /\ UNCHANGED <<inst, loc, rem, rot, sy, mem>>

Clone == \/ \E h \in Hosts : CloneSelect(h)
         \/ CloneMetadata \/ CloneRefs \/ CloneMark \/ CloneOplog
         \/ CloneTimeline \/ CloneObjects \/ CloneCopy \/ CloneJournals

-----------------------------------------------------------------------------

Init ==
    /\ inst \in Instances
    /\ loc = [h \in Hosts |-> [snaps |-> {}, taken |-> 0, cur |-> 0, ops |-> 0,
                syncs |-> 0, last |-> 0, started |-> 0, events |-> 0, journal |-> <<>>,
                queue |-> <<>>, cache |-> <<>>, pruned |-> <<>>, repair |-> {}, list |-> {},
                switches |-> 0]]
    /\ rem = <<>> /\ rot = {}
    /\ sy = [h \in Hosts |-> [pc |-> "idle", x |-> <<>>, c |-> <<>>, due |-> FALSE, last |-> 0,
                              dead |-> <<>>, list |-> {}]]
    /\ cl = [pc |-> "none", host |-> "", x |-> <<>>, had |-> {}, missed |-> {},
             objects |-> {}, spoilt |-> {}, late |-> {}, journal |-> {}]
    /\ mem = [synced |-> {}, drafts |-> {}, scarred |-> {}, torn |-> {}, halfway |-> {},
              dirty |-> {}, ahead |-> {}, unpruned |-> {}, left |-> {}, unqueued |-> {},
              stops |-> 0, faults |-> 0]

Sync(h) ==
    \/ SyncStart(h) \/ Unchanged(h) \/ Enqueue(h) \/ Bury(h)
    \/ PruneJournals(h) \/ PruneObjects(h)
    \/ \E list \in Listings(h) : Drained(h, list)
    \/ \E k \in DOMAIN loc[h].queue : Put(h, k)
    \/ \E due \in BOOLEAN : Begin(h, due)
    \/ \E k \in Stored : Entomb(h, k)

Next ==
    \/ \E h \in Hosts :
         \/ Sync(h) \/ SyncStops(h) \/ EnqueueStops(h)
         \/ Snapshot(h) \/ RepairScan(h) \/ RepairPut(h)
         \/ \E s \in loc[h].snaps : Prune(h, s) \/ Switch(h, s)
         \/ \E p \in {Draft(h, loc[h].events + 1), Payload(h, loc[h].taken + 1)} :
                Event(h, p)
    \/ \E k \in Stored : Lose(k) \/ Damage(k)
    \/ Clone

Spec == Init /\ [][Next]_vars

-----------------------------------------------------------------------------
(* Properties *)

\* Type invariant
TypeOK ==
    /\ inst \in Instances /\ rot \subseteq Stored
    /\ \A h \in Hosts :
         /\ loc[h].snaps \subseteq 1..loc[h].taken
         /\ loc[h].cur \in loc[h].snaps \cup {0}
         /\ sy[h].pc \in {"idle", "lane", "content", "drain", "exports", "objects"}
    /\ cl.pc \in {"none", "metadata", "refs", "mark", "oplog", "timeline", "objects",
                  "copy", "journals", "done", "failed"}

Alone == Cardinality(Hosts) = 1 \/ ~IsFile

\* The last sync of h has ended well, and none of the faults of mem has happened; packs
\* that a cached listing hid from a prune are in the way of clones.
Settled(h) ==
    /\ h \in mem.synced /\ Alone /\ mem.faults = 0
    /\ inst.payload = "pack" => h \notin mem.left
    /\ h \notin mem.drafts \cup mem.scarred \cup mem.torn \cup mem.unpruned \cup mem.ahead

\* After a sync that has ended well the host can be cloned: every validator of
\* clone_cmd accepts what sync_configured_remote and its prune have left.
SyncedIsClonable == \A h \in Hosts : Settled(h) => Clonable(h)

\* After a sync that has ended well the fsck of objects and the quick fsck accept the
\* host, and the deep fsck of a directory does unless a record of the event journal is
\* live.
SyncedPassesFsck ==
    /\ (\A h \in Hosts : Settled(h)) => FsckQuick
    /\ \A h \in Hosts : Settled(h) /\ h \notin mem.dirty => FsckObjects(h)
    /\ (IsFile /\ \A h \in Hosts : Settled(h) /\ JournalKeys(loc[h]) = {}) => FsckDeep

\* A sync that has ended well, the early return of sync_configured_remote included,
\* leaves the state of the host in the remote.
SyncedIsPublished ==
    \A h \in mem.synced \ (mem.dirty \cup mem.halfway) :
        rem[Meta(h)].snaps = loc[h].snaps /\ rem[Meta(h)].cur = loc[h].cur

\* At every moment, in the middle of uploads, prunes and after stops, the content that
\* published metadata names is in the remote (upload_publish_priority, the prunes).
\* Excepted is, until the next sync that ends its uploads, what a sync had not queued when
\* it stopped between its metadata and its content: the next one publishes the queued
\* metadata before it queues anything itself.
Unbacked(h) == IF Meta(h) \in Stored THEN RowKeys(h, rem[Meta(h)]) \ Stored ELSE {}

MetadataIsBacked ==
    Alone /\ mem.faults = 0 => \A h \in Hosts : Unbacked(h) \subseteq mem.unqueued

\* The content of every host stays in a remote that hosts share, whatever its kind
\* (prune_remote_unreferenced_content_objects).
SharedIsBacked == \A h \in Hosts : Unbacked(h) = {}

\* An acknowledged record of the event journal and its payload stay in the remote as
\* long as the host has the record (acknowledge_remote_event_journal_uploads, the
\* prunes of journals and of objects).
AckedIsRemote ==
    Alone /\ mem.faults = 0 =>
        \A h \in Hosts : \A e \in DOMAIN loc[h].journal :
            loc[h].journal[e].st = "acked" =>
                {Journal(h, e), loc[h].journal[e].payload} \subseteq Stored

\* A directory that the deep fsck (remote_fsck_export) accepts can be cloned,
\* whatever the syncs, stops and storage faults before.
FsckIsEnough == \A h \in Hosts : IsFile /\ FsckDeepOk(h) => Clonable(h)

\* A clone of a directory that has ended well has copied every object of its metadata
\* (materialize_clone_objects), undamaged unless the damage came after the validators;
\* packs are only checked for their size.
CloneIsWhole ==
    cl.pc = "done" /\ IsFile =>
        /\ cl.objects = RowKeys(cl.host, cl.x)
        /\ inst.payload # "pack" => cl.spoilt \subseteq cl.late

\* A clone imports every event that was acknowledged when it started
\* (import_remote_event_journals), but for those whose journal a sync prunes before.
CloneHasEvents ==
    cl.pc = "done" /\ mem.faults = 0 => cl.had \ cl.missed \subseteq cl.journal

-----------------------------------------------------------------------------
(* What a run checks of a sync and of a clone, taken together *)

\* A sync that has ended well leaves the state of the host in the remote, where every
\* fsck accepts it and clone_cmd can take it over.
SyncIsSound == TypeOK /\ SyncedIsPublished /\ SyncedPassesFsck /\ SyncedIsClonable

\* At every moment the remote holds what its metadata names and what the host has
\* marked as acknowledged.
RemoteIsBacked == MetadataIsBacked /\ AckedIsRemote

\* A clone that has ended well has every object and every acknowledged event.
CloneIsSound == CloneIsWhole /\ CloneHasEvents
=============================================================================
