----------------------------- MODULE Repository -----------------------------
(***************************************************************************)
(* The repository of one host: the object files under $MAJUTSU_HOME, the   *)
(* rows of the SQLite database that name them, the host's objects on the   *)
(* remote, and the commands that add, move and delete objects: snapshot,   *)
(* sync, prune and gc, which take the maintenance lock, and pack, pack     *)
(* --compact, cache prune and the readers (restore, hydrate), which do     *)
(* not.  The branch commands are in module Branches.                       *)
(* Several processes run commands side by side, and any may crash.         *)
(*                                                                         *)
(* One watched file stands for the content of a root.  Its content is one  *)
(* of Blobs (stored whole) or Larges (a manifest and its chunks), and any  *)
(* of them whenever a command reads it: the user edits at will.  Objects   *)
(* are named by what they hold.  sync uploads an object under its          *)
(* canonical alias (rem); the journal uploads under the local key (raw).   *)
(* The snapshot manifest travels with its row: only trees are evicted.     *)
(***************************************************************************)
EXTENDS Integers, Sequences, FiniteSets

CONSTANTS
  Procs,        \* the mj processes
  Blobs,        \* contents stored as one blob
  Larges,       \* contents stored as a manifest and chunks
  ChunksOf,     \* the chunks of each large content
  Instances     \* the instances to explore: the kind of remote ("s3" or
                \*   "file"), the contents the user writes, and the bounds on
                \*   snapshots (snap) and packs (pack) ever made, and on
                \*   events: crashes, failed uploads, and prune, gc, cache
                \*   prune, fetch and repair commands

ASSUME RepositoryAssumption ==
  /\ Blobs \cap Larges = {}
  /\ Instances \subseteq
       [kind : {"s3", "file"}, contents : SUBSET (Blobs \cup Larges),
        snap : Nat, pack : Nat, events : Nat]
  /\ ChunksOf \in [Larges -> SUBSET UNION {ChunksOf[l] : l \in Larges}]

VARIABLES
  inst,    \* the instance at hand, with RemoteStore::is_s3_like or a directory
  disk,    \* object files under $MAJUTSU_HOME/objects
  rem,     \* the host's content objects on the remote
  snaps,   \* table snapshots: id -> content
  seq,     \* the newest snapshot id given out
  cur,     \* ref `current', 0 before the first snapshot
  acked,   \* remote_refs '.../refs/current', 0 when never synced
  blob,    \* table blobs: content -> NoRow, Loose or the pack's id
  packs,   \* table packs: id -> the oids of its pack index
  large,   \* table large_objects
  chunk,   \* table chunks
  made,    \* the blobs inside each pack file ever written
  queue,   \* keys of content in the upload queue
  meta,    \* the rows of the metadata in the upload queue
  cache,   \* keys of the remote sync cache
  fp,      \* the rows of its state fingerprint
  pub,     \* the rows the remote's metadata describes
  raw,     \* objects the journal uploaded under their uncanonical key
  jr,      \* contents of the synced durable journal records
  lock,    \* the maintenance lock
  proc,    \* what each process is doing
  events,  \* the bound's counter
  hit,     \* history: contents that one of the races below has hit
  bare     \* history: content that a sync had not queued when it stopped

rows   == <<snaps, seq, cur, blob, packs, large, chunk, made>>
remote == <<rem, raw, acked, queue, meta, cache, fp, pub, jr>>
ghosts == <<events, hit, bare>>
vars == <<inst, disk, rows, remote, lock, proc, ghosts>>

NoRow == -1
Loose == 0
Nobody == "nobody"
NoRows == [cur |-> 0]
Idle == [pc |-> "idle"]

Payloads == Blobs \cup Larges
Chunks == UNION {ChunksOf[l] : l \in Larges}

(***************************************************************************)
(* Objects.                                                                *)
(***************************************************************************)
BlobFile(o)     == <<"blob", o>>
LargeFile(o)    == <<"large", o>>
ChunkFile(c)    == <<"chunk", c>>
TreeFile(s)     == <<"tree", s>>
PackFile(n)     == <<"pack", n>>
IndexFile(n, S) == <<"index", n, S>>   \* each generation has its own key

OnRemote == rem \cup raw     \* remote_object_available_for_paths
Available(k) == k \in disk \cup OnRemote

\* export_metadata: the rows as one read of the database sees them.
Rows == [snaps |-> snaps, cur |-> cur, blob |-> blob, packs |-> packs,
         chunk |-> chunk]

\* The objects local_object_keys names for content o under the rows r.
PayloadKeys(r, o) ==
  IF o \in Larges
  THEN {LargeFile(o)} \cup {ChunkFile(c) : c \in ChunksOf[o]}
  ELSE IF r.blob[o] = Loose THEN {BlobFile(o)}
  ELSE IF r.blob[o] \in DOMAIN r.packs
  THEN {PackFile(r.blob[o]), IndexFile(r.blob[o], r.packs[r.blob[o]])}
  ELSE {}

Keys(r, S) ==
  UNION {{TreeFile(s)} \cup PayloadKeys(r, r.snaps[s]) : s \in S}

\* What the enumeration itself has to read: it fails on an object that is
\* nowhere, and leaves the ones it fetched in the local store.
KeyObjects(r, S) ==
  {TreeFile(s) : s \in S}
    \cup {LargeFile(r.snaps[s]) : s \in {t \in S : r.snaps[t] \in Larges}}
Listable(r, S) == \A k \in KeyObjects(r, S) : Available(k)

\* payload_cache_keys: what a cache prune may evict once the remote has it.
CacheKeys(r) ==
  {BlobFile(o) : o \in {b \in Blobs : r.blob[b] = Loose}}
    \cup {PackFile(n) : n \in DOMAIN r.packs}
    \cup {ChunkFile(c) : c \in r.chunk}
\* metadata_cache_keys
TreeKeys(r) == {TreeFile(s) : s \in DOMAIN r.snaps}
\* The three filters by what the remote has, one per way to ask it.
Evictable(keys) == keys \cap disk \cap OnRemote

\* durable_journal_live_keys, and the part of it that gc protects.
JournalKeys == UNION {IF o \in Blobs THEN {BlobFile(o)}
                      ELSE {LargeFile(o)} \cup {ChunkFile(c) : c \in ChunksOf[o]}
                        : o \in jr}
JournalHeads == {BlobFile(o) : o \in jr \cap Blobs}
                  \cup {LargeFile(o) : o \in jr \cap Larges}

\* Can content o be read back?  read_blob_payload, and for a large content
\* its manifest and every chunk, each from the local store or the remote.
Readable(o) ==
  IF o \in Larges
  THEN /\ Available(LargeFile(o))
       /\ \A c \in ChunksOf[o] : Available(ChunkFile(c))
  ELSE IF blob[o] \in {NoRow, Loose} THEN Available(BlobFile(o))
  ELSE /\ blob[o] \in DOMAIN packs
       /\ o \in made[blob[o]]
       /\ Available(PackFile(blob[o])) \/ BlobFile(o) \in disk

(***************************************************************************)
(* The initial state: an empty repository.                                 *)
(***************************************************************************)
Init ==
  /\ inst \in Instances
  /\ disk = {} /\ rem = {} /\ raw = {}
  /\ snaps = <<>> /\ seq = 0 /\ cur = 0
  /\ acked = 0
  /\ blob = [b \in Blobs |-> NoRow]
  /\ packs = <<>> /\ made = <<>>
  /\ large = {} /\ chunk = {}
  /\ queue = {} /\ meta = NoRows /\ cache = {} /\ fp = NoRows /\ pub = NoRows
  /\ jr = {}
  /\ lock = Nobody
  /\ proc = [p \in Procs |-> Idle]
  /\ events = 0 /\ hit = {} /\ bare = {}

Begin(p, state) ==
  /\ proc[p] = Idle
  /\ proc' = [proc EXCEPT ![p] = state]

\* acquire_process_lock: a command that needs the lock fails while it is held.
BeginLocked(p, state) ==
  /\ lock = Nobody
  /\ lock' = p
  /\ Begin(p, state)

Goto(p, state) == proc' = [proc EXCEPT ![p] = state]

\* The guard of the lock is dropped with the command's frame.
Finish(p) ==
  /\ Goto(p, Idle)
  /\ lock' = IF lock = p THEN Nobody ELSE lock

(***************************************************************************)
(* mj snapshot.                                                            *)
(***************************************************************************)
\* current_is_remote_synced
RemoteSynced == cur # 0 /\ acked = cur

\* The parent's tree is loaded, from the remote if it was evicted, and
\* whether the remote has `current' is asked once.
SnapStart(p) ==
  \E o \in inst.contents :
    /\ seq < inst.snap
    /\ cur # 0 => Available(TreeFile(cur))
    /\ disk' = disk \cup (IF cur = 0 THEN {} ELSE {TreeFile(cur)})
    /\ BeginLocked(p, [pc |-> "scan", o |-> o, parent |-> cur,
                       reuse |-> RemoteSynced])
    /\ UNCHANGED <<inst, rows, remote, ghosts>>

\* reusable_blob_object_keys: a packed blob needs no store, nor does a known
\* one once the remote has `current'.
Reusable(o, synced) == blob[o] > Loose \/ (blob[o] = Loose /\ synced)

\* scan_root on a small file.
SnapBlob(p) ==
  LET o == proc[p].o IN
  /\ proc[p].pc = "scan" /\ o \in Blobs
  /\ disk' = IF Reusable(o, proc[p].reuse) THEN disk ELSE disk \cup {BlobFile(o)}
  /\ Goto(p, [proc[p] EXCEPT !.pc = "tree"])
  /\ UNCHANGED <<inst, rows, remote, lock, ghosts>>

\* The chunks store_large_* writes for o: not the ones whose row and file
\* are there, nor, with remote reuse, the ones that only have a row.
ChunksStored(o, reuse) ==
  {c \in ChunksOf[o] : ~(c \in chunk /\ (ChunkFile(c) \in disk \/ reuse))}

\* existing_large_object_manifest: a manifest is reused whole when its row
\* and its file are there.
HasManifest(o) == o \in large /\ LargeFile(o) \in disk

\* scan_root on a large file.
SnapChunks(p) ==
  LET o == proc[p].o
      whole == HasManifest(o)
      new == IF whole THEN {}
             ELSE {ChunkFile(c) : c \in ChunksStored(o, proc[p].reuse)}
      nowhere == {c \in ChunksOf[o] : ChunkFile(c) \notin disk \cup new \cup OnRemote}
  IN
  /\ proc[p].pc = "scan" /\ o \in Larges
  /\ disk' = disk \cup new
  /\ Goto(p, [proc[p] EXCEPT !.pc = IF whole THEN "tree" ELSE "large"])
  /\ hit' = IF nowhere = {} THEN hit ELSE hit \cup {o}
  /\ UNCHANGED <<inst, rows, remote, lock, events, bare>>

\* The manifest object and the rows, outside the snapshot's transaction.
SnapLarge(p) ==
  LET o == proc[p].o IN
  /\ proc[p].pc = "large"
  /\ disk' = disk \cup {LargeFile(o)}
  /\ large' = large \cup {o}
  /\ chunk' = chunk \cup ChunksOf[o]
  /\ Goto(p, [proc[p] EXCEPT !.pc = "tree"])
  /\ UNCHANGED <<inst, snaps, seq, cur, blob, packs, made, remote, lock,
                 ghosts>>

\* snapshot_is_noop: the parent has the same tree.
SameAsParent(p) == proc[p].parent # 0 /\ snaps[proc[p].parent] = proc[p].o

\* An unchanged tree ends the command, which compacts the journal and evicts
\* what the remote has; a new one is stored.
SnapTree(p) ==
  /\ proc[p].pc = "tree"
  /\ IF SameAsParent(p)
     THEN /\ disk' = disk \ Evictable(CacheKeys(Rows) \cup TreeKeys(Rows))
          /\ jr' = {}
          /\ Finish(p)
     ELSE /\ disk' = disk \cup {TreeFile(seq + 1)}
          /\ Goto(p, [proc[p] EXCEPT !.pc = "commit"])
          /\ UNCHANGED <<jr, lock>>
  /\ UNCHANGED <<inst, rows, rem, raw, acked, queue, meta, cache, fp, pub, ghosts>>

\* One transaction: blob rows, the snapshot, ref `current'.  The journal is
\* compacted after it: the snapshot covers the synced records.
SnapCommit(p) ==
  LET o == proc[p].o IN
  /\ proc[p].pc = "commit"
  /\ seq' = seq + 1
  /\ snaps' = [s \in DOMAIN snaps \cup {seq + 1} |->
                 IF s = seq + 1 THEN o ELSE snaps[s]]
  /\ cur' = seq + 1
  /\ blob' = IF o \in Blobs /\ blob[o] = NoRow
             THEN [blob EXCEPT ![o] = Loose] ELSE blob
  /\ jr' = {}
  /\ Finish(p)
  /\ UNCHANGED <<inst, disk, packs, large, chunk, made,
                 rem, raw, acked, queue, meta, cache, fp, pub, ghosts>>

(***************************************************************************)
(* mj pack and mj pack --compact, which take no lock.                      *)
(***************************************************************************)
\* pack_loose_blobs: rows of loose blobs whose file is gone and that no
\* snapshot uses are deleted, the others with a file are to be packed.
PackStart(p) ==
  LET loose == {b \in Blobs : blob[b] = Loose}
      gone == {b \in loose : /\ BlobFile(b) \notin disk
                             /\ \A s \in DOMAIN snaps : snaps[s] # b}
      todo == {b \in loose : BlobFile(b) \in disk}
  IN
  /\ todo # {} /\ Len(made) < inst.pack
  /\ blob' = [b \in Blobs |-> IF b \in gone THEN NoRow ELSE blob[b]]
  /\ Begin(p, [pc |-> "pack", tiers |-> <<todo>>, old |-> {}])
  /\ UNCHANGED <<inst, disk, snaps, seq, cur, packs, large, chunk, made,
                 remote, lock, ghosts>>

\* pack_compact_cmd: every blob row, those of the current snapshot first.
CompactStart(p) ==
  LET all == {b \in Blobs : blob[b] # NoRow}
      now == {b \in all : cur # 0 /\ snaps[cur] = b}
      tiers == SelectSeq(<<now, all \ now>>, LAMBDA S : S # {})
  IN
  /\ \E b \in all : blob[b] > Loose
  /\ cur # 0 => Available(TreeFile(cur))
  /\ Len(made) + Len(tiers) <= inst.pack
  /\ Begin(p, [pc |-> "pack", tiers |-> tiers, old |-> DOMAIN packs])
  /\ UNCHANGED <<inst, disk, rows, remote, lock, ghosts>>

\* write_tiered_blob_packs: each blob is read where its row says, and each
\* tier becomes a pack file and an index file under a fresh id.
PackWrite(p) ==
  LET tiers == proc[p].tiers
      ids == {Len(made) + i : i \in DOMAIN tiers}
      made2 == made \o tiers
  IN
  /\ proc[p].pc = "pack"
  /\ \A i \in DOMAIN tiers : \A b \in tiers[i] : Readable(b)
  /\ Len(made2) <= inst.pack
  /\ made' = made2
  /\ disk' = disk \cup {PackFile(n) : n \in ids}
                  \cup {IndexFile(n, made2[n]) : n \in ids}
  /\ Goto(p, [pc |-> "persist", ids |-> ids, old |-> proc[p].old])
  /\ UNCHANGED <<inst, snaps, seq, cur, blob, packs, large, chunk, remote,
                 lock, ghosts>>

\* A blob that vanished since the plan fails the command.
PackFails(p) ==
  /\ proc[p].pc = "pack"
  /\ \E i \in DOMAIN proc[p].tiers : \E b \in proc[p].tiers[i] : ~Readable(b)
  /\ Finish(p)
  /\ UNCHANGED <<inst, disk, rows, remote, ghosts>>

\* persist_written_packs: one transaction by oid, with no look at the files.
PackPersist(p) ==
  LET ids == proc[p].ids
      packOf(b) == CHOOSE n \in ids : b \in made[n]
      moved == {b \in Blobs : blob[b] # NoRow /\ \E n \in ids : b \in made[n]}
  IN
  /\ proc[p].pc = "persist"
  /\ packs' = [n \in DOMAIN packs \cup ids |->
                 IF n \in ids THEN made[n] ELSE packs[n]]
  /\ blob' = [b \in Blobs |-> IF b \in moved THEN packOf(b) ELSE blob[b]]
  /\ hit' = hit \cup {b \in moved : ~Available(PackFile(packOf(b)))}
  /\ Goto(p, [pc |-> "retire", old |-> proc[p].old])
  /\ UNCHANGED <<inst, disk, snaps, seq, cur, large, chunk, made, remote,
                 lock, events, bare>>

\* The rows of the packs a compaction replaces go one by one afterwards.
PackRetire(p) ==
  LET old == proc[p].old \cap DOMAIN packs IN
  /\ proc[p].pc = "retire"
  /\ IF old = {}
     THEN Finish(p) /\ UNCHANGED packs
     ELSE \E n \in old :
            /\ packs' = [m \in DOMAIN packs \ {n} |-> packs[m]]
            /\ Goto(p, [proc[p] EXCEPT !.old = @ \ {n}])
            /\ UNCHANGED lock
  /\ UNCHANGED <<inst, disk, snaps, seq, cur, blob, large, chunk, made,
                 remote, ghosts>>

(***************************************************************************)
(* mj cache prune and the readers, which take no lock.                      *)
(***************************************************************************)
\* build_cache_prune_plan: local cache objects the remote has now.
EvictPlan(p) ==
  \E metadata \in BOOLEAN :
    LET keys == CacheKeys(Rows) \cup (IF metadata THEN TreeKeys(Rows) ELSE {})
    IN
    /\ events < inst.events /\ Evictable(keys) # {}
    /\ Begin(p, [pc |-> "evict", del |-> Evictable(keys)])
    /\ events' = events + 1
    /\ UNCHANGED <<inst, disk, rows, remote, lock, hit, bare>>

\* remove_payload_cache_candidates, some time later.
EvictRemove(p) ==
  LET stale == (proc[p].del \cap disk) \ OnRemote
  IN
  /\ proc[p].pc = "evict"
  /\ disk' = disk \ proc[p].del
  /\ hit' = hit \cup {o \in Payloads : PayloadKeys(Rows, o) \cap stale # {}}
  /\ Finish(p)
  /\ UNCHANGED <<inst, rows, remote, events, bare>>

\* hydrate_local_object_from_remote on behalf of restore, hydrate or mount,
\* and the loose files prefetch_packed_blob_ranges cuts from remote packs.
Fetch ==
  LET whole == Keys(Rows, DOMAIN snaps)
      cut == {BlobFile(b) : b \in {c \in Blobs :
                 /\ blob[c] \in DOMAIN packs
                 /\ PackFile(blob[c]) \in rem \ disk}}
  IN
  \E k \in ((whole \cap OnRemote) \cup cut) \ disk :
    /\ events < inst.events /\ events' = events + 1
    /\ disk' = disk \cup {k}
    /\ UNCHANGED <<inst, rows, remote, lock, proc, hit, bare>>

(***************************************************************************)
(* mj prune and mj gc.                                                     *)
(***************************************************************************)

\* build_prune_plan: the retention rules may drop any snapshot but current
\* and the root's first; --drop-missing-remote-history drops every one but
\* current whose objects the remote's listing lacks.
PruneChoice(D) ==
  LET first == CHOOSE s \in DOMAIN snaps : \A t \in DOMAIN snaps : s <= t
      missing == {s \in DOMAIN snaps \ {cur} :
                    ~(Keys(Rows, {s}) \subseteq OnRemote)}
  IN
  /\ DOMAIN snaps # {}
  /\ \/ D \subseteq DOMAIN snaps \ {cur, first}
     \/ /\ Listable(Rows, DOMAIN snaps)
        /\ D = missing

\* The rows prune_unreferenced_metadata leaves for the kept contents: a pack
\* without blobs goes, and a pack that lost some gets a new index generation.
LivePacks(blob2) ==
  [n \in {m \in DOMAIN packs : \E b \in Blobs : blob2[b] = m} |->
     {b \in packs[n] : blob2[b] = n}]

\* The whole transaction; it aborts when an index it must read is nowhere.
PruneTx(p) ==
  \E D \in SUBSET DOMAIN snaps :
    LET kept == [s \in DOMAIN snaps \ D |-> snaps[s]]
        live == {kept[s] : s \in DOMAIN kept}
        blob2 == [b \in Blobs |-> IF b \in live THEN blob[b] ELSE NoRow]
        large2 == large \cap live
        packs2 == LivePacks(blob2)
        read == {IndexFile(n, packs[n]) : n \in DOMAIN packs2}
    IN
    /\ proc[p] = Idle /\ lock = Nobody /\ events < inst.events
    /\ PruneChoice(D)
    /\ \A k \in read : Available(k)
    /\ snaps' = kept
    /\ blob' = blob2
    /\ large' = large2
    /\ chunk' = IF \A l \in large2 : Available(LargeFile(l))
                THEN chunk \cap UNION {ChunksOf[l] : l \in large2} ELSE chunk
    /\ packs' = packs2
    /\ disk' = disk \cup read \cup {IndexFile(n, packs2[n]) : n \in DOMAIN packs2}
    /\ Goto(p, IF D = {} THEN Idle ELSE [pc |-> "gc"])
    /\ events' = events + 1
    /\ UNCHANGED <<inst, seq, cur, made, remote, lock, hit, bare>>

\* MUTANT: gc forgets the queued uploads.
GcMarkNoQueue(p) ==
  /\ proc[p] = [pc |-> "gc"] \/ (proc[p] = Idle /\ events < inst.events)
  /\ lock = Nobody
  /\ Listable(Rows, DOMAIN snaps)
  /\ disk' = disk \cup KeyObjects(Rows, DOMAIN snaps)
  /\ lock' = p
  /\ Goto(p, [pc |-> "sweep", keep |-> Keys(Rows, DOMAIN snaps) \cup JournalHeads])
  /\ events' = IF proc[p] = Idle THEN events + 1 ELSE events
  /\ UNCHANGED <<inst, rows, remote, hit, bare>>

\* MUTANT: gc marks from the current snapshot only.
GcMarkCurrent(p) ==
  /\ proc[p] = [pc |-> "gc"] \/ (proc[p] = Idle /\ events < inst.events)
  /\ lock = Nobody
  /\ Listable(Rows, DOMAIN snaps)
  /\ disk' = disk \cup KeyObjects(Rows, DOMAIN snaps)
  /\ lock' = p
  /\ Goto(p, [pc |-> "sweep", keep |-> Keys(Rows, {cur} \cap DOMAIN snaps)
                                      \cup queue \cup JournalHeads])
  /\ events' = IF proc[p] = Idle THEN events + 1 ELSE events
  /\ UNCHANGED <<inst, rows, remote, hit, bare>>

\* gc_cmd, alone or as the end of a prune: everything the exported rows, the
\* upload queue and the journal name is kept.
GcMark(p) ==
  /\ proc[p] = [pc |-> "gc"] \/ (proc[p] = Idle /\ events < inst.events)
  /\ lock = Nobody
  /\ Listable(Rows, DOMAIN snaps)
  /\ disk' = disk \cup KeyObjects(Rows, DOMAIN snaps)
  /\ lock' = p
  /\ Goto(p, [pc |-> "sweep",
              keep |-> Keys(Rows, DOMAIN snaps) \cup queue \cup JournalHeads])
  /\ events' = IF proc[p] = Idle THEN events + 1 ELSE events
  /\ UNCHANGED <<inst, rows, remote, hit, bare>>

\* Removal of every other object file; a crash leaves some of them.
GcSweep(p) ==
  LET garbage == disk \ proc[p].keep IN
  /\ proc[p].pc = "sweep"
  /\ \E S \in SUBSET garbage :
       /\ S = garbage \/ (events < inst.events /\ Cardinality(S) = 1)
       /\ disk' = disk \ S
       /\ events' = IF S = garbage THEN events ELSE events + 1
       /\ hit' = hit \cup {b \in Blobs : /\ blob[b] \in DOMAIN packs
                                           /\ PackFile(blob[b]) \in S}
  /\ Finish(p)
  /\ UNCHANGED <<inst, rows, remote, bare>>

(***************************************************************************)
(* mj sync.                                                                *)
(***************************************************************************)
\* Structured objects are queued with their bytes on S3, all others as a
\* path to the local file.
FromFile(k) == inst.kind = "file" \/ k[1] \in {"pack", "chunk"}

\* What drain_upload_queue can upload: an item whose file was evicted in the
\* meantime passes only if its own key is on the remote.
Able == {k \in queue : FromFile(k) => k \in disk \cup rem}

\* A drain that uploads everything, the metadata last.
Drained ==
  /\ Able = queue
  /\ rem' = rem \cup queue
  /\ queue' = {}
  /\ pub' = IF meta = NoRows THEN pub ELSE meta
  /\ meta' = NoRows

\* A drain that fails: the rest and the metadata stay in the queue.
DrainFails ==
  /\ \E S \in SUBSET Able :
       /\ \/ S = Able /\ Able # queue /\ UNCHANGED events
          \/ /\ events < inst.events /\ Cardinality(Able \ S) = 1
             /\ events' = events + 1
       /\ rem' = rem \cup S
       /\ queue' = queue \ S
  /\ UNCHANGED <<meta, pub>>

\* The lock, the current snapshot with its tree (fetched if it can be), and
\* the durable journal's fast lane: a change no snapshot has yet is stored
\* (without remote reuse), recorded, and uploaded at once, with everything an
\* earlier sync has left in the queue.
JournalFiles(o) ==
  IF o \in Blobs THEN {BlobFile(o)}
  ELSE IF HasManifest(o) THEN {LargeFile(o)}
  ELSE {LargeFile(o)} \cup {ChunkFile(c) : c \in ChunksStored(o, FALSE)}

SyncStart(p) ==
  \E diff \in BOOLEAN, o \in inst.contents :
    LET new == IF diff THEN JournalFiles(o) ELSE {}
        big == diff /\ o \in Larges
    IN
    /\ cur # 0
    /\ diff = (snaps[cur] # o)
    /\ big => \A c \in ChunksOf[o] :
                ChunkFile(c) \in disk \cup new \cup raw
    /\ BeginLocked(p, [pc |-> "export"])
    /\ Drained
    /\ disk' = disk \cup new \cup ({TreeFile(cur)} \cap OnRemote)
    /\ raw' = raw \cup new \cup
              (IF big THEN {ChunkFile(c) : c \in ChunksOf[o]} ELSE {})
    /\ jr' = IF diff THEN jr \cup {o} ELSE jr
    /\ large' = IF big THEN large \cup {o} ELSE large
    /\ chunk' = IF big THEN chunk \cup ChunksOf[o] ELSE chunk
    /\ UNCHANGED <<inst, snaps, seq, cur, blob, packs, made, acked, cache, fp, ghosts>>

\* The fast lane fails: on what was left in the queue, before the record of a
\* new change is uploaded.
LaneFails(p) ==
  /\ cur # 0 /\ proc[p] = Idle /\ lock = Nobody
  /\ DrainFails
  /\ UNCHANGED <<inst, disk, rows, raw, acked, cache, fp, jr, lock, proc, hit, bare>>

\* sync_content_local_object_keys: all history at first, and on a directory
\* remote; once an S3 remote has a cache, only what the local tree and large
\* manifest of the current snapshot name.
QuickSync == inst.kind = "s3" /\ cache # {}
ContentKeys(r) ==
  IF ~QuickSync THEN Keys(r, DOMAIN r.snaps)
  ELSE {TreeFile(cur)} \cup
       {k \in PayloadKeys(r, snaps[cur]) :
          /\ TreeFile(cur) \in disk
          /\ k[1] = "chunk" => LargeFile(snaps[cur]) \in disk}
Scope == IF QuickSync THEN {cur} ELSE DOMAIN snaps

\* MUTANT: an object that is nowhere does not stop the sync.
CurrentGoneIgnored == {}

\* Keys of the current snapshot that are neither local nor remote.
CurrentGone ==
  {k \in ContentKeys(Rows) \cap Keys(Rows, {cur}) :
     k \notin (disk \cup KeyObjects(Rows, Scope) \cup OnRemote
                 \cup (IF inst.kind = "s3" THEN cache ELSE {}))}

\* The unchanged case: same rows as the last sync and nothing queued.
SyncUnchanged(p) ==
  /\ proc[p] = [pc |-> "export"]
  /\ queue = {} /\ fp = Rows
  /\ Goto(p, [pc |-> "local", exp |-> Rows, full |-> FALSE])
  /\ UNCHANGED <<inst, disk, rows, remote, lock, ghosts>>

\* What is local by the time it is queued: the listing fetches what it reads, and
\* a directory's missing objects are fetched one by one.
Here ==
  LET listed == disk \cup KeyObjects(Rows, Scope)
  IN IF inst.kind = "file" THEN listed \cup (ContentKeys(Rows) \cap OnRemote) ELSE listed

\* The upload queue is filled with the metadata and then the content; an object
\* that is not local is left to the remote (S3), one of history that is nowhere
\* is passed over.
SyncEnqueue(p) ==
  LET want == ContentKeys(Rows)
  IN
  /\ proc[p] = [pc |-> "export"]
  /\ Listable(Rows, Scope) /\ CurrentGone = {}
  /\ disk' = Here
  /\ queue' = queue \cup ((want \cap Here) \ cache)
  /\ meta' = Rows
  /\ \E due \in BOOLEAN :
       Goto(p, [pc |-> "drain", exp |-> Rows, due |-> due, mark |-> JournalKeys,
                noted |-> IF inst.kind = "file" THEN want \cap Here ELSE want])
  /\ hit' = IF Keys(Rows, {cur}) \subseteq want THEN hit ELSE hit \cup {snaps[cur]}
  /\ UNCHANGED <<inst, rows, rem, raw, acked, cache, fp, pub, jr, lock, events, bare>>

\* It stops on the way, with the metadata queued and some of the content: killed,
\* at a dependency that cannot be listed, or at a current object that is nowhere.
SyncFails(p) ==
  LET listed == Listable(Rows, Scope)
      able == IF listed THEN (ContentKeys(Rows) \cap Here) \ cache ELSE {}
  IN
  /\ proc[p] = [pc |-> "export"]
  /\ IF listed /\ CurrentGone = {}
     THEN events < inst.events /\ events' = events + 1
     ELSE UNCHANGED events
  /\ \E S \in SUBSET able :
       /\ queue' = queue \cup S
       /\ disk' = disk \cup S
       /\ bare' = bare \cup (Keys(Rows, {cur}) \ (OnRemote \cup S))
  /\ meta' = Rows
  /\ Finish(p)
  /\ UNCHANGED <<inst, rows, rem, raw, acked, cache, fp, pub, jr, hit>>

\* The queue is uploaded and the metadata published; a failure ends the command.
SyncDrain(p) ==
  /\ proc[p].pc = "drain"
  /\ \/ Drained /\ Goto(p, [proc[p] EXCEPT !.pc = "clean"])
        /\ bare' = {} /\ UNCHANGED <<lock, events>>
     \/ DrainFails /\ Finish(p) /\ UNCHANGED bare
  /\ UNCHANGED <<inst, disk, rows, raw, acked, cache, fp, jr, hit>>

\* The sync cache is written.  Then prune_remote_unreferenced_content_objects, when
\* it is due (of what its listing shows, see Publish): what the rows,
\* the journal and this sync's gc mark name is kept, by exact remote key.
\* The rows stand for canonical keys (and the local ones on a directory).
SyncClean(p) ==
  LET exp == proc[p].exp
      named == Keys(exp, DOMAIN exp.snaps)
      held == JournalKeys \cup proc[p].mark
      raw2 == raw \cap (held \cup {k \in named : inst.kind = "file" /\ k[1] # "chunk"})
      rem2 == rem \cap (held \cup named)
      stale == IF exp = Rows THEN {} ELSE rem \ rem2
      gone == ((raw \ raw2) \ rem2) \cup (stale \ disk)
  IN
  /\ proc[p].pc = "clean"
  /\ cache' = proc[p].noted /\ fp' = exp
  /\ IF ~proc[p].due
     THEN /\ Goto(p, [pc |-> "local", exp |-> exp, full |-> TRUE])
          /\ UNCHANGED <<rem, raw, hit, lock>>
     ELSE IF Listable(exp, DOMAIN exp.snaps)
     THEN /\ rem' = rem2 /\ raw' = raw2
          /\ hit' = hit \cup {o \in Payloads :
               (PayloadKeys(Rows, o) \cup PayloadKeys(exp, o)) \cap gone # {}}
          /\ Goto(p, [pc |-> "local", exp |-> exp, full |-> TRUE])
          /\ UNCHANGED lock
     ELSE Finish(p) /\ UNCHANGED <<rem, raw, hit>>
  /\ UNCHANGED <<inst, disk, rows, acked, queue, meta, pub, jr, events, bare>>

\* prune_local_packed_blob_objects: once every pack of the export is local,
\* the loose copies that no row of it names are spare.
Spare(exp) ==
  LET packed == \A n \in DOMAIN exp.packs :
                  {PackFile(n), IndexFile(n, exp.packs[n])} \subseteq disk
  IN IF packed /\ Listable(exp, DOMAIN exp.snaps)
     THEN {BlobFile(b) : b \in Blobs} \ Keys(exp, DOMAIN exp.snaps)
     ELSE {}

\* The end of sync: spare loose copies are removed if they are old enough,
\* the payload (and optionally tree) cache is pruned, and a full sync records
\* what the remote has as its ref.
SyncLocal(p) ==
  LET exp == proc[p].exp IN
  /\ proc[p].pc = "local"
  /\ \E old, metadata \in BOOLEAN :
       LET keys == CacheKeys(exp) \cup (IF metadata THEN TreeKeys(exp) ELSE {})
       IN disk' = disk \ (Evictable(keys) \cup (IF old THEN Spare(exp) ELSE {}))
  /\ acked' = IF proc[p].full THEN exp.cur ELSE acked
  /\ Finish(p)
  /\ UNCHANGED <<inst, rows, rem, raw, queue, meta, cache, fp, pub, jr, ghosts>>

(***************************************************************************)
(* Remote repair, and crashes.                                             *)
(***************************************************************************)
\* remote_repair_cmd uploads a referenced local object the remote lacks.
Repair ==
  \E k \in (Keys(Rows, DOMAIN snaps) \cap disk) \ OnRemote :
    /\ events < inst.events /\ events' = events + 1
    /\ rem' = rem \cup {k}
    /\ UNCHANGED <<inst, disk, rows, raw, acked, queue, meta, cache, fp, pub, jr, lock,
                   proc, hit, bare>>

Crash(p) ==
  /\ proc[p] # Idle /\ events < inst.events
  /\ events' = events + 1
  /\ Finish(p)
  /\ UNCHANGED <<inst, disk, rows, remote, hit, bare>>

Step(p) ==
  \/ SnapStart(p) \/ SnapBlob(p) \/ SnapChunks(p) \/ SnapLarge(p)
  \/ SnapTree(p) \/ SnapCommit(p)
  \/ PackStart(p) \/ CompactStart(p) \/ PackWrite(p) \/ PackFails(p)
  \/ PackPersist(p) \/ PackRetire(p)
  \/ EvictPlan(p) \/ EvictRemove(p)
  \/ PruneTx(p) \/ GcMark(p) \/ GcSweep(p)
  \/ SyncStart(p) \/ LaneFails(p) \/ SyncUnchanged(p) \/ SyncEnqueue(p) \/ SyncFails(p)
  \/ SyncDrain(p) \/ SyncClean(p) \/ SyncLocal(p)
  \/ Crash(p)

Next == (\E p \in Procs : Step(p)) \/ Fetch \/ Repair

Spec == Init /\ [][Next]_vars

(***************************************************************************)
(* Properties.                                                             *)
(***************************************************************************)
\* The rows are well formed: refs and pack ids name rows, packs have an index
\* generation inside the pack file, and the lock has at most one holder.
TypeOK ==
  /\ disk \cup rem \cup raw \cup queue \cup cache \subseteq
       {BlobFile(b) : b \in Blobs} \cup {LargeFile(l) : l \in Larges}
         \cup {ChunkFile(c) : c \in Chunks} \cup {TreeFile(s) : s \in 1..seq+1}
         \cup {PackFile(n) : n \in DOMAIN made}
         \cup {IndexFile(n, S) : n \in DOMAIN made, S \in SUBSET Blobs}
  /\ cur \in {0} \cup DOMAIN snaps /\ DOMAIN snaps \subseteq 1..seq
  /\ \A n \in DOMAIN packs : packs[n] \subseteq made[n]
  /\ lock \in Procs \cup {Nobody}

\* Every snapshot the repository lists can be read back in full, from the
\* local store or the remote, whatever commands run side by side and wherever
\* one stops, unless one of the races that `hit' records has hit its
\* content.  This is what snapshot, pack, prune, gc, cache prune and sync
\* together promise.  The rows are well formed all the while.
ListedIsReadable ==
  TypeOK /\ \A s \in DOMAIN snaps :
    snaps[s] \notin hit => Readable(snaps[s]) /\ Available(TreeFile(s))

\* What the remote's metadata says is current has its tree and payload on
\* the remote: sync uploads content before it publishes, and the remote prune
\* keeps what it published.  But for the races of `hit', and for what a sync had
\* not queued when it stopped between its metadata and its content, until the
\* next sync that ends its uploads (bare): the fast lane of the next sync
\* publishes the queued metadata as it is.
PublishedIsComplete ==
  pub # NoRows /\ pub.snaps[pub.cur] \notin hit =>
    Keys(pub, {pub.cur}) \subseteq OnRemote \cup bare

\* A queued upload can still be done: its source is in the local store or
\* its content already on the remote, although gc, the end of sync and cache
\* prune delete local objects while uploads wait (queued_upload_local_keys).
QueueHasSource == hit = {} => \A k \in queue : FromFile(k) => Available(k)

\* docs/MOON_ROOT_STORAGE_OPTIMIZATION.md:66: what the remote cleanup deletes
\* is unreachable from the retained metadata, so clone and restore do not
\* need it.  No prune step takes a published snapshot's last remote copy.
PrunedIsUnneeded ==
  [][\A p \in Procs : SyncClean(p) =>
       \A s \in DOMAIN pub.snaps :
         Keys(pub, {s}) \subseteq OnRemote => (Keys(pub, {s}) \subseteq OnRemote)']_vars
=============================================================================
