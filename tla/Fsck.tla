-------------------------------- MODULE Fsck --------------------------------
(***************************************************************************)
(* mj fsck and what it inspects: the rows of the local database, the       *)
(* payload index that lists what each snapshot uses, the object files and  *)
(* their copies on the remote, the refs, the operation log and the restore *)
(* queue.  The commands that change them are modelled as far as they do:   *)
(* snapshot of all or of some roots, pack, sync, cache prune, prune, and   *)
(* mj untrack, which takes a path out of every snapshot's history.         *)
(*                                                                         *)
(* The payload index (snapshot_payloads, marked by snapshot_payload_index) *)
(* is filled from the file lists of a manifest.  Stored manifests omit     *)
(* these lists; a reader expands them from the trees when it can read all  *)
(* of them, and works with empty lists when it cannot.                     *)
(*                                                                         *)
(* A path is named by its content: a small file of Blobs or a large one of *)
(* Larges with one chunk.  Commands run one at a time; their interleavings *)
(* are the subject of Repository.                                          *)
(***************************************************************************)
EXTENDS Naturals, FiniteSets, Sequences, TLC

CONSTANTS
  Blobs, Larges,  \* the contents stored whole, and as manifest and chunk
  RootOf,         \* the root each content's path lies in
  Scenes          \* where a behaviour starts: start ("new" or "clone"), the
                  \*   files there are; and its bounds: snapshots made (snaps),
                  \*   edits, faults, crashes, outages, untracks, jobs and
                  \*   pins; and the caches a fsck prunes (drops), which
                  \*   two environment variables choose, none by default

VARIABLES
  scene,     \* the scene at hand
  work,      \* the working tree: the contents present
  managed,   \* the paths not untracked
  snaps,     \* table snapshots: id -> root -> its tree: the contents (has)
             \*   and the snapshot it was first stored for (by)
  last,      \* the newest id given out
  idx,       \* payload index: indexed id -> the contents it lists
  rows,      \* tables blobs (Loose or the pack), large_objects, chunks,
             \*   packs with the entries of their index, large_object_chunks,
             \*   large_pins
  disk,      \* object files: key -> "ok", "bad" (undecodable) or "alien"
             \*   (decodable, but not what its name says)
  rem,       \* the objects on the remote
  up,        \* the remote answers
  refs,      \* ref current, the synced ref and the queued restore's snapshot
  oplog,     \* how the operation log differs from table operations
  said,      \* what the last command, if it was a fsck, reported
  used,      \* the bounds' counters
  short      \* history: contents that a payload index once left out

fvars == <<scene, work, managed, snaps, last, idx, rows, disk, rem, up, refs,
           oplog, said, used, short>>

Contents == Blobs \cup Larges
RootIds == {RootOf[c] : c \in Contents}
Under(r) == {c \in Contents : RootOf[c] = r}

BlobKey(b) == <<"blob", {b}>>
LargeKey(l) == <<"large", {l}>>
ChunkKey(l) == <<"chunk", {l}>>
PackKey(p) == <<"pack", p>>          \* a pack is named by the blobs in it
IndexKey(p, es) == <<"index", <<p, es>>>>
TreeKey(r, t) == <<"tree", <<r, t>>>>

Loose == {}   \* a blob row names its pack by the blobs in it, or none
Quiet == [mode |-> "none", ok |-> "", from |-> 0]
Tree(n, C) == [by |-> n, has |-> C]
PayloadsOf(trees) == UNION {trees[r].has : r \in RootIds}
Payloads(s) == PayloadsOf(snaps[s])
Trees(s) == {TreeKey(r, snaps[s][r]) : r \in RootIds}

(***************************************************************************)
(* Reading objects.                                                        *)
(***************************************************************************)
Present(k) == k \in DOMAIN disk
\* read_object_raw: the local file, else the remote's copy; undecodable files
\* are errors and are not looked up elsewhere.
Reads(k) == IF Present(k) THEN disk[k] # "bad" ELSE up /\ k \in rem
\* ... and what was read is what was stored.
ReadsTrue(k) == IF Present(k) THEN disk[k] = "ok" ELSE up /\ k \in rem
\* read_metadata_manifest also turns to the remote when a file is undecodable.
ReadsEither(k) == Reads(k) \/ (up /\ k \in rem)
\* What a reader fetches stays in the local store.
Fetched(K) ==
  [k \in DOMAIN disk \cup {j \in K : up /\ j \in rem} |->
     IF Present(k) THEN disk[k] ELSE "ok"]

\* read_blob_payload: the objects it may open, of which there is at most one
BlobSources(b) ==
  IF b \in DOMAIN rows.blob /\ rows.blob[b] # Loose
  THEN LET p == rows.blob[b] IN
       IF p \notin DOMAIN rows.packs THEN {}
       ELSE IF ~Present(PackKey(p)) /\ Present(BlobKey(b)) THEN {BlobKey(b)} ELSE {PackKey(p)}
  ELSE {BlobKey(b)}

\* Does content c restore to what was backed up?
Restores(c) ==
  IF c \in Blobs THEN (\E k \in BlobSources(c) : ReadsTrue(k))
  ELSE ReadsTrue(LargeKey(c)) /\ ReadsTrue(ChunkKey(c))

\* snapshot_manifest_from_parts: the file lists of a manifest are expanded
\* from its trees, and left empty when one of them cannot be read.
TreesRead(s) == \A k \in Trees(s) : Reads(k)
Listed(s) == IF TreesRead(s) THEN Payloads(s) ELSE {}

\* local_object_keys over the snapshots S; it fails when a tree or a large
\* manifest cannot be read.  A blob without a row contributes no key.
PayloadKeys(c) ==
  IF c \in Larges THEN {LargeKey(c), ChunkKey(c)}
  ELSE IF c \notin DOMAIN rows.blob THEN {}
  ELSE IF rows.blob[c] = Loose THEN {BlobKey(c)}
  ELSE IF rows.blob[c] \in DOMAIN rows.packs
  THEN {PackKey(rows.blob[c]), IndexKey(rows.blob[c], rows.packs[rows.blob[c]])}
  ELSE {}
LocalKeys(S) ==
  UNION {Trees(s) \cup UNION {PayloadKeys(c) : c \in Payloads(s)} : s \in S}
KeysListable(S) ==
  \A s \in S : /\ TreesRead(s)
               /\ \A l \in Payloads(s) \cap Larges : Reads(LargeKey(l))

(***************************************************************************)
(* What a command can do besides its own work.                             *)
(***************************************************************************)
Silent == said' = Quiet
Spend(kind) == /\ used[kind] < scene[kind]
               /\ used' = [used EXCEPT ![kind] = @ + 1]
\* A command that may be killed at the point `stop'.
Stopping(stop, u) ==
  /\ stop # "none" => used.crashes < scene.crashes
  /\ used' = IF stop = "none" THEN u ELSE [u EXCEPT !.crashes = @ + 1]
Restrict(f, S) == [x \in DOMAIN f \cap S |-> f[x]]
\* Contents that snapshot s's index newly leaves out.
Omitted(newSnaps, newIdx) ==
  {c \in Contents : \E s \in DOMAIN newIdx \cap DOMAIN newSnaps :
     c \in PayloadsOf(newSnaps[s]) \ newIdx[s]}

(***************************************************************************)
(* The start: an empty repository, or a clone of one with a snapshot.  A   *)
(* clone has the rows but neither payload index nor objects.               *)
(***************************************************************************)
Cloned ==
  LET blobs == scene.files \cap Blobs
      larges == scene.files \cap Larges
      tree == [r \in RootIds |-> Tree(1, scene.files \cap Under(r))]
  IN
  /\ snaps = 1 :> tree
  /\ last = 1
  /\ rows = [blob |-> [b \in blobs |-> blobs], large |-> larges, chunk |-> larges,
             packs |-> (blobs :> blobs), lchunks |-> {}, pins |-> {}]
  /\ rem = {TreeKey(r, tree[r]) : r \in RootIds}
             \cup {PackKey(blobs), IndexKey(blobs, blobs)}
             \cup {LargeKey(l) : l \in larges} \cup {ChunkKey(l) : l \in larges}
  /\ refs = [current |-> 1, synced |-> 1, job |-> 0]

FInit ==
  /\ scene \in Scenes
  /\ work = scene.files /\ managed = Contents
  /\ idx = <<>> /\ disk = <<>>
  /\ up = TRUE /\ oplog = {} /\ said = Quiet /\ short = {}
  /\ used = [snaps |-> 0, edits |-> 0, faults |-> 0, crashes |-> 0,
             outages |-> 0, untracks |-> 0, jobs |-> 0, pins |-> 0]
  /\ \/ /\ scene.start = "clone"
        /\ Cloned
     \/ /\ scene.start = "new"
        /\ snaps = <<>> /\ last = 0
        /\ rows = [blob |-> <<>>, large |-> {}, chunk |-> {}, packs |-> <<>>,
                   lchunks |-> {}, pins |-> {}]
        /\ rem = {}
        /\ refs = [current |-> 0, synced |-> 0, job |-> 0]

(***************************************************************************)
(* The user and the machine.                                               *)
(***************************************************************************)
\* The user writes or removes a file.
Edit(c) ==
  /\ c \in scene.files
  /\ Spend("edits")
  /\ work' = IF c \in work THEN work \ {c} ELSE work \cup {c}
  /\ Silent
  /\ UNCHANGED <<scene, managed, snaps, last, idx, rows, disk, rem, up, refs,
                 oplog, short>>

\* An object file, or its copy on the remote, is lost or damaged; a payload
\* may also turn into another one of its size.
Fault ==
  /\ Spend("faults")
  /\ \/ \E k \in DOMAIN disk, how \in {"lost", "bad", "alien"} :
          /\ how = "alien" => k[1] \in {"blob", "pack", "chunk"}
          /\ disk' = IF how = "lost" THEN Restrict(disk, DOMAIN disk \ {k})
                     ELSE [disk EXCEPT ![k] = how]
          /\ UNCHANGED rem
     \/ \E k \in rem : rem' = rem \ {k} /\ UNCHANGED disk
  /\ Silent
  /\ UNCHANGED <<scene, work, managed, snaps, last, idx, rows, up, refs,
                 oplog, short>>

\* The remote stops answering, and comes back.
Outage ==
  /\ IF up THEN Spend("outages") ELSE UNCHANGED used
  /\ up' = ~up
  /\ Silent
  /\ UNCHANGED <<scene, work, managed, snaps, last, idx, rows, disk, rem, refs,
                 oplog, short>>

(***************************************************************************)
(* mj snapshot, of all roots or of the changed ones.                       *)
(***************************************************************************)
\* The new tree of root r: scanned when asked for, else the parent's.  An
\* unchanged tree whose object is still on disk is kept.
NewTree(r, R, n) ==
  LET seen == work \cap managed \cap Under(r)
      has == refs.current # 0
      old == snaps[refs.current][r]
  IN IF has /\ r \notin R THEN old
     ELSE IF has /\ old.has = seen /\ Present(TreeKey(r, old)) THEN old
     ELSE Tree(n, seen)

\* insert_snapshot_payload_index on the new manifest: the scanned lists, and
\* the ones carried forward from the parent as it was read.
IndexOfNew(trees, R) ==
  PayloadsOf([r \in RootIds |->
    IF r \in R \/ refs.current = 0 \/ TreesRead(refs.current)
    THEN trees[r] ELSE Tree(0, {})])

\* current_is_remote_synced and reusable_blob_object_keys
Reusable(b) ==
  /\ b \in DOMAIN rows.blob
  /\ rows.blob[b] # Loose \/ (refs.current # 0 /\ refs.synced = refs.current)

Put(K) == [k \in DOMAIN disk \cup K |-> IF k \in K THEN "ok" ELSE disk[k]]

\* The large rows are inserted during the scan; the rest is one transaction,
\* in which the operation is also appended to the log file.  A stop after the
\* scan leaves the large rows, one before the commit the log record too.
Snapshot(R, stop) ==
  LET n == last + 1
      trees == [r \in RootIds |-> NewTree(r, R, n)]
      scanned == UNION {trees[r].has : r \in IF refs.current = 0 THEN RootIds ELSE R}
      noop == refs.current # 0 /\ \A r \in RootIds :
                                    trees[r].has = snaps[refs.current][r].has
      newIdx == (n :> IndexOfNew(trees, R)) @@ idx
      newSnaps == (n :> trees) @@ snaps
      larges == scanned \cap Larges
      loose == {b \in scanned \cap Blobs : ~Reusable(b)}
  IN
  /\ R # {} /\ ~noop
  /\ used.snaps < scene.snaps
  /\ Stopping(stop, [used EXCEPT !.snaps = @ + 1])
  /\ disk' = Put({BlobKey(b) : b \in loose} \cup {LargeKey(l) : l \in larges}
                   \cup {ChunkKey(l) : l \in larges}
                   \cup (IF stop = "scan" THEN {}
                         ELSE {TreeKey(r, trees[r]) : r \in
                                 {q \in RootIds : trees[q].by = n}}))
  /\ IF stop = "none"
     THEN /\ snaps' = newSnaps /\ last' = n /\ idx' = newIdx
          /\ rows' = [rows EXCEPT
                !.blob = @ @@ [b \in scanned \cap Blobs |-> Loose],
                !.large = @ \cup larges, !.chunk = @ \cup larges,
                !.lchunks = @ \cup larges]
          /\ refs' = [refs EXCEPT !.current = n]
          /\ short' = short \cup Omitted(newSnaps, newIdx)
          /\ UNCHANGED oplog
     ELSE /\ rows' = [rows EXCEPT !.large = @ \cup larges,
                                  !.chunk = @ \cup larges,
                                  !.lchunks = @ \cup larges]
          /\ oplog' = IF stop = "tx" THEN oplog \cup {"ghost"} ELSE oplog
          /\ UNCHANGED <<snaps, last, idx, refs, short>>
  /\ Silent
  /\ UNCHANGED <<scene, work, managed, rem, up>>

(***************************************************************************)
(* mj pack, mj sync and mj cache prune.                                    *)
(***************************************************************************)
\* pack_loose_blobs: rows of loose blobs whose file is gone go when no index
\* lists them; the others move into a new pack.
Pack ==
  LET loose == {b \in DOMAIN rows.blob : rows.blob[b] = Loose}
      todo == {b \in loose : Present(BlobKey(b))}
      gone == {b \in loose \ todo : \A s \in DOMAIN idx : b \notin idx[s]}
  IN
  /\ todo # {} /\ \A b \in todo : Reads(BlobKey(b))
  /\ rows' = [rows EXCEPT
       !.blob = Restrict([b \in todo |-> todo] @@ @, Blobs \ gone),
       !.packs = (todo :> todo) @@ @]
  /\ disk' = Put({PackKey(todo), IndexKey(todo, todo)})
  /\ Silent
  /\ UNCHANGED <<scene, work, managed, snaps, last, idx, rem, up, refs, oplog,
                 used, short>>

\* The loose files of blobs whose pack is at hand go after a sync.
Superseded ==
  {BlobKey(b) : b \in {c \in DOMAIN rows.blob :
     /\ rows.blob[c] # Loose
     /\ rows.blob[c] \in DOMAIN rows.packs
     /\ Present(PackKey(rows.blob[c]))
     /\ Present(IndexKey(rows.blob[c], rows.packs[rows.blob[c]]))}}

\* sync_cmd uploads what the rows name, and writes the operation log anew
\* when it records its result.
Sync ==
  LET keys == LocalKeys(DOMAIN snaps) IN
  /\ up /\ refs.current # 0
  /\ KeysListable(DOMAIN snaps)
  /\ \A k \in keys : k \in rem \/ ReadsTrue(k)
  /\ rem' = rem \cup keys
  /\ disk' = Restrict(disk, DOMAIN disk \ Superseded)
  /\ refs' = [refs EXCEPT !.synced = refs.current]
  /\ oplog' = {}
  /\ Silent
  /\ UNCHANGED <<scene, work, managed, snaps, last, idx, rows, up, used, short>>

\* payload_cache_keys and metadata_cache_keys
CacheKeys ==
  [payload |-> {BlobKey(b) : b \in {c \in DOMAIN rows.blob : rows.blob[c] = Loose}}
                 \cup {PackKey(p) : p \in DOMAIN rows.packs}
                 \cup {ChunkKey(l) : l \in rows.chunk},
   metadata |-> UNION {Trees(s) : s \in DOMAIN snaps}]
Cached(kinds) == UNION {CacheKeys[kind] : kind \in kinds} \cap rem

Evict ==
  /\ up
  /\ \E kinds \in {{"payload"}, {"payload", "metadata"}} :   \* --metadata
       /\ Cached(kinds) \cap DOMAIN disk # {}
       /\ disk' = Restrict(disk, DOMAIN disk \ Cached(kinds))
  /\ Silent
  /\ UNCHANGED <<scene, work, managed, snaps, last, idx, rows, rem, up, refs,
                 oplog, used, short>>

\* prepare_restore queues a job that names its snapshot.
Prepare(s) ==
  /\ Spend("jobs")
  /\ refs' = [refs EXCEPT !.job = s]
  /\ Silent
  /\ UNCHANGED <<scene, work, managed, snaps, last, idx, rows, disk, rem, up,
                 oplog, short>>

\* mj large pin: the large objects of the current snapshot, or of those from
\* `from' on, as far as their trees can be read; mj large unpin drops all.
Pin(from) ==
  LET S == {s \in DOMAIN snaps : IF from = 0 THEN s = refs.current ELSE s >= from} IN
  /\ refs.current # 0
  /\ Spend("pins")
  /\ rows' = [rows EXCEPT !.pins = @ \cup (Larges \cap UNION {Listed(s) : s \in S})]
  /\ disk' = Fetched(UNION {Trees(s) : s \in S})
  /\ Silent
  /\ UNCHANGED <<scene, work, managed, snaps, last, idx, rem, up, refs, oplog, short>>
Unpin ==
  /\ rows.pins # {}
  /\ rows' = [rows EXCEPT !.pins = {}]
  /\ Silent
  /\ UNCHANGED <<scene, work, managed, snaps, last, idx, disk, rem, up, refs,
                 oplog, used, short>>

(***************************************************************************)
(* Pruning rows: prune_unreferenced_metadata over the snapshots `kept'     *)
(* with index `ix'.                                                        *)
(***************************************************************************)
AllIndexed(kept, ix) == DOMAIN kept \subseteq DOMAIN ix
\* indexed_live_metadata_references, else scan_live_metadata_references
Live(kept, ix) ==
  IF AllIndexed(kept, ix) THEN UNION {ix[s] : s \in DOMAIN kept}
  ELSE UNION {PayloadsOf(kept[s]) : s \in DOMAIN kept}
\* The scan and the rewriting of pack indexes may fail; nothing is pruned then.
CanPrune(kept, ix, new) ==
  LET live == Live(kept, ix)
      reads(k) == k \in new \/ Reads(k)
  IN
  /\ AllIndexed(kept, ix) \/
       \A s \in DOMAIN kept : \A r \in RootIds : reads(TreeKey(r, kept[s][r]))
  /\ \A p \in DOMAIN rows.packs :
       (\E b \in live \cap DOMAIN rows.blob : rows.blob[b] = p)
         => reads(IndexKey(p, rows.packs[p]))
Pruned(kept, ix) ==
  LET live == Live(kept, ix)
      blob == Restrict(rows.blob, live)
      larges == rows.large \cap live
      of(p) == {b \in DOMAIN blob : blob[b] = p}
  IN [blob |-> blob, large |-> larges,
      chunk |-> IF \A l \in larges : Reads(LargeKey(l))
                THEN rows.chunk \cap larges ELSE rows.chunk,
      packs |-> [p \in {q \in DOMAIN rows.packs : of(q) # {}} |-> rows.packs[p] \cap of(p)],
      lchunks |-> rows.lchunks, pins |-> rows.pins \cap live]
NewIndexes(after) ==
  {IndexKey(p, after.packs[p]) : p \in {q \in DOMAIN after.packs :
                                          after.packs[q] # rows.packs[q]}}

\* protected_ref_snapshots: the refs and the first snapshot of each root.
First == CHOOSE s \in DOMAIN snaps : \A t \in DOMAIN snaps : s <= t
Protected == {refs.current, First}

\* prune_cmd, whose policy may let go of any unprotected snapshot; the gc it
\* ends with is Gc below.  A stop before the record of the operation reaches the log
\* leaves the log short.
Prune(D, stop) ==
  LET kept == Restrict(snaps, DOMAIN snaps \ D)
      after == Pruned(kept, idx)
  IN
  /\ D # {} /\ D \subseteq DOMAIN snaps \ Protected
  /\ CanPrune(kept, idx, {})
  /\ Stopping(stop, used)
  /\ snaps' = kept
  /\ rows' = after
  /\ idx' = Restrict(idx, DOMAIN kept)
  /\ disk' = Put(NewIndexes(after))
  /\ oplog' = IF stop = "op" THEN oplog \cup {"short"} ELSE oplog
  /\ Silent
  /\ UNCHANGED <<scene, work, managed, last, rem, up, refs, short>>

\* gc_cmd deletes every local object that local_object_keys does not name.
Gc ==
  /\ KeysListable(DOMAIN snaps)
  /\ ~ (DOMAIN disk \subseteq LocalKeys(DOMAIN snaps))
  /\ disk' = Restrict(disk, LocalKeys(DOMAIN snaps))
  /\ Silent
  /\ UNCHANGED <<scene, work, managed, snaps, last, idx, rows, rem, up, refs,
                 oplog, used, short>>

(***************************************************************************)
(* mj untrack (and mj root set): forget_unmanaged_root_history rewrites    *)
(* every snapshot that has the path, from its manifest as stored, adding   *)
(* only the file list of the root concerned before it indexes it.          *)
(***************************************************************************)
Forgotten(c) ==
  [s \in DOMAIN snaps |->
     IF c \in Payloads(s)
     THEN [snaps[s] EXCEPT ![RootOf[c]] = Tree(s, @.has \ {c})] ELSE snaps[s]]
ForgetIndex(c, after) ==
  [s \in DOMAIN idx \cup {t \in DOMAIN snaps : c \in Payloads(t)} |->
     IF s \in DOMAIN snaps /\ c \in Payloads(s)
     THEN after[s][RootOf[c]].has ELSE idx[s]]

\* One transaction; the operation is appended to the log inside it.
Untrack(c, stop) ==
  LET hit == {s \in DOMAIN snaps : c \in Payloads(s)}
      after == Forgotten(c)
      ix == ForgetIndex(c, after)
      new == {TreeKey(RootOf[c], after[s][RootOf[c]]) : s \in hit}
      pruned == Pruned(after, ix)
  IN
  /\ c \in managed \cap scene.files
  /\ \A s \in DOMAIN snaps : ReadsEither(TreeKey(RootOf[c], snaps[s][RootOf[c]]))
  /\ hit # {} => CanPrune(after, ix, new)
  /\ used.untracks < scene.untracks
  /\ Stopping(stop, [used EXCEPT !.untracks = @ + 1])
  /\ disk' = Put(new \cup (IF hit = {} THEN {} ELSE NewIndexes(pruned)))
  /\ IF stop = "none"
     THEN /\ managed' = managed \ {c}
          /\ snaps' = after
          /\ idx' = ix
          /\ rows' = IF hit = {} THEN rows ELSE pruned
          /\ short' = short \cup Omitted(after, ix)
          /\ UNCHANGED oplog
     ELSE /\ oplog' = oplog \cup {"ghost"}
          /\ UNCHANGED <<managed, snaps, idx, rows, short>>
  /\ Silent
  /\ UNCHANGED <<scene, work, last, rem, up, refs>>

(***************************************************************************)
(* mj fsck.                                                                *)
(***************************************************************************)
\* payload_cache_available_remotely: an evicted payload is no problem.
EvictedAny(k) == ~Present(k)
Evicted(k) == ~Present(k) /\ k \in rem
Unsound(k) == ~Evicted(k) /\ ~Reads(k)

\* validate_blob_payloads, validate_chunk_payloads, validate_large_payloads
BlobProblem(b) ==
  IF rows.blob[b] = Loose THEN Unsound(BlobKey(b))
  ELSE /\ ~(rows.blob[b] \in DOMAIN rows.packs /\ Evicted(PackKey(rows.blob[b])))
       /\ \A k \in BlobSources(b) : ~Reads(k)
ChunkProblem(l) == Unsound(ChunkKey(l))
LargeProblem(l) ==
  \/ ~Reads(LargeKey(l))
  \/ ~Evicted(ChunkKey(l)) /\ ~ReadsTrue(ChunkKey(l))

\* validate_local_snapshot_objects, validate_local_large_manifest_objects
TreeProblem(s) == \E k \in Trees(s) : ~ReadsTrue(k)
ManifestProblem(l) == ~ReadsTrue(LargeKey(l))

\* validate_local_pack_objects
PackedIn(p) == {b \in DOMAIN rows.blob : rows.blob[b] = p}
IndexProblem(p) ==
  ~ReadsTrue(IndexKey(p, rows.packs[p])) \/ rows.packs[p] # PackedIn(p)
PackProblem(p) == IndexProblem(p) \/ Unsound(PackKey(p))

\* validate_local_metadata_references: rows that no snapshot uses.
ReferenceIssues(live, chunks) ==
  (DOMAIN rows.blob \ live) \cup (rows.large \ live) \cup (rows.chunk \ chunks)
Dangling ==
  LET live == UNION {Listed(s) : s \in DOMAIN snaps}
  IN ReferenceIssues(live, {l \in live \cap Larges : Reads(LargeKey(l))}) # {}

\* validate_local_refs, validate_remote_refs, validate_restore_queue,
\* validate_local_oplog and large_pin_issues, the checks that every mode makes.
\* It also makes those of the host file, the configured roots, the operations'
\* parents, the upload queue and the event queue; no command here changes them.
Known(id) == id \in DOMAIN snaps \cup {0}
LocalRefProblem == ~Known(refs.current)
RemoteRefProblem == ~Known(refs.synced)
RestoreJobProblem == ~Known(refs.job)
OplogProblem == oplog # {}
PinProblem == ~(rows.pins \subseteq rows.large)
StateProblem ==
  LocalRefProblem \/ RemoteRefProblem \/ RestoreJobProblem \/ OplogProblem \/ PinProblem

\* What is wrong with the snapshots S and the rows of the contents C.
ScopeProblem(S, C) ==
  LET blobs == C \cap DOMAIN rows.blob
      packs == {rows.blob[b] : b \in {c \in blobs : rows.blob[c] # Loose}}
  IN
  \/ \E b \in blobs : BlobProblem(b)
  \/ \E l \in C \cap rows.chunk : ChunkProblem(l)
  \/ \E l \in C \cap rows.large : LargeProblem(l) \/ ManifestProblem(l)
  \/ \E s \in S : TreeProblem(s)
  \/ \E p \in packs : p \notin DOMAIN rows.packs \/ PackProblem(p)

\* With the remote away, a payload that is not on disk cannot be judged.
Unjudged(C) ==
  /\ ~up
  /\ \/ \E b \in C \cap DOMAIN rows.blob :
          IF rows.blob[b] = Loose THEN ~Present(BlobKey(b))
          ELSE ~Present(PackKey(rows.blob[b]))
     \/ \E l \in C \cap (rows.chunk \cup rows.large) : ~Present(ChunkKey(l))

\* The cached copies that a successful check drops again, when it is told to.
Done(verdict, d) ==
  IF verdict = "ok" /\ up THEN Restrict(d, DOMAIN d \ Cached(scene.drops)) ELSE d

\* A check right after a check is left out.
Report(mode, verdict, from) ==
  said = Quiet /\ said' = [mode |-> mode, ok |-> verdict, from |-> from]

\* The metadata objects a check reads.
MetaKeys(S, C) ==
  UNION {Trees(s) : s \in S} \cup {LargeKey(l) : l \in C \cap Larges}
    \cup {IndexKey(p, rows.packs[p]) : p \in DOMAIN rows.packs}

FsckQuick ==
  /\ Report("quick", IF StateProblem THEN "problems" ELSE "ok", 0)
  /\ UNCHANGED <<scene, work, managed, snaps, last, idx, rows, disk, rem, up,
                 refs, oplog, used, short>>

\* The whole history.  The list of the remote's keys is needed, and so is
\* every tree and large manifest for the list of the local ones.
FsckFull ==
  LET all == DOMAIN snaps
      verdict == IF ~up \/ ~KeysListable(all) THEN "error"
                 ELSE IF \/ \E k \in LocalKeys(all) : Unsound(k)
                         \/ ScopeProblem(all, Contents)
                         \/ \E p \in DOMAIN rows.packs : PackProblem(p)
                         \/ Dangling \/ StateProblem
                 THEN "problems" ELSE "ok"
  IN
  /\ Report("full", verdict, 0)
  /\ disk' = Done(verdict, Fetched(MetaKeys(all, Contents)))
  /\ UNCHANGED <<scene, work, managed, snaps, last, idx, rows, rem, up, refs,
                 oplog, used, short>>

\* build_fsck_scope_from_index
ScopeIndexed(S) ==
  /\ S \subseteq DOMAIN idx
  /\ \A l \in Larges \cap UNION {idx[s] : s \in S} : (l \in rows.large) = (l \in rows.lchunks)
\* build_fsck_scope indexes the snapshots in order, each with the lists its
\* manifest was expanded to, before it walks the trees; it stops at the first
\* tree it cannot read.
Reached(S) == {s \in S : \A t \in S : t < s => TreesRead(t)}
Reindexed(S) == [s \in S |-> Listed(s)] @@ idx

\* fsck --since: the snapshots from `from' on.
FsckSince(from) ==
  LET S == {s \in DOMAIN snaps : s >= from}
      indexed == ScopeIndexed(S)
      walked == indexed \/ \A s \in S : TreesRead(s)
      C == IF indexed THEN UNION {idx[s] : s \in S} ELSE UNION {Payloads(s) : s \in S}
      larges == IF walked THEN C \cap rows.large ELSE {}
      built == indexed \/ (walked /\ \A l \in larges : Reads(LargeKey(l)))
      verdict == IF ~built \/ Unjudged(C) THEN "error"
                 ELSE IF ScopeProblem(S, C) \/ StateProblem THEN "problems" ELSE "ok"
      newIdx == IF indexed THEN idx ELSE Reindexed(Reached(S))
  IN
  /\ S # {}
  /\ Report("since", verdict, from)
  /\ idx' = newIdx
  /\ short' = short \cup Omitted(snaps, newIdx)
  /\ rows' = IF indexed THEN rows
             ELSE [rows EXCEPT !.lchunks = @ \cup {l \in larges : Reads(LargeKey(l))}]
  /\ disk' = Done(verdict, Fetched(MetaKeys(S, C)))
  /\ UNCHANGED <<scene, work, managed, snaps, last, rem, up, refs, oplog, used>>

\* fsck --backfill-index --hydrate-index-objects; without the second option
\* the omitted lists are left alone and nothing is indexed.
Backfill ==
  LET S == DOMAIN snaps \ DOMAIN idx
      newIdx == Reindexed(S)
      larges == Larges \cap rows.large \cap UNION {newIdx[s] : s \in DOMAIN snaps}
  IN
  /\ S # {}
  /\ idx' = newIdx
  /\ short' = short \cup Omitted(snaps, newIdx)
  /\ rows' = [rows EXCEPT !.lchunks = @ \cup {l \in larges : Reads(LargeKey(l))}]
  /\ disk' = Fetched(MetaKeys(S, larges))
  /\ Silent
  /\ UNCHANGED <<scene, work, managed, snaps, last, rem, up, refs, oplog, used>>

FNext ==
  \/ \E c \in Contents : Edit(c)
  \/ Fault \/ Outage
  \/ \E R \in SUBSET RootIds, stop \in {"none", "scan", "tx"} : Snapshot(R, stop)
  \/ Pack \/ Sync \/ Evict \/ Gc \/ Unpin
  \/ \E s \in {0} \cup DOMAIN snaps : Pin(s)
  \/ \E s \in DOMAIN snaps : Prepare(s)
  \/ \E D \in SUBSET DOMAIN snaps, stop \in {"none", "op"} : Prune(D, stop)
  \/ \E c \in Contents, stop \in {"none", "tx"} : Untrack(c, stop)
  \/ FsckQuick \/ FsckFull \/ Backfill
  \/ \E s \in DOMAIN snaps : FsckSince(s)

FSpec == FInit /\ [][FNext]_fvars

(***************************************************************************)
(* Properties.                                                             *)
(***************************************************************************)

AllKeys ==
  {BlobKey(b) : b \in Blobs} \cup {LargeKey(l) : l \in Larges}
    \cup {ChunkKey(l) : l \in Larges}
    \cup {PackKey(p) : p \in SUBSET Blobs}
    \cup UNION {{IndexKey(p, es) : es \in SUBSET p} : p \in SUBSET Blobs}
    \cup UNION {{TreeKey(r, Tree(n, C)) : n \in 1..last + 1, C \in SUBSET Under(r)}
                  : r \in RootIds}

\* The tables, objects and refs stay within their types: every id was given
\* out, and a blob row names an existing pack that holds the blob.
FsckTypeOK ==
  /\ scene \in Scenes
  /\ work \subseteq Contents /\ managed \subseteq Contents /\ short \subseteq Contents
  /\ DOMAIN snaps \subseteq 1..last /\ DOMAIN idx \subseteq DOMAIN snaps
  /\ \A s \in DOMAIN snaps : \A r \in RootIds :
       snaps[s][r].by \in 1..last /\ snaps[s][r].has \subseteq Under(r)
  /\ \A s \in DOMAIN idx : idx[s] \subseteq Payloads(s)
  /\ \A b \in DOMAIN rows.blob : \/ rows.blob[b] = Loose
                                 \/ /\ rows.blob[b] \in DOMAIN rows.packs
                                    /\ b \in rows.packs[rows.blob[b]]
  /\ DOMAIN disk \subseteq AllKeys /\ rem \subseteq AllKeys
  /\ \A k \in DOMAIN disk : disk[k] \in {"ok", "bad", "alien"}
  /\ up \in BOOLEAN
  /\ \A name \in DOMAIN refs : refs[name] \in 0..last
  /\ oplog \subseteq {"ghost", "short"}
  /\ said.ok \in {"", "ok", "problems", "error"}

\* Content c can be read back, altered payloads of blobs and packs aside:
\* fsck decodes them without comparing them with their oid.
Decodes(c) == IF c \in Blobs THEN (\E k \in BlobSources(c) : Reads(k)) ELSE Restores(c)

\* When mj fsck says ok, every file of every snapshot can be read back, from
\* the local store or the remote.  Contents a payload index once left out are
\* excepted: prune drops their rows, and fsck asks only about rows there are.
FsckIsSound ==
  said.mode = "full" /\ said.ok = "ok" =>
    \A s \in DOMAIN snaps :
      /\ \A k \in Trees(s) : ReadsTrue(k)
      /\ \A c \in Payloads(s) \ short : Decodes(c)

\* The same of mj fsck --since and the snapshots it covers, although it takes
\* what they use from the payload index.
SinceIsSound ==
  said.mode = "since" /\ said.ok = "ok" /\ up =>
    \A s \in DOMAIN snaps : s >= said.from =>
      /\ \A k \in Trees(s) : ReadsTrue(k)
      /\ \A c \in Payloads(s) \ short : Decodes(c)

\* No false alarm: what the commands themselves leave behind passes mj fsck.
\* Excepted are a process that was killed, a synced ref or a restore job whose
\* snapshot was pruned since, and an outage during the run.
NoFalseAlarm ==
  said.ok \in {"problems", "error"} =>
    \/ used.faults > 0
    \/ used.crashes > 0
    \/ ~LocalRefProblem /\ (RemoteRefProblem \/ RestoreJobProblem)
    \/ ~up \/ short # {}

\* Prune and untrack leave the rows of what the remaining snapshots use,
\* unless an index had left the content out.
RowsAreKept ==
  \A s \in DOMAIN snaps : \A c \in Payloads(s) \ short :
    c \in DOMAIN rows.blob \cup rows.large

\* mj untrack takes the path out of the whole history: no snapshot, index or
\* blob row has it, and no later snapshot of other roots brings it back.
UntrackForgets ==
  \A c \in Contents \ managed :
    /\ \A s \in DOMAIN snaps : c \notin Payloads(s)
    /\ \A s \in DOMAIN idx : c \notin idx[s]
    /\ c \notin DOMAIN rows.blob

\* mj untrack changes tracking metadata only: with every object undamaged and
\* the remote there, the other paths of every snapshot restore as before.
OthersRestore ==
  used.faults = 0 /\ up => \A s \in DOMAIN snaps : \A c \in Payloads(s) : Restores(c)
=============================================================================
