--------------------------- MODULE ClusterMaster ---------------------------
(***************************************************************************)
(* The cluster master of src/src/cluster_runtime.rs.  A slave's PUT or     *)
(* DELETE is made durable in files of the master (store, backend queue,    *)
(* write intents, receipts, local-GC tombstones) and acknowledged; one     *)
(* background worker moves the queue to the backend (S3) afterwards.       *)
(*                                                                         *)
(* Every file write is a step of its own, so the process can stop, or the  *)
(* disk can refuse, between any two of them.  All writers hold             *)
(* durable_lock, so at most one of them is between two writes: the         *)
(* variable cs is that writer.  Readers take no lock.                      *)
(***************************************************************************)
EXTENDS Naturals, FiniteSets, Sequences

CONSTANTS
    Keys,        \* object keys
    Vals,        \* object contents; a digest is modelled by the content
    Hosts,       \* slaves
    None,        \* no file, no object
    Immutable,   \* content-addressed keys: their PUTs are conditional
    HostOf,      \* [Keys -> Hosts]: the <host-id>/ prefix a key is under
    PriorityOf,  \* [Keys -> 1..3]: backend_publish_priority
    MaxObjects,  \* backend_flush_max_objects
    DedupeMin,   \* backend_dedupe_list_min_objects
    Quota,       \* store_max_bytes, contents having size 1
    InitStore,   \* contents an older version may have left in the store
    InitBackend, \* contents an older version may have left in the backend
    Readable,    \* keys some client reads
    WithFlush,   \* whether an operator runs mj cluster flush
    MaxBatch,    \* bound: items of one BatchPut
    MaxEnq,      \* bound: queue writes after which clients send no more
    MaxFaults    \* bound: crashes and failing writes

ASSUME ConstantsAssumption ==
    /\ IsFiniteSet(Keys)
    /\ None \notin Vals
    /\ Immutable \subseteq Keys
    /\ Readable \subseteq Keys
    /\ HostOf \in [Keys -> Hosts]
    /\ PriorityOf \in [Keys -> 1..3]
    /\ InitStore \subseteq Vals \cup {None}
    /\ InitBackend \subseteq Vals \cup {None}
    /\ MaxObjects \in Nat
    /\ DedupeMin \in Nat
    /\ Quota \in Nat
    /\ WithFlush \in BOOLEAN
    /\ MaxBatch \in Nat
    /\ MaxEnq \in Nat
    /\ MaxFaults \in Nat

VARIABLES
    \* files of the master, and the backend
    store,     \* [Keys -> Vals or None]
    queue,     \* backend-queue/: one item per key
    intent,    \* write-intents/: the content a PUT is about to make durable
    receipt,   \* backend-receipts/: the content known to be in the backend
    tomb,      \* local-gc/: tombstones of deleted keys whose bytes are kept
    flush,     \* cluster-backend-flush.request exists
    migrated,  \* backend-receipts/migration-v1.complete exists
    backend,   \* the objects in S3
    \* the running process
    cs,        \* the writer that holds durable_lock
    wk,        \* the backend worker
    snap,      \* its copy of the queue
    up,        \* its uploads, one per selected key
    gcq,       \* tombstones (their generations) the local GC has still to visit
    rd,        \* a lock-free reader (master_get_optional)
    \* history
    enq,       \* every queue write in order; its length is the clock
    pub,       \* the queue write the backend last applied or was found to hold
    seen,      \* what the reader may answer, collected since the read began
    stale,     \* keys whose bytes in the store come from a read that came too late
    faults     \* crashes and failed writes so far

files == <<store, queue, intent, receipt, tomb, flush, migrated>>
marks == <<flush, migrated>>
worker == <<wk, snap, up, gcq>>
volatile == <<cs, worker, rd>>
hist == <<enq, pub, faults>>
vars == <<files, backend, volatile, hist, seen, stale>>

-----------------------------------------------------------------------------
(* Types.  updated_at and the generation of a queue item are both its      *)
(* position in enq: a new item gets a new one, a reused item keeps its own *)
(* (the wall clock is taken to be strictly increasing).                    *)

Content == Vals \cup {None}
Item == [op : {"none", "Put", "Delete"}, val : Content, gen : Nat, retry : BOOLEAN]
NoItem == [op |-> "none", val |-> None, gen |-> 0, retry |-> FALSE]
Tomb == [val : Content, gen : Nat, due : BOOLEAN]
NoTomb == [val |-> None, gen |-> 0, due |-> FALSE]
Upload == [stage : {"none", "wait", "ready", "skip", "send", "sent", "failed"},
           op : {"none", "Put", "Delete"}, val : Content, gen : Nat]
NoUpload == [stage |-> "none", op |-> "none", val |-> None, gen |-> 0]

PutPcs == {"p_store", "p_cancel", "p_enqueue", "p_unintent"}
RecoverPcs == {"r_store", "r_enqueue", "r_cancel", "r_unintent"}
CompletePcs == {"c_retain", "c_receipt", "c_unqueue"}
GcPcs == {"g_store", "g_untomb"}
Writer == [pc : {"idle", "put", "d_enqueue"} \cup PutPcs \cup RecoverPcs
                  \cup CompletePcs \cup GcPcs,
           key : Keys \cup {None},
           items : Seq(Keys \X Vals),   \* the rest of the batch
           done : Seq(Keys \X Vals),    \* the part of it already durable
           ret : {"idle", "put", "d_enqueue"}]
NoWriter == [pc |-> "idle", key |-> None, items |-> <<>>, done |-> <<>>, ret |-> "idle"]

Worker == [pc : {"boot", "idle", "recover", "due", "list", "read", "tier", "deletes",
                 "deleting", "flushed", "unflush", "gc", "gcing"},
           force : BOOLEAN, first : BOOLEAN, hosts : SUBSET Hosts, scan : SUBSET Keys,
           count : Nat, done : BOOLEAN, err : BOOLEAN, tier : 1..3, batch : BOOLEAN,
           listed : Nat]   \* history: the clock when the queue was listed
Booting == [pc |-> "boot", force |-> FALSE, first |-> TRUE, hosts |-> {}, scan |-> {},
            count |-> 0, done |-> FALSE, err |-> FALSE, tier |-> 1,
            batch |-> FALSE, listed |-> 0]
Sleeping == [Booting EXCEPT !.pc = "idle"]

NoReader == [pc |-> "idle", key |-> None, val |-> None]
Reader == [pc : {"queue", "tomb", "store", "backend", "hydrate", "done"},
           key : Keys, val : Content] \cup {NoReader}

-----------------------------------------------------------------------------
(* What the files say about a key *)

Queued(k) == queue[k].op # "none"
Tombstoned(k) == tomb[k] # NoTomb

\* key_is_logically_deleted
Deleted(k) == queue[k].op = "Delete" \/ Tombstoned(k)

\* What a GET of k would return if nothing else moved meanwhile.
Visible(k) == IF Deleted(k) THEN None
              ELSE IF store[k] # None THEN store[k] ELSE backend[k]

\* The answer BackendCommitted gives for k.
Committed(k) == /\ ~Queued(k) /\ intent[k] = None /\ ~Deleted(k)
                /\ receipt[k] # None /\ receipt[k] = store[k]

StoredBytes == Cardinality({k \in Keys : store[k] # None})

\* enforce_store_quota: only a growing object can be refused.
FitsQuota(k) == store[k] # None \/ StoredBytes + 1 <= Quota

LockFree == cs.pc = "idle"
Serving == wk.pc # "boot"

\* write_backend_queue_item: the same operation keeps its item, a different
\* one replaces it under a new generation.
WriteQueueItem(k, op, v) ==
    IF queue[k].op = op /\ queue[k].val = v
    THEN UNCHANGED <<queue, enq>>
    ELSE /\ enq' = Append(enq, [key |-> k, op |-> op])
         /\ queue' = [queue EXCEPT ![k] =
                [op |-> op, val |-> v, gen |-> Len(enq) + 1, retry |-> FALSE]]

-----------------------------------------------------------------------------
(* process_puts: one step per durable write, item after item *)

BeginPut(items) ==
    /\ Serving /\ LockFree
    /\ Len(enq) + Len(items) <= MaxEnq
    /\ cs' = [NoWriter EXCEPT !.pc = "put", !.items = items]
    /\ UNCHANGED <<files, backend, worker, rd, hist>>

Collision(k, v) == k \in Immutable /\ store[k] # None /\ store[k] # v

\* Fault: a pending queue item does not count.
NeedsBackupIgnoresQueue(k, v) == store[k] # v \/ Tombstoned(k) \/ receipt[k] # v

NeedsBackup(k, v) == \/ store[k] # v \/ Tombstoned(k) \/ Queued(k)
                     \/ receipt[k] # v

\* The head of the batch: replay an intent an earlier PUT left behind, refuse
\* the batch, skip an object already backed up, or write the intent.
PutItem ==
    /\ cs.pc = "put" /\ cs.items # <<>>
    /\ LET k == Head(cs.items)[1]
           v == Head(cs.items)[2]
       IN \/ /\ intent[k] # None
             /\ cs' = [cs EXCEPT !.pc = "r_store", !.key = k, !.ret = "put"]
             /\ UNCHANGED intent
          \/ /\ intent[k] = None
             /\ Collision(k, v) \/ (NeedsBackup(k, v) /\ ~FitsQuota(k))
             /\ cs' = NoWriter
             /\ UNCHANGED intent
          \/ /\ intent[k] = None
             /\ ~Collision(k, v) /\ ~NeedsBackup(k, v)
             /\ cs' = [cs EXCEPT !.items = Tail(cs.items),
                                 !.done = Append(cs.done, Head(cs.items))]
             /\ UNCHANGED intent
          \/ /\ intent[k] = None
             /\ ~Collision(k, v) /\ NeedsBackup(k, v) /\ FitsQuota(k)
             /\ intent' = [intent EXCEPT ![k] = v]
             /\ cs' = [cs EXCEPT !.pc = "p_store", !.key = k]
    /\ UNCHANGED <<store, queue, receipt, tomb, marks, backend, worker, rd, hist>>

\* An unchanged object is not rewritten: the write is then the identity.
PutStore ==
    /\ cs.pc = "p_store"
    /\ store' = [store EXCEPT ![cs.key] = intent[cs.key]]
    /\ cs' = [cs EXCEPT !.pc = "p_cancel"]
    /\ UNCHANGED <<queue, intent, receipt, tomb, marks, backend, worker, rd, hist>>

PutCancelGc ==
    /\ cs.pc = "p_cancel"
    /\ tomb' = [tomb EXCEPT ![cs.key] = NoTomb]
    /\ cs' = [cs EXCEPT !.pc = "p_enqueue"]
    /\ UNCHANGED <<store, queue, intent, receipt, marks, backend, worker, rd, hist>>

PutEnqueue ==
    /\ cs.pc = "p_enqueue"
    /\ WriteQueueItem(cs.key, "Put", intent[cs.key])
    /\ cs' = [cs EXCEPT !.pc = "p_unintent"]
    /\ UNCHANGED <<store, intent, receipt, tomb, marks, backend, worker, rd, pub, faults>>

PutRemoveIntent ==
    /\ cs.pc = "p_unintent"
    /\ intent' = [intent EXCEPT ![cs.key] = None]
    /\ cs' = [cs EXCEPT !.pc = "put", !.items = Tail(cs.items),
                        !.done = Append(cs.done, Head(cs.items))]
    /\ UNCHANGED <<store, queue, receipt, tomb, marks, backend, worker, rd, hist>>

\* The whole batch is durable: the slave gets master_durable.
AckPut ==
    /\ cs.pc = "put" /\ cs.items = <<>>
    /\ cs' = NoWriter
    /\ UNCHANGED <<files, backend, worker, rd, hist>>

-----------------------------------------------------------------------------
(* durable_delete *)

BeginDelete(k) ==
    /\ Serving /\ LockFree
    /\ Len(enq) < MaxEnq
    /\ cs' = [NoWriter EXCEPT !.pc = IF intent[k] # None THEN "r_store" ELSE "d_enqueue",
                              !.key = k, !.ret = "d_enqueue"]
    /\ UNCHANGED <<files, backend, worker, rd, hist>>

DeleteEnqueue ==
    /\ cs.pc = "d_enqueue"
    /\ WriteQueueItem(cs.key, "Delete", None)
    /\ cs' = NoWriter
    /\ UNCHANGED <<store, intent, receipt, tomb, marks, backend, worker, rd, pub, faults>>

-----------------------------------------------------------------------------
(* recover_master_write_intent_for_key: replay the intent of cs.key, then   *)
(* go on with whatever needed it (cs.ret)                                   *)

\* The writers whose failure ends the worker's cycle: the local GC, the replay
\* of an intent by the worker, and the completion of a skipped upload or of an
\* object of a batched delete.
EndsCycle == \/ cs.pc \in GcPcs
             \/ cs.pc \in RecoverPcs /\ cs.ret = "idle"
             \/ /\ cs.pc \in CompletePcs
                /\ up[cs.key].stage = "skip" \/ (up[cs.key].op = "Delete" /\ wk.batch)

\* The error path of every writer.  A failing startup leaves the process in
\* startup; the completion of an upload that was sent fails that upload; a
\* client only learns that its request was not acknowledged.
Abandon ==
    /\ cs' = NoWriter
    /\ wk' = IF EndsCycle /\ wk.pc # "boot" THEN Sleeping ELSE wk
    /\ gcq' = IF cs.pc \in GcPcs THEN [k \in Keys |-> 0] ELSE gcq
    /\ up' = IF EndsCycle THEN [k \in Keys |-> NoUpload]
             ELSE IF cs.pc \in CompletePcs THEN [up EXCEPT ![cs.key].stage = "failed"]
             ELSE up

RecoverRefused(k) ==
    /\ store[k] # intent[k]
    /\ (k \in Immutable /\ store[k] # None) \/ ~FitsQuota(k)

RecoverRefuse ==
    /\ cs.pc = "r_store" /\ RecoverRefused(cs.key)
    /\ Abandon
    /\ UNCHANGED <<files, backend, snap, rd, hist>>

RecoverStore ==
    /\ cs.pc = "r_store" /\ ~RecoverRefused(cs.key)
    /\ store' = [store EXCEPT ![cs.key] = intent[cs.key]]
    /\ cs' = [cs EXCEPT !.pc = "r_enqueue"]
    /\ UNCHANGED <<queue, intent, receipt, tomb, marks, backend, worker, rd, hist>>

RecoverEnqueue ==
    /\ cs.pc = "r_enqueue"
    /\ WriteQueueItem(cs.key, "Put", intent[cs.key])
    /\ cs' = [cs EXCEPT !.pc = "r_cancel"]
    /\ UNCHANGED <<store, intent, receipt, tomb, marks, backend, worker, rd, pub, faults>>

RecoverCancelGc ==
    /\ cs.pc = "r_cancel"
    /\ tomb' = [tomb EXCEPT ![cs.key] = NoTomb]
    /\ cs' = [cs EXCEPT !.pc = "r_unintent"]
    /\ UNCHANGED <<store, queue, intent, receipt, marks, backend, worker, rd, hist>>

RecoverRemoveIntent ==
    /\ cs.pc = "r_unintent"
    /\ intent' = [intent EXCEPT ![cs.key] = None]
    /\ cs' = IF cs.ret = "idle" THEN NoWriter ELSE [cs EXCEPT !.pc = cs.ret]
    /\ UNCHANGED <<store, queue, receipt, tomb, marks, backend, worker, rd, hist>>

\* recover_master_write_intents, at startup and at the head of a worker cycle.
\* The code holds the lock over the whole directory; here it is released
\* between two keys.
WorkerRecover(k) ==
    /\ wk.pc \in {"boot", "recover"} /\ LockFree
    /\ intent[k] # None
    /\ cs' = [NoWriter EXCEPT !.pc = "r_store", !.key = k]
    /\ UNCHANGED <<files, backend, worker, rd, hist>>

\* reconcile_legacy_backend_queue: an object an older version left in the
\* store without queue item or receipt is queued, unless it is deleted.  The
\* code makes the item conditional for the keys of priority 1, here for those
\* of Immutable, the same keys in the configurations.
Reconcile(k) ==
    /\ wk.pc = "boot" /\ LockFree /\ ~migrated
    /\ \A j \in Keys : intent[j] = None
    /\ store[k] # None /\ ~Queued(k) /\ receipt[k] = None /\ ~Tombstoned(k)
    /\ WriteQueueItem(k, "Put", store[k])
    /\ UNCHANGED <<store, intent, receipt, tomb, marks, backend, volatile, pub, faults>>

\* Fault: the marker is written before the legacy objects are queued.
ServeUnreconciled ==
    /\ wk.pc = "boot" /\ LockFree
    /\ \A k \in Keys : intent[k] = None
    /\ migrated' = TRUE
    /\ wk' = Sleeping
    /\ UNCHANGED <<store, queue, intent, receipt, tomb, flush, backend, cs, snap, up, gcq, rd, hist>>

\* Startup ends when no intent is left and the migration marker is written.
Serve ==
    /\ wk.pc = "boot" /\ LockFree
    /\ \A k \in Keys : intent[k] = None
    /\ migrated \/ \A k \in Keys :
          store[k] = None \/ Queued(k) \/ receipt[k] # None \/ Tombstoned(k)
    /\ migrated' = TRUE
    /\ wk' = Sleeping
    /\ UNCHANGED <<store, queue, intent, receipt, tomb, flush, backend, cs, snap, up, gcq, rd, hist>>

-----------------------------------------------------------------------------
(* run_backend_worker_once and drain_backend_queue *)

WorkerWake ==
    /\ wk.pc = "idle"
    /\ wk' = [Sleeping EXCEPT !.pc = "recover"]
    /\ UNCHANGED <<files, backend, cs, snap, up, gcq, rd, hist>>

\* The flush request is read once and decides the whole cycle.
WorkerRecovered ==
    /\ wk.pc = "recover" /\ LockFree
    /\ \A k \in Keys : intent[k] = None
    /\ wk' = [wk EXCEPT !.pc = "due", !.force = flush]
    /\ UNCHANGED <<files, backend, cs, snap, up, gcq, rd, hist>>

\* backend_flush_due: the oldest item's age or the queued bytes decide.  Time
\* and sizes are not modelled, so a non-empty queue may or may not be due.
WorkerNotDue ==
    /\ wk.pc = "due" /\ ~wk.force
    /\ wk' = [wk EXCEPT !.pc = "gc"]
    /\ UNCHANGED <<files, backend, cs, snap, up, gcq, rd, hist>>

WorkerDue ==
    /\ wk.pc = "due"
    /\ wk.force \/ \E k \in Keys : Queued(k)
    /\ wk' = [wk EXCEPT !.pc = "list"]
    /\ UNCHANGED <<files, backend, cs, snap, up, gcq, rd, hist>>

\* backend_queue_items: the directory is listed, then each file is read,
\* without the lock.  A file that vanished is skipped, a file replaced in the
\* meantime is read in its new state, a file created later is not seen.
ListQueue ==
    /\ wk.pc = "list"
    /\ wk' = [wk EXCEPT !.pc = "read", !.scan = {k \in Keys : Queued(k)},
                        !.listed = Len(enq)]
    /\ snap' = [k \in Keys |-> NoItem]
    /\ UNCHANGED <<files, backend, cs, up, gcq, rd, hist>>

ReadQueueItem(k) ==
    /\ wk.pc = "read" /\ k \in wk.scan
    /\ snap' = [snap EXCEPT ![k] = queue[k]]
    /\ wk' = [wk EXCEPT !.scan = @ \ {k}]
    /\ UNCHANGED <<files, backend, cs, up, gcq, rd, hist>>

PutHosts(items) == {HostOf[k] : k \in {j \in Keys : items[j].op = "Put"}}

\* Fault: an item waiting for its retry blocks nothing.
BlocksUnlessRetrying(items, k) ==
    IF items[k].op = "Delete" THEN HostOf[k] \in PutHosts(items)
    ELSE \E j \in Keys : /\ items[j].op = "Put" /\ HostOf[j] = HostOf[k]
                         /\ PriorityOf[j] < PriorityOf[k]
                         /\ items[j].gen <= items[k].gen /\ ~items[j].retry

\* BackendQueueDependencies::blocks, over the items that were read
Blocks(items, k) ==
    IF items[k].op = "Delete" THEN HostOf[k] \in PutHosts(items)
    ELSE \E j \in Keys : /\ items[j].op = "Put" /\ HostOf[j] = HostOf[k]
                         /\ PriorityOf[j] < PriorityOf[k]
                         /\ items[j].gen <= items[k].gen

\* initial_put_hosts comes from the first round's items.
InitialPutHosts == IF wk.first THEN PutHosts(snap) ELSE wk.hosts

Eligible ==
    {k \in Keys : /\ snap[k].op # "none" /\ ~Blocks(snap, k)
                  /\ snap[k].op = "Delete" => HostOf[k] \notin InitialPutHosts
                  /\ wk.force \/ ~snap[k].retry}

\* The first items in (priority, age, key) order, up to the limit; age and key
\* decide only among equals and are left open.
Selections ==
    LET room == MaxObjects - wk.count
    IN {s \in SUBSET Eligible :
          /\ Cardinality(s) =
                IF Cardinality(Eligible) <= room THEN Cardinality(Eligible) ELSE room
          /\ \A k \in s, j \in Eligible \ s : PriorityOf[k] <= PriorityOf[j]}

\* list_existing_conditional_backend_keys: the hosts whose prefix is listed
DedupeHosts(s) ==
    {h \in Hosts : LET c == {k \in s \cap Immutable : HostOf[k] = h /\ snap[k].op = "Put"}
                   IN c # {} /\ Cardinality(c) >= DedupeMin}

\* The LIST of k's host succeeded and shows the object.
AlreadyThere(k, hosts) == k \in Immutable /\ HostOf[k] \in hosts /\ backend[k] # None

\* Select the round's items.  hosts: those whose LIST succeeded; a conditional
\* PUT the LIST shows is completed without an upload.
SelectRound(s, hosts) ==
    /\ wk.pc = "read" /\ wk.scan = {}
    /\ s \in Selections /\ s # {}
    /\ hosts \subseteq DedupeHosts(s)
    /\ up' = [k \in Keys |->
          IF k \notin s THEN NoUpload
          ELSE [stage |-> IF snap[k].op = "Delete" THEN "wait"
                          ELSE IF AlreadyThere(k, hosts) THEN "skip" ELSE "ready",
                op |-> snap[k].op, val |-> snap[k].val, gen |-> snap[k].gen]]
    /\ wk' = [wk EXCEPT !.pc = "tier", !.tier = 1, !.first = FALSE,
                        !.hosts = InitialPutHosts, !.count = @ + Cardinality(s),
                        !.done = FALSE, !.err = FALSE]
    /\ UNCHANGED <<files, backend, cs, snap, gcq, rd, hist>>

NothingSelected ==
    /\ wk.pc = "read" /\ wk.scan = {}
    /\ Eligible = {}
    /\ wk' = [wk EXCEPT !.pc = "flushed"]
    /\ UNCHANGED <<files, backend, cs, snap, up, gcq, rd, hist>>

-----------------------------------------------------------------------------
(* upload_backend_queue_item.  The uploads of a tier run in parallel; the   *)
(* code runs them in chunks of the gate's concurrency, which only removes   *)
(* interleavings.                                                           *)

Running(k) ==
    \/ up[k].op = "Put" /\ wk.pc = "tier" /\ PriorityOf[k] = wk.tier
    \/ up[k].op = "Delete" /\ wk.pc = "deleting"

\* Fault: any item of the key is completed.
SameKey(k) == Queued(k)

SameGeneration(k) == Queued(k) /\ queue[k].gen = up[k].gen

\* Under the lock: the item is still the selected one, and the store still
\* holds the content it was queued for.  The items a tier skips go first;
\* individual DELETEs go one by one until one fails.
UploadCheck(k) ==
    /\ Running(k) /\ up[k].stage = "ready" /\ LockFree
    /\ \A j \in Keys : Running(j) => up[j].stage # "skip"
    /\ up[k].op = "Delete" =>
          /\ ~wk.err
          /\ \A j \in Keys : up[j].stage \in {"none", "ready"}
    /\ up' = IF ~SameGeneration(k) THEN [up EXCEPT ![k] = NoUpload]
             ELSE IF up[k].op = "Put" /\ store[k] # up[k].val
                  THEN [up EXCEPT ![k].stage = "failed"]
                  ELSE [up EXCEPT ![k].stage = "send"]
    /\ UNCHANGED <<files, backend, cs, wk, snap, gcq, rd, hist>>

\* The backend call: put_if_absent, put or delete.  The result of
\* put_if_absent is ignored.
ApplyToBackend(k) ==
    /\ backend' = [backend EXCEPT ![k] =
          IF up[k].op = "Delete" THEN None
          ELSE IF k \in Immutable /\ @ # None THEN @ ELSE up[k].val]
    /\ pub' = [pub EXCEPT ![k] = up[k].gen]

UploadSend(k) ==
    /\ Running(k) /\ up[k].stage = "send"
    /\ ApplyToBackend(k)
    /\ up' = [up EXCEPT ![k].stage = "sent"]
    /\ UNCHANGED <<files, cs, wk, snap, gcq, rd, enq, faults>>

\* Fault: the result of the call is dropped.
UploadErrorDropped(k) ==
    /\ Running(k) /\ up[k].stage = "send"
    /\ ApplyToBackend(k) \/ UNCHANGED <<backend, pub>>
    /\ up' = [up EXCEPT ![k].stage = "sent"]
    /\ UNCHANGED <<files, cs, wk, snap, gcq, rd, enq, faults>>

\* The call fails; the request may have been carried out all the same.
UploadError(k) ==
    /\ Running(k) /\ up[k].stage = "send"
    /\ ApplyToBackend(k) \/ UNCHANGED <<backend, pub>>
    /\ up' = [up EXCEPT ![k].stage = "failed"]
    /\ UNCHANGED <<files, cs, wk, snap, gcq, rd, enq, faults>>

\* complete_uploaded_backend_queue_item and
\* complete_backend_queue_item_without_upload: only the generation that was
\* uploaded may be completed.
UploadComplete(k) ==
    /\ Running(k) /\ up[k].stage \in {"sent", "skip"} /\ LockFree
    /\ IF SameGeneration(k)
       THEN /\ cs' = [NoWriter EXCEPT !.key = k,
                        !.pc = IF up[k].op = "Delete" THEN "c_retain" ELSE "c_receipt"]
            /\ UNCHANGED up
       ELSE /\ up' = [up EXCEPT ![k] = NoUpload]
            /\ UNCHANGED cs
    /\ UNCHANGED <<files, backend, wk, snap, gcq, rd, hist>>

\* Fault: the deleted bytes stay without a tombstone.
CompleteRetainUnmarked ==
    /\ cs.pc = "c_retain"
    /\ cs' = [cs EXCEPT !.pc = "c_receipt"]
    /\ UNCHANGED <<store, queue, intent, receipt, tomb, marks, backend, worker, rd, hist>>

\* retain_local_after_backend_delete: the deleted bytes are kept behind a
\* tombstone.
CompleteRetain ==
    /\ cs.pc = "c_retain"
    /\ tomb' = [tomb EXCEPT ![cs.key] =
          IF store[cs.key] = None THEN NoTomb
          ELSE [val |-> store[cs.key], gen |-> up[cs.key].gen, due |-> FALSE]]
    /\ cs' = [cs EXCEPT !.pc = "c_receipt"]
    /\ UNCHANGED <<store, queue, intent, receipt, marks, backend, worker, rd, hist>>

\* record_backend_put_receipt: written for a PUT, removed for a DELETE (whose
\* content is None).
CompleteReceipt ==
    /\ cs.pc = "c_receipt"
    /\ receipt' = [receipt EXCEPT ![cs.key] = up[cs.key].val]
    /\ pub' = [pub EXCEPT ![cs.key] = up[cs.key].gen]
    /\ cs' = [cs EXCEPT !.pc = "c_unqueue"]
    /\ UNCHANGED <<store, queue, intent, tomb, marks, backend, worker, rd, enq, faults>>

CompleteUnqueue ==
    /\ cs.pc = "c_unqueue"
    /\ queue' = [queue EXCEPT ![cs.key] = NoItem]
    /\ cs' = NoWriter
    /\ up' = [up EXCEPT ![cs.key] = NoUpload]
    /\ wk' = [wk EXCEPT !.done = TRUE]
    /\ UNCHANGED <<store, intent, receipt, tomb, marks, backend, snap, gcq, rd, hist>>

\* Fault: the failed item is written back over a newer one.
UploadFailedWritesBack(k) ==
    /\ Running(k) /\ up[k].stage = "failed" /\ LockFree
    /\ queue' = [queue EXCEPT ![k] = [op |-> up[k].op, val |-> up[k].val,
                                     gen |-> up[k].gen, retry |-> TRUE]]
    /\ up' = [up EXCEPT ![k] = NoUpload]
    /\ wk' = [wk EXCEPT !.err = TRUE]
    /\ UNCHANGED <<store, intent, receipt, tomb, marks, backend, cs, snap, gcq, rd, hist>>

\* record_backend_queue_failure: the item, if it is still the same, waits for
\* retry_after.
UploadFailed(k) ==
    /\ Running(k) /\ up[k].stage = "failed" /\ LockFree
    /\ queue' = IF SameGeneration(k) THEN [queue EXCEPT ![k].retry = TRUE] ELSE queue
    /\ up' = [up EXCEPT ![k] = NoUpload]
    /\ wk' = [wk EXCEPT !.err = TRUE]
    /\ UNCHANGED <<store, intent, receipt, tomb, marks, backend, cs, snap, gcq, rd, hist>>

\* retry_after passes.
RetryElapses(k) ==
    /\ queue[k].retry
    /\ queue' = [queue EXCEPT ![k].retry = FALSE]
    /\ UNCHANGED <<store, intent, receipt, tomb, marks, backend, volatile, hist>>

\* A tier is over when all its uploads are; an error ends the cycle before the
\* next tier and before the deletes.
NextTier ==
    /\ wk.pc = "tier" /\ LockFree
    /\ \A k \in Keys : Running(k) => up[k].stage = "none"
    /\ IF wk.err
       THEN wk' = Sleeping /\ up' = [k \in Keys |-> NoUpload]
       ELSE /\ wk' = IF wk.tier < 3 THEN [wk EXCEPT !.tier = @ + 1]
                     ELSE [wk EXCEPT !.pc = "deletes"]
            /\ UNCHANGED up
    /\ UNCHANGED <<files, backend, cs, snap, gcq, rd, hist>>

-----------------------------------------------------------------------------
(* upload_backend_delete_items *)

\* Under the lock: the hosts that have a PUT queued by now keep their deletes.
\* One batched call (batch) also checks the generations here, individual
\* calls check each one when its turn comes (UploadCheck).
DeleteBegin(batch) ==
    /\ wk.pc = "deletes" /\ LockFree
    /\ LET waiting == {k \in Keys : up[k].stage = "wait"}
       IN /\ batch => Cardinality(waiting) > 1
          /\ up' = [k \in Keys |->
                IF /\ k \in waiting /\ HostOf[k] \notin PutHosts(queue)
                   /\ batch => SameGeneration(k)
                THEN [up[k] EXCEPT !.stage = IF batch THEN "send" ELSE "ready"]
                ELSE NoUpload]
    /\ wk' = [wk EXCEPT !.pc = "deleting", !.batch = batch]
    /\ UNCHANGED <<files, backend, cs, snap, gcq, rd, hist>>

\* The round is over: an error ends the cycle, progress starts another round.
RoundEnd ==
    /\ wk.pc = "deleting" /\ LockFree
    /\ \A k \in Keys : up[k].stage \in {"none"} \cup IF wk.err THEN {"ready"} ELSE {}
    /\ up' = [k \in Keys |-> NoUpload]
    /\ wk' = IF wk.err THEN Sleeping
             ELSE IF wk.done /\ wk.count < MaxObjects THEN [wk EXCEPT !.pc = "list"]
             ELSE [wk EXCEPT !.pc = "flushed"]
    /\ UNCHANGED <<files, backend, cs, snap, gcq, rd, hist>>

\* After the drain: a forced cycle that finds the queue empty removes the
\* request.  Looking and removing are two steps.
FlushCheck ==
    /\ wk.pc = "flushed"
    /\ wk' = [wk EXCEPT !.pc = IF wk.force /\ \A k \in Keys : ~Queued(k)
                               THEN "unflush" ELSE "gc"]
    /\ UNCHANGED <<files, backend, cs, snap, up, gcq, rd, hist>>

RemoveFlushRequest ==
    /\ wk.pc = "unflush"
    /\ flush' = FALSE
    /\ wk' = [wk EXCEPT !.pc = "gc"]
    /\ UNCHANGED <<store, queue, intent, receipt, tomb, migrated, backend, cs, snap, up, gcq, rd, hist>>

\* cluster_flush_cmd
RequestFlush ==
    /\ WithFlush
    /\ ~flush
    /\ flush' = TRUE
    /\ UNCHANGED <<store, queue, intent, receipt, tomb, migrated, backend, volatile, hist>>

-----------------------------------------------------------------------------
(* run_local_gc *)

\* The retention period of a tombstone ends.
TombExpires(k) ==
    /\ Tombstoned(k) /\ ~tomb[k].due
    /\ tomb' = [tomb EXCEPT ![k].due = TRUE]
    /\ UNCHANGED <<store, queue, intent, receipt, marks, backend, volatile, hist>>

\* The due tombstones are copied from the catalog, without the durable lock.
GcCollect ==
    /\ wk.pc = "gc"
    /\ gcq' = [k \in Keys |-> IF tomb[k].due THEN tomb[k].gen ELSE 0]
    /\ wk' = [wk EXCEPT !.pc = "gcing"]
    /\ UNCHANGED <<files, backend, cs, snap, up, rd, hist>>

\* Under the lock the tombstone is read again: a tombstone that is gone, of
\* another generation or no longer due is passed over, and so is a key with
\* a queue item.
GcBegin(k) ==
    /\ wk.pc = "gcing" /\ LockFree /\ gcq[k] # 0
    /\ IF tomb[k].gen = gcq[k] /\ tomb[k].due /\ ~Queued(k)
       THEN cs' = [NoWriter EXCEPT !.pc = "g_store", !.key = k]
       ELSE UNCHANGED cs
    /\ gcq' = [gcq EXCEPT ![k] = 0]
    /\ UNCHANGED <<files, backend, wk, snap, up, rd, hist>>

\* The bytes go only if they are the ones that were deleted.
GcDeleteStore ==
    /\ cs.pc = "g_store"
    /\ store' = IF store[cs.key] = tomb[cs.key].val
                THEN [store EXCEPT ![cs.key] = None] ELSE store
    /\ cs' = [cs EXCEPT !.pc = "g_untomb"]
    /\ UNCHANGED <<queue, intent, receipt, tomb, marks, backend, worker, rd, hist>>

GcRemoveTomb ==
    /\ cs.pc = "g_untomb"
    /\ tomb' = [tomb EXCEPT ![cs.key] = NoTomb]
    /\ cs' = NoWriter
    /\ UNCHANGED <<store, queue, intent, receipt, marks, backend, worker, rd, hist>>

GcEnd ==
    /\ wk.pc = "gcing" /\ LockFree
    /\ \A k \in Keys : gcq[k] = 0
    /\ wk' = Sleeping
    /\ UNCHANGED <<files, backend, cs, snap, up, gcq, rd, hist>>

-----------------------------------------------------------------------------
(* master_get_optional: each file is read without the lock.  GetRange and   *)
(* Exists take the same steps and leave out the last.                       *)

Answer(v) == [rd EXCEPT !.pc = "done", !.val = v]

BeginGet(k) ==
    /\ Serving /\ rd.pc \in {"idle", "done"}
    /\ rd' = [pc |-> "queue", key |-> k, val |-> None]
    /\ UNCHANGED <<files, backend, cs, worker, hist>>

\* Fault: a queued DELETE does not hide the key.
GetReadQueueUnhidden ==
    /\ rd.pc = "queue"
    /\ rd' = [rd EXCEPT !.pc = "tomb"]
    /\ UNCHANGED <<files, backend, cs, worker, hist>>

GetReadQueue ==
    /\ rd.pc = "queue"
    /\ rd' = IF queue[rd.key].op = "Delete" THEN Answer(None)
             ELSE [rd EXCEPT !.pc = "tomb"]
    /\ UNCHANGED <<files, backend, cs, worker, hist>>

GetReadTomb ==
    /\ rd.pc = "tomb"
    /\ rd' = IF Tombstoned(rd.key) THEN Answer(None) ELSE [rd EXCEPT !.pc = "store"]
    /\ UNCHANGED <<files, backend, cs, worker, hist>>

GetReadStore ==
    /\ rd.pc = "store"
    /\ rd' = IF store[rd.key] # None THEN Answer(store[rd.key])
             ELSE [rd EXCEPT !.pc = "backend"]
    /\ UNCHANGED <<files, backend, cs, worker, hist>>

GetReadBackend ==
    /\ rd.pc = "backend"
    /\ rd' = IF backend[rd.key] = None THEN Answer(None)
             ELSE [rd EXCEPT !.pc = "hydrate", !.val = backend[rd.key]]
    /\ UNCHANGED <<files, backend, cs, worker, hist>>

\* Under the lock, the bytes from the backend fill an empty place in the store.
GetHydrate ==
    /\ rd.pc = "hydrate" /\ LockFree
    /\ store' = IF store[rd.key] = None /\ FitsQuota(rd.key)
                THEN [store EXCEPT ![rd.key] = rd.val] ELSE store
    /\ rd' = Answer(rd.val)
    /\ UNCHANGED <<queue, intent, receipt, tomb, marks, backend, cs, worker, hist>>

-----------------------------------------------------------------------------
(* Faults *)

\* The process stops at any point; what it had in memory is gone.
Crash ==
    /\ faults < MaxFaults
    /\ faults' = faults + 1
    /\ cs' = NoWriter /\ wk' = Booting /\ rd' = NoReader
    /\ snap' = [k \in Keys |-> NoItem]
    /\ up' = [k \in Keys |-> NoUpload]
    /\ gcq' = [k \in Keys |-> 0]
    /\ UNCHANGED <<files, backend, enq, pub>>

\* A write of the lock holder fails (disk full, I/O error).
WriteFails ==
    /\ faults < MaxFaults
    /\ cs.pc \in PutPcs \cup RecoverPcs \cup CompletePcs \cup GcPcs \cup {"d_enqueue"}
    /\ faults' = faults + 1
    /\ Abandon
    /\ UNCHANGED <<files, backend, snap, rd, enq, pub>>

\* The write that gives a failed item its retry_after fails: the cycle ends and
\* the results not yet looked at are dropped.
RetryMarkFails(k) ==
    /\ faults < MaxFaults
    /\ Running(k) /\ up[k].stage = "failed" /\ LockFree
    /\ \A j \in Keys : Running(j) =>
          \/ up[j].stage \in {"none", "ready", "failed"}
          \/ up[j].op = "Delete" /\ up[j].stage = "sent"
    /\ faults' = faults + 1
    /\ wk' = Sleeping /\ up' = [j \in Keys |-> NoUpload]
    /\ UNCHANGED <<files, backend, cs, snap, gcq, rd, enq, pub>>

-----------------------------------------------------------------------------

\* What an older version may leave behind: objects without queue or receipt.
Init ==
    /\ store \in [Keys -> InitStore]
    /\ backend \in [Keys -> InitBackend]
    /\ \A k \in Immutable : None \in {store[k], backend[k]} \/ store[k] = backend[k]
    /\ queue = [k \in Keys |-> NoItem]
    /\ intent = [k \in Keys |-> None]
    /\ receipt = [k \in Keys |-> None]
    /\ tomb = [k \in Keys |-> NoTomb]
    /\ flush = FALSE /\ migrated = FALSE
    /\ cs = NoWriter /\ wk = Booting /\ rd = NoReader
    /\ snap = [k \in Keys |-> NoItem]
    /\ up = [k \in Keys |-> NoUpload]
    /\ gcq = [k \in Keys |-> 0]
    /\ enq = <<>> /\ pub = [k \in Keys |-> 0]
    /\ seen = {} /\ stale = {} /\ faults = 0

Batches == UNION {[1..n -> Keys \X Vals] : n \in 1..MaxBatch}

Rpc ==
    \/ \E items \in Batches : BeginPut(items)
    \/ \E k \in Keys : BeginDelete(k)
    \/ RequestFlush

Locked ==
    \/ PutItem \/ PutStore \/ PutCancelGc \/ PutEnqueue \/ PutRemoveIntent \/ AckPut
    \/ DeleteEnqueue
    \/ RecoverRefuse \/ RecoverStore \/ RecoverEnqueue \/ RecoverCancelGc
    \/ RecoverRemoveIntent
    \/ CompleteRetain \/ CompleteReceipt \/ CompleteUnqueue
    \/ GcDeleteStore \/ GcRemoveTomb

Startup == (\E k \in Keys : WorkerRecover(k) \/ Reconcile(k)) \/ Serve

Drain ==
    \/ WorkerDue \/ ListQueue \/ NothingSelected \/ NextTier \/ RoundEnd
    \/ \E k \in Keys : ReadQueueItem(k) \/ UploadCheck(k) \/ UploadComplete(k)
                         \/ UploadFailed(k)
    \/ \E s \in SUBSET Keys, hosts \in SUBSET Hosts : SelectRound(s, hosts)
    \/ \E batch \in BOOLEAN : DeleteBegin(batch)

Cycle ==
    \/ WorkerWake \/ WorkerRecovered \/ WorkerNotDue
    \/ FlushCheck \/ RemoveFlushRequest
    \/ GcCollect \/ GcEnd \/ \E k \in Keys : GcBegin(k)

Backend == \E k \in Keys : UploadSend(k) \/ UploadError(k)

Time == \E k \in Keys : RetryElapses(k) \/ TombExpires(k)

Get ==
    \/ \E k \in Readable : BeginGet(k)
    \/ GetReadQueue \/ GetReadTomb \/ GetReadStore \/ GetReadBackend \/ GetHydrate

Step == Rpc \/ Locked \/ Startup \/ Drain \/ Cycle \/ Backend \/ Time \/ Get
        \/ Crash \/ WriteFails \/ \E k \in Keys : RetryMarkFails(k)

\* seen collects what the reader's key looks like while the read runs, and the
\* contents that unacknowledged PUTs are giving it.
Observe ==
    LET key == {k \in Keys : k = rd.key'}
        now == {Visible(k)' : k \in key} \cup {intent[k]' : k \in {j \in key : intent[j]' # None}}
    IN seen' = IF rd.pc' = "idle" THEN {}
               ELSE IF rd.pc \in {"idle", "done"} THEN IF rd.pc' = "queue" THEN now ELSE seen
               ELSE seen \cup now

\* A GET fills the store with bytes that the backend no longer holds.
LateFill(k) == /\ rd.pc = "hydrate" /\ rd.pc' = "done" /\ rd.key = k
               /\ store[k] = None /\ backend[k] # rd.val

\* Such bytes are on record until they are removed, or are those of a PUT.
Mark == stale' = {k \in Keys : (k \in stale \/ LateFill(k)) /\ store'[k] \notin {None, intent[k]}}

Next == Step /\ Observe /\ Mark

Spec == Init /\ [][Next]_vars

-----------------------------------------------------------------------------
(* Properties *)

\* Every variable keeps its type.
TypeOK ==
    /\ store \in [Keys -> Content] /\ backend \in [Keys -> Content]
    /\ intent \in [Keys -> Content] /\ receipt \in [Keys -> Content]
    /\ queue \in [Keys -> Item] /\ snap \in [Keys -> Item]
    /\ tomb \in [Keys -> Tomb] /\ gcq \in [Keys -> Nat]
    /\ up \in [Keys -> Upload]
    /\ flush \in BOOLEAN /\ migrated \in BOOLEAN
    /\ cs \in Writer /\ wk \in Worker /\ rd \in Reader
    /\ enq \in Seq([key : Keys, op : {"Put", "Delete"}])
    /\ pub \in [Keys -> Nat]
    /\ seen \subseteq Content /\ stale \subseteq Keys /\ faults \in Nat

\* The master implements the service a slave relies on (module ObjectService).  What
\* a slave would read under a key changes only to the content of a PUT whose intent
\* is on disk, or to nothing by a DELETE being queued, and an intent goes only when
\* its content can be read: replaying intents, completing uploads, hiding, retaining
\* and collecting deleted bytes, crashes and failed writes never show, hide or lose
\* anything else.  Only keys that a late read has filled are excepted.
Service == INSTANCE ObjectService WITH
    shown <- [k \in Keys |-> Visible(k)], offered <- intent, late <- stale,
    reading <- {k \in Keys : rd.key = k /\ rd.pc \notin {"idle", "done"}}

ServiceSpec == Service!Spec

\* When process_puts answers master_durable, every object of the batch is what a
\* GET returns, and is queued for the backend or already there; the last item
\* counts where a batch names a key twice.
AckedIsDurable ==
    (cs.pc = "put" /\ cs.items = <<>>) =>
        \A i \in DOMAIN cs.done :
            LET k == cs.done[i][1]
                v == cs.done[i][2]
            IN \/ \E j \in DOMAIN cs.done : j > i /\ cs.done[j][1] = k
               \/ /\ Visible(k) = v /\ store[k] = v
                  /\ \/ queue[k].op = "Put" /\ queue[k].val = v
                     \/ receipt[k] = v

\* An object the master serves from its store is on its way to the backend or
\* there: no crash or failed write between the writes of process_puts, replay and
\* completion leaves live bytes that nothing would ever back up.  Bytes that a late
\* read has put there (stale) are the exception.
LiveIsProtected ==
    (migrated /\ Serving) =>
        \A k \in Keys :
            (store[k] # None /\ ~Deleted(k) /\ intent[k] = None /\ k \notin stale) =>
                \/ queue[k].op = "Put" /\ queue[k].val = store[k]
                \/ backend[k] = store[k]
                \/ k \in Immutable /\ backend[k] # None

\* What BackendCommitted confirms to a slave is in the backend, byte for byte for
\* a mutable key; under an immutable key the backend keeps the object it had.
CommittedIsInBackend ==
    \A k \in Keys : Committed(k) =>
        /\ backend[k] # None
        /\ k \notin Immutable => backend[k] = store[k]

\* A lock-free GET answers with something the key looked like while it ran, or was
\* being given by a PUT under way, in whatever order the worker, the local GC and
\* other clients move the files it reads one after the other.
GetIsRegular == rd.pc = "done" => rd.val \in seen

\* A key that reads as absent is shown again only by a PUT: the doc has a deleted
\* key hidden from GET, Exists and List at once, and nothing but a new PUT brings
\* it back.
HiddenStaysHidden ==
    [][\A k \in Keys : Visible(k) = None /\ intent[k] = None => Visible(k)' = None]_vars

\* The PUTs of k's host that go to a lower tier than k and were queued before
\* k's uploading item: pairs of a key and its position in enq.
Precursors(k) ==
    {p \in Keys \X (1..Len(enq)) :
        /\ HostOf[p[1]] = HostOf[k] /\ PriorityOf[p[1]] < PriorityOf[k]
        /\ p[2] < up[k].gen /\ enq[p[2]] = [key |-> p[1], op |-> "Put"]}

Rewritten(p) == \E g \in DOMAIN enq : g > p[2] /\ enq[g].key = p[1]
Publishes(k) == up[k].op = "Put" /\ pub'[k] # pub[k]

\* When the backend receives an object that was queued before the round listed
\* the queue, it already holds everything of a lower tier that the same host
\* queued earlier and did not rewrite since: failed uploads, retries, the
\* selection limit, crashes and requests served meanwhile let no ref overtake
\* the content it was acknowledged after.
RefsFollowStep ==
    \A k \in Keys : Publishes(k) /\ up[k].gen <= wk.listed =>
        \A p \in Precursors(k) : pub[p[1]] >= p[2] \/ Rewritten(p)
RefsFollowContent == [][RefsFollowStep]_vars

-----------------------------------------------------------------------------
(* Liveness.  The worker thread loops for ever, a thread waiting for the    *)
(* durable lock gets it, time passes (an item becomes due, retry_after      *)
(* passes), and a backend call that is repeated for ever succeeds at last.  *)

Fairness ==
    /\ WF_vars(Next /\ Locked) /\ SF_vars(Next /\ Startup)
    /\ SF_vars(Next /\ Drain) /\ SF_vars(Next /\ Cycle)
    /\ SF_vars(Next /\ WorkerDue)
    /\ \A k \in Keys : /\ SF_vars(Next /\ UploadSend(k))
                       /\ WF_vars(Next /\ RetryElapses(k))
                       /\ WF_vars(Next /\ TombExpires(k))

FairSpec == Spec /\ Fairness

\* Once the slaves stop writing, the queue and the intents empty for good: every
\* acknowledged write reaches the backend, whatever failed or crashed before.
BacklogDrains == <>[](\A k \in Keys : ~Queued(k) /\ intent[k] = None)

\* The same for the queue alone: a store over its quota stops neither reads nor
\* the draining of the backlog.
QueueDrains == <>[](\A k \in Keys : ~Queued(k))
=============================================================================
