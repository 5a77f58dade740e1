---------------------- MODULE ClusterMasterInvariants ----------------------
(* The inductive invariants of ClusterMaster: what its safety properties rest  *)
(* on between any two of its file writes.                                      *)
EXTENDS ClusterMaster

-----------------------------------------------------------------------------
(* Types *)

\* The types of ClusterMaster without the history variables seen and stale.
StateTypes ==
    /\ store \in [Keys -> Content] /\ backend \in [Keys -> Content]
    /\ intent \in [Keys -> Content] /\ receipt \in [Keys -> Content]
    /\ queue \in [Keys -> Item] /\ snap \in [Keys -> Item]
    /\ tomb \in [Keys -> Tomb] /\ gcq \in [Keys -> Nat]
    /\ up \in [Keys -> Upload]
    /\ flush \in BOOLEAN /\ migrated \in BOOLEAN
    /\ cs \in Writer /\ wk \in Worker /\ rd \in Reader
    /\ enq \in Seq([key : Keys, op : {"Put", "Delete"}])
    /\ pub \in [Keys -> Nat]
    /\ faults \in Nat

\* The writer works on a key, and a PUT on the head of its batch.
WriterOK ==
    /\ cs.pc \in PutPcs => cs.items # <<>>
    /\ cs.pc \notin {"idle", "put"} => cs.key \in Keys

-----------------------------------------------------------------------------
(* Receipts and uploads *)

\* The backend holds what the receipt of k says: the same bytes for a mutable
\* key, some object for an immutable one.
Holds(k, v) == backend[k] # None /\ (k \notin Immutable => backend[k] = v)

\* The copies the worker takes agree with the queue file as long as the
\* generation is the same.
Agrees(k, copy) ==
    /\ copy.gen <= Len(enq)
    /\ copy.op = "Delete" => copy.val = None
    /\ (copy.op # "none" /\ Queued(k) /\ queue[k].gen = copy.gen) =>
          queue[k].op = copy.op /\ queue[k].val = copy.val

\* What makes CommittedIsInBackend inductive.  Per key: the worker's copies agree
\* with the queue, an upload that was sent (or skipped) reached the backend, and
\* a receipt without a queue item is true.
ItemInv(k) ==
    /\ queue[k].gen <= Len(enq)
    /\ queue[k].op = "Delete" => queue[k].val = None

StageInv(k) ==
    /\ up[k].stage # "none" => up[k].op # "none"
    /\ up[k].stage = "send" => Queued(k)
    /\ up[k].stage = "skip" => k \in Immutable /\ up[k].op = "Put"

HeldInv(k) ==
    /\ (up[k].stage = "sent" /\ up[k].val # None /\ SameGeneration(k)) => Holds(k, up[k].val)
    /\ (up[k].stage = "skip" /\ SameGeneration(k)) => Holds(k, up[k].val)
    /\ (~Queued(k) /\ receipt[k] # None) => Holds(k, receipt[k])

KeyInv(k) == ItemInv(k) /\ Agrees(k, snap[k]) /\ Agrees(k, up[k]) /\ StageInv(k) /\ HeldInv(k)

\* The writer that completes an upload: the item in the queue is the one that
\* was uploaded, and the receipt is written before the item goes.
CompletionInv ==
    cs.pc \in CompletePcs =>
        /\ cs.key \in Keys /\ wk.pc \in {"tier", "deleting"}
        /\ up[cs.key].stage \in {"sent", "skip"} /\ SameGeneration(cs.key)
        /\ cs.pc = "c_unqueue" => receipt[cs.key] = up[cs.key].val

ReceiptInv == (\A k \in Keys : KeyInv(k)) /\ CompletionInv

-----------------------------------------------------------------------------
(* Durable writes *)

\* The writers between the store write and the end of a PUT or of a replay.
Stored == {"p_cancel", "p_enqueue", "p_unintent", "r_enqueue", "r_cancel", "r_unintent"}

\* What the writer has made true of its key by the time it is at cs.pc.
LockInv ==
    LET k == cs.key
    IN /\ cs.pc \in PutPcs \cup RecoverPcs => intent[k] # None
       /\ cs.pc \in PutPcs => Head(cs.items) = <<k, intent[k]>>
       /\ cs.pc \in Stored => store[k] = intent[k]
       /\ cs.pc \in {"p_enqueue", "p_unintent", "r_unintent"} => ~Tombstoned(k)
       /\ cs.pc \in {"p_unintent", "r_cancel", "r_unintent"} =>
             queue[k].op = "Put" /\ queue[k].val = intent[k]
       /\ cs.pc = "d_enqueue" => intent[k] = None
       /\ cs.pc = "c_retain" => up[k].op = "Delete"
       /\ (cs.pc \in {"c_receipt", "c_unqueue"} /\ up[k].op = "Delete") =>
             store[k] = None \/ Tombstoned(k)
       /\ cs.pc \in GcPcs => Tombstoned(k) /\ ~Queued(k)
       /\ cs.pc = "g_untomb" => store[k] = None \/ store[k] # tomb[k].val

\* The worker has uploads only while it drains, each of an item it has read, and
\* a DELETE that was sent has emptied the backend.
UploadInv(k) ==
    /\ wk.pc \notin {"tier", "deletes", "deleting"} => up[k] = NoUpload
    /\ up[k].stage = "wait" => up[k].op = "Delete"
    /\ up[k].op # "none" => snap[k].op = up[k].op
    /\ (up[k].op = "Delete" /\ up[k].stage = "sent") => backend[k] = None

\* A queued PUT, or the worker's copy of one, never meets the tombstone of an
\* earlier DELETE unless the same content is being put again.
IsPut(k, copy) == copy.val # None /\ (Tombstoned(k) => intent[k] = copy.val)

PutInv(k) ==
    /\ queue[k].op = "Put" =>
          /\ IsPut(k, queue[k]) /\ store[k] # None
          /\ store[k] = queue[k].val \/ store[k] = intent[k]
    /\ snap[k].op = "Put" => IsPut(k, snap[k])
    /\ up[k].op = "Put" => IsPut(k, up[k])

\* Behind a tombstone are the bytes that were deleted, or those of a PUT under way.
TombInv(k) ==
    Tombstoned(k) =>
        /\ backend[k] \in {None, intent[k]}
        /\ k \notin stale => store[k] \in {None, tomb[k].val, intent[k]}

\* Live bytes without a queue item are known to be in the backend, or wait for the
\* reconciliation of an older version's store.
LiveInv(k) ==
    (k \notin stale /\ store[k] # None /\ ~Queued(k) /\ ~Tombstoned(k) /\ intent[k] = None) =>
        \/ receipt[k] = store[k] \/ backend[k] = store[k]
        \/ receipt[k] = None /\ ~migrated

KeyDur(k) == PutInv(k) /\ TombInv(k) /\ LiveInv(k)

\* What a reader is about to put into the store came from the backend.
ReaderInv == rd.pc = "hydrate" => rd.val # None

DurInv ==
    /\ LockInv
    /\ \A k \in Keys : UploadInv(k)
    /\ \A k \in Keys : KeyDur(k)
    /\ ReaderInv

\* An object of the running batch that process_puts is done with.
Safe(k, v) ==
    /\ intent[k] = None /\ store[k] = v /\ ~Deleted(k)
    /\ (queue[k].op = "Put" /\ queue[k].val = v) \/ receipt[k] = v

\* Every object of the batch that is done stays so while the lock is held, unless a
\* later item of the batch names the same key.
BatchInv ==
    /\ \/ cs.done = <<>>
       \/ cs.pc \in {"put"} \cup PutPcs \/ (cs.pc \in RecoverPcs /\ cs.ret = "put")
    /\ \A i \in DOMAIN cs.done :
          \/ \E j \in DOMAIN cs.done : j > i /\ cs.done[j][1] = cs.done[i][1]
          \/ cs.pc \in PutPcs /\ cs.key = cs.done[i][1]
          \/ Safe(cs.done[i][1], cs.done[i][2])

-----------------------------------------------------------------------------
(* The lock-free GET *)

\* A PUT under way has its bytes in the store.
SendInv(k) == (up[k].op = "Put" /\ up[k].stage = "send") => store[k] # None

\* What the next file the reader looks at may hold; the reader has passed the files
\* before it.  Passed the queue file:
PastQueue(k) ==
    Tombstoned(k) \/ (store[k] \in seen \cup {None} /\ (store[k] # None \/ backend[k] \in seen \cup {None}))

\* Passed the tombstone:
PastTomb(k) == store[k] \in seen \cup {None} /\ (store[k] # None \/ backend[k] \in seen \cup {None})

\* Passed the store, where it found nothing.  What can still reach the backend is on
\* record, and the backend is empty only if the reader may answer so.
PastStore(k) ==
    /\ backend[k] \in seen \cup {None}
    /\ queue[k].op = "Put" => queue[k].val \in seen
    /\ (up[k].op = "Put" /\ up[k].stage = "send") => up[k].val \in seen
    /\ \/ None \in seen
       \/ /\ backend[k] # None /\ queue[k].op # "Delete"
          /\ ~(up[k].op = "Delete" /\ up[k].stage = "send")

\* The reader of k, whatever it is at.
Watches(k) ==
    /\ Visible(k) \in seen
    /\ intent[k] # None => intent[k] \in seen
    /\ wk.pc # "boot"

ReadInv ==
    /\ \A k \in Keys : SendInv(k)
    /\ rd.pc = "done" => rd.val \in seen
    /\ \A k \in Keys : (rd.pc \notin {"idle", "done"} /\ rd.key = k) =>
          /\ Watches(k)
          /\ rd.pc = "tomb" => PastQueue(k)
          /\ rd.pc = "store" => PastTomb(k)
          /\ rd.pc = "backend" => PastStore(k)
          /\ rd.pc = "hydrate" => rd.val \in seen
=============================================================================
