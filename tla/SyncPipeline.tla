---------------------------- MODULE SyncPipeline ----------------------------
(***************************************************************************)
(* mj sync of one host: sync_configured_remote and enqueue_and_drain_sync  *)
(* of src/src/sync_runtime.rs with the persistent upload queue of          *)
(* src/src/queue_runtime.rs, to a directory or S3 or through the cluster   *)
(* master.                                                                 *)
(*                                                                         *)
(* A sync holds the sync lock and the maintenance lock, so that one sync   *)
(* at a time runs, and no snapshot beside it.  It enqueues and drains the  *)
(* event journal first, then metadata, content and refs.  The contents of  *)
(* a key are its versions 1, 2, ...; 0 is none.                            *)
(***************************************************************************)
EXTENDS Naturals, FiniteSets

CONSTANTS
    Keys,
    Journal,    \* keys of journal events, each for the record and the payload of
                \* the event; the others are metadata, content and refs
    PriorityOf, \* upload_publish_priority: 1 content, 2 metadata, 3 refs
    Inline,     \* keys whose bytes are put into a payload file; the others are
                \* uploaded from local object files
    Cached,     \* keys compared with the sync cache before they are enqueued
    Immutable,  \* content-addressed keys, with one version
    AliasOf,    \* a key whose presence makes an upload of k superfluous, or k
    Needs,      \* content that the later versions of a key refer to
    Recurring,  \* keys that may go back to an earlier version
    Par,        \* uploads in parallel, objects of a batch
    MaxVer,     \* bound: versions of a key
    MaxAborts   \* bound: syncs that are killed or end in an unexpected failure

ASSUME ConstantsAssumption ==
    /\ PriorityOf \in [Keys -> 1..3] /\ AliasOf \in [Keys -> Keys]
    /\ Needs \in [Keys -> SUBSET (Keys \ Inline)]
    /\ Journal \subseteq Keys /\ Journal \subseteq Immutable
    /\ Inline \subseteq Keys /\ Cached \subseteq Keys
    /\ Immutable \subseteq Keys /\ Recurring \subseteq Keys \ Immutable
    /\ Keys \ Inline \subseteq Immutable
    /\ Par \in Nat \ {0} /\ MaxVer \in Nat \ {0} /\ MaxAborts \in Nat

VARIABLES
    want,    \* local state: the version of each key
    item,    \* the queue item of each key: none, due or delayed by a retry
    payload, \* payload files
    remote,  \* objects in the remote
    cache,   \* remote-sync.json: the versions of the last successful sync
    acked,   \* journal keys acknowledged
    master,  \* whether the remote is the cluster master
    sy,      \* the sync: where it is, its phase, an upload has failed
    todo,    \* keys still to enqueue or to upload
    up,      \* the stage of each key in the sync
    aborts

queue == <<item, payload>>
vars == <<want, queue, remote, cache, acked, master, sy, todo, up, aborts>>

Versions == 0..MaxVer
Queued == {k \in Keys : item[k] # "none"}
At(s) == {k \in Keys : up[k] = s}
Quiet == \A k \in Keys : up[k] = "none"

\* The bytes an upload reads; 0 if the payload file is gone.
Source(k) == IF k \in Inline THEN payload[k] ELSE want[k]

\* Fault: the order of the keys alone
LowestAny(S) == S

\* The queued keys that come next: every priority before the following ones
Lowest(S) == {k \in S : \A j \in S : PriorityOf[k] <= PriorityOf[j]}

Stage(k, s) == up' = [up EXCEPT ![k] = s]
Goto(pc) == sy' = [sy EXCEPT !.pc = pc]

-----------------------------------------------------------------------------
(* Local changes and the beginning of a sync *)

\* A snapshot, which stores its content first, a switch of branches or a new
\* configuration, between two syncs.
LocalChange(k, v) ==
    /\ sy.pc = "idle" /\ v # want[k] /\ v # 0
    /\ k \in Immutable => v = 1
    /\ k \in Recurring \/ v = want[k] + 1
    /\ v > 1 => \A x \in Needs[k] : want[x] # 0
    /\ want' = [want EXCEPT ![k] = v]
    /\ UNCHANGED <<queue, remote, cache, acked, master, sy, todo, up, aborts>>

\* mj sync; the journal events that are not acknowledged are enqueued first.
Start ==
    /\ sy.pc = "idle"
    /\ sy' = [pc |-> "enqueue", phase |-> 1, err |-> FALSE]
    /\ todo' = {k \in Journal \ acked : want[k] # 0}
    /\ UNCHANGED <<want, queue, remote, cache, acked, master, up, aborts>>

\* sync_current_if_remote waits for the retry times.
AutoStart == Start /\ \A k \in Keys : item[k] # "delayed"

-----------------------------------------------------------------------------
(* Enqueueing *)

WritePayload(k) ==
    /\ sy.pc = "enqueue" /\ k \in todo \cap Inline /\ Quiet
    /\ payload' = [payload EXCEPT ![k] = want[k]]
    /\ Stage(k, "staged")
    /\ UNCHANGED <<want, item, remote, cache, acked, master, sy, todo, aborts>>

\* Metadata and refs are enqueued before the content.
MetadataQueued == todo \cap Inline = {}

\* write_upload_item keeps the retry state of an item that is there.
WriteItem(k) ==
    /\ sy.pc = "enqueue" /\ k \in todo
    /\ IF k \in Inline THEN up[k] = "staged" ELSE MetadataQueued
    /\ item' = [item EXCEPT ![k] = IF @ = "none" THEN "due" ELSE @]
    /\ todo' = todo \ {k}
    /\ Stage(k, "none")
    /\ UNCHANGED <<want, payload, remote, cache, acked, master, sy, aborts>>

StartDrain ==
    /\ sy.pc = "enqueue" /\ todo = {}
    /\ Goto("drain")
    /\ todo' = Queued
    /\ UNCHANGED <<want, queue, remote, cache, acked, master, up, aborts>>

-----------------------------------------------------------------------------
(* drain_upload_queue, to a directory or S3 *)

\* The next uploads of the lowest priority, in parallel.
TakeChunk(chunk) ==
    /\ sy.pc = "drain" /\ ~master /\ ~sy.err /\ Quiet
    /\ chunk # {} /\ chunk \subseteq Lowest(todo)
    /\ Cardinality(chunk) = Par \/ chunk = Lowest(todo)
    /\ up' = [k \in Keys |-> IF k \in chunk THEN "ready" ELSE up[k]]
    /\ todo' = todo \ chunk
    /\ UNCHANGED <<want, queue, remote, cache, acked, master, sy, aborts>>

\* queued_upload_can_be_skipped
Skippable(k) == AliasOf[k] # k /\ remote[AliasOf[k]] # 0

Skip(k) ==
    /\ ~master /\ up[k] = "ready" /\ Skippable(k)
    /\ item' = [item EXCEPT ![k] = "none"]
    /\ payload' = [payload EXCEPT ![k] = 0]
    /\ Stage(k, "none")
    /\ UNCHANGED <<want, remote, cache, acked, master, sy, todo, aborts>>

\* The effect of a PUT of the keys in S, conditional for content-addressed ones
Put(S) == [k \in Keys |-> IF k \in S /\ ~(k \in Immutable /\ remote[k] # 0)
                          THEN Source(k) ELSE remote[k]]

\* Also when the alias is there and the remote fails to say so
Upload(k) ==
    /\ ~master /\ up[k] = "ready" /\ Source(k) # 0
    /\ remote' = Put({k})
    /\ Stage(k, "sent")
    /\ UNCHANGED <<want, queue, cache, acked, master, sy, todo, aborts>>

\* The source is gone, or the call fails with or without an effect.
UploadFails(k) ==
    /\ ~master /\ up[k] = "ready"
    /\ remote' = remote \/ (Source(k) # 0 /\ remote' = Put({k}))
    /\ Stage(k, "failed")
    /\ UNCHANGED <<want, queue, cache, acked, master, sy, todo, aborts>>

-----------------------------------------------------------------------------
(* drain_upload_queue_via_master *)

Collecting == sy.pc = "drain" /\ master /\ ~sy.err /\ \A k \in Keys : up[k] \in {"none", "ready"}
Full == Cardinality(At("ready")) >= Par

Collect(k) ==
    /\ Collecting /\ ~Full /\ k \in Lowest(todo) /\ Source(k) # 0
    /\ Stage(k, "ready")
    /\ todo' = todo \ {k}
    /\ UNCHANGED <<want, queue, remote, cache, acked, master, sy, aborts>>

\* An item whose source cannot be read ends the drain; what was collected is
\* not sent.
SourceGone(k) ==
    /\ Collecting /\ k \in Lowest(todo) /\ Source(k) = 0
    /\ Goto("idle")
    /\ todo' = {} /\ up' = [j \in Keys |-> "none"]
    /\ UNCHANGED <<want, queue, remote, cache, acked, master, aborts>>

\* The batch is full and the next item was read, or nothing is left.
BatchComplete ==
    /\ Collecting /\ At("ready") # {}
    /\ todo = {} \/ (Full /\ \E k \in Lowest(todo) : Source(k) # 0)

Move(from, to) == up' = [k \in Keys |-> IF up[k] = from THEN to ELSE up[k]]

SendBatch ==
    /\ BatchComplete
    /\ remote' = Put(At("ready"))
    /\ Move("ready", "sent")
    /\ UNCHANGED <<want, queue, cache, acked, master, sy, todo, aborts>>

\* The master applied none, some or all of the batch, in its order.
SendFails ==
    /\ BatchComplete
    /\ \E S \in SUBSET At("ready") :
         /\ \A k \in S, j \in At("ready") : PriorityOf[j] < PriorityOf[k] => j \in S
         /\ remote' = Put(S)
    /\ Move("ready", "failed")
    /\ UNCHANGED <<want, queue, cache, acked, master, sy, todo, aborts>>

-----------------------------------------------------------------------------
(* After an upload *)

RemovePayload(k) ==
    /\ up[k] = "sent"
    /\ payload' = [payload EXCEPT ![k] = 0]
    /\ Stage(k, "bare")
    /\ UNCHANGED <<want, item, remote, cache, acked, master, sy, todo, aborts>>

RemoveItem(k) ==
    /\ up[k] = "bare"
    /\ item' = [item EXCEPT ![k] = "none"]
    /\ Stage(k, "none")
    /\ UNCHANGED <<want, payload, remote, cache, acked, master, sy, todo, aborts>>

\* record_attempt: the item waits for its retry time, and the drain fails.
RecordAttempt(k) ==
    /\ up[k] = "failed"
    /\ item' = [item EXCEPT ![k] = "delayed"]
    /\ sy' = [sy EXCEPT !.err = TRUE]
    /\ Stage(k, "none")
    /\ UNCHANGED <<want, payload, remote, cache, acked, master, todo, aborts>>

DrainFails ==
    /\ sy.pc = "drain" /\ sy.err /\ Quiet
    /\ Goto("idle") /\ todo' = {}
    /\ UNCHANGED <<want, queue, remote, cache, acked, master, up, aborts>>

\* Fault: only items with a payload file come back
RetryElapsesPayload(k) ==
    /\ item[k] = "delayed" /\ sy.pc = "idle" /\ k \in Inline
    /\ item' = [item EXCEPT ![k] = "due"]
    /\ UNCHANGED <<want, payload, remote, cache, acked, master, sy, todo, up, aborts>>

RetryElapses(k) ==
    /\ item[k] = "delayed" /\ sy.pc = "idle"
    /\ item' = [item EXCEPT ![k] = "due"]
    /\ UNCHANGED <<want, payload, remote, cache, acked, master, sy, todo, up, aborts>>

-----------------------------------------------------------------------------
(* Between the phases *)

Drained == sy.pc = "drain" /\ ~sy.err /\ todo = {} /\ Quiet

\* acknowledge_remote_event_journal_uploads
Acknowledge == acked' = acked \cup {k \in Journal : remote[k] # 0}

\* The state fingerprint of the cache
Unchanged == \A k \in Keys \ Journal : cache[k] = want[k]

\* What the second phase enqueues: not what the cache has, nor content that the
\* queue or the remote has.  The remote may fail to say so.
Needed(k, listed) ==
    /\ want[k] # 0
    /\ k \in Cached => cache[k] # want[k]
    /\ k \in Immutable => item[k] = "none" /\ (listed => remote[k] = 0)

\* Fault: the cache is written before the uploads are enqueued
JournalDoneCached ==
    /\ Drained /\ sy.phase = 1
    /\ Acknowledge
    /\ \/ Queued = {} /\ Unchanged /\ Goto("done") /\ todo' = {}
       \/ /\ sy' = [pc |-> "enqueue", phase |-> 2, err |-> FALSE]
          /\ \E listed \in BOOLEAN : todo' = {k \in Keys \ Journal : Needed(k, listed)}
    /\ cache' = want
    /\ UNCHANGED <<want, queue, remote, master, up, aborts>>

\* The journal is out.  When nothing has changed since the last successful sync,
\* this one is done, unless the remote is due for a prune.
JournalDone ==
    /\ Drained /\ sy.phase = 1
    /\ Acknowledge
    /\ \/ Queued = {} /\ Unchanged /\ Goto("done") /\ todo' = {}
       \/ /\ sy' = [pc |-> "enqueue", phase |-> 2, err |-> FALSE]
          /\ \E listed \in BOOLEAN : todo' = {k \in Keys \ Journal : Needed(k, listed)}
    /\ UNCHANGED <<want, queue, remote, cache, master, up, aborts>>

\* Everything is out; write_remote_sync_cache.  A prune after it may still fail.
Finish ==
    /\ Drained /\ sy.phase = 2
    /\ Acknowledge
    /\ cache' = want
    /\ Goto("done") \/ Goto("idle")
    /\ UNCHANGED <<want, queue, remote, master, todo, up, aborts>>

\* A step between the drains or before the cache is written fails: export,
\* listing, acknowledgement, size summary, journal compaction.
SyncFails ==
    /\ Drained
    /\ Goto("idle")
    /\ UNCHANGED <<want, queue, remote, cache, acked, master, todo, up, aborts>>

\* The command reports success.
Return ==
    /\ sy.pc = "done"
    /\ Goto("idle")
    /\ UNCHANGED <<want, queue, remote, cache, acked, master, todo, up, aborts>>

\* The process is killed, or an operation on local files or a read of an object
\* fails and ends the sync; the files stay as they are.
Abort ==
    /\ sy.pc # "idle" /\ aborts < MaxAborts
    /\ aborts' = aborts + 1
    /\ Goto("idle") /\ todo' = {} /\ up' = [k \in Keys |-> "none"]
    /\ UNCHANGED <<want, queue, remote, cache, acked, master>>

-----------------------------------------------------------------------------

Init ==
    /\ want = [k \in Keys |-> IF k \in Immutable THEN 0 ELSE 1]
    /\ item = [k \in Keys |-> "none"] /\ payload = [k \in Keys |-> 0]
    /\ remote = [k \in Keys |-> 0] /\ cache = [k \in Keys |-> 0]
    /\ acked = {} /\ master \in BOOLEAN
    /\ sy = [pc |-> "idle", phase |-> 1, err |-> FALSE]
    /\ todo = {} /\ up = [k \in Keys |-> "none"] /\ aborts = 0

\* The steps of a sync that no failure causes
Proceed ==
    \/ \E k \in Keys : \/ WritePayload(k) \/ WriteItem(k) \/ Skip(k) \/ Collect(k)
                        \/ SourceGone(k) \/ RemovePayload(k) \/ RemoveItem(k) \/ RecordAttempt(k)
    \/ \E chunk \in SUBSET Keys : TakeChunk(chunk)
    \/ StartDrain \/ DrainFails \/ Return

Attempt ==
    \/ \E k \in Keys : Upload(k) \/ UploadFails(k)
    \/ SendBatch \/ SendFails \/ JournalDone \/ Finish \/ SyncFails

Next ==
    \/ \E k \in Keys : RetryElapses(k) \/ \E v \in Versions : LocalChange(k, v)
    \/ Start \/ Proceed \/ Attempt \/ Abort

Spec == Init /\ [][Next]_vars

\* A sync that runs goes on, watch and retry scheduler start the next one, retry
\* times pass, and what is tried again and again succeeds at last.
Fairness ==
    /\ WF_vars(Proceed) /\ WF_vars(Attempt) /\ WF_vars(AutoStart)
    /\ SF_vars(JournalDone) /\ SF_vars(SendBatch)
    /\ \A k \in Keys : SF_vars(Upload(k)) /\ WF_vars(RetryElapses(k))

FairSpec == Spec /\ Fairness

-----------------------------------------------------------------------------
(* Properties *)

Stages == {"none", "staged", "ready", "sent", "bare", "failed"}

\* Every variable keeps its type.
TypeOK ==
    /\ want \in [Keys -> Versions] /\ payload \in [Keys -> Versions]
    /\ remote \in [Keys -> Versions] /\ cache \in [Keys -> Versions]
    /\ item \in [Keys -> {"none", "due", "delayed"}]
    /\ acked \subseteq Journal /\ master \in BOOLEAN
    /\ sy \in [pc : {"idle", "enqueue", "drain", "done"}, phase : 1..2, err : BOOLEAN]
    /\ todo \subseteq Keys /\ up \in [Keys -> Stages]
    /\ aborts \in Nat

\* The remote has what k is, itself or under its alias.
Published(k) == remote[k] = want[k] \/ Skippable(k)

\* A sync that reports success (sync_configured_remote returns Ok) has every
\* version the host has in the remote, whatever earlier syncs left half done, for
\* keys that never go back to an earlier version.
SyncedIsPublished ==
    sy.pc = "done" => \A k \in Keys \ Recurring : Published(k)

\* The same for every key, also a head that a switch of branches moves back: mj
\* sync writes hot metadata and all referenced objects.
SyncPublishes == sy.pc = "done" => \A k \in Keys : Published(k)

\* A version reaches the remote only when everything of a lower priority that is
\* queued has reached it: a ref does not overtake content that this sync, or an
\* earlier one that failed or was killed, has queued (drain_upload_queue).
RefsFollowContent ==
    [][\A k, j \in Keys : remote'[k] # remote[k] /\ PriorityOf[j] < PriorityOf[k] /\ item[j] # "none"
                         => remote'[j] # 0 /\ remote'[j] >= Source(j)]_vars

\* What the remote's version of a ref refers to is in the remote:
\* upload_publish_priority keeps current refs last.
RefsAreComplete == \A k \in Keys : remote[k] > 1 => \A x \in Needs[k] : Published(x)

\* An item whose payload file is gone fails in every drain.
Blocked == \E k \in Queued : Source(k) = 0

\* After the last local change every version reaches the remote, through failing
\* uploads, failing and killed syncs; only an item without its payload stops it.
CatchesUp == <>[](Blocked \/ \A k \in Keys \ Recurring : Published(k))

\* The same without exception: the persistent queue is retried by later syncs.
QueueIsRetried == <>[](\A k \in Keys \ Recurring : Published(k))
=============================================================================
