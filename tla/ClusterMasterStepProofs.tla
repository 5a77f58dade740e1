----------------------- MODULE ClusterMasterStepProofs -----------------------
(* What every action of ClusterMaster does to a key, for every value of the    *)
(* constants: the steps that write no file or object, and for each write the   *)
(* one key it concerns and what becomes of it.                                 *)
EXTENDS ClusterMasterInvariants, TLAPS

-----------------------------------------------------------------------------
(* What a step does to one key *)

Same(k) ==
    /\ store'[k] = store[k] /\ intent'[k] = intent[k] /\ receipt'[k] = receipt[k]
    /\ backend'[k] = backend[k]
    /\ queue'[k].op = queue[k].op /\ queue'[k].val = queue[k].val
    /\ Tombstoned(k)' <=> Tombstoned(k)
    /\ tomb'[k].val = tomb[k].val

\* The worker's copies come from the queue or go.
Copied(k) ==
    /\ \/ snap'[k].op = "none"
       \/ snap'[k].op = snap[k].op /\ snap'[k].val = snap[k].val
       \/ snap'[k].op = queue[k].op /\ snap'[k].val = queue[k].val
    /\ \/ up'[k].op = "none"
       \/ up'[k].op = up[k].op /\ up'[k].val = up[k].val
       \/ up'[k].op = snap[k].op /\ up'[k].val = snap[k].val

StaleKept(k) == (k \in stale /\ k \notin stale') => store'[k] \in {None, intent[k]}

OthersSame(key) == \A k \in Keys : k # key => Same(k)

\* The writer goes on to pc.
Moves(pc) == /\ cs'.pc = pc /\ cs'.key = cs.key /\ cs'.items = cs.items
             /\ cs'.done = cs.done /\ cs'.ret = cs.ret

\* The steps that change nothing Same speaks of.
EntryStep ==
    \E k \in Keys : BeginDelete(k) \/ WorkerRecover(k) \/ UploadComplete(k) \/ GcBegin(k)

WorkerStep ==
    \/ WorkerDue \/ ListQueue \/ NothingSelected \/ NextTier \/ RoundEnd
    \/ \E k \in Keys : ReadQueueItem(k) \/ UploadCheck(k) \/ UploadFailed(k)
    \/ \E s \in SUBSET Keys, hosts \in SUBSET Hosts : SelectRound(s, hosts)
    \/ \E batch \in BOOLEAN : DeleteBegin(batch)
    \/ WorkerWake \/ WorkerRecovered \/ WorkerNotDue
    \/ FlushCheck \/ RemoveFlushRequest \/ GcCollect \/ GcEnd

ReadStep ==
    \/ \E k \in Readable : BeginGet(k)
    \/ GetReadQueue \/ GetReadTomb \/ GetReadStore \/ GetReadBackend

StopStep ==
    \/ \E items \in Batches : BeginPut(items)
    \/ AckPut \/ RecoverRefuse \/ Crash \/ WriteFails

OtherStep == RequestFlush \/ Time \/ \E k \in Keys : RetryMarkFails(k)

QuietStep == EntryStep \/ WorkerStep \/ ReadStep \/ StopStep \/ OtherStep

\* The steps that write a file or the backend.
WriteStep ==
    \/ PutItem \/ PutStore \/ PutCancelGc \/ PutEnqueue \/ PutRemoveIntent \/ DeleteEnqueue
    \/ RecoverStore \/ RecoverEnqueue \/ RecoverCancelGc \/ RecoverRemoveIntent
    \/ CompleteRetain \/ CompleteReceipt \/ CompleteUnqueue \/ GcDeleteStore \/ GcRemoveTomb
    \/ \E k \in Keys : Reconcile(k) \/ UploadSend(k) \/ UploadError(k)
    \/ Serve \/ GetHydrate

\* Every step of the code is a quiet one or a write.
LEMMA StepKinds == Step => QuietStep \/ WriteStep
<1>1. Rpc \/ Locked => QuietStep \/ WriteStep
  BY Zenon DEF Rpc, Locked, QuietStep, WriteStep, EntryStep, StopStep, OtherStep
<1>2. Startup \/ Backend \/ Time \/ Get => QuietStep \/ WriteStep
  BY Zenon DEF Startup, Backend, Time, Get, QuietStep, WriteStep, EntryStep, ReadStep, OtherStep
<1>3. Drain \/ Cycle => QuietStep \/ WriteStep
  BY Zenon DEF Drain, Cycle, QuietStep, WorkerStep, EntryStep
<1>4. Crash \/ WriteFails \/ (\E k \in Keys : RetryMarkFails(k)) => QuietStep
  BY Zenon DEF QuietStep, StopStep, OtherStep
<1>5. QED
  BY Zenon, <1>1, <1>2, <1>3, <1>4 DEF Step

\* A step that leaves the files and the backend alone.
LEMMA FilesSame ==
    ASSUME UNCHANGED <<files, backend>>
    PROVE  (\A k \in Keys : Same(k)) /\ UNCHANGED migrated
  BY ZenonT(30) DEF files, Same, Tombstoned

\* A step that changes the retry mark of queue items only.
LEMMA RetrySame ==
    ASSUME StateTypes, UNCHANGED <<store, intent, receipt, tomb, backend>>,
           \A k \in Keys : queue'[k] = queue[k] \/ \E b \in BOOLEAN : queue'[k] = [queue[k] EXCEPT !.retry = b]
    PROVE  \A k \in Keys : Same(k)
<1>1. \A k \in Keys : queue[k] \in Item
  BY ZenonT(30) DEF StateTypes
<1>2. \A k \in Keys : queue'[k].op = queue[k].op /\ queue'[k].val = queue[k].val
  BY Zenon, <1>1 DEF Item
<1>3. QED
  BY ZenonT(30), <1>2 DEF Same, Tombstoned

\* No quiet step changes what the files or the backend say of a key.
LEMMA QuietSame ==
    ASSUME StateTypes, QuietStep
    PROVE  (\A k \in Keys : Same(k)) /\ UNCHANGED migrated
<1> USE DEF marks, worker, volatile, hist
<1>1. CASE EntryStep
  BY Zenon, <1>1, FilesSame DEF EntryStep, BeginDelete, WorkerRecover, UploadComplete, GcBegin
<1>2. CASE ReadStep
  BY Zenon, <1>2, FilesSame DEF ReadStep, BeginGet, GetReadQueue, GetReadTomb, GetReadStore,
     GetReadBackend
<1>3. CASE StopStep
  BY Zenon, <1>3, FilesSame DEF StopStep, BeginPut, AckPut, RecoverRefuse, Crash, WriteFails
<1>4. CASE WorkerStep
  <2>1. CASE \E k \in Keys : UploadFailed(k)
    <3>1. PICK key \in Keys : UploadFailed(key)
      BY ZenonT(30), <2>1
    <3>2. \A k \in Keys : queue'[k] = queue[k] \/ \E b \in BOOLEAN : queue'[k] = [queue[k] EXCEPT !.retry = b]
      BY Zenon, <3>1 DEF UploadFailed, StateTypes
    <3>3. QED
      BY ZenonT(30), <3>1, <3>2, RetrySame DEF UploadFailed
  <2>2. CASE RemoveFlushRequest
    BY ZenonT(30), <2>2 DEF RemoveFlushRequest, Same, Tombstoned
  <2>3. CASE \/ WorkerDue \/ ListQueue \/ NothingSelected \/ NextTier \/ RoundEnd
             \/ \E k \in Keys : ReadQueueItem(k) \/ UploadCheck(k)
    BY Zenon, <2>3, FilesSame DEF WorkerDue, ListQueue, NothingSelected, NextTier, RoundEnd,
       ReadQueueItem, UploadCheck
  <2>4. CASE \/ \E s \in SUBSET Keys, hosts \in SUBSET Hosts : SelectRound(s, hosts)
             \/ \E batch \in BOOLEAN : DeleteBegin(batch)
             \/ WorkerWake \/ WorkerRecovered \/ WorkerNotDue \/ FlushCheck \/ GcCollect \/ GcEnd
    BY Zenon, <2>4, FilesSame
    DEF SelectRound, DeleteBegin, WorkerWake, WorkerRecovered, WorkerNotDue, FlushCheck, GcCollect, GcEnd
  <2>5. QED
    BY Zenon, <1>4, <2>1, <2>2, <2>3, <2>4 DEF WorkerStep
<1>5. CASE OtherStep
  <2>1. CASE RequestFlush
    BY ZenonT(30), <2>1 DEF RequestFlush, Same, Tombstoned
  <2>2. CASE \E k \in Keys : RetryMarkFails(k)
    BY Zenon, <2>2, FilesSame DEF RetryMarkFails
  <2>3. CASE \E k \in Keys : RetryElapses(k)
    <3>1. PICK key \in Keys : RetryElapses(key)
      BY ZenonT(30), <2>3
    <3>2. \A k \in Keys : queue'[k] = queue[k] \/ \E b \in BOOLEAN : queue'[k] = [queue[k] EXCEPT !.retry = b]
      BY Zenon, <3>1 DEF RetryElapses, StateTypes
    <3>3. QED
      BY ZenonT(30), <3>1, <3>2, RetrySame DEF RetryElapses
  <2>4. CASE \E k \in Keys : TombExpires(k)
    <3>1. PICK key \in Keys : TombExpires(key)
      BY ZenonT(30), <2>4
    <3>2. tomb[key] \in Tomb /\ tomb' = [tomb EXCEPT ![key] = [tomb[key] EXCEPT !.due = TRUE]]
      BY Zenon, <3>1 DEF TombExpires, StateTypes
    <3>3. /\ tomb'[key].val = tomb[key].val /\ tomb'[key].due = TRUE
          /\ \A k \in Keys : k # key => tomb'[k] = tomb[k]
      BY ZenonT(30), <3>2 DEF Tomb, StateTypes
    <3>4. NoTomb.due = FALSE
      BY ZenonT(30) DEF NoTomb
    <3>5. \A k \in Keys : (Tombstoned(k)' <=> Tombstoned(k)) /\ tomb'[k].val = tomb[k].val
      BY ZenonT(30), <3>1, <3>3, <3>4 DEF Tombstoned, TombExpires
    <3>6. QED
      BY ZenonT(30), <3>1, <3>5 DEF TombExpires, Same
  <2>5. QED
    BY Zenon, <1>5, <2>1, <2>2, <2>3, <2>4 DEF OtherStep, Time
<1>6. QED
  BY Zenon, <1>1, <1>2, <1>3, <1>4, <1>5 DEF QuietStep

\* The null records, field by field.
LEMMA NullFields ==
    /\ NoItem.op = "none" /\ NoItem.val = None
    /\ NoUpload.stage = "none" /\ NoUpload.op = "none" /\ NoUpload.val = None
    /\ NoTomb.due = FALSE /\ NoTomb.val = None
    /\ NoWriter.pc = "idle" /\ NoWriter.items = <<>> /\ NoWriter.done = <<>>
    /\ NoWriter.key = None /\ NoWriter.ret = "idle"
    /\ Sleeping.pc = "idle" /\ Booting.pc = "boot" /\ NoReader.pc = "idle"
<1>1. Booting \in Worker
  BY DEF Booting, Worker
<1>2. Sleeping.pc = "idle" /\ Booting.pc = "boot"
  BY ZenonT(30), <1>1 DEF Sleeping, Booting, Worker
<1>3. QED
  BY ZenonT(30), <1>2 DEF NoItem, NoUpload, NoTomb, NoWriter, NoReader

\* An upload that changes its stage stays the upload it was.
LEMMA StageOnly ==
    ASSUME NEW u \in Upload, NEW s, NEW u2, u2 = [u EXCEPT !.stage = s]
    PROVE  u2.stage = s /\ u2.op = u.op /\ u2.val = u.val /\ u2.gen = u.gen
  BY ZenonT(30) DEF Upload

\* Giving up a writer forgets uploads or fails the one it was completing.
LEMMA AbandonUploads ==
    ASSUME StateTypes, WriterOK, Abandon, NEW k \in Keys
    PROVE  \/ up'[k] = up[k] /\ ~EndsCycle
           \/ up'[k] = NoUpload /\ EndsCycle
           \/ up'[k] = [up[k] EXCEPT !.stage = "failed"] /\ cs.pc \in CompletePcs /\ ~EndsCycle
<1>1. CASE EndsCycle
  BY ZenonT(30), <1>1 DEF Abandon
<1>2. CASE ~EndsCycle /\ cs.pc \in CompletePcs
  BY Zenon, <1>2 DEF Abandon, StateTypes
<1>3. CASE ~EndsCycle /\ cs.pc \notin CompletePcs
  BY ZenonT(30), <1>3 DEF Abandon
<1>4. QED
  BY ZenonT(30), <1>1, <1>2, <1>3

\* In a quiet step the worker keeps, forgets or takes a copy of the queue item.
LEMMA QuietCopied ==
    ASSUME StateTypes, WriterOK, QuietStep, NEW k \in Keys
    PROVE  Copied(k)
<1> USE DEF files, marks, worker, volatile, hist
<1> DEFINE FromUp == \E st : up'[k] = [up[k] EXCEPT !.stage = st]
<1>1. up[k] \in Upload
  BY ZenonT(30) DEF StateTypes
<1>2. ASSUME snap'[k] = snap[k] \/ snap'[k] = NoItem \/ snap'[k] = queue[k],
             up'[k] = up[k] \/ up'[k] = NoUpload \/ FromUp
      PROVE  Copied(k)
  <2>1. \/ up'[k].op = "none"
        \/ up'[k].op = up[k].op /\ up'[k].val = up[k].val
    <3>1. CASE FromUp
      BY <1>1, <3>1, StageOnly
    <3>2. QED
      BY ZenonT(30), <1>2, <3>1, NullFields
  <2>2. QED
    BY ZenonT(30), <1>2, <2>1, NullFields DEF Copied
<1> HIDE DEF FromUp
<1>3. CASE UNCHANGED <<snap, up>>
  BY ZenonT(30), <1>2, <1>3
<1>4. CASE EntryStep
  <2>1. CASE \E j \in Keys : UploadComplete(j)
    <3>1. UNCHANGED snap /\ (up'[k] = up[k] \/ up'[k] = NoUpload)
      BY ZenonT(30), <2>1 DEF UploadComplete, StateTypes
    <3>2. QED
      BY ZenonT(30), <1>2, <3>1
  <2>2. QED
    BY Zenon, <1>3, <1>4, <2>1 DEF EntryStep, BeginDelete, WorkerRecover, GcBegin
<1>5. CASE ReadStep
  BY Zenon, <1>3, <1>5 DEF ReadStep, BeginGet, GetReadQueue, GetReadTomb, GetReadStore,
     GetReadBackend
<1>6. CASE StopStep
  <2>1. CASE RecoverRefuse \/ WriteFails
    <3>1. Abandon /\ UNCHANGED snap
      BY ZenonT(30), <2>1 DEF RecoverRefuse, WriteFails
    <3>2. up'[k] = up[k] \/ up'[k] = NoUpload \/ FromUp
      BY ZenonT(30), <3>1, AbandonUploads DEF FromUp
    <3>3. QED
      BY ZenonT(30), <1>2, <3>1, <3>2
  <2>2. CASE Crash
    BY ZenonT(30), <1>2, <2>2 DEF Crash
  <2>3. QED
    BY Zenon, <1>3, <1>6, <2>1, <2>2 DEF StopStep, BeginPut, AckPut
<1>7. CASE WorkerStep
  <2>1. CASE ListQueue \/ \E j \in Keys : ReadQueueItem(j)
    BY <1>2, <2>1 DEF ListQueue, ReadQueueItem, StateTypes
  <2>2. CASE \E j \in Keys : UploadCheck(j)
    <3>1. PICK j \in Keys : UploadCheck(j)
      BY ZenonT(30), <2>2
    <3>2. UNCHANGED snap
      BY ZenonT(30), <3>1 DEF UploadCheck
    <3>3. up'[k] = up[k] \/ up'[k] = NoUpload \/ FromUp
      BY Zenon, <3>1 DEF UploadCheck, StateTypes, FromUp
    <3>4. QED
      BY ZenonT(30), <1>2, <3>2, <3>3
  <2>3. CASE \E j \in Keys : UploadFailed(j)
    BY ZenonT(30), <1>2, <2>3 DEF UploadFailed, StateTypes
  <2>4. CASE \E s \in SUBSET Keys, hosts \in SUBSET Hosts : SelectRound(s, hosts)
    <3>1. PICK s \in SUBSET Keys, hosts \in SUBSET Hosts : SelectRound(s, hosts)
      BY ZenonT(30), <2>4
    <3>2. UNCHANGED snap
      BY ZenonT(30), <3>1 DEF SelectRound
    <3>3. CASE k \notin s
      BY ZenonT(30), <1>2, <3>1, <3>2, <3>3 DEF SelectRound
    <3>4. CASE k \in s
      <4>1. up'[k].op = snap[k].op /\ up'[k].val = snap[k].val
        BY ZenonT(30), <3>1, <3>4 DEF SelectRound
      <4>2. QED
        BY ZenonT(30), <3>2, <4>1 DEF Copied
    <3>5. QED
      BY ZenonT(30), <3>3, <3>4
  <2>5. CASE NextTier \/ RoundEnd \/ \E batch \in BOOLEAN : DeleteBegin(batch)
    <3>1. UNCHANGED snap
      BY Zenon, <2>5 DEF NextTier, RoundEnd, DeleteBegin
    <3>2. up'[k] = up[k] \/ up'[k] = NoUpload \/ FromUp
      <4>1. \/ up'[k] = up[k] \/ up'[k] = NoUpload
            \/ up'[k] = [up[k] EXCEPT !.stage = "send"] \/ up'[k] = [up[k] EXCEPT !.stage = "ready"]
        BY Zenon, <2>5 DEF NextTier, RoundEnd, DeleteBegin
      <4>2. QED
        BY Zenon, <4>1 DEF FromUp
    <3>3. QED
      BY ZenonT(30), <1>2, <3>1, <3>2
  <2>6. CASE WorkerDue \/ NothingSelected \/ WorkerWake \/ WorkerRecovered \/ WorkerNotDue
    BY Zenon, <1>3, <2>6 DEF WorkerDue, NothingSelected, WorkerWake, WorkerRecovered, WorkerNotDue
  <2>7. CASE FlushCheck \/ RemoveFlushRequest \/ GcCollect \/ GcEnd
    BY Zenon, <1>3, <2>7 DEF FlushCheck, RemoveFlushRequest, GcCollect, GcEnd
  <2>8. QED
    BY Zenon, <1>7, <2>1, <2>2, <2>3, <2>4, <2>5, <2>6, <2>7 DEF WorkerStep
<1>8. CASE OtherStep
  <2>1. CASE \E j \in Keys : RetryMarkFails(j)
    BY <1>2, <2>1 DEF RetryMarkFails
  <2>2. QED
    BY Zenon, <1>3, <1>8, <2>1 DEF OtherStep, RequestFlush, Time, RetryElapses, TombExpires
<1>9. QED
  BY Zenon, <1>4, <1>5, <1>6, <1>7, <1>8 DEF QuietStep

-----------------------------------------------------------------------------
(* What each write does *)

\* process_puts takes the next object and announces its content.
LEMMA PutItemEffect ==
    ASSUME StateTypes, PutItem, NEW k, NEW v, k = Head(cs.items)[1], v = Head(cs.items)[2]
    PROVE  /\ cs.pc = "put" /\ k \in Keys /\ v \in Vals /\ Head(cs.items) = <<k, v>>
           /\ UNCHANGED <<store, queue, receipt, tomb, migrated, backend, worker, rd>>
           /\ OthersSame(k)
           /\ \/ /\ intent[k] # None /\ UNCHANGED intent
                 /\ cs'.pc = "r_store" /\ cs'.key = k /\ cs'.ret = "put"
                 /\ cs'.items = cs.items /\ cs'.done = cs.done
              \/ intent[k] = None /\ UNCHANGED intent /\ cs' = NoWriter
              \/ /\ intent[k] = None /\ UNCHANGED intent /\ ~NeedsBackup(k, v)
                 /\ cs'.pc = "put" /\ cs'.done = Append(cs.done, <<k, v>>)
              \/ /\ intent[k] = None /\ intent'[k] = v
                 /\ cs'.pc = "p_store" /\ cs'.key = k
                 /\ cs'.items = cs.items /\ cs'.done = cs.done
<1> USE DEF marks, worker, hist
<1>1. cs.pc = "put" /\ cs.items # <<>> /\ cs.items \in Seq(Keys \X Vals)
  BY ZenonT(30) DEF PutItem, StateTypes, Writer
<1>2. Head(cs.items) \in Keys \X Vals
  BY <1>1
<1>3. k \in Keys /\ v \in Vals /\ Head(cs.items) = <<k, v>>
  BY <1>2
<1>4. UNCHANGED <<store, queue, receipt, tomb, migrated, backend, worker, rd>>
  BY ZenonT(30) DEF PutItem
<1>5. \/ /\ intent[k] # None /\ UNCHANGED intent
         /\ cs' = [cs EXCEPT !.pc = "r_store", !.key = k, !.ret = "put"]
      \/ intent[k] = None /\ UNCHANGED intent /\ cs' = NoWriter
      \/ /\ intent[k] = None /\ UNCHANGED intent /\ ~NeedsBackup(k, v)
         /\ cs' = [cs EXCEPT !.items = Tail(cs.items), !.done = Append(cs.done, Head(cs.items))]
      \/ /\ intent[k] = None /\ intent' = [intent EXCEPT ![k] = v]
         /\ cs' = [cs EXCEPT !.pc = "p_store", !.key = k]
  BY Zenon DEF PutItem
<1>6. cs \in Writer
  BY ZenonT(30) DEF StateTypes
<1>7. OthersSame(k)
  BY ZenonT(30), <1>3, <1>4, <1>5 DEF OthersSame, Same, Tombstoned, StateTypes
<1>8. QED
  BY ZenonT(30), <1>1, <1>3, <1>4, <1>5, <1>6, <1>7 DEF Writer, StateTypes

\* process_puts writes the object to the store.
LEMMA PutStoreEffect ==
    ASSUME StateTypes, WriterOK, PutStore
    PROVE  /\ cs.pc = "p_store" /\ cs.key \in Keys /\ Moves("p_cancel")
           /\ UNCHANGED <<queue, intent, receipt, tomb, migrated, backend, worker, rd>>
           /\ OthersSame(cs.key)
           /\ store'[cs.key] = intent[cs.key]
<1>1. cs.pc = "p_store" /\ cs.key \in Keys /\ Moves("p_cancel")
  BY ZenonT(30) DEF PutStore, StateTypes, WriterOK, Writer, Moves
<1>2. UNCHANGED <<queue, intent, receipt, tomb, migrated, backend, worker, rd>>
  BY ZenonT(30) DEF PutStore, marks, worker, hist
<1>3. /\ store'[cs.key] = intent[cs.key]
      /\ \A k \in Keys : k # cs.key => store'[k] = store[k]
  BY ZenonT(30), <1>1 DEF PutStore, StateTypes
<1>4. OthersSame(cs.key)
  BY ZenonT(30), <1>2, <1>3 DEF OthersSame, Same, Tombstoned
<1>5. QED
  BY ZenonT(30), <1>1, <1>2, <1>3, <1>4

\* process_puts cancels the tombstone of an earlier DELETE.
LEMMA PutCancelGcEffect ==
    ASSUME StateTypes, WriterOK, PutCancelGc
    PROVE  /\ cs.pc = "p_cancel" /\ cs.key \in Keys /\ Moves("p_enqueue")
           /\ UNCHANGED <<store, queue, intent, receipt, migrated, backend, worker, rd>>
           /\ OthersSame(cs.key)
           /\ tomb'[cs.key] = NoTomb
<1>1. cs.pc = "p_cancel" /\ cs.key \in Keys /\ Moves("p_enqueue")
  BY ZenonT(30) DEF PutCancelGc, StateTypes, WriterOK, Writer, Moves
<1>2. UNCHANGED <<store, queue, intent, receipt, migrated, backend, worker, rd>>
  BY ZenonT(30) DEF PutCancelGc, marks, worker, hist
<1>3. /\ tomb'[cs.key] = NoTomb
      /\ \A k \in Keys : k # cs.key => tomb'[k] = tomb[k]
  BY ZenonT(30), <1>1 DEF PutCancelGc, StateTypes
<1>4. OthersSame(cs.key)
  BY ZenonT(30), <1>2, <1>3 DEF OthersSame, Same, Tombstoned
<1>5. QED
  BY ZenonT(30), <1>1, <1>2, <1>3, <1>4

\* The replay of an intent writes the object to the store.
LEMMA RecoverStoreEffect ==
    ASSUME StateTypes, WriterOK, RecoverStore
    PROVE  /\ cs.pc = "r_store" /\ cs.key \in Keys /\ Moves("r_enqueue")
           /\ UNCHANGED <<queue, intent, receipt, tomb, migrated, backend, worker, rd>>
           /\ OthersSame(cs.key)
           /\ store'[cs.key] = intent[cs.key]
<1>1. cs.pc = "r_store" /\ cs.key \in Keys /\ Moves("r_enqueue")
  BY ZenonT(30) DEF RecoverStore, StateTypes, WriterOK, Writer, Moves
<1>2. UNCHANGED <<queue, intent, receipt, tomb, migrated, backend, worker, rd>>
  BY ZenonT(30) DEF RecoverStore, marks, worker, hist
<1>3. /\ store'[cs.key] = intent[cs.key]
      /\ \A k \in Keys : k # cs.key => store'[k] = store[k]
  BY ZenonT(30), <1>1 DEF RecoverStore, StateTypes
<1>4. OthersSame(cs.key)
  BY ZenonT(30), <1>2, <1>3 DEF OthersSame, Same, Tombstoned
<1>5. QED
  BY ZenonT(30), <1>1, <1>2, <1>3, <1>4

\* The replay of an intent cancels the tombstone.
LEMMA RecoverCancelGcEffect ==
    ASSUME StateTypes, WriterOK, RecoverCancelGc
    PROVE  /\ cs.pc = "r_cancel" /\ cs.key \in Keys /\ Moves("r_unintent")
           /\ UNCHANGED <<store, queue, intent, receipt, migrated, backend, worker, rd>>
           /\ OthersSame(cs.key)
           /\ tomb'[cs.key] = NoTomb
<1>1. cs.pc = "r_cancel" /\ cs.key \in Keys /\ Moves("r_unintent")
  BY ZenonT(30) DEF RecoverCancelGc, StateTypes, WriterOK, Writer, Moves
<1>2. UNCHANGED <<store, queue, intent, receipt, migrated, backend, worker, rd>>
  BY ZenonT(30) DEF RecoverCancelGc, marks, worker, hist
<1>3. /\ tomb'[cs.key] = NoTomb
      /\ \A k \in Keys : k # cs.key => tomb'[k] = tomb[k]
  BY ZenonT(30), <1>1 DEF RecoverCancelGc, StateTypes
<1>4. OthersSame(cs.key)
  BY ZenonT(30), <1>2, <1>3 DEF OthersSame, Same, Tombstoned
<1>5. QED
  BY ZenonT(30), <1>1, <1>2, <1>3, <1>4

\* complete_backend_upload writes the receipt.
LEMMA CompleteReceiptEffect ==
    ASSUME StateTypes, WriterOK, CompleteReceipt
    PROVE  /\ cs.pc = "c_receipt" /\ cs.key \in Keys /\ Moves("c_unqueue")
           /\ UNCHANGED <<store, queue, intent, tomb, migrated, backend, worker, rd>>
           /\ OthersSame(cs.key)
           /\ receipt'[cs.key] = up[cs.key].val
<1>1. cs.pc = "c_receipt" /\ cs.key \in Keys /\ Moves("c_unqueue")
  BY ZenonT(30) DEF CompleteReceipt, StateTypes, WriterOK, Writer, Moves
<1>2. UNCHANGED <<store, queue, intent, tomb, migrated, backend, worker, rd>>
  BY ZenonT(30) DEF CompleteReceipt, marks, worker, hist
<1>3. /\ receipt'[cs.key] = up[cs.key].val
      /\ \A k \in Keys : k # cs.key => receipt'[k] = receipt[k]
  BY ZenonT(30), <1>1 DEF CompleteReceipt, StateTypes
<1>4. OthersSame(cs.key)
  BY ZenonT(30), <1>2, <1>3 DEF OthersSame, Same, Tombstoned
<1>5. QED
  BY ZenonT(30), <1>1, <1>2, <1>3, <1>4

\* complete_backend_upload keeps the deleted bytes behind a tombstone.
LEMMA CompleteRetainEffect ==
    ASSUME StateTypes, WriterOK, CompleteRetain
    PROVE  /\ cs.pc = "c_retain" /\ cs.key \in Keys /\ Moves("c_receipt")
           /\ UNCHANGED <<store, queue, intent, receipt, migrated, backend, worker, rd>>
           /\ OthersSame(cs.key)
           /\ tomb'[cs.key] = (IF store[cs.key] = None THEN NoTomb
                ELSE [val |-> store[cs.key], gen |-> up[cs.key].gen, due |-> FALSE])
<1>1. cs.pc = "c_retain" /\ cs.key \in Keys /\ Moves("c_receipt")
  BY ZenonT(30) DEF CompleteRetain, StateTypes, WriterOK, Writer, Moves
<1>2. UNCHANGED <<store, queue, intent, receipt, migrated, backend, worker, rd>>
  BY ZenonT(30) DEF CompleteRetain, marks, worker, hist
<1>3. /\ tomb'[cs.key] = (IF store[cs.key] = None THEN NoTomb
                ELSE [val |-> store[cs.key], gen |-> up[cs.key].gen, due |-> FALSE])
      /\ \A k \in Keys : k # cs.key => tomb'[k] = tomb[k]
  BY ZenonT(30), <1>1 DEF CompleteRetain, StateTypes
<1>4. OthersSame(cs.key)
  BY ZenonT(30), <1>2, <1>3 DEF OthersSame, Same, Tombstoned
<1>5. QED
  BY ZenonT(30), <1>1, <1>2, <1>3, <1>4

\* The tombstone of a deleted object carries its bytes.
LEMMA RetainedTomb ==
    ASSUME StateTypes, WriterOK, CompleteRetain
    PROVE  /\ store[cs.key] = None => tomb'[cs.key] = NoTomb
           /\ store[cs.key] # None => tomb'[cs.key].val = store[cs.key] /\ tomb'[cs.key] # NoTomb
<1>1. store[cs.key] = None => tomb'[cs.key] = NoTomb
  BY ZenonT(30), CompleteRetainEffect
<1>2. ASSUME store[cs.key] # None
      PROVE  tomb'[cs.key].val = store[cs.key]
  <2>1. tomb'[cs.key] = [val |-> store[cs.key], gen |-> up[cs.key].gen, due |-> FALSE]
    BY ZenonT(30), <1>2, CompleteRetainEffect
  <2>2. QED
    BY <2>1
<1>3. QED
  BY ZenonT(30), <1>1, <1>2, NullFields

\* The local GC removes a tombstone.
LEMMA GcRemoveTombEffect ==
    ASSUME StateTypes, WriterOK, GcRemoveTomb
    PROVE  /\ cs.pc = "g_untomb" /\ cs.key \in Keys /\ cs' = NoWriter
           /\ UNCHANGED <<store, queue, intent, receipt, migrated, backend, worker, rd>>
           /\ OthersSame(cs.key)
           /\ tomb'[cs.key] = NoTomb
<1>1. cs.pc = "g_untomb" /\ cs.key \in Keys /\ cs' = NoWriter
  BY ZenonT(30) DEF GcRemoveTomb, StateTypes, WriterOK, Writer, Moves
<1>2. UNCHANGED <<store, queue, intent, receipt, migrated, backend, worker, rd>>
  BY ZenonT(30) DEF GcRemoveTomb, marks, worker, hist
<1>3. /\ tomb'[cs.key] = NoTomb
      /\ \A k \in Keys : k # cs.key => tomb'[k] = tomb[k]
  BY ZenonT(30), <1>1 DEF GcRemoveTomb, StateTypes
<1>4. OthersSame(cs.key)
  BY ZenonT(30), <1>2, <1>3 DEF OthersSame, Same, Tombstoned
<1>5. QED
  BY ZenonT(30), <1>1, <1>2, <1>3, <1>4

\* The local GC removes the bytes behind a tombstone.
LEMMA GcDeleteStoreEffect ==
    ASSUME StateTypes, WriterOK, GcDeleteStore
    PROVE  /\ cs.pc = "g_store" /\ cs.key \in Keys /\ Moves("g_untomb")
           /\ UNCHANGED <<queue, intent, receipt, tomb, migrated, backend, worker, rd>>
           /\ OthersSame(cs.key)
           /\ store'[cs.key] = (IF store[cs.key] = tomb[cs.key].val THEN None ELSE store[cs.key])
<1>1. cs.pc = "g_store" /\ cs.key \in Keys /\ Moves("g_untomb")
  BY ZenonT(30) DEF GcDeleteStore, StateTypes, WriterOK, Writer, Moves
<1>2. UNCHANGED <<queue, intent, receipt, tomb, migrated, backend, worker, rd>>
  BY ZenonT(30) DEF GcDeleteStore, marks, worker, hist
<1>3. /\ store'[cs.key] = (IF store[cs.key] = tomb[cs.key].val THEN None ELSE store[cs.key])
      /\ \A k \in Keys : k # cs.key => store'[k] = store[k]
  BY ZenonT(30), <1>1 DEF GcDeleteStore, StateTypes
<1>4. OthersSame(cs.key)
  BY ZenonT(30), <1>2, <1>3 DEF OthersSame, Same, Tombstoned
<1>5. QED
  BY ZenonT(30), <1>1, <1>2, <1>3, <1>4

\* write_backend_queue_item changes the item of one key.
LEMMA QueueWriteEffect ==
    ASSUME StateTypes, NEW key \in Keys, NEW op \in {"Put", "Delete"}, NEW v \in Content, WriteQueueItem(key, op, v)
    PROVE  /\ queue'[key].op = op /\ queue'[key].val = v
           /\ \A k \in Keys : k # key => queue'[k] = queue[k]
<1>1. CASE queue[key].op = op /\ queue[key].val = v
  BY ZenonT(30), <1>1 DEF WriteQueueItem
<1>2. CASE ~(queue[key].op = op /\ queue[key].val = v)
  <2>1. queue' = [queue EXCEPT ![key] = [op |-> op, val |-> v, gen |-> Len(enq) + 1, retry |-> FALSE]]
    BY ZenonT(30), <1>2 DEF WriteQueueItem
  <2>2. QED
    BY ZenonT(30), <2>1 DEF StateTypes
<1>3. QED
  BY ZenonT(30), <1>1, <1>2

\* process_puts queues the object for the backend.
LEMMA PutEnqueueEffect ==
    ASSUME StateTypes, WriterOK, PutEnqueue
    PROVE  /\ cs.pc = "p_enqueue" /\ cs.key \in Keys /\ Moves("p_unintent")
           /\ UNCHANGED <<store, intent, receipt, tomb, migrated, backend, worker, rd>>
           /\ OthersSame(cs.key)
           /\ queue'[cs.key].op = "Put" /\ queue'[cs.key].val = intent[cs.key]
<1>1. cs.pc = "p_enqueue" /\ cs.key \in Keys /\ Moves("p_unintent")
  BY ZenonT(30) DEF PutEnqueue, StateTypes, WriterOK, Writer, Moves
<1>2. UNCHANGED <<store, intent, receipt, tomb, migrated, backend, worker, rd>>
  BY ZenonT(30) DEF PutEnqueue, marks, worker
<1>3. WriteQueueItem(cs.key, "Put", intent[cs.key]) /\ intent[cs.key] \in Content
  BY ZenonT(30), <1>1 DEF PutEnqueue, StateTypes, Content
<1>4. /\ queue'[cs.key].op = "Put" /\ queue'[cs.key].val = intent[cs.key]
      /\ \A k \in Keys : k # cs.key => queue'[k] = queue[k]
  BY ZenonT(30), <1>1, <1>3, QueueWriteEffect
<1>5. OthersSame(cs.key)
  BY ZenonT(30), <1>2, <1>4 DEF OthersSame, Same, Tombstoned
<1>6. QED
  BY ZenonT(30), <1>1, <1>2, <1>4, <1>5

\* The replay of an intent queues the object.
LEMMA RecoverEnqueueEffect ==
    ASSUME StateTypes, WriterOK, RecoverEnqueue
    PROVE  /\ cs.pc = "r_enqueue" /\ cs.key \in Keys /\ Moves("r_cancel")
           /\ UNCHANGED <<store, intent, receipt, tomb, migrated, backend, worker, rd>>
           /\ OthersSame(cs.key)
           /\ queue'[cs.key].op = "Put" /\ queue'[cs.key].val = intent[cs.key]
<1>1. cs.pc = "r_enqueue" /\ cs.key \in Keys /\ Moves("r_cancel")
  BY ZenonT(30) DEF RecoverEnqueue, StateTypes, WriterOK, Writer, Moves
<1>2. UNCHANGED <<store, intent, receipt, tomb, migrated, backend, worker, rd>>
  BY ZenonT(30) DEF RecoverEnqueue, marks, worker
<1>3. WriteQueueItem(cs.key, "Put", intent[cs.key]) /\ intent[cs.key] \in Content
  BY ZenonT(30), <1>1 DEF RecoverEnqueue, StateTypes, Content
<1>4. /\ queue'[cs.key].op = "Put" /\ queue'[cs.key].val = intent[cs.key]
      /\ \A k \in Keys : k # cs.key => queue'[k] = queue[k]
  BY ZenonT(30), <1>1, <1>3, QueueWriteEffect
<1>5. OthersSame(cs.key)
  BY ZenonT(30), <1>2, <1>4 DEF OthersSame, Same, Tombstoned
<1>6. QED
  BY ZenonT(30), <1>1, <1>2, <1>4, <1>5

\* A DELETE is queued.
LEMMA DeleteEnqueueEffect ==
    ASSUME StateTypes, WriterOK, DeleteEnqueue
    PROVE  /\ cs.pc = "d_enqueue" /\ cs.key \in Keys /\ cs' = NoWriter
           /\ UNCHANGED <<store, intent, receipt, tomb, migrated, backend, worker, rd>>
           /\ OthersSame(cs.key)
           /\ queue'[cs.key].op = "Delete" /\ queue'[cs.key].val = None
<1>1. cs.pc = "d_enqueue" /\ cs.key \in Keys /\ cs' = NoWriter
  BY ZenonT(30) DEF DeleteEnqueue, StateTypes, WriterOK, Writer, Moves
<1>2. UNCHANGED <<store, intent, receipt, tomb, migrated, backend, worker, rd>>
  BY ZenonT(30) DEF DeleteEnqueue, marks, worker
<1>3. WriteQueueItem(cs.key, "Delete", None) /\ None \in Content
  BY ZenonT(30), <1>1 DEF DeleteEnqueue, StateTypes, Content
<1>4. /\ queue'[cs.key].op = "Delete" /\ queue'[cs.key].val = None
      /\ \A k \in Keys : k # cs.key => queue'[k] = queue[k]
  BY ZenonT(30), <1>1, <1>3, QueueWriteEffect
<1>5. OthersSame(cs.key)
  BY ZenonT(30), <1>2, <1>4 DEF OthersSame, Same, Tombstoned
<1>6. QED
  BY ZenonT(30), <1>1, <1>2, <1>4, <1>5

\* The startup queues an object of an older version's store.
LEMMA ReconcileEffect ==
    ASSUME StateTypes, NEW key \in Keys, Reconcile(key)
    PROVE  /\ wk.pc = "boot" /\ LockFree
           /\ store[key] # None /\ ~Queued(key) /\ ~Tombstoned(key) /\ intent[key] = None
           /\ UNCHANGED <<store, intent, receipt, tomb, migrated, backend, worker, rd, cs>>
           /\ OthersSame(key)
           /\ queue'[key].op = "Put" /\ queue'[key].val = store[key]
<1>1. UNCHANGED <<store, intent, receipt, tomb, migrated, backend, worker, rd, cs>>
  BY ZenonT(30) DEF Reconcile, marks, volatile, worker
<1>2. WriteQueueItem(key, "Put", store[key]) /\ store[key] \in Content
  BY ZenonT(30) DEF Reconcile, StateTypes
<1>3. /\ queue'[key].op = "Put" /\ queue'[key].val = store[key]
      /\ \A k \in Keys : k # key => queue'[k] = queue[k]
  BY ZenonT(30), <1>2, QueueWriteEffect
<1>4. OthersSame(key)
  BY ZenonT(30), <1>1, <1>3 DEF OthersSame, Same, Tombstoned
<1>5. QED
  BY ZenonT(30), <1>1, <1>3, <1>4 DEF Reconcile

\* process_puts removes the intent and is done with the object.
LEMMA PutRemoveIntentEffect ==
    ASSUME StateTypes, WriterOK, PutRemoveIntent
    PROVE  /\ cs.pc = "p_unintent" /\ cs.key \in Keys
           /\ cs'.pc = "put" /\ cs'.done = Append(cs.done, Head(cs.items))
           /\ UNCHANGED <<store, queue, receipt, tomb, migrated, backend, worker, rd>>
           /\ OthersSame(cs.key)
           /\ intent'[cs.key] = None
<1>1. cs.pc = "p_unintent" /\ cs.key \in Keys /\ cs'.pc = "put" /\ cs'.done = Append(cs.done, Head(cs.items))
  BY ZenonT(30) DEF PutRemoveIntent, StateTypes, WriterOK, Writer
<1>2. UNCHANGED <<store, queue, receipt, tomb, migrated, backend, worker, rd>>
  BY ZenonT(30) DEF PutRemoveIntent, marks, worker, hist
<1>3. intent'[cs.key] = None /\ \A k \in Keys : k # cs.key => intent'[k] = intent[k]
  BY ZenonT(30), <1>1 DEF PutRemoveIntent, StateTypes
<1>4. OthersSame(cs.key)
  BY ZenonT(30), <1>2, <1>3 DEF OthersSame, Same, Tombstoned
<1>5. QED
  BY ZenonT(30), <1>1, <1>2, <1>3, <1>4

\* The replay removes the intent and goes back to who asked for it.
LEMMA RecoverRemoveIntentEffect ==
    ASSUME StateTypes, WriterOK, RecoverRemoveIntent
    PROVE  /\ cs.pc = "r_unintent" /\ cs.key \in Keys
           /\ (cs.ret = "idle" /\ cs' = NoWriter) \/ (cs.ret \in {"put", "d_enqueue"} /\ Moves(cs.ret))
           /\ UNCHANGED <<store, queue, receipt, tomb, migrated, backend, worker, rd>>
           /\ OthersSame(cs.key)
           /\ intent'[cs.key] = None
<1>1. cs.pc = "r_unintent" /\ cs.key \in Keys /\ cs \in Writer
  BY ZenonT(30) DEF RecoverRemoveIntent, StateTypes, WriterOK
<1>2. cs' = IF cs.ret = "idle" THEN NoWriter ELSE [cs EXCEPT !.pc = cs.ret]
  BY ZenonT(30) DEF RecoverRemoveIntent
<1>3. (cs.ret = "idle" /\ cs' = NoWriter) \/ (cs.ret \in {"put", "d_enqueue"} /\ Moves(cs.ret))
  BY ZenonT(30), <1>1, <1>2 DEF Writer, Moves
<1>4. UNCHANGED <<store, queue, receipt, tomb, migrated, backend, worker, rd>>
  BY ZenonT(30) DEF RecoverRemoveIntent, marks, worker, hist
<1>5. intent'[cs.key] = None /\ \A k \in Keys : k # cs.key => intent'[k] = intent[k]
  BY ZenonT(30), <1>1 DEF RecoverRemoveIntent, StateTypes
<1>6. OthersSame(cs.key)
  BY ZenonT(30), <1>4, <1>5 DEF OthersSame, Same, Tombstoned
<1>7. QED
  BY ZenonT(30), <1>1, <1>3, <1>4, <1>5, <1>6

\* complete_backend_upload removes the queue item last.
LEMMA CompleteUnqueueEffect ==
    ASSUME StateTypes, WriterOK, CompleteUnqueue
    PROVE  /\ cs.pc = "c_unqueue" /\ cs.key \in Keys /\ cs' = NoWriter
           /\ UNCHANGED <<store, intent, receipt, tomb, migrated, backend, snap, rd>>
           /\ wk'.pc = wk.pc
           /\ OthersSame(cs.key)
           /\ queue'[cs.key].op = "none" /\ up'[cs.key] = NoUpload
           /\ \A k \in Keys : k # cs.key => up'[k] = up[k]
<1>1. cs.pc = "c_unqueue" /\ cs.key \in Keys /\ cs' = NoWriter /\ wk'.pc = wk.pc
  BY ZenonT(30) DEF CompleteUnqueue, StateTypes, WriterOK, Worker
<1>2. UNCHANGED <<store, intent, receipt, tomb, migrated, backend, snap, rd>>
  BY ZenonT(30) DEF CompleteUnqueue, marks, worker, hist
<1>3. /\ queue'[cs.key] = NoItem /\ up'[cs.key] = NoUpload
      /\ \A k \in Keys : k # cs.key => queue'[k] = queue[k] /\ up'[k] = up[k]
  BY ZenonT(30), <1>1 DEF CompleteUnqueue, StateTypes
<1>4. OthersSame(cs.key)
  BY ZenonT(30), <1>2, <1>3 DEF OthersSame, Same, Tombstoned
<1>5. QED
  BY ZenonT(30), <1>1, <1>2, <1>3, <1>4, NullFields

\* The backend applies an upload, or the answer is lost before or after that.
LEMMA SendEffect ==
    ASSUME StateTypes, NEW key \in Keys, UploadSend(key) \/ UploadError(key)
    PROVE  /\ up[key].stage = "send" /\ wk.pc \in {"tier", "deleting"}
           /\ UNCHANGED <<store, queue, intent, receipt, tomb, migrated, cs, wk, snap, rd>>
           /\ OthersSame(key)
           /\ up'[key].stage \in {"sent", "failed"} /\ up'[key].op = up[key].op /\ up'[key].val = up[key].val
           /\ \A k \in Keys : k # key => up'[k] = up[k]
           /\ \/ backend'[key] = backend[key] /\ up'[key].stage = "failed"
              \/ backend'[key] = None /\ up[key].op = "Delete"
              \/ /\ up[key].op # "Delete"
                 /\ backend'[key] = up[key].val \/ (key \in Immutable /\ backend'[key] = backend[key] /\ backend[key] # None)
<1>1. up[key].stage = "send" /\ wk.pc \in {"tier", "deleting"}
  BY ZenonT(30) DEF UploadSend, UploadError, Running
<1>2. UNCHANGED <<store, queue, intent, receipt, tomb, migrated, cs, wk, snap, rd>>
  BY ZenonT(30) DEF UploadSend, UploadError, files
<1>3. up[key] \in Upload /\ \E st \in {"sent", "failed"} : up' = [up EXCEPT ![key] = [up[key] EXCEPT !.stage = st]]
  BY Zenon DEF UploadSend, UploadError, StateTypes
<1>4. /\ up'[key].stage \in {"sent", "failed"} /\ up'[key].op = up[key].op /\ up'[key].val = up[key].val
      /\ \A k \in Keys : k # key => up'[k] = up[k]
  BY <1>3 DEF Upload, StateTypes
<1>5. UploadError(key) => up'[key].stage = "failed"
  <2>1. UploadError(key) => up' = [up EXCEPT ![key] = [up[key] EXCEPT !.stage = "failed"]]
    BY Zenon DEF UploadError
  <2>2. QED
    BY <1>3, <2>1 DEF Upload, StateTypes
<1>6. ApplyToBackend(key) \/ (UNCHANGED backend /\ up'[key].stage = "failed")
  BY ZenonT(30), <1>5 DEF UploadSend, UploadError
<1>7. \A k \in Keys : k # key => backend'[k] = backend[k]
  BY ZenonT(30), <1>6 DEF ApplyToBackend, StateTypes
<1>8. \/ backend'[key] = backend[key] /\ up'[key].stage = "failed"
      \/ backend'[key] = None /\ up[key].op = "Delete"
      \/ /\ up[key].op # "Delete"
         /\ backend'[key] = up[key].val \/ (key \in Immutable /\ backend'[key] = backend[key] /\ backend[key] # None)
  BY ZenonT(30), <1>6 DEF ApplyToBackend, StateTypes
<1>9. OthersSame(key)
  BY ZenonT(30), <1>2, <1>7 DEF OthersSame, Same, Tombstoned
<1>10. QED
  BY ZenonT(30), <1>1, <1>2, <1>4, <1>8, <1>9

\* The startup writes the marker of the migration and begins to serve.
LEMMA ServeEffect ==
    ASSUME Serve
    PROVE  /\ wk.pc = "boot" /\ LockFree /\ wk'.pc = "idle" /\ migrated' = TRUE
           /\ UNCHANGED <<store, queue, intent, receipt, tomb, backend, cs, snap, up, rd>>
           /\ \A k \in Keys : intent[k] = None
           /\ migrated \/ \A k \in Keys : store[k] = None \/ Queued(k) \/ receipt[k] # None \/ Tombstoned(k)
  BY ZenonT(30), NullFields DEF Serve

\* The reader fills the store with what it fetched and answers.
LEMMA GetHydrateEffect ==
    ASSUME StateTypes, GetHydrate
    PROVE  /\ rd.pc = "hydrate" /\ rd.key \in Keys /\ LockFree
           /\ rd'.pc = "done" /\ rd'.key = rd.key /\ rd'.val = rd.val
           /\ UNCHANGED <<queue, intent, receipt, tomb, migrated, backend, cs, worker>>
           /\ OthersSame(rd.key)
           /\ store'[rd.key] = store[rd.key] \/ (store[rd.key] = None /\ store'[rd.key] = rd.val)
<1>1. rd.pc = "hydrate" /\ rd.key \in Keys /\ LockFree
  BY DEF GetHydrate, StateTypes, Reader, NoReader
<1>2. rd'.pc = "done" /\ rd'.key = rd.key /\ rd'.val = rd.val
  BY ZenonT(30), <1>1 DEF GetHydrate, Answer, StateTypes, Reader, NoReader
<1>3. UNCHANGED <<queue, intent, receipt, tomb, migrated, backend, cs, worker>>
  BY ZenonT(30) DEF GetHydrate, marks, worker, hist
<1>4. /\ store'[rd.key] = store[rd.key] \/ (store[rd.key] = None /\ store'[rd.key] = rd.val)
      /\ \A k \in Keys : k # rd.key => store'[k] = store[k]
  BY ZenonT(30), <1>1 DEF GetHydrate, StateTypes
<1>5. OthersSame(rd.key)
  BY ZenonT(30), <1>3, <1>4 DEF OthersSame, Same, Tombstoned
<1>6. QED
  BY ZenonT(30), <1>1, <1>2, <1>3, <1>4, <1>5

-----------------------------------------------------------------------------
(* The writer *)

\* A quiet step ends the request of the writer, begins a batch, leaves the writer
\* alone, or gives the lock to a new one.
\* What a quiet step does to the writer.
LEMMA QuietWriter ==
    ASSUME StateTypes, CompletionInv, QuietStep
    PROVE  \/ cs'.pc \in {"idle", "put"} /\ cs'.done = <<>>
           \/ cs' = cs /\ (cs.pc \in CompletePcs => UNCHANGED up)
           \/ EntryStep
<1> USE DEF files, marks, worker, volatile, hist
<1>1. CASE ReadStep
  BY Zenon, <1>1 DEF ReadStep, BeginGet, GetReadQueue, GetReadTomb, GetReadStore, GetReadBackend
<1>2. CASE StopStep
  <2>1. CASE \E items \in Batches : BeginPut(items)
    BY ZenonT(30), <2>1 DEF BeginPut, NoWriter
  <2>2. CASE AckPut \/ RecoverRefuse \/ Crash \/ WriteFails
    BY ZenonT(30), <2>2, NullFields DEF AckPut, RecoverRefuse, Crash, WriteFails, Abandon
  <2>3. QED
    BY ZenonT(30), <1>2, <2>1, <2>2 DEF StopStep
<1>3. CASE WorkerStep
  <2>1. cs' = cs
    <3>1. CASE \/ WorkerDue \/ ListQueue \/ NothingSelected \/ NextTier \/ RoundEnd
               \/ \E k \in Keys : ReadQueueItem(k) \/ UploadCheck(k) \/ UploadFailed(k)
      BY Zenon, <3>1
      DEF WorkerDue, ListQueue, NothingSelected, NextTier, RoundEnd, ReadQueueItem, UploadCheck, UploadFailed
    <3>2. CASE \/ \E s \in SUBSET Keys, hosts \in SUBSET Hosts : SelectRound(s, hosts)
               \/ \E batch \in BOOLEAN : DeleteBegin(batch)
               \/ WorkerWake \/ WorkerRecovered \/ WorkerNotDue
               \/ FlushCheck \/ RemoveFlushRequest \/ GcCollect \/ GcEnd
      BY Zenon, <3>2
      DEF SelectRound, DeleteBegin, WorkerWake, WorkerRecovered, WorkerNotDue, FlushCheck, RemoveFlushRequest,
          GcCollect, GcEnd
    <3>3. QED
      BY Zenon, <1>3, <3>1, <3>2 DEF WorkerStep
  <2>2. UNCHANGED up \/ cs.pc = "idle" \/ wk.pc = "read"
    <3>1. CASE \/ WorkerDue \/ ListQueue \/ NothingSelected \/ NextTier \/ RoundEnd
               \/ \E k \in Keys : ReadQueueItem(k) \/ UploadCheck(k) \/ UploadFailed(k)
      BY Zenon, <3>1
      DEF WorkerDue, ListQueue, NothingSelected, NextTier, RoundEnd, ReadQueueItem, UploadCheck, UploadFailed, LockFree
    <3>2. CASE \/ \E s \in SUBSET Keys, hosts \in SUBSET Hosts : SelectRound(s, hosts)
               \/ \E batch \in BOOLEAN : DeleteBegin(batch)
               \/ WorkerWake \/ WorkerRecovered \/ WorkerNotDue
               \/ FlushCheck \/ RemoveFlushRequest \/ GcCollect \/ GcEnd
      BY Zenon, <3>2
      DEF SelectRound, DeleteBegin, WorkerWake, WorkerRecovered, WorkerNotDue, FlushCheck, RemoveFlushRequest,
          GcCollect, GcEnd, LockFree
    <3>3. QED
      BY Zenon, <1>3, <3>1, <3>2 DEF WorkerStep
  <2>3. QED
    BY ZenonT(30), <2>1, <2>2 DEF CompletionInv, CompletePcs
<1>4. CASE OtherStep
  <2>1. CASE \E k \in Keys : RetryMarkFails(k)
    BY ZenonT(30), <2>1 DEF RetryMarkFails, LockFree, CompletePcs
  <2>2. QED
    BY Zenon, <1>4, <2>1 DEF OtherStep, RequestFlush, Time, RetryElapses, TombExpires
<1>5. QED
  BY Zenon, <1>1, <1>2, <1>3, <1>4 DEF QuietStep

\* What the new writer begins with.
\* A writer starts.
LEMMA EntryEffect ==
    ASSUME StateTypes, EntryStep
    PROVE  /\ LockFree /\ (cs' = cs \/ cs'.done = <<>>)
           /\ \/ cs' = cs
              \/ /\ cs'.key \in Keys
                 /\ \/ cs'.pc = "r_store" /\ intent[cs'.key] # None
                    \/ cs'.pc = "d_enqueue" /\ intent[cs'.key] = None
                    \/ cs'.pc = "c_retain" /\ up[cs'.key].op = "Delete" /\ UNCHANGED up
                    \/ cs'.pc = "c_receipt" /\ up[cs'.key].op # "Delete" /\ UNCHANGED up
                    \/ cs'.pc = "g_store" /\ Tombstoned(cs'.key) /\ ~Queued(cs'.key)
<1> USE DEF files, marks, worker, volatile, hist
<1>1. CASE \E k \in Keys : BeginDelete(k)
  BY <1>1 DEF BeginDelete, NoWriter
<1>2. CASE \E k \in Keys : WorkerRecover(k)
  BY ZenonT(30), <1>2 DEF WorkerRecover, NoWriter
<1>3. CASE \E k \in Keys : UploadComplete(k)
  BY ZenonT(30), <1>3 DEF UploadComplete, NoWriter
<1>4. CASE \E k \in Keys : GcBegin(k)
  <2>1. PICK k \in Keys : GcBegin(k)
    BY ZenonT(30), <1>4
  <2>2. CASE tomb[k].gen = gcq[k] /\ tomb[k].due /\ ~Queued(k)
    <3>1. Tombstoned(k)
      BY ZenonT(30), <2>2, NullFields DEF Tombstoned
    <3>2. cs' = [NoWriter EXCEPT !.pc = "g_store", !.key = k] /\ LockFree
      BY ZenonT(30), <2>1, <2>2 DEF GcBegin
    <3>3. QED
      BY ZenonT(30), <2>2, <3>1, <3>2 DEF NoWriter
  <2>3. CASE ~(tomb[k].gen = gcq[k] /\ tomb[k].due /\ ~Queued(k))
    BY ZenonT(30), <2>1, <2>3 DEF GcBegin
  <2>4. QED
    BY ZenonT(30), <2>2, <2>3
<1>5. QED
  BY Zenon, <1>1, <1>2, <1>3, <1>4 DEF EntryStep
=============================================================================
