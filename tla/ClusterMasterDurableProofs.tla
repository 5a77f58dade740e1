--------------------- MODULE ClusterMasterDurableProofs ---------------------
(* What a PUT was acknowledged for is kept, and live bytes are always backed   *)
(* up or on their way, for every value of the constants of ClusterMaster.      *)
EXTENDS ClusterMasterStepProofs

-----------------------------------------------------------------------------
(* UploadInv is inductive *)

Active == {"tier", "deletes", "deleting"}

\* A key without an upload satisfies UploadInv.
LEMMA UploadForgotten ==
    ASSUME NEW k \in Keys, up'[k] = NoUpload
    PROVE  UploadInv(k)'
  BY ZenonT(30), NullFields DEF UploadInv

\* UploadInv survives a step that leaves the upload of k and its queue copy alone.
LEMMA UploadKept ==
    ASSUME NEW k \in Keys, UploadInv(k),
           up'[k] = up[k], snap'[k] = snap[k], backend'[k] = backend[k],
           wk'.pc \in Active \/ wk.pc \notin Active
    PROVE  UploadInv(k)'
  BY ZenonT(30) DEF UploadInv, Active

\* An upload goes on to another stage.
LEMMA UploadMoves ==
    ASSUME StateTypes, NEW k \in Keys, UploadInv(k),
           NEW st \in {"ready", "send", "failed"}, up'[k] = [up[k] EXCEPT !.stage = st],
           snap'[k] = snap[k], wk'.pc \in Active
    PROVE  UploadInv(k)'
<1>1. up[k] \in Upload
  BY ZenonT(30) DEF StateTypes
<1>2. up'[k].stage = st /\ up'[k].op = up[k].op
  BY <1>1, StageOnly
<1>3. QED
  BY ZenonT(30), <1>2 DEF UploadInv, Active

\* The steps that write no file keep UploadInv.
LEMMA UploadQuiet ==
    ASSUME StateTypes, WriterOK, CompletionInv, \A k \in Keys : UploadInv(k), QuietStep,
           NEW k \in Keys
    PROVE  UploadInv(k)'
<1> USE DEF files, marks, worker, volatile, hist
<1>1. UploadInv(k) /\ backend'[k] = backend[k]
  BY ZenonT(30), QuietSame DEF Same
<1>2. CASE UNCHANGED <<snap, up, wk>>
  BY ZenonT(30), <1>1, <1>2 DEF UploadInv
<1>3. CASE EntryStep
  <2>1. CASE \E j \in Keys : UploadComplete(j)
    <3>1. UNCHANGED <<snap, wk>> /\ (up'[k] = up[k] \/ up'[k] = NoUpload)
      BY ZenonT(30), <2>1 DEF UploadComplete, StateTypes
    <3>2. QED
      BY ZenonT(30), <1>1, <3>1, UploadForgotten DEF UploadInv
  <2>2. QED
    BY Zenon, <1>2, <1>3, <2>1 DEF EntryStep, BeginDelete, WorkerRecover, GcBegin
<1>4. CASE ReadStep
  BY Zenon, <1>2, <1>4 DEF ReadStep, BeginGet, GetReadQueue, GetReadTomb, GetReadStore,
     GetReadBackend
<1>5. CASE StopStep
  <2>1. CASE RecoverRefuse \/ WriteFails
    <3>1. Abandon /\ UNCHANGED snap
      BY ZenonT(30), <2>1 DEF RecoverRefuse, WriteFails
    <3>2. EndsCycle \/ wk' = wk
      BY ZenonT(30), <3>1 DEF Abandon
    <3>3. CASE up'[k] = up[k] /\ ~EndsCycle
      BY ZenonT(30), <1>1, <3>1, <3>2, <3>3 DEF UploadInv
    <3>4. CASE up'[k] = [up[k] EXCEPT !.stage = "failed"] /\ cs.pc \in CompletePcs /\ ~EndsCycle
      <4>1. wk'.pc \in Active
        BY ZenonT(30), <3>2, <3>4 DEF CompletionInv, Active
      <4>2. QED
        BY ZenonT(30), <1>1, <3>1, <3>4, <4>1, UploadMoves
    <3>5. QED
      BY ZenonT(30), <3>1, <3>3, <3>4, AbandonUploads, UploadForgotten
  <2>2. CASE Crash
    BY ZenonT(30), <2>2, UploadForgotten DEF Crash
  <2>3. QED
    BY Zenon, <1>2, <1>5, <2>1, <2>2 DEF StopStep, BeginPut, AckPut
<1>6. CASE WorkerStep
  <2>1. CASE ListQueue \/ \E j \in Keys : ReadQueueItem(j)
    <3>1. wk.pc \in {"list", "read"} /\ UNCHANGED up
      BY ZenonT(30), <2>1 DEF ListQueue, ReadQueueItem
    <3>2. QED
      BY ZenonT(30), <1>1, <3>1, UploadForgotten DEF UploadInv
  <2>2. CASE \E j \in Keys : UploadCheck(j)
    <3>1. PICK j \in Keys : UploadCheck(j)
      BY ZenonT(30), <2>2
    <3>2. UNCHANGED <<snap, wk>> /\ wk.pc \in Active
      BY ZenonT(30), <3>1 DEF UploadCheck, Running, Active
    <3>3. \/ up'[k] = up[k] \/ up'[k] = NoUpload
          \/ up'[k] = [up[k] EXCEPT !.stage = "failed"] \/ up'[k] = [up[k] EXCEPT !.stage = "send"]
      BY Zenon, <3>1 DEF UploadCheck, StateTypes
    <3>4. QED
      BY ZenonT(30), <1>1, <3>2, <3>3, UploadKept, UploadForgotten, UploadMoves
  <2>3. CASE \E j \in Keys : UploadFailed(j)
    <3>1. PICK j \in Keys : UploadFailed(j)
      BY ZenonT(30), <2>3
    <3>2. UNCHANGED snap /\ wk'.pc = wk.pc /\ (up'[k] = up[k] \/ up'[k] = NoUpload)
      BY ZenonT(30), <3>1 DEF UploadFailed, StateTypes, Worker
    <3>3. QED
      BY ZenonT(30), <1>1, <3>2, UploadForgotten DEF UploadInv
  <2>4. CASE \E s \in SUBSET Keys, hosts \in SUBSET Hosts : SelectRound(s, hosts)
    <3>1. PICK s \in SUBSET Keys, hosts \in SUBSET Hosts : SelectRound(s, hosts)
      BY ZenonT(30), <2>4
    <3>2. UNCHANGED snap /\ wk'.pc = "tier"
      BY ZenonT(30), <3>1 DEF SelectRound, StateTypes, Worker
    <3>3. CASE k \notin s
      BY ZenonT(30), <3>1, <3>3, UploadForgotten DEF SelectRound
    <3>4. CASE k \in s
      <4>1. /\ up'[k].op = snap[k].op
            /\ up'[k].stage \in {"wait", "skip", "ready"}
            /\ up'[k].stage = "wait" => snap[k].op = "Delete"
        BY ZenonT(30), <3>1, <3>4 DEF SelectRound
      <4>2. QED
        BY ZenonT(30), <3>2, <4>1 DEF UploadInv
    <3>5. QED
      BY ZenonT(30), <3>3, <3>4
  <2>5. CASE NextTier
    <3>1. UNCHANGED snap /\ (up'[k] = NoUpload \/ (up'[k] = up[k] /\ wk'.pc \in Active))
      BY ZenonT(30), <2>5 DEF NextTier, StateTypes, Worker, Active
    <3>2. QED
      BY ZenonT(30), <1>1, <3>1, UploadForgotten, UploadKept
  <2>6. CASE RoundEnd
    BY ZenonT(30), <2>6, UploadForgotten DEF RoundEnd
  <2>7. CASE \E batch \in BOOLEAN : DeleteBegin(batch)
    <3>1. UNCHANGED snap /\ wk'.pc \in Active
      BY ZenonT(30), <2>7 DEF DeleteBegin, StateTypes, Worker, Active
    <3>2. \/ up'[k] = NoUpload
          \/ up'[k] = [up[k] EXCEPT !.stage = "send"] \/ up'[k] = [up[k] EXCEPT !.stage = "ready"]
      BY Zenon, <2>7 DEF DeleteBegin
    <3>3. QED
      BY ZenonT(30), <1>1, <3>1, <3>2, UploadForgotten, UploadMoves
  <2>8. CASE WorkerDue \/ NothingSelected \/ WorkerWake \/ WorkerRecovered \/ WorkerNotDue
    <3>1. UNCHANGED <<snap, up>> /\ wk.pc \notin Active
      BY ZenonT(30), <2>8 DEF WorkerDue, NothingSelected, WorkerWake, WorkerRecovered,
         WorkerNotDue, Active
    <3>2. QED
      BY ZenonT(30), <1>1, <3>1, UploadKept
  <2>9. CASE FlushCheck \/ RemoveFlushRequest \/ GcCollect \/ GcEnd
    <3>1. UNCHANGED <<snap, up>> /\ wk.pc \notin Active
      BY ZenonT(30), <2>9 DEF FlushCheck, RemoveFlushRequest, GcCollect, GcEnd, Active
    <3>2. QED
      BY ZenonT(30), <1>1, <3>1, UploadKept
  <2>10. QED
    BY Zenon, <1>6, <2>1, <2>2, <2>3, <2>4, <2>5, <2>6, <2>7, <2>8, <2>9 DEF WorkerStep
<1>7. CASE OtherStep
  <2>1. CASE \E j \in Keys : RetryMarkFails(j)
    BY ZenonT(30), <2>1, UploadForgotten DEF RetryMarkFails
  <2>2. QED
    BY Zenon, <1>2, <1>7, <2>1 DEF OtherStep, RequestFlush, Time, RetryElapses, TombExpires
<1>8. QED
  BY Zenon, <1>3, <1>4, <1>5, <1>6, <1>7 DEF QuietStep

\* So do the steps that write a file or the backend.
LEMMA UploadWrite ==
    ASSUME StateTypes, WriterOK, \A k \in Keys : UploadInv(k), WriteStep, NEW k \in Keys
    PROVE  UploadInv(k)'
<1> USE DEF files, marks, worker, volatile, hist
<1>1. UploadInv(k)
  BY ZenonT(30)
<1>2. CASE UNCHANGED <<backend, worker>>
  BY ZenonT(30), <1>1, <1>2 DEF UploadInv
<1>3. CASE \/ PutItem \/ PutStore \/ PutCancelGc \/ PutEnqueue \/ PutRemoveIntent \/ DeleteEnqueue
           \/ RecoverStore \/ RecoverEnqueue \/ RecoverCancelGc \/ RecoverRemoveIntent
  BY Zenon, <1>2, <1>3
  DEF PutItem, PutStore, PutCancelGc, PutEnqueue, PutRemoveIntent, DeleteEnqueue, RecoverStore,
      RecoverEnqueue, RecoverCancelGc, RecoverRemoveIntent
<1>4. CASE CompleteRetain \/ CompleteReceipt \/ GcDeleteStore \/ GcRemoveTomb \/ GetHydrate \/ \E j \in Keys : Reconcile(j)
  BY Zenon, <1>2, <1>4 DEF CompleteRetain, CompleteReceipt, GcDeleteStore, GcRemoveTomb,
     GetHydrate, Reconcile
<1>5. CASE CompleteUnqueue
  BY ZenonT(30), <1>1, <1>5, CompleteUnqueueEffect, UploadForgotten DEF UploadInv
<1>6. CASE Serve
  BY ZenonT(30), <1>1, <1>6, ServeEffect, UploadKept DEF Active
<1>7. CASE \E j \in Keys : UploadSend(j) \/ UploadError(j)
  <2>1. PICK j \in Keys : UploadSend(j) \/ UploadError(j)
    BY ZenonT(30), <1>7
  <2>2. CASE k # j
    BY ZenonT(30), <1>1, <2>1, <2>2, SendEffect DEF OthersSame, Same, UploadInv
  <2>3. CASE k = j
    <3>1. up[k].op \in {"none", "Put", "Delete"}
      BY ZenonT(30) DEF StateTypes, Upload
    <3>2. QED
      BY ZenonT(30), <1>1, <2>1, <2>3, <3>1, SendEffect DEF UploadInv
  <2>4. QED
    BY ZenonT(30), <2>2, <2>3
<1>8. QED
  BY Zenon, <1>3, <1>4, <1>5, <1>6, <1>7 DEF WriteStep

-----------------------------------------------------------------------------
(* LockInv is inductive *)

\* A free durable_lock guarantees nothing, so LockInv holds.
LEMMA LockIdle ==
    ASSUME cs'.pc \in {"idle", "put"}
    PROVE  LockInv'
  BY ZenonT(30) DEF LockInv, PutPcs, RecoverPcs, GcPcs, Stored

\* LockInv survives a step that leaves the writer and its key alone.
LEMMA LockKept ==
    ASSUME LockInv, cs' = cs, Same(cs.key),
           cs.pc \in CompletePcs => up'[cs.key].op = up[cs.key].op
    PROVE  LockInv'
  BY ZenonT(30) DEF LockInv, Same, Queued, CompletePcs

\* The steps that write no file keep LockInv.
LEMMA LockQuiet ==
    ASSUME StateTypes, WriterOK, CompletionInv, LockInv, QuietStep
    PROVE  LockInv'
<1>1. \A k \in Keys : Same(k)
  BY ZenonT(30), QuietSame
<1>2. CASE cs'.pc \in {"idle", "put"}
  BY ZenonT(30), <1>2, LockIdle
<1>3. CASE cs' = cs /\ (cs.pc \in CompletePcs => UNCHANGED up) /\ cs'.pc \notin {"idle", "put"}
  <2>1. Same(cs.key)
    BY ZenonT(30), <1>1, <1>3 DEF WriterOK
  <2>2. QED
    BY ZenonT(30), <1>3, <2>1, LockKept
<1>4. CASE EntryStep /\ cs'.pc \notin {"idle", "put"}
  <2>1. cs' # cs
    BY ZenonT(30), <1>4, EntryEffect DEF LockFree
  <2>2. PICK key \in Keys : /\ key = cs'.key
        /\ \/ cs'.pc = "r_store" /\ intent[key] # None
           \/ cs'.pc = "d_enqueue" /\ intent[key] = None
           \/ cs'.pc = "c_retain" /\ up[key].op = "Delete" /\ UNCHANGED up
           \/ cs'.pc = "c_receipt" /\ up[key].op # "Delete" /\ UNCHANGED up
           \/ cs'.pc = "g_store" /\ Tombstoned(key) /\ ~Queued(key)
    BY ZenonT(30), <1>4, <2>1, EntryEffect
  <2>3. Same(key)
    BY ZenonT(30), <1>1, <2>2
  <2>4. intent'[key] = intent[key] /\ (Tombstoned(key)' <=> Tombstoned(key)) /\ (Queued(key)' <=> Queued(key))
    BY ZenonT(30), <2>3 DEF Same, Queued
  <2>5. QED
    BY ZenonT(30), <2>2, <2>4 DEF LockInv, PutPcs, RecoverPcs, GcPcs, Stored
<1>5. QED
  BY ZenonT(30), <1>2, <1>3, <1>4, QuietWriter

\* Every write of the lock holder makes true what its next step relies on.
LEMMA LockWrite ==
    ASSUME StateTypes, WriterOK, LockInv, WriteStep
    PROVE  LockInv'
<1> USE DEF PutPcs, RecoverPcs, GcPcs, Stored
<1>1. CASE PutItem
  <2>1. PICK j, v : j = Head(cs.items)[1] /\ v = Head(cs.items)[2]
    BY ZenonT(30)
  <2>2. v \in Vals => v # None
    BY ZenonT(30), ConstantsAssumption
  <2>3. QED
    BY <1>1, <2>1, <2>2, PutItemEffect, NullFields DEF LockInv
<1>2. CASE PutStore
  BY ZenonT(30), <1>2, PutStoreEffect DEF LockInv, Moves
<1>3. CASE PutCancelGc
  BY ZenonT(30), <1>3, PutCancelGcEffect DEF LockInv, Moves, Tombstoned
<1>4. CASE PutEnqueue
  BY ZenonT(30), <1>4, PutEnqueueEffect DEF LockInv, Moves, Tombstoned
<1>5. CASE PutRemoveIntent \/ DeleteEnqueue \/ CompleteUnqueue \/ GcRemoveTomb
  BY ZenonT(30), <1>5, PutRemoveIntentEffect, DeleteEnqueueEffect, CompleteUnqueueEffect,
     GcRemoveTombEffect, LockIdle,
     NullFields
<1>6. CASE RecoverStore
  BY ZenonT(30), <1>6, RecoverStoreEffect DEF LockInv, Moves
<1>7. CASE RecoverEnqueue
  BY ZenonT(30), <1>7, RecoverEnqueueEffect DEF LockInv, Moves
<1>8. CASE RecoverCancelGc
  BY ZenonT(30), <1>8, RecoverCancelGcEffect DEF LockInv, Moves, Tombstoned
<1>9. CASE RecoverRemoveIntent
  <2>1. CASE cs'.pc \in {"idle", "put"}
    BY ZenonT(30), <2>1, LockIdle
  <2>2. CASE cs'.pc = "d_enqueue" /\ cs'.key = cs.key
    BY ZenonT(30), <1>9, <2>2, RecoverRemoveIntentEffect DEF LockInv
  <2>3. QED
    BY ZenonT(30), <1>9, <2>1, <2>2, RecoverRemoveIntentEffect, NullFields DEF Moves
<1>10. CASE CompleteRetain
  <2>1. store[cs.key] = None \/ Tombstoned(cs.key)'
    <3>1. CASE store[cs.key] # None
      <4>1. tomb'[cs.key].val = store[cs.key] /\ cs'.key = cs.key
        BY <1>10, <3>1, CompleteRetainEffect DEF Moves
      <4>2. QED
        BY ZenonT(30), <3>1, <4>1, NullFields DEF Tombstoned
    <3>2. QED
      BY ZenonT(30), <3>1
  <2>2. QED
    BY ZenonT(30), <1>10, <2>1, CompleteRetainEffect DEF LockInv, Moves
<1>11. CASE CompleteReceipt
  BY ZenonT(30), <1>11, CompleteReceiptEffect DEF LockInv, Moves, Tombstoned, worker
<1>12. CASE GcDeleteStore
  BY ZenonT(30), <1>12, GcDeleteStoreEffect DEF LockInv, Moves, Tombstoned, Queued
<1>13. CASE Serve \/ GetHydrate \/ \E j \in Keys : Reconcile(j)
  BY ZenonT(30), <1>13, ServeEffect, GetHydrateEffect, ReconcileEffect, LockIdle DEF LockFree
<1>14. CASE \E j \in Keys : UploadSend(j) \/ UploadError(j)
  <2>1. PICK j \in Keys : UploadSend(j) \/ UploadError(j)
    BY ZenonT(30), <1>14
  <2>2. CASE cs.pc \in {"idle", "put"}
    BY ZenonT(30), <2>1, <2>2, SendEffect, LockIdle
  <2>3. CASE cs.pc \notin {"idle", "put"}
    <3>1. up'[cs.key].op = up[cs.key].op
      BY ZenonT(30), <2>1, <2>3, SendEffect DEF WriterOK
    <3>2. UNCHANGED <<store, queue, intent, tomb, cs>>
      BY ZenonT(30), <2>1, SendEffect
    <3>3. QED
      BY ZenonT(30), <3>1, <3>2 DEF LockInv, Tombstoned, Queued
  <2>4. QED
    BY ZenonT(30), <2>2, <2>3
<1>15. QED
  BY Zenon, <1>1, <1>2, <1>3, <1>4, <1>5, <1>6, <1>7, <1>8, <1>9, <1>10, <1>11, <1>12, <1>13,
     <1>14 DEF WriteStep

-----------------------------------------------------------------------------
(* KeyDur is inductive *)

\* A key leaves stale only when its bytes in the store go or are those of a PUT.
LEMMA StaleStep ==
    ASSUME Mark, NEW k \in Keys
    PROVE  /\ StaleKept(k)
           /\ (LateFill(k) /\ k \notin stale') => store'[k] \in {None, intent[k]}
  BY ZenonT(30) DEF Mark, StaleKept

\* A key whose files and object stay as they are, with copies that come from them.
LEMMA KeyKeep ==
    ASSUME NEW k \in Keys, KeyDur(k), Same(k), Copied(k), StaleKept(k), migrated' = migrated
    PROVE  KeyDur(k)'
<1>1. PutInv(k)'
  BY ZenonT(30) DEF KeyDur, PutInv, IsPut, Same, Copied
<1>2. TombInv(k)'
  BY ZenonT(30) DEF KeyDur, TombInv, Same, StaleKept
<1>3. LiveInv(k)'
  BY ZenonT(30) DEF KeyDur, LiveInv, Same, StaleKept, Queued
<1>4. QED
  BY ZenonT(30), <1>1, <1>2, <1>3 DEF KeyDur

\* A worker that does not move keeps its copies of the queue.
LEMMA CopiesUnchanged ==
    ASSUME UNCHANGED worker, NEW k \in Keys
    PROVE  Copied(k)
  BY ZenonT(30) DEF worker, Copied

\* The writes of a PUT and of a replay.
LEMMA KeyPut ==
    ASSUME StateTypes, WriterOK, LockInv, NEW k \in Keys, k = cs.key, KeyDur(k), StaleKept(k),
           \/ PutStore \/ PutCancelGc \/ PutEnqueue \/ PutRemoveIntent
           \/ RecoverStore \/ RecoverEnqueue \/ RecoverCancelGc \/ RecoverRemoveIntent
    PROVE  KeyDur(k)'
<1> USE DEF PutPcs, RecoverPcs, Stored
<1>1. CASE PutStore \/ RecoverStore
  <2>1. /\ store'[k] = intent[k] /\ intent[k] # None
        /\ UNCHANGED <<queue, intent, receipt, tomb, migrated, backend, snap, up>>
    BY ZenonT(30), <1>1, PutStoreEffect, RecoverStoreEffect DEF LockInv, worker
  <2>2. QED
    BY ZenonT(30), <2>1 DEF KeyDur, PutInv, IsPut, TombInv, LiveInv, Tombstoned, Queued
<1>2. CASE PutCancelGc \/ RecoverCancelGc
  <2>1. /\ tomb'[k] = NoTomb /\ intent[k] # None
        /\ UNCHANGED <<store, queue, intent, receipt, migrated, backend, snap, up>>
    BY ZenonT(30), <1>2, PutCancelGcEffect, RecoverCancelGcEffect DEF LockInv, worker
  <2>2. QED
    BY ZenonT(30), <2>1 DEF KeyDur, PutInv, IsPut, TombInv, LiveInv, Tombstoned, Queued
<1>3. CASE PutEnqueue \/ RecoverEnqueue
  <2>1. /\ queue'[k].op = "Put" /\ queue'[k].val = intent[k] /\ intent[k] # None /\ store[k] = intent[k]
        /\ UNCHANGED <<store, intent, receipt, tomb, migrated, backend, snap, up>>
    BY ZenonT(30), <1>3, PutEnqueueEffect, RecoverEnqueueEffect DEF LockInv, worker
  <2>2. QED
    BY ZenonT(30), <2>1 DEF KeyDur, PutInv, IsPut, TombInv, LiveInv, Tombstoned, Queued, StaleKept
<1>4. CASE PutRemoveIntent \/ RecoverRemoveIntent
  <2>1. /\ intent'[k] = None /\ intent[k] # None /\ store[k] = intent[k] /\ ~Tombstoned(k)
        /\ queue[k].op = "Put" /\ queue[k].val = intent[k]
        /\ UNCHANGED <<store, queue, receipt, tomb, migrated, backend, snap, up>>
    BY ZenonT(30), <1>4, PutRemoveIntentEffect, RecoverRemoveIntentEffect DEF LockInv, worker
  <2>2. QED
    BY ZenonT(30), <2>1 DEF KeyDur, PutInv, IsPut, TombInv, LiveInv, Tombstoned, Queued
<1>5. QED
  BY ZenonT(30), <1>1, <1>2, <1>3, <1>4

\* A DELETE is queued; a new PUT announces its content.
LEMMA KeyRequest ==
    ASSUME StateTypes, WriterOK, NEW k \in Keys, KeyDur(k), StaleKept(k),
           \/ k = cs.key /\ DeleteEnqueue
           \/ k = Head(cs.items)[1] /\ PutItem
    PROVE  KeyDur(k)'
<1>1. CASE k = cs.key /\ DeleteEnqueue
  BY ZenonT(30), <1>1, DeleteEnqueueEffect
  DEF worker, KeyDur, PutInv, IsPut, TombInv, LiveInv, Tombstoned, Queued, StaleKept
<1>2. CASE k = Head(cs.items)[1] /\ PutItem
  <2>1. PICK v : v = Head(cs.items)[2]
    BY ZenonT(30)
  <2>2. /\ UNCHANGED <<store, queue, receipt, tomb, migrated, backend, snap, up>>
        /\ intent'[k] = intent[k] \/ (intent[k] = None /\ intent'[k] # None)
    BY ZenonT(30), <1>2, <2>1, PutItemEffect, ConstantsAssumption DEF worker
  <2>3. QED
    BY ZenonT(30), <2>2 DEF KeyDur, PutInv, IsPut, TombInv, LiveInv, Tombstoned, Queued, StaleKept
<1>3. QED
  BY ZenonT(30), <1>1, <1>2

\* The completion of an upload.
LEMMA KeyComplete ==
    ASSUME StateTypes, WriterOK, ReceiptInv, LockInv, UploadInv(cs.key), NEW k \in Keys, k = cs.key,
           KeyDur(k), StaleKept(k), CompleteRetain \/ CompleteReceipt \/ CompleteUnqueue
    PROVE  KeyDur(k)'
<1>1. /\ up[k].stage \in {"sent", "skip"} /\ Queued(k) /\ up[k].op # "none"
      /\ queue[k].op = up[k].op /\ queue[k].val = up[k].val
      /\ up[k].stage = "skip" => up[k].op = "Put"
  <2>1. cs.pc \in CompletePcs
    BY ZenonT(30), CompleteRetainEffect, CompleteReceiptEffect, CompleteUnqueueEffect
       DEF CompletePcs
  <2>2. up[k].stage \in {"sent", "skip"} /\ SameGeneration(k) /\ StageInv(k) /\ Agrees(k, up[k])
    BY ZenonT(30), <2>1 DEF ReceiptInv, CompletionInv, KeyInv
  <2>3. QED
    BY ZenonT(30), <2>2 DEF SameGeneration, StageInv, Agrees
<1>2. CASE CompleteRetain
  <2>1. UNCHANGED <<store, queue, intent, receipt, migrated, backend, snap, up>> /\ cs.pc = "c_retain"
    BY ZenonT(30), <1>2, CompleteRetainEffect DEF worker
  <2>2. backend[k] = None /\ snap[k].op = "Delete" /\ queue[k].op = "Delete" /\ up[k].op = "Delete"
    BY ZenonT(30), <1>1, <2>1 DEF LockInv, UploadInv
  <2>3. tomb'[k].val = store[k] \/ tomb'[k] = NoTomb
    BY ZenonT(30), <1>2, RetainedTomb
  <2>4. PutInv(k)' /\ LiveInv(k)'
    BY ZenonT(30), <2>1, <2>2 DEF PutInv, LiveInv, Queued
  <2>5. TombInv(k)'
    BY ZenonT(30), <2>1, <2>2, <2>3 DEF TombInv, Tombstoned
  <2>6. QED
    BY ZenonT(30), <2>4, <2>5 DEF KeyDur
<1>3. CASE CompleteReceipt
  <2>1. UNCHANGED <<store, queue, intent, tomb, migrated, backend, snap, up>>
    BY ZenonT(30), <1>3, CompleteReceiptEffect DEF worker
  <2>2. QED
    BY ZenonT(30), <1>1, <2>1 DEF KeyDur, PutInv, IsPut, TombInv, LiveInv, Tombstoned, Queued,
       StaleKept
<1>4. CASE CompleteUnqueue
  <2>1. /\ UNCHANGED <<store, intent, receipt, tomb, migrated, backend, snap>>
        /\ queue'[k].op = "none" /\ up'[k].op = "none"
    BY ZenonT(30), <1>4, CompleteUnqueueEffect, NullFields
  <2>2. receipt[k] = up[k].val
    BY ZenonT(30), <1>4 DEF CompleteUnqueue, ReceiptInv, CompletionInv, CompletePcs
  <2>3. up[k].op = "Delete" => store[k] = None \/ Tombstoned(k)
    BY ZenonT(30), <1>4 DEF CompleteUnqueue, LockInv
  <2>4. up[k].op \in {"Put", "Delete"}
    BY ZenonT(30), <1>1 DEF StateTypes, Upload
  <2>5. PutInv(k)' /\ TombInv(k)'
    BY ZenonT(30), <2>1 DEF KeyDur, PutInv, IsPut, TombInv, Tombstoned, StaleKept
  <2>6. LiveInv(k)'
    BY ZenonT(30), <1>1, <2>1, <2>2, <2>3, <2>4 DEF KeyDur, PutInv, IsPut, LiveInv, Tombstoned,
       Queued
  <2>7. QED
    BY ZenonT(30), <2>5, <2>6 DEF KeyDur
<1>5. QED
  BY ZenonT(30), <1>2, <1>3, <1>4

\* The local GC.
LEMMA KeyGc ==
    ASSUME StateTypes, WriterOK, LockInv, NEW k \in Keys, k = cs.key, KeyDur(k), StaleKept(k),
           GcDeleteStore \/ GcRemoveTomb
    PROVE  KeyDur(k)'
<1>1. CASE GcDeleteStore
  <2>1. /\ UNCHANGED <<queue, intent, receipt, tomb, migrated, backend, snap, up>>
        /\ Tombstoned(k) /\ ~Queued(k)
        /\ store'[k] \in {None, store[k]}
    BY ZenonT(30), <1>1, GcDeleteStoreEffect DEF LockInv, GcPcs, worker
  <2>2. QED
    BY ZenonT(30), <2>1 DEF KeyDur, PutInv, IsPut, TombInv, LiveInv, Tombstoned, Queued, StaleKept
<1>2. CASE GcRemoveTomb
  <2>1. /\ UNCHANGED <<store, queue, intent, receipt, migrated, backend, snap, up>>
        /\ tomb'[k] = NoTomb /\ Tombstoned(k) /\ ~Queued(k)
        /\ store[k] = None \/ store[k] # tomb[k].val
    BY ZenonT(30), <1>2, GcRemoveTombEffect DEF LockInv, GcPcs, worker
  <2>2. QED
    BY ZenonT(30), <2>1 DEF KeyDur, PutInv, IsPut, TombInv, LiveInv, Tombstoned, Queued, StaleKept
<1>3. QED
  BY ZenonT(30), <1>1, <1>2

\* The backend carries out a call, or not.
LEMMA KeySend ==
    ASSUME StateTypes, ReceiptInv, NEW k \in Keys, KeyDur(k), StaleKept(k), UploadSend(k) \/ UploadError(k)
    PROVE  KeyDur(k)'
<1>1. /\ UNCHANGED <<store, queue, intent, receipt, tomb, migrated, snap>>
      /\ up'[k].op = up[k].op /\ up'[k].val = up[k].val /\ up[k].stage = "send"
  BY ZenonT(30), SendEffect
<1>2. Queued(k) /\ up[k].op \in {"Put", "Delete"}
  BY ZenonT(30), <1>1 DEF ReceiptInv, KeyInv, StageInv, StateTypes, Upload
<1>3. backend'[k] \in {backend[k], None} \/ (up[k].op = "Put" /\ backend'[k] = up[k].val)
  BY ZenonT(30), <1>2, SendEffect
<1>4. PutInv(k)'
  BY ZenonT(30), <1>1 DEF KeyDur, PutInv, IsPut, Tombstoned
<1>5. TombInv(k)'
  BY ZenonT(30), <1>1, <1>3 DEF KeyDur, PutInv, IsPut, TombInv, Tombstoned, StaleKept
<1>6. LiveInv(k)'
  BY ZenonT(30), <1>1, <1>2 DEF LiveInv, Queued
<1>7. QED
  BY ZenonT(30), <1>4, <1>5, <1>6 DEF KeyDur

\* Startup queues what an older version left, and ends.
LEMMA KeyStartup ==
    ASSUME StateTypes, NEW k \in Keys, KeyDur(k), StaleKept(k), Reconcile(k) \/ Serve
    PROVE  KeyDur(k)'
<1>1. CASE Reconcile(k)
  BY ZenonT(30), <1>1, ReconcileEffect
  DEF worker, KeyDur, PutInv, IsPut, TombInv, LiveInv, Tombstoned, Queued, StaleKept
<1>2. CASE Serve
  <2>1. /\ UNCHANGED <<store, queue, intent, receipt, tomb, backend, snap, up>>
        /\ migrated \/ store[k] = None \/ Queued(k) \/ receipt[k] # None \/ Tombstoned(k)
    BY ZenonT(30), <1>2, ServeEffect
  <2>2. QED
    BY ZenonT(30), <2>1 DEF KeyDur, PutInv, IsPut, TombInv, LiveInv, Tombstoned, Queued, StaleKept
<1>3. QED
  BY ZenonT(30), <1>1, <1>2

\* A GET fills the store.
LEMMA KeyHydrate ==
    ASSUME StateTypes, NEW k \in Keys, k = rd.key, KeyDur(k), StaleKept(k), GetHydrate, rd.val # None,
           (LateFill(k) /\ k \notin stale') => store'[k] \in {None, intent[k]}
    PROVE  KeyDur(k)'
<1>1. /\ UNCHANGED <<queue, intent, receipt, tomb, migrated, backend, snap, up>>
      /\ store'[k] = store[k] \/ (store[k] = None /\ store'[k] = rd.val)
  BY ZenonT(30), GetHydrateEffect DEF worker
<1>2. CASE store'[k] = store[k]
  BY ZenonT(30), <1>1, <1>2 DEF KeyDur, PutInv, IsPut, TombInv, LiveInv, Tombstoned, Queued,
     StaleKept
<1>3. CASE store[k] = None /\ store'[k] = rd.val
  <2>1. backend[k] # rd.val => LateFill(k)
    BY ZenonT(30), <1>3, GetHydrateEffect DEF LateFill
  <2>2. QED
    BY ZenonT(30), <1>1, <1>3, <2>1 DEF KeyDur, PutInv, IsPut, TombInv, LiveInv, Tombstoned, Queued
<1>4. QED
  BY ZenonT(30), <1>1, <1>2, <1>3

\* The steps that write no file keep the invariant of every key.
LEMMA KeyQuiet ==
    ASSUME StateTypes, WriterOK, QuietStep, Mark, NEW k \in Keys, KeyDur(k)
    PROVE  KeyDur(k)'
  BY ZenonT(30), QuietSame, QuietCopied, StaleStep, KeyKeep

\* So does every write, of whatever key.
LEMMA KeyWrite ==
    ASSUME StateTypes, WriterOK, ReceiptInv, DurInv, WriteStep, Mark, NEW k \in Keys
    PROVE  KeyDur(k)'
<1>1. /\ KeyDur(k) /\ LockInv /\ StaleKept(k)
      /\ (LateFill(k) /\ k \notin stale') => store'[k] \in {None, intent[k]}
  BY ZenonT(30), StaleStep DEF DurInv
<1>2. ASSUME NEW key, OthersSame(key), Copied(k), migrated' = migrated, k # key
      PROVE  KeyDur(k)'
  BY ZenonT(30), <1>1, <1>2, KeyKeep DEF OthersSame
<1>3. CASE PutItem
  <2>1. PICK key, v : key = Head(cs.items)[1] /\ v = Head(cs.items)[2]
    BY ZenonT(30)
  <2>2. OthersSame(key) /\ UNCHANGED <<worker, migrated>>
    BY ZenonT(30), <1>3, <2>1, PutItemEffect
  <2>3. CASE k # key
    BY ZenonT(30), <1>2, <2>2, <2>3, CopiesUnchanged
  <2>4. CASE k = key
    BY ZenonT(30), <1>1, <1>3, <2>1, <2>4, KeyRequest
  <2>5. QED
    BY ZenonT(30), <2>3, <2>4
<1>4. CASE DeleteEnqueue
  <2>1. OthersSame(cs.key) /\ UNCHANGED <<worker, migrated>>
    BY ZenonT(30), <1>4, DeleteEnqueueEffect
  <2>2. CASE k # cs.key
    BY ZenonT(30), <1>2, <2>1, <2>2, CopiesUnchanged
  <2>3. CASE k = cs.key
    BY ZenonT(30), <1>1, <1>4, <2>3, KeyRequest
  <2>4. QED
    BY ZenonT(30), <2>2, <2>3
<1>5. CASE \/ PutStore \/ PutCancelGc \/ PutEnqueue \/ PutRemoveIntent
           \/ RecoverStore \/ RecoverEnqueue \/ RecoverCancelGc \/ RecoverRemoveIntent
  <2>1. OthersSame(cs.key) /\ UNCHANGED <<worker, migrated>>
    BY ZenonT(30), <1>5, PutStoreEffect, PutCancelGcEffect, PutEnqueueEffect,
       PutRemoveIntentEffect, RecoverStoreEffect,
       RecoverEnqueueEffect, RecoverCancelGcEffect, RecoverRemoveIntentEffect
  <2>2. CASE k # cs.key
    BY ZenonT(30), <1>2, <2>1, <2>2, CopiesUnchanged
  <2>3. CASE k = cs.key
    BY ZenonT(30), <1>1, <1>5, <2>3, KeyPut
  <2>4. QED
    BY ZenonT(30), <2>2, <2>3
<1>6. CASE CompleteRetain \/ CompleteReceipt \/ CompleteUnqueue
  <2>1. OthersSame(cs.key) /\ UNCHANGED <<snap, migrated>> /\ cs.key \in Keys
    BY ZenonT(30), <1>6, CompleteRetainEffect, CompleteReceiptEffect, CompleteUnqueueEffect
       DEF worker
  <2>2. CASE k # cs.key
    <3>1. up'[k] = up[k]
      BY ZenonT(30), <1>6, <2>2, CompleteRetainEffect, CompleteReceiptEffect,
         CompleteUnqueueEffect DEF worker
    <3>2. Copied(k)
      BY ZenonT(30), <2>1, <3>1 DEF Copied
    <3>3. QED
      BY ZenonT(30), <1>2, <2>1, <2>2, <3>2
  <2>3. CASE k = cs.key
    <3>1. UploadInv(cs.key)
      BY ZenonT(30), <2>1 DEF DurInv
    <3>2. QED
      BY ZenonT(30), <1>1, <1>6, <2>3, <3>1, KeyComplete
  <2>4. QED
    BY ZenonT(30), <2>2, <2>3
<1>7. CASE GcDeleteStore \/ GcRemoveTomb
  <2>1. OthersSame(cs.key) /\ UNCHANGED <<worker, migrated>>
    BY ZenonT(30), <1>7, GcDeleteStoreEffect, GcRemoveTombEffect
  <2>2. CASE k # cs.key
    BY ZenonT(30), <1>2, <2>1, <2>2, CopiesUnchanged
  <2>3. CASE k = cs.key
    BY ZenonT(30), <1>1, <1>7, <2>3, KeyGc
  <2>4. QED
    BY ZenonT(30), <2>2, <2>3
<1>8. CASE \E j \in Keys : UploadSend(j) \/ UploadError(j)
  <2>1. PICK j \in Keys : UploadSend(j) \/ UploadError(j)
    BY ZenonT(30), <1>8
  <2>2. CASE k # j
    <3>1. Copied(k) /\ OthersSame(j) /\ UNCHANGED migrated
      BY ZenonT(30), <2>1, <2>2, SendEffect DEF Copied
    <3>2. QED
      BY ZenonT(30), <1>2, <2>2, <3>1
  <2>3. CASE k = j
    BY ZenonT(30), <1>1, <2>1, <2>3, KeySend
  <2>4. QED
    BY ZenonT(30), <2>2, <2>3
<1>9. CASE \E j \in Keys : Reconcile(j)
  <2>1. PICK j \in Keys : Reconcile(j)
    BY ZenonT(30), <1>9
  <2>2. CASE k # j
    BY ZenonT(30), <1>2, <2>1, <2>2, ReconcileEffect, CopiesUnchanged
  <2>3. CASE k = j
    BY ZenonT(30), <1>1, <2>1, <2>3, KeyStartup
  <2>4. QED
    BY ZenonT(30), <2>2, <2>3
<1>10. CASE Serve
  BY ZenonT(30), <1>1, <1>10, KeyStartup
<1>11. CASE GetHydrate
  <2>1. OthersSame(rd.key) /\ UNCHANGED <<worker, migrated>> /\ rd.val # None
    BY ZenonT(30), <1>11, GetHydrateEffect DEF DurInv, ReaderInv
  <2>2. CASE k # rd.key
    BY ZenonT(30), <1>2, <2>1, <2>2, CopiesUnchanged
  <2>3. CASE k = rd.key
    BY ZenonT(30), <1>1, <1>11, <2>1, <2>3, KeyHydrate
  <2>4. QED
    BY ZenonT(30), <2>2, <2>3
<1>12. QED
  BY Zenon, <1>3, <1>4, <1>5, <1>6, <1>7, <1>8, <1>9, <1>10, <1>11 DEF WriteStep

\* A reader hydrates only bytes it found in the backend.
LEMMA ReaderKept ==
    ASSUME StateTypes, WriterOK, ReaderInv, Step
    PROVE  ReaderInv'
<1> USE DEF files, marks, worker, volatile, hist
<1>1. CASE UNCHANGED rd
  BY ZenonT(30), <1>1 DEF ReaderInv
<1>2. CASE ReadStep
  <2>1. CASE \E k \in Readable : BeginGet(k)
    BY <2>1 DEF BeginGet, ReaderInv
  <2>2. CASE GetReadQueue
    BY ZenonT(30), <2>2 DEF GetReadQueue, Answer, StateTypes, Reader, NoReader, ReaderInv
  <2>3. CASE GetReadTomb
    BY ZenonT(30), <2>3 DEF GetReadTomb, Answer, StateTypes, Reader, NoReader, ReaderInv
  <2>4. CASE GetReadStore
    BY ZenonT(30), <2>4 DEF GetReadStore, Answer, StateTypes, Reader, NoReader, ReaderInv
  <2>5. CASE GetReadBackend
    BY ZenonT(30), <2>5 DEF GetReadBackend, Answer, StateTypes, Reader, NoReader, ReaderInv
  <2>6. QED
    BY Zenon, <1>2, <2>1, <2>2, <2>3, <2>4, <2>5 DEF ReadStep
<1>3. CASE EntryStep
  BY Zenon, <1>1, <1>3 DEF EntryStep, BeginDelete, WorkerRecover, UploadComplete, GcBegin
<1>4. CASE StopStep
  BY Zenon, <1>1, <1>4, NullFields DEF StopStep, BeginPut, AckPut, RecoverRefuse, Crash,
     WriteFails, ReaderInv
<1>5. CASE OtherStep
  BY Zenon, <1>1, <1>5 DEF OtherStep, RequestFlush, Time, RetryElapses, TombExpires, RetryMarkFails
<1>6. CASE WorkerStep
  <2>1. CASE \/ WorkerDue \/ ListQueue \/ NothingSelected \/ NextTier \/ RoundEnd
             \/ \E k \in Keys : ReadQueueItem(k) \/ UploadCheck(k) \/ UploadFailed(k)
    BY Zenon, <1>1, <2>1
    DEF WorkerDue, ListQueue, NothingSelected, NextTier, RoundEnd, ReadQueueItem, UploadCheck, UploadFailed
  <2>2. CASE \/ \E s \in SUBSET Keys, hosts \in SUBSET Hosts : SelectRound(s, hosts)
             \/ \E batch \in BOOLEAN : DeleteBegin(batch)
             \/ WorkerWake \/ WorkerRecovered \/ WorkerNotDue
             \/ FlushCheck \/ RemoveFlushRequest \/ GcCollect \/ GcEnd
    BY Zenon, <1>1, <2>2
    DEF SelectRound, DeleteBegin, WorkerWake, WorkerRecovered, WorkerNotDue, FlushCheck, RemoveFlushRequest,
        GcCollect, GcEnd
  <2>3. QED
    BY Zenon, <1>6, <2>1, <2>2 DEF WorkerStep
<1>7. CASE WriteStep
  <2>1. CASE GetHydrate
    BY ZenonT(30), <2>1, GetHydrateEffect DEF ReaderInv
  <2>2. CASE \/ PutItem \/ PutStore \/ PutCancelGc \/ PutEnqueue \/ PutRemoveIntent \/ DeleteEnqueue
             \/ RecoverStore \/ RecoverEnqueue \/ RecoverCancelGc \/ RecoverRemoveIntent
    BY Zenon, <1>1, <2>2
    DEF PutItem, PutStore, PutCancelGc, PutEnqueue, PutRemoveIntent, DeleteEnqueue, RecoverStore,
        RecoverEnqueue, RecoverCancelGc, RecoverRemoveIntent
  <2>3. CASE \/ CompleteRetain \/ CompleteReceipt \/ CompleteUnqueue \/ GcDeleteStore \/ GcRemoveTomb
             \/ Serve \/ \E k \in Keys : Reconcile(k) \/ UploadSend(k) \/ UploadError(k)
    BY Zenon, <1>1, <2>3
    DEF CompleteRetain, CompleteReceipt, CompleteUnqueue, GcDeleteStore, GcRemoveTomb, Serve, Reconcile,
        UploadSend, UploadError
  <2>4. QED
    BY Zenon, <1>7, <2>1, <2>2, <2>3 DEF WriteStep
<1>8. QED
  BY ZenonT(30), <1>2, <1>3, <1>4, <1>5, <1>6, <1>7, StepKinds DEF QuietStep

\* No step of the code breaks DurInv.
LEMMA DurStep ==
    ASSUME StateTypes, WriterOK, ReceiptInv, DurInv, [Next]_vars
    PROVE  DurInv'
<1>1. CASE UNCHANGED vars
  <2>1. UNCHANGED <<store, queue, intent, receipt, tomb, migrated, backend, stale>> /\ UNCHANGED <<cs, wk, snap, up, rd>>
    BY ZenonT(30), <1>1 DEF vars, files, volatile, worker
  <2>2. LockInv' /\ ReaderInv'
    BY ZenonT(30), <2>1 DEF DurInv, LockInv, ReaderInv, Tombstoned, Queued
  <2>3. \A k \in Keys : UploadInv(k)'
    BY ZenonT(30), <2>1 DEF DurInv, UploadInv
  <2>4. ASSUME NEW k \in Keys PROVE KeyDur(k)'
    <3>1. KeyDur(k)
      BY ZenonT(30) DEF DurInv
    <3>2. QED
      BY ZenonT(30), <2>1, <3>1 DEF KeyDur, PutInv, IsPut, TombInv, LiveInv, Tombstoned, Queued
  <2>5. QED
    BY ZenonT(30), <2>2, <2>3, <2>4 DEF DurInv
<1>2. CASE Step /\ Mark
  <2>1. LockInv /\ CompletionInv
    BY ZenonT(30) DEF DurInv, ReceiptInv
  <2>2. LockInv'
    BY ZenonT(30), <1>2, <2>1, StepKinds, LockQuiet, LockWrite
  <2>3. ASSUME NEW k \in Keys PROVE UploadInv(k)'
    <3>1. \A j \in Keys : UploadInv(j)
      BY ZenonT(30) DEF DurInv
    <3>2. QED
      BY ZenonT(30), <1>2, <2>1, <2>3, <3>1, StepKinds, UploadQuiet, UploadWrite
  <2>4. ASSUME NEW k \in Keys PROVE KeyDur(k)'
    <3>1. KeyDur(k)
      BY ZenonT(30), <2>4 DEF DurInv
    <3>2. QED
      BY ZenonT(30), <1>2, <2>4, <3>1, StepKinds, KeyQuiet, KeyWrite
  <2>5. ReaderInv'
    BY ZenonT(30), <1>2, ReaderKept DEF DurInv
  <2>6. QED
    BY ZenonT(30), <2>2, <2>3, <2>4, <2>5 DEF DurInv
<1>3. QED
  BY ZenonT(30), <1>1, <1>2 DEF Next

-----------------------------------------------------------------------------
(* The objects of a batch that are done *)

\* An object that is safe stays so while nothing about its key changes.
LEMMA SafeSame ==
    ASSUME NEW k, NEW v, Same(k), Safe(k, v)
    PROVE  Safe(k, v)'
  BY ZenonT(30) DEF Same, Safe, Deleted, Tombstoned

\* The part of the batch that is done is a sequence of keys and contents.
LEMMA DoneTypes ==
    ASSUME StateTypes, NEW i \in DOMAIN cs.done
    PROVE  cs.done[i][1] \in Keys /\ cs.done[i] = <<cs.done[i][1], cs.done[i][2]>>
<1>1. cs.done \in Seq(Keys \X Vals)
  BY ZenonT(30) DEF StateTypes, Writer
<1>2. cs.done[i] \in Keys \X Vals
  BY <1>1
<1>3. QED
  BY <1>2

\* A writer that has nothing done yet.
LEMMA BatchEmpty ==
    ASSUME cs'.done = <<>>
    PROVE  BatchInv'
<1>1. DOMAIN cs'.done = {}
  BY SMT
<1>2. QED
  BY ZenonT(30), <1>1 DEF BatchInv

\* A step of the writer that adds nothing to the part that is done.
LEMMA BatchKept ==
    ASSUME StateTypes, BatchInv, cs'.done = cs.done,
           \/ cs.done = <<>> \/ cs'.pc \in {"put"} \cup PutPcs \/ (cs'.pc \in RecoverPcs /\ cs'.ret = "put"),
           cs.pc \in PutPcs => cs'.pc \in PutPcs /\ cs'.key = cs.key,
           \A k \in Keys : Same(k) \/ (cs'.pc \in PutPcs /\ cs'.key = k) \/ intent[k] # None
    PROVE  BatchInv'
<1>1. ASSUME NEW i \in DOMAIN cs.done
      PROVE  \/ \E j \in DOMAIN cs.done : j > i /\ cs.done[j][1] = cs.done[i][1]
             \/ cs'.pc \in PutPcs /\ cs'.key = cs.done[i][1]
             \/ Safe(cs.done[i][1], cs.done[i][2])'
  <2>1. PICK k, v : k = cs.done[i][1] /\ v = cs.done[i][2] /\ UNCHANGED <<k, v>>
    BY ZenonT(30)
  <2>2. k \in Keys
    BY ZenonT(30), <1>1, <2>1, DoneTypes
  <2>3. \/ \E j \in DOMAIN cs.done : j > i /\ cs.done[j][1] = k
        \/ cs.pc \in PutPcs /\ cs.key = k
        \/ Safe(k, v)
    BY ZenonT(30), <1>1, <2>1 DEF BatchInv
  <2>4. CASE Safe(k, v) /\ ~(cs'.pc \in PutPcs /\ cs'.key = k)
    <3>1. Same(k)
      BY ZenonT(30), <2>2, <2>4 DEF Safe
    <3>2. Safe(k, v)'
      BY ZenonT(30), <2>4, <3>1, SafeSame
    <3>3. QED
      BY ZenonT(30), <2>1, <3>2 DEF Safe
  <2>5. QED
    BY ZenonT(30), <2>1, <2>3, <2>4
<1>2. QED
  BY ZenonT(30), <1>1 DEF BatchInv

\* The object of key is done; an earlier item of the batch for it no longer counts.
LEMMA BatchGrows ==
    ASSUME StateTypes, BatchInv, NEW key \in Keys, NEW v \in Vals,
           cs'.pc = "put", cs'.done = Append(cs.done, <<key, v>>),
           cs.pc \in PutPcs => cs.key = key, OthersSame(key), Safe(key, v)'
    PROVE  BatchInv'
<1> DEFINE old == cs.done
           new == cs'.done
           n == Len(old) + 1
<1>1. old \in Seq(Keys \X Vals) /\ <<key, v>> \in Keys \X Vals /\ new = Append(old, <<key, v>>) /\ n = Len(old) + 1
  BY ZenonT(30) DEF StateTypes, Writer
<1> HIDE DEF old, new, n
<1>a. PICK e \in Keys \X Vals : e = <<key, v>> /\ new = Append(old, e)
  BY ZenonT(30), <1>1
<1>b. Len(old) \in Nat /\ DOMAIN old = 1..Len(old)
  BY <1>1
<1>c. Len(new) = Len(old) + 1 /\ DOMAIN new = 1..(Len(old) + 1)
  BY <1>1, <1>a
<1>d. new[Len(old) + 1] = e /\ \A i \in 1..Len(old) : new[i] = old[i]
  BY <1>1, <1>a
<1>2. /\ n \in DOMAIN new /\ new[n] = <<key, v>>
      /\ \A i \in DOMAIN old : i \in DOMAIN new /\ i < n /\ new[i] = old[i]
      /\ \A i \in DOMAIN new : i = n \/ i \in DOMAIN old
  BY <1>1, <1>a, <1>b, <1>c, <1>d
<1>3. ASSUME NEW i \in DOMAIN new
      PROVE  \/ \E j \in DOMAIN new : j > i /\ new[j][1] = new[i][1]
             \/ Safe(cs.done[i][1], cs.done[i][2])'
  <2>1. PICK k, w : k = new[i][1] /\ w = new[i][2] /\ UNCHANGED <<k, w>>
    BY ZenonT(30)
  <2>2. CASE i = n
    <3>1. k = key /\ w = v
      BY <1>2, <2>1, <2>2
    <3>2. QED
      BY ZenonT(30), <2>1, <3>1 DEF Safe, new
  <2>3. CASE i # n /\ k = key
    BY <1>2, <1>3, <2>1, <2>3
  <2>4. CASE i # n /\ k # key
    <3>1. i \in DOMAIN old /\ k = old[i][1] /\ w = old[i][2]
      BY ZenonT(30), <1>2, <1>3, <2>1, <2>4
    <3>2. k \in Keys
      BY ZenonT(30), <3>1, DoneTypes DEF old
    <3>3. \/ \E j \in DOMAIN old : j > i /\ old[j][1] = k
          \/ cs.pc \in PutPcs /\ cs.key = k
          \/ Safe(k, w)
      BY ZenonT(30), <3>1 DEF BatchInv, old
    <3>4. CASE \E j \in DOMAIN old : j > i /\ old[j][1] = k
      BY ZenonT(30), <1>2, <2>1, <3>4
    <3>5. CASE Safe(k, w)
      <4>1. Same(k)
        BY ZenonT(30), <2>4, <3>2 DEF OthersSame
      <4>2. QED
        BY ZenonT(30), <2>1, <3>5, <4>1, SafeSame DEF Safe, new
    <3>6. QED
      BY ZenonT(30), <2>4, <3>3, <3>4, <3>5
  <2>5. QED
    BY ZenonT(30), <2>2, <2>3, <2>4
<1>4. QED
  BY ZenonT(30), <1>3 DEF BatchInv, new

\* No step of the code breaks BatchInv.
LEMMA BatchStep ==
    ASSUME StateTypes, WriterOK, CompletionInv, LockInv, BatchInv, Step
    PROVE  BatchInv'
<1> USE DEF PutPcs, RecoverPcs
<1>1. ASSUME LockFree PROVE cs.done = <<>>
  BY ZenonT(30), <1>1 DEF BatchInv, LockFree
<1>2. ASSUME cs' = cs, \A k \in Keys : Same(k) PROVE BatchInv'
  BY ZenonT(30), <1>2, BatchKept DEF BatchInv
<1>3. ASSUME LockFree, cs' = cs PROVE BatchInv'
  BY ZenonT(30), <1>1, <1>3, BatchEmpty
<1>4. ASSUME cs' = NoWriter PROVE BatchInv'
  BY ZenonT(30), <1>4, BatchEmpty, NullFields
<1>5. CASE QuietStep
  <2>1. \A k \in Keys : Same(k)
    BY ZenonT(30), <1>5, QuietSame
  <2>2. CASE EntryStep
    BY ZenonT(30), <1>2, <2>1, <2>2, EntryEffect, BatchEmpty
  <2>3. QED
    BY ZenonT(30), <1>2, <1>5, <2>1, <2>2, QuietWriter, BatchEmpty
<1>6. CASE PutItem
  <2>1. PICK k, v : k = Head(cs.items)[1] /\ v = Head(cs.items)[2] /\ UNCHANGED <<k, v>>
    BY ZenonT(30)
  <2>2. /\ cs.pc = "put" /\ k \in Keys /\ v \in Vals
        /\ OthersSame(k)
        /\ UNCHANGED <<store, queue, receipt, tomb, migrated, backend, worker, rd>>
    BY ZenonT(30), <1>6, <2>1, PutItemEffect
  <2>3. CASE UNCHANGED intent /\ cs'.pc = "r_store" /\ cs'.ret = "put" /\ cs'.done = cs.done
    <3>1. \A j \in Keys : Same(j)
      BY ZenonT(30), <2>2, <2>3 DEF Same, Tombstoned
    <3>2. QED
      BY ZenonT(30), <2>2, <2>3, <3>1, BatchKept
  <2>4. CASE cs'.pc = "p_store" /\ cs'.key = k /\ cs'.done = cs.done
    BY ZenonT(30), <2>2, <2>4, BatchKept DEF OthersSame
  <2>5. CASE /\ intent[k] = None /\ UNCHANGED intent /\ ~NeedsBackup(k, v)
             /\ cs'.pc = "put" /\ cs'.done = Append(cs.done, <<k, v>>)
    <3>1. Safe(k, v)'
      BY ZenonT(30), <2>1, <2>2, <2>5 DEF Safe, NeedsBackup, Deleted, Queued, Tombstoned
    <3>2. QED
      BY ZenonT(30), <2>2, <2>5, <3>1, BatchGrows
  <2>6. QED
    BY ZenonT(30), <1>4, <1>6, <2>1, <2>3, <2>4, <2>5, PutItemEffect
<1>7. CASE PutStore \/ PutCancelGc \/ PutEnqueue
  <2>1. /\ cs.pc \in PutPcs /\ cs'.pc \in PutPcs /\ cs'.key = cs.key /\ cs'.done = cs.done
        /\ OthersSame(cs.key)
    BY ZenonT(30), <1>7, PutStoreEffect, PutCancelGcEffect, PutEnqueueEffect DEF Moves
  <2>2. QED
    BY ZenonT(30), <2>1, BatchKept DEF OthersSame
<1>8. CASE PutRemoveIntent
  <2>1. PICK key, v : key = cs.key /\ v = intent[cs.key] /\ UNCHANGED <<key, v>>
    BY ZenonT(30)
  <2>2. /\ cs.pc = "p_unintent" /\ key \in Keys /\ cs'.pc = "put" /\ OthersSame(key)
        /\ cs'.done = Append(cs.done, <<key, v>>)
        /\ UNCHANGED <<store, queue, receipt, tomb>> /\ intent'[key] = None
        /\ intent[key] = v /\ v # None /\ store[key] = v /\ ~Tombstoned(key)
        /\ queue[key].op = "Put" /\ queue[key].val = v
    BY ZenonT(30), <1>8, <2>1, PutRemoveIntentEffect DEF LockInv, Stored
  <2>3. v \in Vals
    BY ZenonT(30), <2>2 DEF StateTypes, Content
  <2>4. Safe(key, v)'
    BY ZenonT(30), <2>1, <2>2 DEF Safe, Deleted, Tombstoned
  <2>5. QED
    BY ZenonT(30), <2>1, <2>2, <2>3, <2>4, BatchGrows
<1>9. CASE RecoverStore \/ RecoverEnqueue \/ RecoverCancelGc
  <2>1. /\ cs.pc \in RecoverPcs /\ cs'.pc \in RecoverPcs /\ cs'.ret = cs.ret /\ cs'.done = cs.done
        /\ OthersSame(cs.key) /\ intent[cs.key] # None
    BY ZenonT(30), <1>9, RecoverStoreEffect, RecoverEnqueueEffect, RecoverCancelGcEffect
       DEF Moves, LockInv
  <2>2. cs.done = <<>> \/ cs'.ret = "put"
    BY ZenonT(30), <2>1 DEF BatchInv
  <2>3. QED
    BY ZenonT(30), <2>1, <2>2, BatchKept DEF OthersSame
<1>10. CASE RecoverRemoveIntent
  <2>1. /\ cs.pc = "r_unintent" /\ OthersSame(cs.key) /\ intent[cs.key] # None
        /\ cs' = NoWriter \/ (cs.ret \in {"put", "d_enqueue"} /\ Moves(cs.ret))
    BY ZenonT(30), <1>10, RecoverRemoveIntentEffect DEF LockInv
  <2>2. CASE cs.ret \in {"put", "d_enqueue"} /\ Moves(cs.ret)
    <3>1. cs'.done = cs.done /\ cs'.pc = cs.ret /\ (cs.done = <<>> \/ cs.ret = "put")
      BY ZenonT(30), <2>1, <2>2 DEF BatchInv, Moves
    <3>2. QED
      BY ZenonT(30), <2>1, <3>1, BatchKept DEF OthersSame
  <2>3. QED
    BY ZenonT(30), <1>4, <2>1, <2>2
<1>11. CASE CompleteRetain \/ CompleteReceipt \/ GcDeleteStore
  <2>1. cs.pc \in {"c_retain", "c_receipt", "g_store"} /\ cs'.done = cs.done
    BY ZenonT(30), <1>11, CompleteRetainEffect, CompleteReceiptEffect, GcDeleteStoreEffect DEF Moves
  <2>2. cs.done = <<>>
    BY ZenonT(30), <2>1 DEF BatchInv
  <2>3. QED
    BY ZenonT(30), <2>1, <2>2, BatchEmpty
<1>12. CASE DeleteEnqueue \/ CompleteUnqueue \/ GcRemoveTomb
  BY ZenonT(30), <1>4, <1>12, DeleteEnqueueEffect, CompleteUnqueueEffect, GcRemoveTombEffect
<1>13. CASE (\E k \in Keys : Reconcile(k)) \/ Serve \/ GetHydrate
  BY ZenonT(30), <1>3, <1>13, ReconcileEffect, ServeEffect, GetHydrateEffect
<1>14. CASE \E k \in Keys : UploadSend(k) \/ UploadError(k)
  <2>1. UNCHANGED <<store, queue, intent, receipt, tomb, cs>>
    BY ZenonT(30), <1>14, SendEffect
  <2>2. QED
    BY ZenonT(30), <2>1 DEF BatchInv, Safe, Deleted, Tombstoned
<1>15. CASE WriteStep
  BY Zenon, <1>6, <1>7, <1>8, <1>9, <1>10, <1>11, <1>12, <1>13, <1>14, <1>15 DEF WriteStep
<1>16. QED
  BY ZenonT(30), <1>5, <1>15, StepKinds

-----------------------------------------------------------------------------

\* The state the process starts from satisfies DurInv and BatchInv.
LEMMA DurInit == Init => DurInv /\ BatchInv
<1> SUFFICES ASSUME Init PROVE DurInv /\ BatchInv
  BY ZenonT(30)
<1>1. cs.pc = "idle" /\ cs.done = <<>> /\ rd.pc = "idle"
  BY ZenonT(30), NullFields DEF Init
<1>2. LockInv /\ ReaderInv
  BY ZenonT(30), <1>1 DEF LockInv, ReaderInv, PutPcs, RecoverPcs, GcPcs, Stored
<1>3. DOMAIN cs.done = {}
  BY <1>1, SMT
<1>4. ASSUME NEW k \in Keys PROVE UploadInv(k) /\ KeyDur(k)
  <2>1. /\ queue[k] = NoItem /\ snap[k] = NoItem /\ up[k] = NoUpload /\ receipt[k] = None
        /\ tomb[k] = NoTomb /\ migrated = FALSE
    BY ZenonT(30) DEF Init
  <2>2. QED
    BY ZenonT(30), <2>1, NullFields DEF UploadInv, KeyDur, PutInv, TombInv, LiveInv, Tombstoned
<1>5. QED
  BY ZenonT(30), <1>1, <1>2, <1>3, <1>4 DEF DurInv, BatchInv
=============================================================================
