--------------------- MODULE ClusterMasterServiceProofs ---------------------
(* The master implements ObjectService, and its lock-free GET is regular, for  *)
(* every value of the constants of ClusterMaster.                              *)
EXTENDS ClusterMasterStepProofs

-----------------------------------------------------------------------------
(* What a step changes of what the slaves see *)

\* What a GET sees of k depends on the files and the object of k only.
LEMMA VisibleSame ==
    ASSUME NEW k, Same(k)
    PROVE  Visible(k)' = Visible(k)
  BY ZenonT(30) DEF Same, Visible, Deleted, Tombstoned

\* What a GET sees is a content or nothing.
LEMMA VisibleType ==
    ASSUME StateTypes, NEW k \in Keys
    PROVE  Visible(k) \in Content
  BY ZenonT(30) DEF StateTypes, Visible, Content

\* The visible content of k stays, becomes that of the PUT under way, goes by a
\* DELETE, or is that of a late read.
Turns(k) ==
    /\ intent'[k] = intent[k]
    /\ \/ Visible(k)' = Visible(k)
       \/ intent[k] # None /\ Visible(k)' = intent[k]
       \/ intent[k] = None /\ Visible(k)' = None
       \/ k \in stale'

\* A PUT of k is taken on.
TakesOn(k) == intent[k] = None /\ intent'[k] \in Vals /\ Visible(k)' = Visible(k)

\* The PUT of k is over.
Settles(k) == /\ intent[k] # None /\ intent'[k] = None
              /\ Visible(k) = intent[k] /\ Visible(k)' = Visible(k)

Serves(k) == Turns(k) \/ TakesOn(k) \/ Settles(k)

\* The writes of a PUT and of a replay.
LEMMA PutServes ==
    ASSUME StateTypes, WriterOK, LockInv, NEW k \in Keys, k = cs.key,
           \/ PutStore \/ PutCancelGc \/ PutEnqueue \/ PutRemoveIntent
           \/ RecoverStore \/ RecoverEnqueue \/ RecoverCancelGc \/ RecoverRemoveIntent
    PROVE  Serves(k)
<1> USE DEF LockInv, PutPcs, RecoverPcs, GcPcs, Stored, Visible, Deleted, Tombstoned
<1>1. CASE PutStore \/ RecoverStore
  <2>1. /\ cs.pc \in {"p_store", "r_store"} /\ UNCHANGED <<queue, intent, tomb, backend>>
        /\ store'[k] = intent[k]
    BY ZenonT(30), <1>1, PutStoreEffect, RecoverStoreEffect
  <2>2. QED
    BY ZenonT(30), <2>1 DEF Serves, Turns
<1>2. CASE PutCancelGc \/ RecoverCancelGc
  <2>1. /\ cs.pc \in {"p_cancel", "r_cancel"} /\ UNCHANGED <<store, queue, intent, backend>>
        /\ tomb'[k] = NoTomb
    BY ZenonT(30), <1>2, PutCancelGcEffect, RecoverCancelGcEffect
  <2>2. QED
    BY ZenonT(30), <2>1 DEF Serves, Turns
<1>3. CASE PutEnqueue \/ RecoverEnqueue
  <2>1. /\ cs.pc \in {"p_enqueue", "r_enqueue"} /\ UNCHANGED <<store, intent, tomb, backend>>
        /\ queue'[k].op = "Put"
    BY ZenonT(30), <1>3, PutEnqueueEffect, RecoverEnqueueEffect
  <2>2. QED
    BY ZenonT(30), <2>1 DEF Serves, Turns
<1>4. CASE PutRemoveIntent \/ RecoverRemoveIntent
  <2>1. /\ cs.pc \in {"p_unintent", "r_unintent"} /\ UNCHANGED <<store, queue, tomb, backend>>
        /\ intent'[k] = None
    BY ZenonT(30), <1>4, PutRemoveIntentEffect, RecoverRemoveIntentEffect
  <2>2. QED
    BY ZenonT(30), <2>1 DEF Serves, Settles
<1>5. QED
  BY ZenonT(30), <1>1, <1>2, <1>3, <1>4

\* A DELETE that is completed had emptied the backend, and its item was the DELETE.
LEMMA CompletedDelete ==
    ASSUME ReceiptInv, DurInv, cs.pc \in CompletePcs
    PROVE  /\ up[cs.key].op = "Delete" => backend[cs.key] = None
           /\ up[cs.key].op # "none" => queue[cs.key].op = up[cs.key].op
<1>1. /\ cs.key \in Keys /\ up[cs.key].stage \in {"sent", "skip"} /\ SameGeneration(cs.key)
  BY ZenonT(30) DEF ReceiptInv, CompletionInv
<1>2. KeyInv(cs.key) /\ UploadInv(cs.key)
  BY ZenonT(30), <1>1 DEF ReceiptInv, DurInv
<1>3. QED
  BY ZenonT(30), <1>1, <1>2 DEF KeyInv, StageInv, Agrees, SameGeneration, UploadInv

\* Completing an upload is no step of the object service.
LEMMA CompleteServes ==
    ASSUME StateTypes, WriterOK, ReceiptInv, DurInv, NEW k \in Keys, k = cs.key,
           CompleteRetain \/ CompleteReceipt \/ CompleteUnqueue
    PROVE  Turns(k)
<1> USE DEF LockInv, CompletePcs, Visible, Deleted, Tombstoned
<1>1. LockInv
  BY ZenonT(30) DEF DurInv
<1>2. CASE CompleteRetain
  BY ZenonT(30), <1>1, <1>2, CompleteRetainEffect, CompletedDelete DEF Turns
<1>3. CASE CompleteReceipt
  BY ZenonT(30), <1>3, CompleteReceiptEffect DEF Turns
<1>4. CASE CompleteUnqueue
  <2>1. /\ cs.pc = "c_unqueue" /\ UNCHANGED <<store, intent, tomb, backend>> /\ queue'[k].op = "none"
    BY ZenonT(30), <1>4, CompleteUnqueueEffect
  <2>2. up[k].op = "Delete" => backend[k] = None /\ queue[k].op = "Delete" /\ (store[k] = None \/ Tombstoned(k))
    BY ZenonT(30), <1>1, <2>1, CompletedDelete
  <2>3. queue[k].op = "Delete" => up[k].op = "Delete"
    <3>1. up[k].op \in {"none", "Put", "Delete"}
      BY ZenonT(30) DEF StateTypes, Upload
    <3>2. up[k].op # "none"
      <4>1. up[k].stage \in {"sent", "skip"} /\ KeyInv(k)
        BY ZenonT(30), <2>1 DEF ReceiptInv, CompletionInv
      <4>2. QED
        BY ZenonT(30), <4>1 DEF KeyInv, StageInv
    <3>3. QED
      BY ZenonT(30), <2>1, <3>1, <3>2, CompletedDelete
  <2>4. QED
    BY ZenonT(30), <2>1, <2>2, <2>3 DEF Turns
<1>5. QED
  BY ZenonT(30), <1>2, <1>3, <1>4

\* The local GC shows nothing: behind its tombstone is nothing, the PUT under way or
\* the bytes of a late read.
LEMMA GcServes ==
    ASSUME StateTypes, WriterOK, DurInv, Mark, NEW k \in Keys, k = cs.key, GcDeleteStore \/ GcRemoveTomb
    PROVE  Turns(k)
<1> USE DEF LockInv, GcPcs, Visible, Deleted, Tombstoned, Queued
<1>1. LockInv /\ TombInv(k)
  BY ZenonT(30) DEF DurInv, KeyDur
<1>2. CASE GcDeleteStore
  BY ZenonT(30), <1>1, <1>2, GcDeleteStoreEffect DEF Turns
<1>3. CASE GcRemoveTomb
  <2>1. /\ cs.pc = "g_untomb" /\ UNCHANGED <<store, queue, intent, backend>> /\ tomb'[k] = NoTomb
        /\ Tombstoned(k) /\ ~Queued(k)
    BY ZenonT(30), <1>1, <1>3, GcRemoveTombEffect
  <2>2. backend[k] \in {None, intent[k]}
    BY ZenonT(30), <1>1, <2>1 DEF TombInv
  <2>3. CASE store[k] \in {None, intent[k]}
    BY ZenonT(30), <2>1, <2>2, <2>3 DEF Turns
  <2>4. CASE store[k] \notin {None, intent[k]}
    <3>1. k \in stale
      BY ZenonT(30), <1>1, <2>1, <2>4 DEF TombInv
    <3>2. k \in stale'
      BY ZenonT(30), <2>1, <2>4, <3>1 DEF Mark
    <3>3. QED
      BY ZenonT(30), <2>1, <3>2 DEF Turns
  <2>5. QED
    BY ZenonT(30), <2>3, <2>4
<1>4. QED
  BY ZenonT(30), <1>2, <1>3

\* An upload under way changes the backend only behind a queue item: a DELETE hides
\* the key, and a PUT has its bytes in the store.
LEMMA SendServes ==
    ASSUME StateTypes, ReceiptInv, DurInv, NEW k \in Keys, UploadSend(k) \/ UploadError(k)
    PROVE  Turns(k)
<1>1. up[k].stage = "send" /\ UNCHANGED <<store, queue, intent, tomb>>
  BY ZenonT(30), SendEffect
<1>2. KeyInv(k) /\ KeyDur(k) /\ queue[k].op \in {"none", "Put", "Delete"}
  BY ZenonT(30) DEF ReceiptInv, DurInv, StateTypes, Item
<1>3. queue[k].op = "Delete" \/ store[k] # None
  BY ZenonT(30), <1>1, <1>2 DEF KeyInv, StageInv, KeyDur, PutInv, Queued
<1>4. QED
  BY ZenonT(30), <1>1, <1>3 DEF Turns, Visible, Deleted, Tombstoned

\* Hydration shows what the backend held, or brings back bytes that came too late.
LEMMA HydrateServes ==
    ASSUME StateTypes, DurInv, Mark, GetHydrate, NEW k \in Keys, k = rd.key
    PROVE  Turns(k)
<1>1. /\ rd.pc = "hydrate" /\ rd'.pc = "done" /\ rd.val # None
      /\ UNCHANGED <<queue, intent, tomb, backend>>
      /\ store'[k] = store[k] \/ (store[k] = None /\ store'[k] = rd.val)
  BY ZenonT(30), GetHydrateEffect DEF DurInv, ReaderInv
<1>2. CASE store'[k] = store[k] \/ backend[k] = rd.val
  BY ZenonT(30), <1>1, <1>2 DEF Turns, Visible, Deleted, Tombstoned
<1>3. CASE store[k] = None /\ store'[k] = rd.val /\ backend[k] # rd.val
  <2>1. LateFill(k)
    BY ZenonT(30), <1>1, <1>3 DEF LateFill
  <2>2. k \in stale' \/ rd.val = intent[k]
    BY ZenonT(30), <1>1, <1>3, <2>1 DEF Mark
  <2>3. QED
    BY ZenonT(30), <1>1, <1>3, <2>2 DEF Turns, Visible, Deleted, Tombstoned
<1>4. QED
  BY ZenonT(30), <1>1, <1>2, <1>3

\* Every write serves one key and leaves the others as they are.
LEMMA WriteServes ==
    ASSUME StateTypes, WriterOK, ReceiptInv, DurInv, WriteStep, Mark
    PROVE  (\A k \in Keys : Same(k)) \/ \E k \in Keys : OthersSame(k) /\ Serves(k)
<1> USE DEF Serves
<1>1. LockInv
  BY ZenonT(30) DEF DurInv
<1>2. CASE PutItem
  <2>1. PICK k, v : k = Head(cs.items)[1] /\ v = Head(cs.items)[2]
    BY ZenonT(30)
  <2>2. /\ k \in Keys /\ v \in Vals /\ OthersSame(k)
        /\ UNCHANGED <<store, queue, receipt, tomb, backend>>
        /\ UNCHANGED intent \/ (intent[k] = None /\ intent'[k] = v)
    BY ZenonT(30), <1>2, <2>1, PutItemEffect
  <2>3. Serves(k)
    BY ZenonT(30), <2>2 DEF Turns, TakesOn, Visible, Deleted, Tombstoned
  <2>4. QED
    BY ZenonT(30), <2>2, <2>3
<1>3. CASE DeleteEnqueue
  <2>1. /\ cs.pc = "d_enqueue" /\ cs.key \in Keys /\ OthersSame(cs.key) /\ UNCHANGED intent
        /\ queue'[cs.key].op = "Delete"
    BY ZenonT(30), <1>3, DeleteEnqueueEffect
  <2>2. PICK k \in Keys : k = cs.key
    BY ZenonT(30), <2>1
  <2>3. Turns(k)
    BY ZenonT(30), <1>1, <2>1, <2>2 DEF Turns, Visible, Deleted, LockInv
  <2>4. QED
    BY ZenonT(30), <2>1, <2>2, <2>3
<1>4. CASE \/ PutStore \/ PutCancelGc \/ PutEnqueue \/ PutRemoveIntent
           \/ RecoverStore \/ RecoverEnqueue \/ RecoverCancelGc \/ RecoverRemoveIntent
  <2>1. cs.key \in Keys /\ OthersSame(cs.key)
    BY ZenonT(30), <1>4, PutStoreEffect, PutCancelGcEffect, PutEnqueueEffect,
       PutRemoveIntentEffect, RecoverStoreEffect,
       RecoverEnqueueEffect, RecoverCancelGcEffect, RecoverRemoveIntentEffect
  <2>2. PICK k \in Keys : k = cs.key
    BY ZenonT(30), <2>1
  <2>3. QED
    BY ZenonT(30), <1>1, <1>4, <2>1, <2>2, PutServes
<1>5. CASE CompleteRetain \/ CompleteReceipt \/ CompleteUnqueue
  <2>1. cs.key \in Keys /\ OthersSame(cs.key)
    BY ZenonT(30), <1>5, CompleteRetainEffect, CompleteReceiptEffect, CompleteUnqueueEffect
  <2>2. PICK k \in Keys : k = cs.key
    BY ZenonT(30), <2>1
  <2>3. QED
    BY ZenonT(30), <1>5, <2>1, <2>2, CompleteServes
<1>6. CASE GcDeleteStore \/ GcRemoveTomb
  <2>1. cs.key \in Keys /\ OthersSame(cs.key)
    BY ZenonT(30), <1>6, GcDeleteStoreEffect, GcRemoveTombEffect
  <2>2. PICK k \in Keys : k = cs.key
    BY ZenonT(30), <2>1
  <2>3. QED
    BY ZenonT(30), <1>6, <2>1, <2>2, GcServes
<1>7. CASE \E k \in Keys : UploadSend(k) \/ UploadError(k)
  BY ZenonT(30), <1>7, SendEffect, SendServes
<1>8. CASE \E k \in Keys : Reconcile(k)
  <2>1. PICK k \in Keys : Reconcile(k)
    BY ZenonT(30), <1>8
  <2>2. /\ OthersSame(k) /\ UNCHANGED <<store, intent, tomb, backend>>
        /\ ~Queued(k) /\ queue'[k].op = "Put"
    BY ZenonT(30), <2>1, ReconcileEffect
  <2>3. Turns(k)
    BY ZenonT(30), <2>2 DEF Turns, Visible, Deleted, Tombstoned, Queued
  <2>4. QED
    BY ZenonT(30), <2>2, <2>3
<1>9. CASE Serve
  BY ZenonT(30), <1>9, ServeEffect DEF Same, Tombstoned
<1>10. CASE GetHydrate
  <2>1. rd.key \in Keys /\ OthersSame(rd.key)
    BY ZenonT(30), <1>10, GetHydrateEffect
  <2>2. PICK k \in Keys : k = rd.key
    BY ZenonT(30), <2>1
  <2>3. QED
    BY ZenonT(30), <1>10, <2>1, <2>2, HydrateServes
<1>11. QED
  BY Zenon, <1>2, <1>3, <1>4, <1>5, <1>6, <1>7, <1>8, <1>9, <1>10 DEF WriteStep

-----------------------------------------------------------------------------
(* The refinement *)

\* A key is filled late only by the GET that is under way for it.
LEMMA LateFromReading ==
    ASSUME StateTypes, Mark
    PROVE  stale' \subseteq stale \cup {k \in Keys : rd.key = k /\ rd.pc \notin {"idle", "done"}}
  BY ZenonT(30) DEF Mark, LateFill

\* What the files change is a step of the service.
LEMMA ServiceStep ==
    ASSUME StateTypes, TypeOK', Mark,
           (\A k \in Keys : Same(k)) \/ \E k \in Keys : OthersSame(k) /\ Serves(k)
    PROVE  Service!Next
<1> DEFINE shown == [k \in Keys |-> Visible(k)]
<1>1. intent \in [Keys -> Content] /\ intent' \in [Keys -> Content]
  BY ZenonT(30) DEF StateTypes, TypeOK
<1>2. shown' = [k \in Keys |-> Visible(k)']
  BY ZenonT(30)
<1>3. \A k \in Keys : Visible(k)' \in Content
  BY ZenonT(30) DEF TypeOK, Visible, Content
<1>4. ASSUME NEW k \in Keys, OthersSame(k)
      PROVE  \A j \in Keys : j # k => Visible(j)' = Visible(j) /\ intent'[j] = intent[j]
  BY ZenonT(30), <1>4, VisibleSame DEF OthersSame, Same
<1> USE DEF Service!Offer, Service!Show, Service!Settle, Service!Hide, Service!Linger, Service!Content, Content
<1>5. \/ \E k \in Keys : \/ \E v \in Vals : Service!Offer(k, v)
                         \/ Service!Show(k) \/ Service!Settle(k) \/ Service!Hide(k) \/ Service!Linger(k)
      \/ UNCHANGED <<shown, intent>>
  <2>1. CASE \A k \in Keys : Same(k)
    <3>1. \A k \in Keys : Visible(k)' = Visible(k) /\ intent'[k] = intent[k]
      BY ZenonT(30), <2>1, VisibleSame DEF Same
    <3>2. QED
      BY <1>1, <1>2, <3>1
  <2>2. ASSUME NEW k \in Keys, OthersSame(k), Turns(k)
        PROVE  \/ Service!Show(k) \/ Service!Hide(k) \/ Service!Linger(k)
               \/ UNCHANGED <<shown, intent>>
    <3>1. intent' = intent
      BY <1>1, <1>4, <2>2 DEF Turns
    <3>2. shown' = [shown EXCEPT ![k] = Visible(k)']
      BY ZenonT(30), <1>2, <1>4, <2>2
    <3>3. CASE Visible(k)' = Visible(k)
      BY ZenonT(30), <3>1, <3>2, <3>3
    <3>4. CASE intent[k] # None /\ Visible(k)' = intent[k]
      BY ZenonT(30), <3>1, <3>2, <3>4
    <3>5. CASE intent[k] = None /\ Visible(k)' = None
      BY ZenonT(30), <3>1, <3>2, <3>5
    <3>6. CASE k \in stale'
      BY ZenonT(30), <1>3, <3>1, <3>2, <3>6
    <3>7. QED
      BY ZenonT(30), <2>2, <3>3, <3>4, <3>5, <3>6 DEF Turns
  <2>3. ASSUME NEW k \in Keys, OthersSame(k), TakesOn(k)
        PROVE  \E v \in Vals : Service!Offer(k, v)
    <3>1. intent' = [intent EXCEPT ![k] = intent'[k]] /\ shown' = shown
      BY ZenonT(30), <1>1, <1>2, <1>4, <2>3 DEF TakesOn
    <3>2. QED
      BY ZenonT(30), <2>3, <3>1 DEF TakesOn
  <2>4. ASSUME NEW k \in Keys, OthersSame(k), Settles(k)
        PROVE  Service!Settle(k)
    <3>1. intent' = [intent EXCEPT ![k] = None] /\ shown' = shown
      BY ZenonT(30), <1>1, <1>2, <1>4, <2>4 DEF Settles
    <3>2. QED
      BY ZenonT(30), <2>4, <3>1 DEF Settles
  <2>5. QED
    BY ZenonT(30), <2>1, <2>2, <2>3, <2>4 DEF Serves
<1>6. QED
  BY ZenonT(30), <1>5, LateFromReading DEF Service!Next

-----------------------------------------------------------------------------
(* The lock-free GET *)

\* A quiet step lets an upload begin only if the queue still has its item, and that
\* of a PUT only if the store still has its bytes.
LEMMA QuietSend ==
    ASSUME StateTypes, WriterOK, QuietStep, NEW k \in Keys, UploadInv(k), up'[k].stage = "send"
    PROVE  \/ up'[k] = up[k]
           \/ /\ up'[k].op = up[k].op /\ up'[k].val = up[k].val /\ SameGeneration(k)
              /\ up[k].op = "Put" => store[k] = up[k].val
              /\ up[k].stage \in {"ready", "wait"}
<1> USE DEF files, marks, worker, volatile, hist
<1>1. up[k] \in Upload
  BY ZenonT(30) DEF StateTypes
<1>2. CASE UNCHANGED up
  BY ZenonT(30), <1>2
<1>3. ASSUME up'[k] = NoUpload PROVE FALSE
  BY ZenonT(30), <1>3, NullFields
<1>4. CASE EntryStep
  <2>1. CASE \E j \in Keys : UploadComplete(j)
    <3>1. up'[k] = up[k] \/ up'[k] = NoUpload
      BY ZenonT(30), <2>1 DEF UploadComplete, StateTypes
    <3>2. QED
      BY ZenonT(30), <1>3, <3>1
  <2>2. QED
    BY Zenon, <1>2, <1>4, <2>1 DEF EntryStep, BeginDelete, WorkerRecover, GcBegin
<1>5. CASE ReadStep
  BY Zenon, <1>2, <1>5 DEF ReadStep, BeginGet, GetReadQueue, GetReadTomb, GetReadStore,
     GetReadBackend
<1>6. CASE StopStep
  <2>1. CASE RecoverRefuse \/ WriteFails
    <3>1. Abandon
      BY ZenonT(30), <2>1 DEF RecoverRefuse, WriteFails
    <3>2. CASE up'[k] = [up[k] EXCEPT !.stage = "failed"]
      BY <1>1, <3>2, StageOnly
    <3>3. QED
      BY ZenonT(30), <1>3, <3>1, <3>2, AbandonUploads
  <2>2. CASE Crash
    BY ZenonT(30), <1>3, <2>2 DEF Crash
  <2>3. QED
    BY Zenon, <1>2, <1>6, <2>1, <2>2 DEF StopStep, BeginPut, AckPut
<1>7. CASE WorkerStep
  <2>1. CASE \E j \in Keys : UploadCheck(j)
    <3>1. PICK j \in Keys : UploadCheck(j)
      BY ZenonT(30), <2>1
    <3>2. CASE k # j
      BY Zenon, <3>1, <3>2 DEF UploadCheck, StateTypes
    <3>3. CASE k = j
      <4>1. up[k].stage = "ready"
        BY ZenonT(30), <3>1, <3>3 DEF UploadCheck
      <4>2. CASE ~SameGeneration(k)
        BY ZenonT(30), <1>3, <3>1, <3>3, <4>2 DEF UploadCheck, StateTypes
      <4>3. CASE SameGeneration(k) /\ up[k].op = "Put" /\ store[k] # up[k].val
        <5>1. up'[k] = [up[k] EXCEPT !.stage = "failed"]
          BY Zenon, <3>1, <3>3, <4>3 DEF UploadCheck, StateTypes
        <5>2. QED
          BY <1>1, <5>1, StageOnly
      <4>4. CASE SameGeneration(k) /\ ~(up[k].op = "Put" /\ store[k] # up[k].val)
        <5>1. up'[k] = [up[k] EXCEPT !.stage = "send"]
          BY Zenon, <3>1, <3>3, <4>4 DEF UploadCheck, StateTypes
        <5>2. QED
          BY <1>1, <4>1, <4>4, <5>1, StageOnly
      <4>5. QED
        BY ZenonT(30), <4>2, <4>3, <4>4
    <3>4. QED
      BY ZenonT(30), <3>2, <3>3
  <2>2. CASE \E j \in Keys : UploadFailed(j)
    <3>1. up'[k] = up[k] \/ up'[k] = NoUpload
      BY ZenonT(30), <2>2 DEF UploadFailed, StateTypes
    <3>2. QED
      BY ZenonT(30), <1>3, <3>1
  <2>3. CASE \E s \in SUBSET Keys, hosts \in SUBSET Hosts : SelectRound(s, hosts)
    <3>1. PICK s \in SUBSET Keys, hosts \in SUBSET Hosts : SelectRound(s, hosts)
      BY ZenonT(30), <2>3
    <3>2. up'[k] = NoUpload \/ up'[k].stage \in {"wait", "skip", "ready"}
      BY ZenonT(30), <3>1 DEF SelectRound
    <3>3. QED
      BY ZenonT(30), <1>3, <3>2
  <2>4. CASE \E batch \in BOOLEAN : DeleteBegin(batch)
    <3>1. PICK batch \in BOOLEAN : DeleteBegin(batch)
      BY ZenonT(30), <2>4
    <3>2. CASE /\ up[k].stage = "wait" /\ HostOf[k] \notin PutHosts(queue)
               /\ batch => SameGeneration(k)
      <4>1. up'[k] = [up[k] EXCEPT !.stage = IF batch THEN "send" ELSE "ready"]
        BY ZenonT(30), <3>1, <3>2 DEF DeleteBegin
      <4>2. batch
        BY ZenonT(30), <1>1, <4>1, StageOnly
      <4>3. up'[k] = [up[k] EXCEPT !.stage = "send"]
        BY ZenonT(30), <4>1, <4>2
      <4>4. up[k].op = "Delete"
        BY ZenonT(30), <3>2 DEF UploadInv
      <4>5. QED
        BY <1>1, <3>2, <4>2, <4>3, <4>4, StageOnly
    <3>3. CASE ~(/\ up[k].stage = "wait" /\ HostOf[k] \notin PutHosts(queue)
                 /\ batch => SameGeneration(k))
      BY ZenonT(30), <1>3, <3>1, <3>3 DEF DeleteBegin
    <3>4. QED
      BY ZenonT(30), <3>2, <3>3
  <2>5. CASE NextTier \/ RoundEnd
    BY ZenonT(30), <1>2, <1>3, <2>5 DEF NextTier, RoundEnd
  <2>6. CASE \/ WorkerDue \/ ListQueue \/ NothingSelected \/ (\E j \in Keys : ReadQueueItem(j))
             \/ WorkerWake \/ WorkerRecovered \/ WorkerNotDue
             \/ FlushCheck \/ RemoveFlushRequest \/ GcCollect \/ GcEnd
    BY Zenon, <1>2, <2>6
    DEF WorkerDue, ListQueue, NothingSelected, ReadQueueItem, WorkerWake, WorkerRecovered, WorkerNotDue,
        FlushCheck, RemoveFlushRequest, GcCollect, GcEnd
  <2>7. QED
    BY Zenon, <1>7, <2>1, <2>2, <2>3, <2>4, <2>5, <2>6 DEF WorkerStep
<1>8. CASE OtherStep
  <2>1. CASE \E j \in Keys : RetryMarkFails(j)
    BY ZenonT(30), <1>3, <2>1 DEF RetryMarkFails
  <2>2. QED
    BY Zenon, <1>2, <1>8, <2>1 DEF OtherStep, RequestFlush, Time, RetryElapses, TombExpires
<1>9. QED
  BY Zenon, <1>4, <1>5, <1>6, <1>7, <1>8 DEF QuietStep

\* What a step other than the reader's changes of the files the reader looks at.
Changes(k) ==
    /\ \/ store'[k] = store[k] \/ (intent[k] # None /\ store'[k] = intent[k])
       \/ store'[k] = None /\ Tombstoned(k) /\ ~Queued(k)
    /\ \/ backend'[k] = backend[k]
       \/ up[k].stage = "send" /\ up[k].op = "Delete" /\ backend'[k] = None
       \/ up[k].stage = "send" /\ up[k].op = "Put" /\ backend'[k] = up[k].val
    /\ \/ queue'[k].op # "Put" \/ (queue[k].op = "Put" /\ queue'[k].val = queue[k].val)
       \/ intent[k] # None /\ queue'[k].val = intent[k]
    /\ up'[k].stage = "send" =>
          \/ up'[k] = up[k]
          \/ /\ up'[k].op = up[k].op /\ up'[k].val = up[k].val /\ SameGeneration(k)
             /\ up[k].op = "Put" => store'[k] = up[k].val
             /\ up[k].stage \in {"ready", "wait"}
    /\ \/ ~Tombstoned(k) \/ Tombstoned(k)' \/ ~Deleted(k)'
       \/ intent[k] # None /\ store'[k] = intent[k]
       \/ store'[k] = None /\ backend'[k] = None

\* Such changes keep what the reader knows.
LEMMA ChangesKeep ==
    ASSUME NEW k \in Keys, Changes(k), KeyInv(k), KeyDur(k), SendInv(k), Watches(k), Watches(k)', seen \subseteq seen'
    PROVE  /\ PastQueue(k) => PastQueue(k)'
           /\ PastTomb(k) => PastTomb(k)'
           /\ PastStore(k) => PastStore(k)'
<1>1. intent[k] # None => intent[k] \in seen'
  BY ZenonT(30) DEF Watches
<1>2. up[k].stage = "send" => Queued(k)
  BY ZenonT(30) DEF KeyInv, StageInv
<1>3. ASSUME PastTomb(k) PROVE PastTomb(k)'
  <2>1. store'[k] \in seen' \cup {None}
    BY ZenonT(30), <1>1, <1>3 DEF PastTomb, Changes
  <2>2. CASE store'[k] = None /\ store[k] = None
    BY ZenonT(30), <1>3, <2>2 DEF PastTomb, Changes, SendInv
  <2>3. CASE store'[k] = None /\ store[k] # None
    <3>1. Tombstoned(k) /\ ~Queued(k)
      BY ZenonT(30), <2>3 DEF Changes
    <3>2. backend'[k] = backend[k] /\ backend[k] \in {None, intent[k]}
      BY ZenonT(30), <1>2, <3>1 DEF Changes, KeyDur, TombInv
    <3>3. QED
      BY ZenonT(30), <1>1, <2>1, <3>2 DEF PastTomb
  <2>4. QED
    BY ZenonT(30), <2>1, <2>2, <2>3 DEF PastTomb
<1>4. ASSUME PastQueue(k) PROVE PastQueue(k)'
  <2>1. CASE ~Tombstoned(k)
    <3>1. PastTomb(k)'
      BY ZenonT(30), <1>3, <1>4, <2>1 DEF PastQueue, PastTomb
    <3>2. QED
      BY ZenonT(30), <3>1 DEF PastQueue, PastTomb
  <2>2. CASE ~Deleted(k)'
    <3>1. Visible(k)' \in seen'
      BY ZenonT(30) DEF Watches
    <3>2. QED
      BY ZenonT(30), <2>2, <3>1 DEF PastQueue, Visible
  <2>3. CASE Tombstoned(k) /\ Deleted(k)'
    BY ZenonT(30), <1>1, <2>3 DEF PastQueue, Changes
  <2>4. QED
    BY ZenonT(30), <2>1, <2>2, <2>3
<1>5. ASSUME PastStore(k) PROVE PastStore(k)'
  <2>1. backend'[k] \in seen' \cup {None}
    BY ZenonT(30), <1>5 DEF PastStore, Changes
  <2>2. queue'[k].op = "Put" => queue'[k].val \in seen'
    BY ZenonT(30), <1>1, <1>5 DEF PastStore, Changes
  <2>3. ASSUME up'[k].op = "Put", up'[k].stage = "send" PROVE up'[k].val \in seen'
    BY ZenonT(30), <1>5, <2>3 DEF PastStore, Changes, KeyInv, Agrees, SameGeneration
  <2>4. ASSUME None \notin seen'
        PROVE  /\ backend'[k] # None /\ queue'[k].op # "Delete"
               /\ ~(up'[k].op = "Delete" /\ up'[k].stage = "send")
    <3>1. /\ backend[k] # None /\ queue[k].op # "Delete"
          /\ ~(up[k].op = "Delete" /\ up[k].stage = "send")
      BY ZenonT(30), <1>5, <2>4 DEF PastStore
    <3>2. backend'[k] # None
      BY ZenonT(30), <3>1 DEF Changes, KeyDur, PutInv, IsPut
    <3>3. queue'[k].op # "Delete"
      <4>1. Visible(k)' # None
        BY ZenonT(30), <2>4 DEF Watches
      <4>2. QED
        BY ZenonT(30), <4>1 DEF Visible, Deleted
    <3>4. ~(up'[k].op = "Delete" /\ up'[k].stage = "send")
      BY ZenonT(30), <3>1 DEF Changes, KeyInv, Agrees, SameGeneration
    <3>5. QED
      BY ZenonT(30), <3>2, <3>3, <3>4
  <2>5. QED
    BY ZenonT(30), <2>1, <2>2, <2>3, <2>4 DEF PastStore
<1>6. QED
  BY ZenonT(30), <1>3, <1>4, <1>5

\* A step that leaves the files of k alone changes nothing a reader of k relies on.
LEMMA SameChanges ==
    ASSUME NEW k \in Keys, Same(k), up'[k].stage = "send" => up'[k] = up[k]
    PROVE  Changes(k)
  BY ZenonT(30) DEF Same, Changes

\* So do the steps that write no file.
LEMMA QuietChanges ==
    ASSUME StateTypes, WriterOK, QuietStep, NEW k \in Keys, UploadInv(k)
    PROVE  Changes(k)
<1>1. Same(k)
  BY ZenonT(30), QuietSame
<1>2. QED
  BY ZenonT(30), <1>1, QuietSend DEF Same, Changes

\* The same for the writes, but for that of the reader itself.
LEMMA WriteChanges ==
    ASSUME StateTypes, WriterOK, ReceiptInv, DurInv, WriteStep, ~GetHydrate, wk.pc # "boot", NEW k \in Keys
    PROVE  Changes(k) /\ UNCHANGED rd
<1> USE DEF PutPcs, RecoverPcs, GcPcs, CompletePcs, Stored
<1>1. LockInv
  BY ZenonT(30) DEF DurInv
<1>2. CASE UNCHANGED <<worker, rd>>
  <2>1. ASSUME Same(k) PROVE Changes(k) /\ UNCHANGED rd
    BY ZenonT(30), <1>2, <2>1, SameChanges DEF worker
  <2>2. ASSUME cs.pc \in PutPcs \cup RecoverPcs, k = cs.key,
               store'[k] = store[k] \/ store'[k] = intent[k], backend'[k] = backend[k],
               queue'[k].op = "Put" => \/ queue[k].op = "Put" /\ queue'[k].val = queue[k].val
                                       \/ queue'[k].val = intent[k],
               (Tombstoned(k)' <=> Tombstoned(k)) \/ store'[k] = intent[k]
        PROVE  Changes(k)
    BY ZenonT(30), <1>1, <1>2, <2>2 DEF Changes, LockInv, worker
  <2>3. CASE PutItem
    <3>1. UNCHANGED <<store, queue, tomb, backend>>
      BY ZenonT(30), <2>3, PutItemEffect
    <3>2. QED
      BY ZenonT(30), <1>2, <3>1 DEF Changes, Tombstoned, worker
  <2>4. CASE DeleteEnqueue
    <3>1. OthersSame(cs.key) /\ UNCHANGED <<store, tomb, backend>> /\ queue'[cs.key].op = "Delete"
      BY ZenonT(30), <2>4, DeleteEnqueueEffect
    <3>2. CASE k = cs.key
      BY ZenonT(30), <1>2, <3>1, <3>2 DEF Changes, Tombstoned, worker
    <3>3. QED
      BY ZenonT(30), <2>1, <3>1, <3>2, <1>2 DEF OthersSame
  <2>5. CASE PutStore \/ RecoverStore
    <3>1. /\ cs.pc \in {"p_store", "r_store"} /\ OthersSame(cs.key) /\ UNCHANGED <<queue, tomb, backend>>
          /\ store'[cs.key] = intent[cs.key]
      BY ZenonT(30), <2>5, PutStoreEffect, RecoverStoreEffect
    <3>2. CASE k = cs.key
      BY ZenonT(30), <1>2, <2>2, <3>1, <3>2 DEF Tombstoned
    <3>3. QED
      BY ZenonT(30), <2>1, <3>1, <3>2, <1>2 DEF OthersSame
  <2>6. CASE PutCancelGc \/ RecoverCancelGc
    <3>1. /\ cs.pc \in {"p_cancel", "r_cancel"} /\ OthersSame(cs.key) /\ UNCHANGED <<queue, store, backend>>
          /\ store[cs.key] = intent[cs.key]
      BY ZenonT(30), <1>1, <2>6, PutCancelGcEffect, RecoverCancelGcEffect DEF LockInv
    <3>2. CASE k = cs.key
      BY ZenonT(30), <1>2, <2>2, <3>1, <3>2
    <3>3. QED
      BY ZenonT(30), <2>1, <3>1, <3>2, <1>2 DEF OthersSame
  <2>7. CASE PutEnqueue \/ RecoverEnqueue
    <3>1. /\ cs.pc \in {"p_enqueue", "r_enqueue"} /\ OthersSame(cs.key) /\ UNCHANGED <<tomb, store, backend>>
          /\ queue'[cs.key].val = intent[cs.key]
      BY ZenonT(30), <2>7, PutEnqueueEffect, RecoverEnqueueEffect
    <3>2. CASE k = cs.key
      BY ZenonT(30), <1>2, <2>2, <3>1, <3>2 DEF Tombstoned
    <3>3. QED
      BY ZenonT(30), <2>1, <3>1, <3>2, <1>2 DEF OthersSame
  <2>8. CASE PutRemoveIntent \/ RecoverRemoveIntent \/ CompleteReceipt
    <3>1. UNCHANGED <<store, queue, tomb, backend>>
      BY ZenonT(30), <2>8, PutRemoveIntentEffect, RecoverRemoveIntentEffect, CompleteReceiptEffect
    <3>2. QED
      BY ZenonT(30), <1>2, <3>1 DEF Changes, Tombstoned, worker
  <2>9. CASE CompleteRetain
    <3>1. cs.pc = "c_retain" /\ OthersSame(cs.key) /\ UNCHANGED <<store, queue, backend>>
      BY ZenonT(30), <2>9, CompleteRetainEffect
    <3>2. CASE k = cs.key
      <4>1. backend[k] = None
        BY ZenonT(30), <1>1, <3>1, <3>2, CompletedDelete DEF LockInv
      <4>2. store[k] # None => Tombstoned(k)'
        BY ZenonT(30), <2>9, <3>2, RetainedTomb DEF Tombstoned
      <4>3. QED
        BY ZenonT(30), <1>2, <3>1, <4>1, <4>2 DEF Changes, worker
    <3>3. QED
      BY ZenonT(30), <2>1, <3>1, <3>2, <1>2 DEF OthersSame
  <2>10. CASE GcDeleteStore
    <3>1. /\ cs.pc = "g_store" /\ OthersSame(cs.key) /\ UNCHANGED <<queue, tomb, backend>>
          /\ Tombstoned(cs.key) /\ ~Queued(cs.key)
          /\ store'[cs.key] = None \/ store'[cs.key] = store[cs.key]
      BY ZenonT(30), <1>1, <2>10, GcDeleteStoreEffect DEF LockInv
    <3>2. CASE k = cs.key
      BY ZenonT(30), <1>2, <3>1, <3>2 DEF Changes, worker, Tombstoned
    <3>3. QED
      BY ZenonT(30), <2>1, <3>1, <3>2, <1>2 DEF OthersSame
  <2>11. CASE GcRemoveTomb
    <3>1. /\ cs.pc = "g_untomb" /\ OthersSame(cs.key) /\ UNCHANGED <<store, queue, backend>>
          /\ tomb'[cs.key] = NoTomb /\ ~Queued(cs.key)
      BY ZenonT(30), <1>1, <2>11, GcRemoveTombEffect DEF LockInv
    <3>2. CASE k = cs.key
      BY ZenonT(30), <1>2, <3>1, <3>2 DEF Changes, worker, Tombstoned, Queued, Deleted
    <3>3. QED
      BY ZenonT(30), <2>1, <3>1, <3>2, <1>2 DEF OthersSame
  <2>12. CASE \E j \in Keys : Reconcile(j) \/ UploadSend(j) \/ UploadError(j)
    <3>1. PICK j \in Keys : Reconcile(j) \/ UploadSend(j) \/ UploadError(j)
      BY ZenonT(30), <2>12
    <3>2. UploadSend(j) \/ UploadError(j)
      BY ZenonT(30), <3>1, ReconcileEffect
    <3>3. up[j].stage = "send" /\ up'[j].stage # "send"
      BY ZenonT(30), <3>2, SendEffect
    <3>4. QED
      BY ZenonT(30), <1>2, <3>3 DEF worker
  <2>13. CASE CompleteUnqueue
    <3>1. cs.pc = "c_unqueue" /\ up'[cs.key] = NoUpload /\ cs.key \in Keys
      BY ZenonT(30), <2>13, CompleteUnqueueEffect
    <3>2. up[cs.key].stage \in {"sent", "skip"}
      BY ZenonT(30), <3>1 DEF ReceiptInv, CompletionInv
    <3>3. QED
      BY ZenonT(30), <1>2, <3>1, <3>2, NullFields DEF worker
  <2>14. CASE Serve
    BY ZenonT(30), <2>14, ServeEffect
  <2>15. QED
    BY Zenon, <1>2, <2>3, <2>4, <2>5, <2>6, <2>7, <2>8, <2>9, <2>10, <2>11, <2>12, <2>13,
       <2>14 DEF WriteStep
<1>3. CASE CompleteUnqueue
  <2>1. /\ cs.pc = "c_unqueue" /\ OthersSame(cs.key) /\ UNCHANGED <<store, tomb, backend, rd>>
        /\ queue'[cs.key].op = "none" /\ up'[cs.key] = NoUpload
        /\ \A j \in Keys : j # cs.key => up'[j] = up[j]
    BY ZenonT(30), <1>3, CompleteUnqueueEffect
  <2>2. CASE k = cs.key
    BY ZenonT(30), <2>1, <2>2, NullFields DEF Changes, Tombstoned
  <2>3. CASE k # cs.key
    BY ZenonT(30), <2>1, <2>3, SameChanges DEF OthersSame
  <2>4. QED
    BY ZenonT(30), <2>1, <2>2, <2>3
<1>4. CASE \E j \in Keys : UploadSend(j) \/ UploadError(j)
  <2>1. PICK j \in Keys : UploadSend(j) \/ UploadError(j)
    BY ZenonT(30), <1>4
  <2>2. /\ OthersSame(j) /\ UNCHANGED <<store, queue, tomb, rd>>
        /\ up'[j].stage # "send" /\ \A i \in Keys : i # j => up'[i] = up[i]
    BY ZenonT(30), <2>1, SendEffect
  <2>3. CASE k = j
    <3>1. up[k].op \in {"Put", "Delete"}
      <4>1. KeyInv(k) /\ up[k] \in Upload /\ up[k].stage = "send"
        BY ZenonT(30), <2>1, <2>3, SendEffect DEF ReceiptInv, StateTypes
      <4>2. QED
        BY ZenonT(30), <4>1 DEF KeyInv, StageInv, Upload
    <3>2. \/ backend'[k] = backend[k]
          \/ up[k].stage = "send" /\ up[k].op = "Delete" /\ backend'[k] = None
          \/ up[k].stage = "send" /\ up[k].op = "Put" /\ backend'[k] = up[k].val
      BY ZenonT(30), <2>1, <2>3, <3>1, SendEffect
    <3>3. QED
      BY ZenonT(30), <2>2, <2>3, <3>2 DEF Changes, Tombstoned
  <2>4. CASE k # j
    BY ZenonT(30), <2>2, <2>4, SameChanges DEF OthersSame
  <2>5. QED
    BY ZenonT(30), <2>2, <2>3, <2>4
<1>5. CASE Serve \/ \E j \in Keys : Reconcile(j)
  BY ZenonT(30), <1>5, ServeEffect, ReconcileEffect
<1>6. CASE /\ ~CompleteUnqueue /\ ~Serve
           /\ ~\E j \in Keys : Reconcile(j) \/ UploadSend(j) \/ UploadError(j)
  <2>1. UNCHANGED <<worker, rd>>
    <3>1. CASE PutItem
      BY ZenonT(30), <3>1, PutItemEffect
    <3>2. CASE \/ PutStore \/ PutCancelGc \/ PutEnqueue \/ PutRemoveIntent \/ DeleteEnqueue
               \/ RecoverStore \/ RecoverEnqueue \/ RecoverCancelGc \/ RecoverRemoveIntent
               \/ CompleteRetain \/ CompleteReceipt \/ GcDeleteStore \/ GcRemoveTomb
      BY ZenonT(30), <3>2, PutStoreEffect, PutCancelGcEffect, PutEnqueueEffect,
         PutRemoveIntentEffect, DeleteEnqueueEffect,
         RecoverStoreEffect, RecoverEnqueueEffect, RecoverCancelGcEffect, RecoverRemoveIntentEffect,
         CompleteRetainEffect, CompleteReceiptEffect, GcDeleteStoreEffect, GcRemoveTombEffect
    <3>3. QED
      BY Zenon, <1>6, <3>1, <3>2 DEF WriteStep
  <2>2. QED
    BY ZenonT(30), <1>2, <2>1
<1>7. QED
  BY ZenonT(30), <1>3, <1>4, <1>5, <1>6

\* An upload that is being sent keeps its bytes in the store.
LEMMA SendKept ==
    ASSUME NEW k \in Keys, Changes(k), KeyInv(k), KeyDur(k), SendInv(k)
    PROVE  SendInv(k)'
<1> SUFFICES ASSUME up'[k].op = "Put", up'[k].stage = "send" PROVE store'[k] # None
  BY ZenonT(30) DEF SendInv
<1>1. CASE up'[k] = up[k]
  <2>1. store[k] # None /\ Queued(k)
    BY ZenonT(30), <1>1 DEF SendInv, KeyInv, StageInv
  <2>2. QED
    BY ZenonT(30), <2>1 DEF Changes
<1>2. CASE up[k].op = "Put" /\ store'[k] = up[k].val
  BY ZenonT(30), <1>2 DEF KeyDur, PutInv, IsPut
<1>3. QED
  BY ZenonT(30), <1>1, <1>2 DEF Changes

\* Every step keeps the bytes of an upload under way in the store.
LEMMA SendStep ==
    ASSUME StateTypes, WriterOK, ReceiptInv, DurInv, Step, NEW k \in Keys, SendInv(k)
    PROVE  SendInv(k)'
<1>1. KeyInv(k) /\ KeyDur(k) /\ UploadInv(k)
  BY ZenonT(30) DEF ReceiptInv, DurInv
<1>2. CASE QuietStep
  BY ZenonT(30), <1>1, <1>2, QuietChanges, SendKept
<1>3. CASE WriteStep /\ ~GetHydrate /\ wk.pc # "boot"
  BY ZenonT(30), <1>1, <1>3, WriteChanges, SendKept
<1>4. CASE GetHydrate
  <2>1. /\ UNCHANGED up /\ OthersSame(rd.key) /\ rd.val # None
        /\ store'[rd.key] = store[rd.key] \/ store'[rd.key] = rd.val
    BY ZenonT(30), <1>4, GetHydrateEffect DEF DurInv, ReaderInv, worker
  <2>2. QED
    BY ZenonT(30), <2>1 DEF SendInv, OthersSame, Same
<1>5. CASE WriteStep /\ ~GetHydrate /\ wk.pc = "boot"
  <2>1. up[k].stage # "send"
    BY ZenonT(30), <1>1, <1>5, NullFields DEF UploadInv
  <2>2. up'[k].stage # "send"
    <3>1. CASE Serve \/ (\E j \in Keys : Reconcile(j)) \/ PutItem
      BY ZenonT(30), <2>1, <3>1, ServeEffect, ReconcileEffect, PutItemEffect DEF worker
    <3>2. CASE CompleteUnqueue
      BY ZenonT(30), <2>1, <3>2, CompleteUnqueueEffect, NullFields
    <3>3. CASE \E j \in Keys : UploadSend(j) \/ UploadError(j)
      BY ZenonT(30), <2>1, <3>3, SendEffect
    <3>4. CASE \/ PutStore \/ PutCancelGc \/ PutEnqueue \/ PutRemoveIntent \/ DeleteEnqueue
               \/ RecoverStore \/ RecoverEnqueue \/ RecoverCancelGc \/ RecoverRemoveIntent
               \/ CompleteRetain \/ CompleteReceipt \/ GcDeleteStore \/ GcRemoveTomb
      <4>1. UNCHANGED worker
        BY ZenonT(30), <3>4, PutStoreEffect, PutCancelGcEffect, PutEnqueueEffect,
           PutRemoveIntentEffect, DeleteEnqueueEffect,
           RecoverStoreEffect, RecoverEnqueueEffect, RecoverCancelGcEffect, RecoverRemoveIntentEffect,
           CompleteRetainEffect, CompleteReceiptEffect, GcDeleteStoreEffect, GcRemoveTombEffect
      <4>2. QED
        BY ZenonT(30), <2>1, <4>1 DEF worker
    <3>5. QED
      BY Zenon, <1>5, <3>1, <3>2, <3>3, <3>4 DEF WriteStep
  <2>3. QED
    BY ZenonT(30), <2>2 DEF SendInv
<1>6. QED
  BY ZenonT(30), <1>2, <1>3, <1>4, <1>5, StepKinds

\* Only a crash makes the process start again, and it takes the reader with it.
LEMMA StillServing ==
    ASSUME StateTypes, WriterOK, QuietStep, ~ReadStep
    PROVE  \/ UNCHANGED rd /\ (wk.pc # "boot" => wk'.pc # "boot")
           \/ rd'.pc = "idle"
<1> USE DEF files, marks, worker, volatile, hist
<1>1. CASE UNCHANGED <<rd, wk>>
  BY ZenonT(30), <1>1
<1>2. CASE EntryStep
  BY Zenon, <1>1, <1>2 DEF EntryStep, UploadComplete, BeginDelete, WorkerRecover, GcBegin
<1>3. CASE StopStep
  <2>1. CASE RecoverRefuse \/ WriteFails
    <3>1. Abandon /\ UNCHANGED rd
      BY ZenonT(30), <2>1 DEF RecoverRefuse, WriteFails
    <3>2. QED
      BY ZenonT(30), <3>1, NullFields DEF Abandon
  <2>2. CASE Crash
    BY ZenonT(30), <2>2, NullFields DEF Crash
  <2>3. QED
    BY Zenon, <1>1, <1>3, <2>1, <2>2 DEF StopStep, BeginPut, AckPut
<1>4. CASE WorkerStep
  <2>1. CASE \E j \in Keys : ReadQueueItem(j) \/ UploadCheck(j) \/ UploadFailed(j)
    <3>1. UNCHANGED rd /\ wk'.pc = wk.pc
      BY ZenonT(30), <2>1 DEF ReadQueueItem, UploadCheck, UploadFailed, StateTypes, Worker
    <3>2. QED
      BY ZenonT(30), <3>1
  <2>2. CASE \E s \in SUBSET Keys, hosts \in SUBSET Hosts : SelectRound(s, hosts)
    <3>1. PICK s \in SUBSET Keys, hosts \in SUBSET Hosts : SelectRound(s, hosts)
      BY ZenonT(30), <2>2
    <3>2. UNCHANGED rd /\ wk'.pc = "tier"
      BY ZenonT(30), <3>1 DEF SelectRound, StateTypes, Worker
    <3>3. QED
      BY ZenonT(30), <3>2
  <2>3. CASE NextTier \/ RoundEnd \/ \E batch \in BOOLEAN : DeleteBegin(batch)
    <3>1. UNCHANGED rd
      BY ZenonT(30), <2>3 DEF NextTier, RoundEnd, DeleteBegin
    <3>2. wk.pc # "boot" => wk'.pc # "boot"
      BY ZenonT(30), <2>3, NullFields DEF NextTier, RoundEnd, DeleteBegin, StateTypes, Worker
    <3>3. QED
      BY ZenonT(30), <3>1, <3>2
  <2>4. CASE WorkerDue \/ ListQueue \/ NothingSelected \/ WorkerRecovered \/ WorkerNotDue
    <3>1. UNCHANGED rd
      BY ZenonT(30), <2>4 DEF WorkerDue, ListQueue, NothingSelected, WorkerRecovered, WorkerNotDue
    <3>2. wk'.pc # "boot"
      BY ZenonT(30), <2>4 DEF WorkerDue, ListQueue, NothingSelected, WorkerRecovered,
         WorkerNotDue, StateTypes, Worker
    <3>3. QED
      BY ZenonT(30), <3>1, <3>2
  <2>5. CASE WorkerWake \/ FlushCheck \/ RemoveFlushRequest \/ GcCollect \/ GcEnd
    <3>1. UNCHANGED rd
      BY ZenonT(30), <2>5 DEF WorkerWake, FlushCheck, RemoveFlushRequest, GcCollect, GcEnd
    <3>2. CASE WorkerWake
      <4>1. wk'.pc = "recover"
        BY ZenonT(30), <3>2 DEF WorkerWake, Sleeping, Booting
      <4>2. QED
        BY ZenonT(30), <3>1, <4>1
    <3>3. CASE FlushCheck \/ RemoveFlushRequest \/ GcCollect \/ GcEnd
      <4>1. wk'.pc # "boot"
        BY ZenonT(30), <3>3, NullFields DEF FlushCheck, RemoveFlushRequest, GcCollect, GcEnd,
           StateTypes, Worker
      <4>2. QED
        BY ZenonT(30), <3>1, <4>1
    <3>4. QED
      BY ZenonT(30), <2>5, <3>2, <3>3
  <2>6. QED
    BY Zenon, <1>4, <2>1, <2>2, <2>3, <2>4, <2>5 DEF WorkerStep
<1>5. CASE OtherStep
  <2>1. CASE \E j \in Keys : RetryMarkFails(j)
    BY ZenonT(30), <2>1, NullFields DEF RetryMarkFails
  <2>2. QED
    BY Zenon, <1>1, <1>5, <2>1 DEF OtherStep, RequestFlush, Time, RetryElapses, TombExpires
<1>6. QED
  BY ZenonT(30), <1>2, <1>3, <1>4, <1>5 DEF QuietStep

\* No write moves the reader, but for its own hydration.
LEMMA WriteServing ==
    ASSUME StateTypes, WriterOK, WriteStep, ~GetHydrate
    PROVE  UNCHANGED rd /\ (wk.pc # "boot" => wk'.pc # "boot")
<1>1. CASE Serve \/ (\E j \in Keys : Reconcile(j)) \/ PutItem
  BY ZenonT(30), <1>1, ServeEffect, ReconcileEffect, PutItemEffect DEF worker
<1>2. CASE CompleteUnqueue
  <2>1. UNCHANGED rd /\ wk'.pc = wk.pc
    BY ZenonT(30), <1>2 DEF CompleteUnqueue, StateTypes, Worker
  <2>2. QED
    BY ZenonT(30), <2>1
<1>3. CASE \E j \in Keys : UploadSend(j) \/ UploadError(j)
  BY Zenon, <1>3 DEF UploadSend, UploadError
<1>4. CASE \/ PutStore \/ PutCancelGc \/ PutEnqueue \/ PutRemoveIntent \/ DeleteEnqueue
           \/ RecoverStore \/ RecoverEnqueue \/ RecoverCancelGc \/ RecoverRemoveIntent
           \/ CompleteRetain \/ CompleteReceipt \/ GcDeleteStore \/ GcRemoveTomb
  <2>1. UNCHANGED <<worker, rd>>
    BY ZenonT(30), <1>4, PutStoreEffect, PutCancelGcEffect, PutEnqueueEffect,
       PutRemoveIntentEffect, DeleteEnqueueEffect,
       RecoverStoreEffect, RecoverEnqueueEffect, RecoverCancelGcEffect, RecoverRemoveIntentEffect,
       CompleteRetainEffect, CompleteReceiptEffect, GcDeleteStoreEffect, GcRemoveTombEffect
  <2>2. QED
    BY ZenonT(30), <2>1 DEF worker
<1>5. QED
  BY Zenon, <1>1, <1>2, <1>3, <1>4 DEF WriteStep

\* seen takes in what the key looks like after every step of the read.
LEMMA SeenStep ==
    ASSUME Observe, NEW k \in Keys, rd'.key = k, rd'.pc # "idle",
           rd.pc \notin {"idle", "done"} \/ rd'.pc = "queue"
    PROVE  /\ Visible(k)' \in seen'
           /\ intent'[k] # None => intent'[k] \in seen'
           /\ rd.pc \notin {"idle", "done"} => seen \subseteq seen'
<1>1. PICK now : /\ now = {Visible(j)' : j \in {i \in Keys : i = rd.key'}}
                        \cup {intent[j]' : j \in {i \in {h \in Keys : h = rd.key'} : intent[i]' # None}}
                 /\ seen' = IF rd.pc' = "idle" THEN {}
                            ELSE IF rd.pc \in {"idle", "done"} THEN IF rd.pc' = "queue" THEN now ELSE seen
                            ELSE seen \cup now
  BY ZenonT(30) DEF Observe
<1>2. k \in {i \in Keys : i = rd.key'}
  BY ZenonT(30)
<1>3. Visible(k)' \in now
  BY ZenonT(30), <1>1, <1>2
<1>4. intent'[k] # None => intent'[k] \in now
  BY ZenonT(30), <1>1, <1>2
<1>5. now \subseteq seen'
  BY ZenonT(30), <1>1
<1>6. rd.pc \notin {"idle", "done"} => seen \subseteq seen'
  BY ZenonT(30), <1>1
<1>7. QED
  BY ZenonT(30), <1>3, <1>4, <1>5, <1>6

\* A read that has begun is of a key.
LEMMA Reading ==
    ASSUME StateTypes, rd.pc # "idle"
    PROVE  rd \in [pc : {"queue", "tomb", "store", "backend", "hydrate", "done"}, key : Keys, val : Content]
<1>1. rd # NoReader
  BY ZenonT(30), NullFields
<1>2. QED
  BY Zenon, <1>1 DEF StateTypes, Reader

\* The reader itself reads one file and knows more, or answers.
LEMMA ReadMoves ==
    ASSUME StateTypes, ReceiptInv, DurInv, ReadInv, ReadStep, Observe, NEW k \in Keys, rd.key = k,
           rd.pc \notin {"idle", "done"}
    PROVE  /\ rd'.key = k /\ rd'.pc \notin {"idle", "queue"} /\ UNCHANGED <<store, queue, tomb, backend, up, wk>>
           /\ rd'.pc = "done" => rd'.val \in seen
           /\ rd'.pc = "tomb" => PastQueue(k)
           /\ rd'.pc = "store" => PastTomb(k)
           /\ rd'.pc = "backend" => PastStore(k)
           /\ rd'.pc = "hydrate" => rd'.val \in seen
<1> USE DEF files, worker
<1>1. rd \in [pc : {"queue", "tomb", "store", "backend", "hydrate", "done"}, key : Keys, val : Content]
  BY ZenonT(30), Reading
<1>2. \A v : Answer(v).pc = "done" /\ Answer(v).key = k /\ Answer(v).val = v
  BY ZenonT(30), <1>1 DEF Answer
<1>3. \A st : [rd EXCEPT !.pc = st].pc = st /\ [rd EXCEPT !.pc = st].key = k /\ [rd EXCEPT !.pc = st].val = rd.val
  BY ZenonT(30), <1>1
<1>4. Watches(k)
  BY ZenonT(30) DEF ReadInv
<1>5. CASE GetReadQueue
  <2>1. rd.pc = "queue" /\ UNCHANGED <<store, queue, tomb, backend, up, wk>>
    BY ZenonT(30), <1>5 DEF GetReadQueue
  <2>2. CASE queue[k].op = "Delete"
    <3>1. rd' = Answer(None)
      BY ZenonT(30), <1>5, <2>2 DEF GetReadQueue
    <3>2. None \in seen
      BY ZenonT(30), <1>4, <2>2 DEF Watches, Visible, Deleted
    <3>3. QED
      BY ZenonT(30), <1>2, <2>1, <3>1, <3>2
  <2>3. CASE queue[k].op # "Delete"
    <3>1. rd' = [rd EXCEPT !.pc = "tomb"]
      BY ZenonT(30), <1>5, <2>3 DEF GetReadQueue
    <3>2. PastQueue(k)
      BY ZenonT(30), <1>4, <2>3 DEF PastQueue, Watches, Visible, Deleted
    <3>3. QED
      BY ZenonT(30), <1>3, <2>1, <3>1, <3>2
  <2>4. QED
    BY ZenonT(30), <2>2, <2>3
<1>6. CASE GetReadTomb
  <2>1. rd.pc = "tomb" /\ UNCHANGED <<store, queue, tomb, backend, up, wk>>
    BY ZenonT(30), <1>6 DEF GetReadTomb
  <2>2. CASE Tombstoned(k)
    <3>1. rd' = Answer(None)
      BY ZenonT(30), <1>6, <2>2 DEF GetReadTomb
    <3>2. None \in seen
      BY ZenonT(30), <1>4, <2>2 DEF Watches, Visible, Deleted
    <3>3. QED
      BY ZenonT(30), <1>2, <2>1, <3>1, <3>2
  <2>3. CASE ~Tombstoned(k)
    <3>1. rd' = [rd EXCEPT !.pc = "store"]
      BY ZenonT(30), <1>6, <2>3 DEF GetReadTomb
    <3>2. PastTomb(k)
      BY ZenonT(30), <2>1, <2>3 DEF ReadInv, PastQueue, PastTomb
    <3>3. QED
      BY ZenonT(30), <1>3, <2>1, <3>1, <3>2
  <2>4. QED
    BY ZenonT(30), <2>2, <2>3
<1>7. CASE GetReadStore
  <2>1. rd.pc = "store" /\ UNCHANGED <<store, queue, tomb, backend, up, wk>>
    BY ZenonT(30), <1>7 DEF GetReadStore
  <2>2. PastTomb(k)
    BY ZenonT(30), <2>1 DEF ReadInv
  <2>3. CASE store[k] # None
    <3>1. rd' = Answer(store[k])
      BY ZenonT(30), <1>7, <2>3 DEF GetReadStore
    <3>2. store[k] \in seen
      BY ZenonT(30), <2>2, <2>3 DEF PastTomb
    <3>3. QED
      BY ZenonT(30), <1>2, <2>1, <3>1, <3>2
  <2>4. CASE store[k] = None
    <3>1. rd' = [rd EXCEPT !.pc = "backend"]
      BY ZenonT(30), <1>7, <2>4 DEF GetReadStore
    <3>2. queue[k].op \in {"none", "Delete"}
      <4>1. queue[k].op # "Put"
        BY ZenonT(30), <2>4 DEF DurInv, KeyDur, PutInv
      <4>2. QED
        BY ZenonT(30), <4>1 DEF StateTypes, Item
    <3>3. up[k].stage = "send" => up[k].op # "Put" /\ queue[k].op = "Delete"
      BY ZenonT(30), <2>4, <3>2 DEF ReadInv, SendInv, ReceiptInv, KeyInv, StageInv, Queued
    <3>4. queue[k].op = "Delete" \/ backend[k] = None => None \in seen
      BY ZenonT(30), <1>4, <2>4 DEF Watches, Visible, Deleted
    <3>5. PastStore(k)
      BY ZenonT(30), <2>2, <2>4, <3>2, <3>3, <3>4 DEF PastTomb, PastStore
    <3>6. QED
      BY ZenonT(30), <1>3, <2>1, <3>1, <3>5
  <2>5. QED
    BY ZenonT(30), <2>3, <2>4
<1>8. CASE GetReadBackend
  <2>1. rd.pc = "backend" /\ UNCHANGED <<store, queue, tomb, backend, up, wk>>
    BY ZenonT(30), <1>8 DEF GetReadBackend
  <2>2. PastStore(k)
    BY ZenonT(30), <2>1 DEF ReadInv
  <2>3. CASE backend[k] = None
    <3>1. rd' = Answer(None)
      BY ZenonT(30), <1>8, <2>3 DEF GetReadBackend
    <3>2. None \in seen
      BY ZenonT(30), <2>2, <2>3 DEF PastStore
    <3>3. QED
      BY ZenonT(30), <1>2, <2>1, <3>1, <3>2
  <2>4. CASE backend[k] # None
    <3>1. rd'.pc = "hydrate" /\ rd'.key = k /\ rd'.val = backend[k]
      BY ZenonT(30), <1>1, <1>8, <2>4 DEF GetReadBackend
    <3>2. backend[k] \in seen
      BY ZenonT(30), <2>2, <2>4 DEF PastStore
    <3>3. QED
      BY ZenonT(30), <2>1, <3>1, <3>2
  <2>5. QED
    BY ZenonT(30), <2>3, <2>4
<1>9. CASE \E j \in Readable : BeginGet(j)
  BY ZenonT(30), <1>9 DEF BeginGet
<1>10. QED
  BY ZenonT(30), <1>5, <1>6, <1>7, <1>8, <1>9 DEF ReadStep

\* No step breaks ReadInv, in whatever order the worker, the local GC and other
\* clients move the files the reader looks at.
LEMMA RegularStep ==
    ASSUME StateTypes, WriterOK, ReceiptInv, DurInv, ReadInv, Step, Observe
    PROVE  ReadInv'
<1>1. \A k \in Keys : SendInv(k)'
  BY ZenonT(30), SendStep DEF ReadInv
<1>2. CASE rd'.pc = "idle"
  BY ZenonT(30), <1>1, <1>2 DEF ReadInv
<1>3. CASE UNCHANGED rd /\ rd.pc = "done"
  <2>1. seen' = seen
    BY ZenonT(30), <1>3 DEF Observe
  <2>2. QED
    BY ZenonT(30), <1>1, <1>3, <2>1 DEF ReadInv
<1>4. CASE rd.pc \in {"idle", "done"} /\ ReadStep
  <2>1. PICK k \in Readable : BeginGet(k)
    BY ZenonT(30), <1>4 DEF ReadStep, GetReadQueue, GetReadTomb, GetReadStore, GetReadBackend
  <2>2. k \in Keys /\ rd'.pc = "queue" /\ rd'.key = k /\ wk'.pc # "boot"
    BY ZenonT(30), <2>1, ConstantsAssumption DEF BeginGet, Serving, worker
  <2>3. Watches(k)'
    BY ZenonT(30), <2>2, SeenStep DEF Watches
  <2>4. QED
    BY ZenonT(30), <1>1, <2>2, <2>3 DEF ReadInv
<1>5. CASE rd.pc \notin {"idle", "done"} /\ rd'.pc # "idle"
  <2>1. PICK k \in Keys : rd.key = k
    BY ZenonT(30), <1>5, Reading
  <2>2. Watches(k) /\ KeyInv(k) /\ KeyDur(k) /\ SendInv(k) /\ UploadInv(k)
    BY ZenonT(30), <1>5, <2>1 DEF ReadInv, ReceiptInv, DurInv
  <2>3. CASE ReadStep
    <3>1. /\ rd'.key = k /\ rd'.pc \notin {"idle", "queue"} /\ UNCHANGED <<store, queue, tomb, backend, up, wk>>
          /\ rd'.pc = "done" => rd'.val \in seen
          /\ rd'.pc = "tomb" => PastQueue(k)
          /\ rd'.pc = "store" => PastTomb(k)
          /\ rd'.pc = "backend" => PastStore(k)
          /\ rd'.pc = "hydrate" => rd'.val \in seen
      BY ZenonT(30), <1>5, <2>1, <2>3, ReadMoves
    <3>2. seen \subseteq seen' /\ Watches(k)'
      BY ZenonT(30), <1>5, <2>2, <3>1, SeenStep DEF Watches
    <3>3. /\ PastQueue(k) => PastQueue(k)'
          /\ PastTomb(k) => PastTomb(k)'
          /\ PastStore(k) => PastStore(k)'
      BY ZenonT(30), <3>1, <3>2 DEF PastQueue, PastTomb, PastStore, Tombstoned
    <3>4. QED
      BY ZenonT(30), <1>1, <3>1, <3>2, <3>3 DEF ReadInv
  <2>4. CASE GetHydrate
    <3>1. rd'.pc = "done" /\ rd'.key = k /\ rd'.val = rd.val /\ rd.pc = "hydrate"
      BY ZenonT(30), <2>1, <2>4, GetHydrateEffect
    <3>2. rd.val \in seen /\ seen \subseteq seen'
      BY ZenonT(30), <1>5, <2>1, <3>1, SeenStep DEF ReadInv
    <3>3. QED
      BY ZenonT(30), <1>1, <3>1, <3>2 DEF ReadInv
  <2>5. CASE ~ReadStep /\ ~GetHydrate
    <3>1. Changes(k) /\ UNCHANGED rd /\ wk'.pc # "boot"
      <4>1. wk.pc # "boot"
        BY ZenonT(30), <2>2 DEF Watches
      <4>2. CASE QuietStep
        BY ZenonT(30), <1>5, <2>2, <2>5, <4>1, <4>2, QuietChanges, StillServing
      <4>3. CASE WriteStep
        BY ZenonT(30), <2>5, <4>1, <4>3, WriteChanges, WriteServing
      <4>4. QED
        BY ZenonT(30), <4>2, <4>3, StepKinds
    <3>2. seen \subseteq seen' /\ Watches(k)'
      BY ZenonT(30), <1>5, <2>1, <3>1, SeenStep DEF Watches
    <3>3. /\ PastQueue(k) => PastQueue(k)'
          /\ PastTomb(k) => PastTomb(k)'
          /\ PastStore(k) => PastStore(k)'
      BY ZenonT(30), <2>2, <3>1, <3>2, ChangesKeep
    <3>4. QED
      BY ZenonT(30), <1>1, <1>5, <2>1, <3>1, <3>2, <3>3 DEF ReadInv
  <2>6. QED
    BY ZenonT(30), <2>3, <2>4, <2>5
<1>6. QED
  <2>1. rd.pc \in {"idle", "done"} => (UNCHANGED rd \/ ReadStep \/ rd'.pc = "idle")
    <3>1. CASE QuietStep
      BY ZenonT(30), <3>1, StillServing
    <3>2. CASE WriteStep
      <4>1. CASE GetHydrate
        BY ZenonT(30), <4>1, GetHydrateEffect
      <4>2. QED
        BY ZenonT(30), <3>2, <4>1, WriteServing
    <3>3. QED
      BY ZenonT(30), <3>1, <3>2, StepKinds
  <2>2. QED
    BY ZenonT(30), <1>2, <1>3, <1>4, <1>5, <2>1
=============================================================================
