--------------------- MODULE ClusterMasterReceiptProofs ---------------------
(* Type correctness of ClusterMaster, and the invariant that ties receipts,    *)
(* uploads and queue items together, for every value of its constants.         *)
EXTENDS ClusterMasterInvariants, TLAPS

\* The null records have their types.
LEMMA NullTypes ==
    /\ NoItem \in Item /\ NoTomb \in Tomb /\ NoUpload \in Upload
    /\ NoWriter \in Writer /\ NoWriter.pc = "idle"
    /\ Booting \in Worker /\ Sleeping \in Worker /\ NoReader \in Reader
<1>1. NoItem \in Item /\ NoTomb \in Tomb /\ NoUpload \in Upload /\ NoReader \in Reader
  BY ZenonT(30) DEF NoItem, Item, NoTomb, Tomb, NoUpload, Upload, NoReader, Reader, Content
<1>2. NoWriter \in Writer /\ NoWriter.pc = "idle"
  BY DEF NoWriter, Writer
<1>3. Booting \in Worker
  BY DEF Booting, Worker
<1>4. Sleeping \in Worker
  BY ZenonT(30), <1>3 DEF Sleeping, Worker
<1>5. QED
  BY ZenonT(30), <1>1, <1>2, <1>3, <1>4

\* write_backend_queue_item leaves a queue of items and extends the history.
LEMMA WriteQueueTypes ==
    ASSUME StateTypes, NEW k \in Keys, NEW op \in {"Put", "Delete"}, NEW v \in Content,
           WriteQueueItem(k, op, v)
    PROVE  queue' \in [Keys -> Item] /\ enq' \in Seq([key : Keys, op : {"Put", "Delete"}])
<1>1. CASE queue[k].op = op /\ queue[k].val = v
  BY ZenonT(30), <1>1 DEF StateTypes, WriteQueueItem
<1>2. CASE ~(queue[k].op = op /\ queue[k].val = v)
  <2>1. Len(enq) + 1 \in Nat
    BY DEF StateTypes
  <2>2. [op |-> op, val |-> v, gen |-> Len(enq) + 1, retry |-> FALSE] \in Item
    BY ZenonT(30), <2>1 DEF Item
  <2>3. [key |-> k, op |-> op] \in [key : Keys, op : {"Put", "Delete"}]
    BY ZenonT(30)
  <2> DEFINE item == [op |-> op, val |-> v, gen |-> Len(enq) + 1, retry |-> FALSE]
             entry == [key |-> k, op |-> op]
  <2>4. queue' = [queue EXCEPT ![k] = item] /\ enq' = Append(enq, entry)
    BY ZenonT(30), <1>2 DEF WriteQueueItem
  <2>5. QED
    <3> HIDE DEF item, entry
    <3>1. item \in Item /\ entry \in [key : Keys, op : {"Put", "Delete"}]
      BY ZenonT(30), <2>2, <2>3 DEF item, entry
    <3>2. queue' \in [Keys -> Item]
      BY ZenonT(30), <2>4, <3>1 DEF StateTypes
    <3>3. enq' \in Seq([key : Keys, op : {"Put", "Delete"}])
      BY <2>4, <3>1 DEF StateTypes
    <3>4. QED
      BY ZenonT(30), <3>2, <3>3
<1>3. QED
  BY ZenonT(30), <1>1, <1>2

\* Abandoning a writer keeps the types.
LEMMA AbandonTypes ==
    ASSUME StateTypes, WriterOK, Abandon
    PROVE  cs' \in Writer /\ wk' \in Worker /\ gcq' \in [Keys -> Nat] /\ up' \in [Keys -> Upload]
<1>1. cs' \in Writer /\ wk' \in Worker /\ gcq' \in [Keys -> Nat]
  BY ZenonT(30), NullTypes DEF StateTypes, Abandon
<1>2. \A k \in Keys : [up[k] EXCEPT !.stage = "failed"] \in Upload
  BY ZenonT(30) DEF StateTypes, Upload
<1>3. up' \in [Keys -> Upload]
  BY Zenon, <1>2, NullTypes DEF StateTypes, Abandon
<1>4. QED
  BY ZenonT(30), <1>1, <1>3

\* A reader that is under way reads a key and keeps its type.
LEMMA ReaderStep ==
    ASSUME rd \in Reader, rd.pc # "idle"
    PROVE  /\ rd.key \in Keys /\ rd.val \in Content
           /\ \A p \in {"tomb", "store", "backend", "hydrate", "done"}, v \in Content :
                 [rd EXCEPT !.pc = p] \in Reader /\ [rd EXCEPT !.pc = p, !.val = v] \in Reader
<1>1. rd \in [pc : {"queue", "tomb", "store", "backend", "hydrate", "done"}, key : Keys, val : Content]
  BY DEF Reader, NoReader
<1>2. QED
  BY Zenon, <1>1 DEF Reader

\* A request of a client keeps the types.
LEMMA RpcTypes == ASSUME StateTypes, WriterOK, Rpc PROVE StateTypes' /\ WriterOK'
<1>1. CASE \E items \in Batches : BeginPut(items)
  <2>1. PICK items \in Batches : BeginPut(items)
    BY ZenonT(30), <1>1
  <2>2. items \in Seq(Keys \X Vals)
    BY ConstantsAssumption DEF Batches
  <2>3. cs' \in Writer /\ cs'.pc = "put"
    BY Zenon, <2>1, <2>2, NullTypes DEF BeginPut, Writer
  <2>4. QED
    BY ZenonT(30), <2>1, <2>3 DEF BeginPut, StateTypes, WriterOK, PutPcs, files, worker, hist
<1>2. CASE \E k \in Keys : BeginDelete(k)
  <2>1. PICK k \in Keys : BeginDelete(k)
    BY ZenonT(30), <1>2
  <2>2. cs' \in Writer /\ cs'.key = k /\ cs'.pc \in {"r_store", "d_enqueue"}
    BY Zenon, <2>1, NullTypes DEF BeginDelete, Writer, RecoverPcs
  <2>3. QED
    BY ZenonT(30), <2>1, <2>2 DEF BeginDelete, StateTypes, WriterOK, PutPcs, files, worker, hist
<1>3. CASE RequestFlush
  BY ZenonT(30), <1>3 DEF RequestFlush, StateTypes, WriterOK, files, marks, worker, volatile, hist
<1>4. QED
  BY ZenonT(30), <1>1, <1>2, <1>3 DEF Rpc

\* So does a step of the lock holder.
LEMMA LockedTypes == ASSUME StateTypes, WriterOK, Locked PROVE StateTypes' /\ WriterOK'
<1>1. CASE PutItem
  <2> DEFINE k == Head(cs.items)[1]
             v == Head(cs.items)[2]
  <2>1. k \in Keys /\ v \in Vals /\ Tail(cs.items) \in Seq(Keys \X Vals)
        /\ Append(cs.done, Head(cs.items)) \in Seq(Keys \X Vals)
    BY <1>1 DEF PutItem, StateTypes, Writer
  <2>2. intent' \in [Keys -> Content]
    BY Zenon, <1>1, <2>1 DEF PutItem, StateTypes, Content
  <2>3. cs' \in Writer /\ WriterOK'
    <3>1. cs.items # <<>>
      BY ZenonT(30), <1>1 DEF PutItem
    <3> HIDE DEF k, v
    <3>2. CASE cs' = [cs EXCEPT !.pc = "r_store", !.key = k, !.ret = "put"]
      BY Zenon, <3>2, <2>1 DEF StateTypes, WriterOK, Writer, PutPcs, RecoverPcs
    <3>3. CASE cs' = NoWriter
      BY ZenonT(30), <3>3, NullTypes DEF WriterOK, PutPcs
    <3>4. CASE cs' = [cs EXCEPT !.items = Tail(cs.items), !.done = Append(cs.done, Head(cs.items))]
      BY Zenon, <3>4, <2>1, <1>1 DEF PutItem, StateTypes, WriterOK, Writer, PutPcs
    <3>5. CASE cs' = [cs EXCEPT !.pc = "p_store", !.key = k]
      BY Zenon, <3>5, <3>1, <2>1 DEF StateTypes, WriterOK, Writer, PutPcs
    <3>6. QED
      BY ZenonT(30), <1>1, <3>2, <3>3, <3>4, <3>5 DEF PutItem, k, v
  <2>4. QED
    BY ZenonT(30), <1>1, <2>2, <2>3 DEF PutItem, StateTypes, marks, worker, hist
<1>2. CASE PutStore
  BY Zenon, <1>2 DEF PutStore, StateTypes, WriterOK, files, marks, worker, volatile, hist,
     Writer, PutPcs, RecoverPcs, CompletePcs, GcPcs
<1>3. CASE PutCancelGc
  BY Zenon, <1>3, NullTypes DEF PutCancelGc, StateTypes, WriterOK, files, marks, worker,
     volatile, hist, Writer, PutPcs, RecoverPcs, CompletePcs, GcPcs
<1>4. CASE PutEnqueue
  <2>1. cs.key \in Keys /\ cs' \in Writer /\ WriterOK'
    BY Zenon, <1>4 DEF PutEnqueue, StateTypes, WriterOK, Writer, PutPcs
  <2>2. queue' \in [Keys -> Item] /\ enq' \in Seq([key : Keys, op : {"Put", "Delete"}])
    BY Zenon, <1>4, <2>1, WriteQueueTypes DEF PutEnqueue, StateTypes
  <2>3. QED
    BY ZenonT(30), <1>4, <2>1, <2>2 DEF PutEnqueue, StateTypes, marks, worker
<1>5. CASE PutRemoveIntent
  <2>1. cs.items # <<>>
    BY ZenonT(30), <1>5 DEF PutRemoveIntent, WriterOK, PutPcs
  <2>2. Tail(cs.items) \in Seq(Keys \X Vals) /\ Append(cs.done, Head(cs.items)) \in Seq(Keys \X Vals)
    BY <2>1 DEF StateTypes, Writer
  <2>3. cs' \in Writer /\ cs'.pc = "put"
    BY Zenon, <1>5, <2>2 DEF PutRemoveIntent, StateTypes, Writer
  <2>4. intent' \in [Keys -> Content]
    BY Zenon, <1>5 DEF PutRemoveIntent, StateTypes, Content
  <2>5. QED
    BY ZenonT(30), <1>5, <2>3, <2>4 DEF PutRemoveIntent, StateTypes, WriterOK, PutPcs, marks,
       worker, hist
<1>6. CASE AckPut
  BY ZenonT(30), <1>6, NullTypes DEF AckPut, StateTypes, WriterOK, PutPcs, files, worker, hist
<1>7. CASE DeleteEnqueue
  <2>1. cs.key \in Keys /\ cs' \in Writer /\ WriterOK'
    BY ZenonT(30), <1>7, NullTypes DEF DeleteEnqueue, StateTypes, WriterOK, Writer, PutPcs,
       RecoverPcs
  <2>2. queue' \in [Keys -> Item] /\ enq' \in Seq([key : Keys, op : {"Put", "Delete"}])
    BY Zenon, <1>7, <2>1, WriteQueueTypes DEF DeleteEnqueue, StateTypes, Content
  <2>3. QED
    BY ZenonT(30), <1>7, <2>1, <2>2 DEF DeleteEnqueue, StateTypes, marks, worker
<1>8. CASE RecoverRefuse
  <2>1. Abandon /\ cs' = NoWriter
    BY ZenonT(30), <1>8 DEF RecoverRefuse, Abandon
  <2>2. QED
    BY ZenonT(30), <1>8, <2>1, AbandonTypes, NullTypes DEF RecoverRefuse, StateTypes, WriterOK,
       PutPcs, files, hist
<1>9. CASE RecoverStore
  BY Zenon, <1>9 DEF RecoverStore, StateTypes, WriterOK, files, marks, worker, volatile, hist,
     Writer, PutPcs, RecoverPcs, CompletePcs, GcPcs
<1>10. CASE RecoverEnqueue
  <2>1. cs.key \in Keys /\ cs' \in Writer /\ WriterOK'
    BY Zenon, <1>10, NullTypes DEF RecoverEnqueue, StateTypes, WriterOK, Writer, PutPcs, RecoverPcs
  <2>2. queue' \in [Keys -> Item] /\ enq' \in Seq([key : Keys, op : {"Put", "Delete"}])
    BY Zenon, <1>10, <2>1, WriteQueueTypes DEF RecoverEnqueue, StateTypes, Content
  <2>3. QED
    BY ZenonT(30), <1>10, <2>1, <2>2 DEF RecoverEnqueue, StateTypes, marks, worker
<1>11. CASE RecoverCancelGc
  BY Zenon, <1>11, NullTypes DEF RecoverCancelGc, StateTypes, WriterOK, files, marks, worker,
     volatile, hist, Writer, PutPcs, RecoverPcs, CompletePcs, GcPcs
<1>12. CASE RecoverRemoveIntent
  <2>1. cs.key \in Keys
    BY ZenonT(30), <1>12 DEF RecoverRemoveIntent, WriterOK
  <2>2. cs' \in Writer /\ WriterOK'
    BY Zenon, <1>12, <2>1, NullTypes DEF RecoverRemoveIntent, StateTypes, WriterOK, Writer, PutPcs
  <2>3. intent' \in [Keys -> Content]
    BY Zenon, <1>12 DEF RecoverRemoveIntent, StateTypes, Content
  <2>4. QED
    BY ZenonT(30), <1>12, <2>2, <2>3 DEF RecoverRemoveIntent, StateTypes, marks, worker, hist
<1>13. CASE CompleteRetain
  BY Zenon, <1>13, NullTypes DEF CompleteRetain, StateTypes, WriterOK, files, marks, worker,
     volatile, hist, Writer, PutPcs, RecoverPcs, CompletePcs, GcPcs, Tomb, Upload, Content
<1>14. CASE CompleteReceipt
  BY Zenon, <1>14 DEF CompleteReceipt, StateTypes, WriterOK, files, marks, worker, volatile,
     hist, Writer, PutPcs, RecoverPcs, CompletePcs, GcPcs, Upload
<1>15. CASE CompleteUnqueue
  <2>1. wk' \in Worker
    BY Zenon, <1>15 DEF CompleteUnqueue, StateTypes, Worker
  <2>2. queue' \in [Keys -> Item] /\ up' \in [Keys -> Upload]
    BY Zenon, <1>15, NullTypes DEF CompleteUnqueue, StateTypes
  <2>3. QED
    BY ZenonT(30), <1>15, <2>1, <2>2, NullTypes DEF CompleteUnqueue, StateTypes, WriterOK,
       PutPcs, marks, hist
<1>16. CASE GcDeleteStore
  BY Zenon, <1>16 DEF GcDeleteStore, StateTypes, WriterOK, files, marks, worker, volatile, hist,
     Writer, PutPcs, RecoverPcs, CompletePcs, GcPcs, Content
<1>17. CASE GcRemoveTomb
  BY ZenonT(30), <1>17, NullTypes DEF GcRemoveTomb, StateTypes, WriterOK, PutPcs, marks, worker,
     hist
<1>18. QED
  BY ZenonT(30), <1>1, <1>2, <1>3, <1>4, <1>5, <1>6, <1>7, <1>8, <1>9, <1>10, <1>11, <1>12,
     <1>13, <1>14, <1>15, <1>16, <1>17 DEF Locked

\* So does a step of the startup.
LEMMA StartupTypes == ASSUME StateTypes, WriterOK, Startup PROVE StateTypes' /\ WriterOK'
<1>1. CASE \E k \in Keys : WorkerRecover(k)
  <2>1. PICK k \in Keys : WorkerRecover(k)
    BY ZenonT(30), <1>1
  <2>2. cs' \in Writer /\ cs'.key = k /\ cs'.pc = "r_store"
    BY Zenon, <2>1, NullTypes DEF WorkerRecover, Writer, RecoverPcs
  <2>3. QED
    BY ZenonT(30), <2>1, <2>2 DEF WorkerRecover, StateTypes, WriterOK, PutPcs, files, worker, hist
<1>2. CASE \E k \in Keys : Reconcile(k)
  <2>1. PICK k \in Keys : Reconcile(k)
    BY ZenonT(30), <1>2
  <2>2. queue' \in [Keys -> Item] /\ enq' \in Seq([key : Keys, op : {"Put", "Delete"}])
    BY Zenon, <2>1, WriteQueueTypes DEF Reconcile, StateTypes
  <2>3. QED
    BY ZenonT(30), <2>1, <2>2 DEF Reconcile, StateTypes, WriterOK, volatile, worker, marks
<1>3. CASE Serve
  BY ZenonT(30), <1>3, NullTypes DEF Serve, StateTypes, WriterOK, files, marks, worker, volatile,
     hist
<1>4. QED
  BY ZenonT(30), <1>1, <1>2, <1>3 DEF Startup

\* What a round selects is counted by a number, for there are finitely many keys.
Counted == \A s \in SUBSET Keys : Cardinality(s) \in Nat

\* So does a step of the drain.
LEMMA DrainTypes == ASSUME Counted, StateTypes, WriterOK, Drain PROVE StateTypes' /\ WriterOK'
<1>1. CASE WorkerDue
  BY Zenon, <1>1, NullTypes DEF WorkerDue, StateTypes, WriterOK, files, marks, worker, volatile,
     hist, Worker
<1>2. CASE ListQueue
  <2>1. wk' \in Worker
    <3> DEFINE queued == {k \in Keys : Queued(k)}
               now == Len(enq)
    <3>1. queued \in SUBSET Keys /\ now \in Nat
      BY DEF StateTypes
    <3>2. wk' = [wk EXCEPT !.pc = "read", !.scan = queued, !.listed = now]
      BY ZenonT(30), <1>2 DEF ListQueue
    <3>3. QED
      <4> HIDE DEF queued, now
      <4>1. QED BY Zenon, <3>1, <3>2 DEF StateTypes, Worker
  <2>2. snap' \in [Keys -> Item]
    BY ZenonT(30), <1>2, NullTypes DEF ListQueue
  <2>3. QED
    BY ZenonT(30), <1>2, <2>1, <2>2 DEF ListQueue, StateTypes, WriterOK, files, hist
<1>3. CASE NothingSelected
  BY Zenon, <1>3, NullTypes DEF NothingSelected, StateTypes, WriterOK, files, marks, worker,
     volatile, hist, Worker
<1>4. CASE NextTier
  <2>1. wk' \in Worker
    <3>1. wk.tier < 3 => wk.tier + 1 \in 1..3
      BY DEF StateTypes, Worker
    <3>2. wk.tier < 3 => [wk EXCEPT !.tier = @ + 1] \in Worker
      BY Zenon, <3>1 DEF StateTypes, Worker
    <3>3. [wk EXCEPT !.pc = "deletes"] \in Worker
      BY Zenon DEF StateTypes, Worker
    <3>4. QED
      BY ZenonT(30), <1>4, <3>2, <3>3, NullTypes DEF NextTier
  <2>2. up' \in [Keys -> Upload]
    BY ZenonT(30), <1>4, NullTypes DEF NextTier, StateTypes
  <2>3. QED
    BY ZenonT(30), <1>4, <2>1, <2>2 DEF NextTier, StateTypes, WriterOK, files, hist
<1>5. CASE RoundEnd
  <2>1. wk' \in Worker
    BY Zenon, <1>5, NullTypes DEF RoundEnd, StateTypes, Worker
  <2>2. up' \in [Keys -> Upload]
    BY ZenonT(30), <1>5, NullTypes DEF RoundEnd
  <2>3. QED
    BY ZenonT(30), <1>5, <2>1, <2>2 DEF RoundEnd, StateTypes, WriterOK, files, hist
<1>6. CASE \E k \in Keys : ReadQueueItem(k)
  <2>1. PICK k \in Keys : ReadQueueItem(k)
    BY ZenonT(30), <1>6
  <2>2. wk' \in Worker
    BY Zenon, <2>1 DEF ReadQueueItem, StateTypes, Worker
  <2>3. QED
    BY ZenonT(30), <2>1, <2>2 DEF ReadQueueItem, StateTypes, WriterOK, files, hist
<1>7. CASE \E k \in Keys : UploadCheck(k)
  <2>1. PICK k \in Keys : UploadCheck(k)
    BY ZenonT(30), <1>7
  <2>2. \A st \in {"failed", "send"} : [up EXCEPT ![k].stage = st] \in [Keys -> Upload]
    BY Zenon DEF StateTypes, Upload
  <2>3. [up EXCEPT ![k] = NoUpload] \in [Keys -> Upload]
    BY ZenonT(30), NullTypes DEF StateTypes
  <2>4. up' \in [Keys -> Upload]
    BY ZenonT(30), <2>1, <2>2, <2>3 DEF UploadCheck
  <2>5. QED
    BY ZenonT(30), <2>1, <2>4 DEF UploadCheck, StateTypes, WriterOK, files, hist
<1>8. CASE \E k \in Keys : UploadComplete(k)
  <2>1. PICK k \in Keys : UploadComplete(k)
    BY ZenonT(30), <1>8
  <2>2. up' \in [Keys -> Upload]
    BY Zenon, <2>1, NullTypes DEF UploadComplete, StateTypes
  <2>3. cs' \in Writer /\ WriterOK'
    <3>1. CASE SameGeneration(k)
      <4>1. cs' \in Writer /\ cs'.key = k /\ cs'.pc \in {"c_retain", "c_receipt"}
        BY Zenon, <2>1, <3>1, NullTypes DEF UploadComplete, Writer, CompletePcs
      <4>2. QED
        BY ZenonT(30), <4>1 DEF WriterOK, PutPcs
    <3>2. CASE ~SameGeneration(k)
      BY ZenonT(30), <2>1, <3>2 DEF UploadComplete, StateTypes, WriterOK
    <3>3. QED
      BY ZenonT(30), <3>1, <3>2
  <2>4. QED
    BY ZenonT(30), <2>1, <2>2, <2>3 DEF UploadComplete, StateTypes, files, hist
<1>9. CASE \E k \in Keys : UploadFailed(k)
  <2>1. PICK k \in Keys : UploadFailed(k)
    BY ZenonT(30), <1>9
  <2>2. wk' \in Worker
    BY Zenon, <2>1 DEF UploadFailed, StateTypes, Worker
  <2>3. queue' \in [Keys -> Item]
    BY ZenonT(30), <2>1 DEF UploadFailed, StateTypes, Item
  <2>4. up' \in [Keys -> Upload]
    BY ZenonT(30), <2>1, NullTypes DEF UploadFailed, StateTypes
  <2>5. QED
    BY ZenonT(30), <2>1, <2>2, <2>3, <2>4 DEF UploadFailed, StateTypes, WriterOK, marks, hist
<1>10. CASE \E s \in SUBSET Keys, hosts \in SUBSET Hosts : SelectRound(s, hosts)
  <2>1. PICK s \in SUBSET Keys, hosts \in SUBSET Hosts : SelectRound(s, hosts)
    BY ZenonT(30), <1>10
  <2>2. Cardinality(s) \in Nat
    BY ZenonT(30) DEF Counted
  <2>3. InitialPutHosts \in SUBSET Hosts
    BY ConstantsAssumption DEF InitialPutHosts, PutHosts, StateTypes, Worker
  <2>4. wk' \in Worker
    <3> DEFINE n == wk.count + Cardinality(s)
               h == InitialPutHosts
               w == [wk EXCEPT !.pc = "tier"]
               w0 == [w EXCEPT !.tier = 1]
               w1 == [w0 EXCEPT !.first = FALSE]
               w2 == [w1 EXCEPT !.hosts = h, !.count = n]
    <3>1. wk' = [w2 EXCEPT !.done = FALSE, !.err = FALSE]
      BY ZenonT(30), <2>1 DEF SelectRound, StateTypes, Worker
    <3>2. n \in Nat /\ h \in SUBSET Hosts
      BY <2>2, <2>3 DEF StateTypes, Worker
    <3> HIDE DEF n, h
    <3>3. w1 \in Worker
      <4>1. w \in Worker
        BY Zenon DEF StateTypes, Worker
      <4> HIDE DEF w
      <4>2. w0 \in Worker
        BY <4>1 DEF Worker
      <4> HIDE DEF w0
      <4>3. QED
        BY Zenon, <4>2 DEF Worker
    <3> HIDE DEF w1
    <3>4. w2 \in Worker
      BY Zenon, <3>2, <3>3 DEF Worker
    <3> HIDE DEF w2
    <3>5. QED
      BY Zenon, <3>1, <3>4 DEF Worker
  <2>5. up' \in [Keys -> Upload]
    <3>1. ASSUME NEW k \in Keys PROVE up'[k] \in Upload
      BY ZenonT(30), <2>1, NullTypes DEF SelectRound, StateTypes, Item, Upload
    <3>2. QED
      BY ZenonT(30), <2>1, <3>1 DEF SelectRound
  <2>6. QED
    BY ZenonT(30), <2>1, <2>4, <2>5 DEF SelectRound, StateTypes, WriterOK, files, hist
<1>11. CASE \E batch \in BOOLEAN : DeleteBegin(batch)
  <2>1. PICK batch \in BOOLEAN : DeleteBegin(batch)
    BY ZenonT(30), <1>11
  <2>2. wk' \in Worker
    <3> DEFINE w1 == [wk EXCEPT !.pc = "deleting"]
    <3>1. w1 \in Worker
      BY Zenon DEF StateTypes, Worker
    <3>2. wk' = [w1 EXCEPT !.batch = batch]
      BY ZenonT(30), <2>1 DEF DeleteBegin, StateTypes, Worker
    <3> HIDE DEF w1
    <3>3. QED
      BY ZenonT(30), <3>1, <3>2 DEF Worker
  <2>3. up' \in [Keys -> Upload]
    <3>1. \A k \in Keys, st \in {"send", "ready"} : [up[k] EXCEPT !.stage = st] \in Upload
      BY ZenonT(30) DEF StateTypes, Upload
    <3>2. ASSUME NEW k \in Keys PROVE up'[k] \in Upload
      BY Zenon, <2>1, <3>1, NullTypes DEF DeleteBegin
    <3>3. QED
      BY ZenonT(30), <2>1, <3>2 DEF DeleteBegin
  <2>4. QED
    BY Zenon, <2>1, <2>2, <2>3 DEF DeleteBegin, StateTypes, WriterOK, files, hist
<1>12. QED
  BY ZenonT(30), <1>1, <1>2, <1>3, <1>4, <1>5, <1>6, <1>7, <1>8, <1>9, <1>10, <1>11 DEF Drain

\* So does a step of the worker outside the drain.
LEMMA CycleTypes == ASSUME StateTypes, WriterOK, Cycle PROVE StateTypes' /\ WriterOK'
<1>1. CASE WorkerWake
  BY Zenon, <1>1, NullTypes DEF WorkerWake, StateTypes, WriterOK, files, marks, worker, volatile,
     hist, Worker
<1>2. CASE WorkerRecovered
  BY Zenon, <1>2, NullTypes DEF WorkerRecovered, StateTypes, WriterOK, files, marks, worker,
     volatile, hist, Worker
<1>3. CASE WorkerNotDue
  BY Zenon, <1>3, NullTypes DEF WorkerNotDue, StateTypes, WriterOK, files, marks, worker,
     volatile, hist, Worker
<1>4. CASE FlushCheck
  BY Zenon, <1>4, NullTypes DEF FlushCheck, StateTypes, WriterOK, files, marks, worker, volatile,
     hist, Worker
<1>5. CASE RemoveFlushRequest
  BY Zenon, <1>5, NullTypes DEF RemoveFlushRequest, StateTypes, WriterOK, files, marks, worker,
     volatile, hist, Worker
<1>6. CASE GcCollect
  BY Zenon, <1>6, NullTypes DEF GcCollect, StateTypes, WriterOK, files, marks, worker, volatile,
     hist, Worker, Tomb
<1>7. CASE GcEnd
  BY ZenonT(30), <1>7, NullTypes DEF GcEnd, StateTypes, WriterOK, files, marks, worker, volatile,
     hist
<1>8. CASE \E k \in Keys : GcBegin(k)
  <2>1. PICK k \in Keys : GcBegin(k)
    BY ZenonT(30), <1>8
  <2>2. [NoWriter EXCEPT !.pc = "g_store", !.key = k] \in Writer
    BY Zenon, NullTypes DEF Writer, GcPcs
  <2>3. cs' \in Writer /\ WriterOK'
    BY Zenon, <2>1, <2>2, NullTypes DEF GcBegin, StateTypes, WriterOK, Writer, PutPcs
  <2>4. gcq' \in [Keys -> Nat]
    BY ZenonT(30), <2>1 DEF GcBegin, StateTypes
  <2>5. QED
    BY ZenonT(30), <2>1, <2>3, <2>4 DEF GcBegin, StateTypes, files, hist
<1>9. QED
  BY ZenonT(30), <1>1, <1>2, <1>3, <1>4, <1>5, <1>6, <1>7, <1>8 DEF Cycle

\* So do a backend call and the passing of time.
LEMMA BackendTypes == ASSUME StateTypes, WriterOK, Backend \/ Time PROVE StateTypes' /\ WriterOK'
<1>1. CASE \E k \in Keys : UploadSend(k)
  <2>1. PICK k \in Keys : UploadSend(k)
    BY ZenonT(30), <1>1
  <2>2. up' \in [Keys -> Upload] /\ up[k].gen \in Nat /\ up[k].val \in Content
    BY Zenon, <2>1 DEF UploadSend, StateTypes, Upload
  <2>3. backend' \in [Keys -> Content] /\ pub' \in [Keys -> Nat]
    BY ZenonT(30), <2>1, <2>2 DEF UploadSend, ApplyToBackend, StateTypes, Content
  <2>4. QED
    BY ZenonT(30), <2>1, <2>2, <2>3 DEF UploadSend, StateTypes, WriterOK, files
<1>2. CASE \E k \in Keys : UploadError(k)
  <2>1. PICK k \in Keys : UploadError(k)
    BY ZenonT(30), <1>2
  <2>2. up' \in [Keys -> Upload] /\ up[k].gen \in Nat /\ up[k].val \in Content
    BY Zenon, <2>1 DEF UploadError, StateTypes, Upload
  <2>3. backend' \in [Keys -> Content] /\ pub' \in [Keys -> Nat]
    BY Zenon, <2>1, <2>2 DEF UploadError, ApplyToBackend, StateTypes, Content
  <2>4. QED
    BY ZenonT(30), <2>1, <2>2, <2>3 DEF UploadError, StateTypes, WriterOK, files
<1>3. CASE \E k \in Keys : RetryElapses(k)
  <2>1. queue' \in [Keys -> Item]
    <3>1. ASSUME NEW k \in Keys PROVE [queue[k] EXCEPT !.retry = FALSE] \in Item
      <4>1. queue[k] \in Item
        BY ZenonT(30) DEF StateTypes
      <4>2. QED
        BY Zenon, <4>1 DEF Item
    <3>2. QED
      BY ZenonT(30), <1>3, <3>1 DEF RetryElapses, StateTypes
  <2>2. QED
    BY ZenonT(30), <1>3, <2>1 DEF RetryElapses, StateTypes, WriterOK, volatile, worker, marks, hist
<1>4. CASE \E k \in Keys : TombExpires(k)
  <2>1. tomb' \in [Keys -> Tomb]
    <3>1. \A k \in Keys : [tomb[k] EXCEPT !.due = TRUE] \in Tomb
      BY Zenon DEF StateTypes, Tomb
    <3>2. QED
      BY ZenonT(30), <1>4, <3>1 DEF TombExpires, StateTypes
  <2>2. QED
    BY ZenonT(30), <1>4, <2>1 DEF TombExpires, StateTypes, WriterOK, volatile, worker, marks, hist
<1>5. QED
  BY ZenonT(30), <1>1, <1>2, <1>3, <1>4 DEF Backend, Time

\* So do a reader and a fault.
LEMMA GetTypes == ASSUME StateTypes, WriterOK, Get \/ Crash \/ WriteFails \/ (\E k \in Keys : RetryMarkFails(k)) PROVE StateTypes' /\ WriterOK'
<1>1. CASE \E k \in Readable : BeginGet(k)
  BY SMTT(20), <1>1, ConstantsAssumption DEF BeginGet, StateTypes, WriterOK, files, marks,
     worker, volatile, hist, Reader, Content
<1>2. CASE GetReadQueue
  <2>1. rd.pc # "idle" /\ rd.key \in Keys
    BY Zenon, <1>2, ReaderStep DEF GetReadQueue, StateTypes
  <2>2. rd' \in Reader
    BY Zenon, <1>2, <2>1, ReaderStep DEF GetReadQueue, Answer, StateTypes, Content
  <2>3. QED
    BY Zenon, <1>2, <2>1, <2>2, ReaderStep DEF GetReadQueue, StateTypes, WriterOK, files, marks,
       worker, hist
<1>3. CASE GetReadTomb
  <2>1. rd.pc # "idle" /\ rd.key \in Keys
    BY Zenon, <1>3, ReaderStep DEF GetReadTomb, StateTypes
  <2>2. rd' \in Reader
    BY Zenon, <1>3, <2>1, ReaderStep DEF GetReadTomb, Answer, StateTypes, Content
  <2>3. QED
    BY Zenon, <1>3, <2>1, <2>2, ReaderStep DEF GetReadTomb, StateTypes, WriterOK, files, marks,
       worker, hist
<1>4. CASE GetReadStore
  <2>1. rd.pc # "idle" /\ rd.key \in Keys
    BY Zenon, <1>4, ReaderStep DEF GetReadStore, StateTypes
  <2>2. rd' \in Reader
    BY Zenon, <1>4, <2>1, ReaderStep DEF GetReadStore, Answer, StateTypes, Content
  <2>3. QED
    BY Zenon, <1>4, <2>1, <2>2, ReaderStep DEF GetReadStore, StateTypes, WriterOK, files, marks,
       worker, hist
<1>5. CASE GetReadBackend
  <2>1. rd.pc # "idle" /\ rd.key \in Keys
    BY Zenon, <1>5, ReaderStep DEF GetReadBackend, StateTypes
  <2>2. rd' \in Reader
    BY Zenon, <1>5, <2>1, ReaderStep DEF GetReadBackend, Answer, StateTypes, Content
  <2>3. QED
    BY Zenon, <1>5, <2>1, <2>2, ReaderStep DEF GetReadBackend, StateTypes, WriterOK, files,
       marks, worker, hist
<1>6. CASE GetHydrate
  <2>1. rd.pc # "idle" /\ rd.key \in Keys
    BY Zenon, <1>6, ReaderStep DEF GetHydrate, StateTypes
  <2>2. rd' \in Reader
    BY Zenon, <1>6, <2>1, ReaderStep DEF GetHydrate, Answer, StateTypes, Content
  <2>3. QED
    BY Zenon, <1>6, <2>1, <2>2, ReaderStep DEF GetHydrate, StateTypes, WriterOK, files, marks,
       worker, hist
<1>7. CASE Crash
  <2>1. /\ snap' \in [Keys -> Item] /\ up' \in [Keys -> Upload] /\ gcq' \in [Keys -> Nat]
        /\ cs' \in Writer /\ wk' \in Worker /\ rd' \in Reader /\ faults' \in Nat
    BY <1>7, NullTypes DEF Crash, StateTypes
  <2>2. QED
    BY ZenonT(30), <1>7, <2>1, NullTypes DEF Crash, StateTypes, WriterOK, PutPcs, files
<1>8. CASE WriteFails
  <2>1. Abandon /\ cs' = NoWriter /\ faults' \in Nat
    BY <1>8 DEF WriteFails, Abandon, StateTypes
  <2>2. QED
    BY ZenonT(30), <1>8, <2>1, AbandonTypes, NullTypes DEF WriteFails, StateTypes, WriterOK,
       PutPcs, files
<1>9. CASE \E k \in Keys : RetryMarkFails(k)
  <2>1. PICK k \in Keys : RetryMarkFails(k)
    BY ZenonT(30), <1>9
  <2>2. wk' \in Worker /\ up' \in [Keys -> Upload] /\ faults' \in Nat
    BY <2>1, NullTypes DEF RetryMarkFails, StateTypes
  <2>3. QED
    BY ZenonT(30), <2>1, <2>2 DEF RetryMarkFails, StateTypes, WriterOK, files
<1>10. QED
  BY ZenonT(30), <1>1, <1>2, <1>3, <1>4, <1>5, <1>6, <1>7, <1>8, <1>9 DEF Get

\* The history variables seen and stale keep their types as well.
LEMMA TypeStep ==
    ASSUME Counted, TypeOK, WriterOK, [Next]_vars
    PROVE  TypeOK' /\ WriterOK'
<1>1. StateTypes /\ seen \subseteq Content /\ stale \subseteq Keys
  BY ZenonT(30) DEF TypeOK, StateTypes
<1>2. CASE Next
  <2>1. Step /\ Observe /\ Mark
    BY ZenonT(30), <1>2 DEF Next
  <2>2. StateTypes' /\ WriterOK'
    BY ZenonT(30), <1>1, <2>1, RpcTypes, LockedTypes, StartupTypes, DrainTypes, CycleTypes,
       BackendTypes, GetTypes DEF Step
  <2>3. \A k \in Keys : Visible(k)' \in Content /\ intent[k]' \in Content
    BY ZenonT(30), <2>2 DEF StateTypes, Visible, Content
  <2>4. seen' \subseteq Content
    BY ZenonT(30), <1>1, <2>1, <2>3 DEF Observe
  <2>5. stale' \subseteq Keys
    BY ZenonT(30), <2>1 DEF Mark
  <2>6. QED
    BY ZenonT(30), <2>2, <2>4, <2>5 DEF StateTypes, TypeOK
<1>3. CASE UNCHANGED vars
  BY ZenonT(30), <1>3 DEF vars, files, volatile, worker, hist, TypeOK, WriterOK
<1>4. QED
  BY ZenonT(30), <1>2, <1>3

\* The types hold in the beginning.
LEMMA TypeInit == Init => TypeOK /\ WriterOK
<1> SUFFICES ASSUME Init PROVE TypeOK /\ WriterOK
  BY ZenonT(30)
<1>1. store \in [Keys -> Content] /\ backend \in [Keys -> Content]
  BY ZenonT(30), ConstantsAssumption DEF Init, Content
<1>2. WriterOK
  BY ZenonT(30), NullTypes DEF Init, WriterOK, PutPcs
<1>3. intent \in [Keys -> Content] /\ receipt \in [Keys -> Content]
  BY ZenonT(30) DEF Init, Content
<1>4. /\ queue \in [Keys -> Item] /\ snap \in [Keys -> Item] /\ tomb \in [Keys -> Tomb]
      /\ gcq \in [Keys -> Nat] /\ up \in [Keys -> Upload] /\ pub \in [Keys -> Nat]
  BY ZenonT(30), NullTypes DEF Init
<1>5. enq \in Seq([key : Keys, op : {"Put", "Delete"}]) /\ seen \subseteq Content
      /\ stale \subseteq Keys
  BY DEF Init
<1>6. cs \in Writer /\ wk \in Worker /\ rd \in Reader
  BY ZenonT(30), NullTypes DEF Init
<1>7. flush \in BOOLEAN /\ migrated \in BOOLEAN /\ faults \in Nat
  BY Zenon DEF Init
<1>8. QED
  BY ZenonT(30), <1>1, <1>2, <1>3, <1>4, <1>5, <1>6, <1>7 DEF TypeOK

-----------------------------------------------------------------------------
(* Receipts and uploads *)

\* A step that leaves the queue, the backend, the receipts and the worker's
\* copies alone, and neither starts a completion nor moves the worker during
\* one, keeps ReceiptInv.
LEMMA ReceiptFrame ==
    ASSUME ReceiptInv, UNCHANGED <<queue, backend, receipt, snap, up, enq>>,
           cs'.pc \notin CompletePcs \/ (cs' = cs /\ wk'.pc = wk.pc)
    PROVE  ReceiptInv'
<1>1. \A k \in Keys : KeyInv(k)'
  BY SMTT(20) DEF ReceiptInv, KeyInv, ItemInv, StageInv, HeldInv, Agrees, Queued, SameGeneration,
     Holds
<1>2. CompletionInv'
  BY ZenonT(30) DEF ReceiptInv, CompletionInv, Queued, SameGeneration
<1>3. QED
  BY ZenonT(30), <1>1, <1>2 DEF ReceiptInv

\* The order of the natural numbers.
LEMMA LeTrans == \A g, m, n \in Nat : g <= m /\ m <= n => g <= n
OBVIOUS

\* A step that keeps the item of k, its object and its receipt, and keeps or
\* forgets the worker's copies of it, keeps the invariant of k.
LEMMA KeyStep ==
    ASSUME StateTypes, NEW k \in Keys, KeyInv(k),
           queue'[k].op = queue[k].op, queue'[k].val = queue[k].val,
           queue'[k].gen = queue[k].gen,
           backend'[k] = backend[k], receipt'[k] = receipt[k],
           snap'[k] = snap[k] \/ snap'[k] = NoItem,
           up'[k] = up[k] \/ up'[k] = NoUpload,
           Len(enq') \in Nat, Len(enq) <= Len(enq')
    PROVE  KeyInv(k)'
<1>1. /\ NoItem.gen = 0 /\ NoItem.op = "none"
      /\ NoUpload.gen = 0 /\ NoUpload.op = "none" /\ NoUpload.stage = "none"
  BY ZenonT(30) DEF NoItem, NoUpload
<1>2. /\ Len(enq) \in Nat /\ queue[k].gen \in Nat /\ snap[k].gen \in Nat /\ up[k].gen \in Nat
  BY DEF StateTypes, Item, Upload
<1>a. \A g \in Nat : g <= Len(enq) => g <= Len(enq')
  BY Zenon, <1>2, LeTrans
<1>b. 0 <= Len(enq')
  BY SMTT(20)
<1>3. ItemInv(k)'
  BY Zenon, <1>2, <1>a DEF KeyInv, ItemInv
<1>4. Queued(k)' = Queued(k)
  BY ZenonT(30) DEF Queued
<1>5. Agrees(k, snap[k])'
  <2>1. CASE snap'[k] = snap[k]
    BY Zenon, <2>1, <1>2, <1>4, <1>a DEF KeyInv, Agrees
  <2>2. CASE snap'[k] = NoItem
    BY Zenon, <2>2, <1>1, <1>b DEF Agrees
  <2>3. QED
    BY ZenonT(30), <2>1, <2>2
<1>6. Agrees(k, up[k])'
  <2>1. CASE up'[k] = up[k]
    BY Zenon, <2>1, <1>2, <1>4, <1>a DEF KeyInv, Agrees
  <2>2. CASE up'[k] = NoUpload
    BY Zenon, <2>2, <1>1, <1>b DEF Agrees
  <2>3. QED
    BY ZenonT(30), <2>1, <2>2
<1>7. StageInv(k)'
  BY ZenonT(30), <1>1, <1>4 DEF KeyInv, StageInv
<1>8. HeldInv(k)'
  <2>1. CASE up'[k] = up[k]
    BY ZenonT(30), <2>1, <1>4 DEF KeyInv, HeldInv, SameGeneration, Holds
  <2>2. CASE up'[k] = NoUpload
    BY ZenonT(30), <2>2, <1>1, <1>4 DEF KeyInv, HeldInv, Holds
  <2>3. QED
    BY ZenonT(30), <2>1, <2>2
<1>9. QED
  BY ZenonT(30), <1>3, <1>5, <1>6, <1>7, <1>8 DEF KeyInv

\* A key none of whose files, copies and stages changes keeps its invariant.
LEMMA KeySame ==
    ASSUME StateTypes, NEW k \in Keys, KeyInv(k), queue'[k] = queue[k], backend'[k] = backend[k],
           receipt'[k] = receipt[k], snap'[k] = snap[k], up'[k] = up[k], enq' = enq
    PROVE  KeyInv(k)'
<1>1. Len(enq) \in Nat /\ Len(enq') \in Nat /\ Len(enq) <= Len(enq')
  BY SMTT(20) DEF StateTypes
<1>2. queue'[k].op = queue[k].op /\ queue'[k].val = queue[k].val /\ queue'[k].gen = queue[k].gen
  BY ZenonT(30)
<1>3. QED
  BY ZenonT(30), <1>1, <1>2, KeyStep

\* Forgetting uploads keeps the invariant of a key.
LEMMA ForgetUpload ==
    ASSUME StateTypes, NEW k \in Keys, KeyInv(k), UNCHANGED <<queue, backend, receipt, snap, enq>>,
           up'[k] = NoUpload
    PROVE  KeyInv(k)'
<1>1. Len(enq) \in Nat
  BY DEF StateTypes
<1>2. QED
  BY <1>1, KeyStep

\* A queue write keeps it: the new item has a generation no copy can have.
LEMMA ReceiptEnqueue ==
    ASSUME StateTypes, ReceiptInv, NEW key \in Keys, NEW op \in {"Put", "Delete"}, NEW v,
           op = "Delete" => v = None, WriteQueueItem(key, op, v),
           UNCHANGED <<backend, receipt, snap, up>>, cs'.pc \notin CompletePcs
    PROVE  ReceiptInv'
<1>1. CASE queue[key].op = op /\ queue[key].val = v
  BY ZenonT(30), <1>1, ReceiptFrame DEF WriteQueueItem
<1>2. CASE ~(queue[key].op = op /\ queue[key].val = v)
  <2> DEFINE item == [op |-> op, val |-> v, gen |-> Len(enq) + 1, retry |-> FALSE]
  <2>1. queue' = [queue EXCEPT ![key] = item]
    BY ZenonT(30), <1>2 DEF WriteQueueItem
  <2>2. Len(enq) \in Nat /\ Len(enq') = Len(enq) + 1
    BY <1>2 DEF WriteQueueItem, StateTypes
  <2>3. ASSUME NEW k \in Keys, k # key PROVE KeyInv(k)'
    <3>1. KeyInv(k) /\ queue'[k] = queue[k]
      BY ZenonT(30), <2>1, <2>3 DEF ReceiptInv, StateTypes
    <3>2. QED
      BY <3>1, <2>2, KeyStep
  <2>4. KeyInv(key)'
    <3>1. KeyInv(key) /\ queue'[key] = item
      BY ZenonT(30), <2>1 DEF ReceiptInv, StateTypes
    <3>2. snap[key].gen \in Nat /\ up[key].gen \in Nat
      BY ZenonT(30) DEF StateTypes, Item, Upload
    <3>3. item.op = op /\ item.val = v /\ item.gen = Len(enq) + 1
      BY ZenonT(30)
    <3> HIDE DEF item
    <3>4. Queued(key)' /\ ~SameGeneration(key)'
      BY <3>1, <3>2, <3>3, <2>2 DEF KeyInv, Agrees, Queued, SameGeneration
    <3>5. ItemInv(key)'
      BY <3>1, <3>3, <2>2 DEF ItemInv
    <3>6. Agrees(key, snap[key])' /\ Agrees(key, up[key])'
      <4>1. PICK m \in Nat : m = Len(enq) /\ item.gen = m + 1 /\ Len(enq') = m + 1
        BY ZenonT(30), <2>2, <3>3
      <4>2. \A g \in Nat : g <= m => g <= m + 1 /\ g # m + 1
        OBVIOUS
      <4>3. QED
        BY Zenon, <3>1, <3>2, <4>1, <4>2 DEF KeyInv, Agrees
    <3>7. StageInv(key)' /\ HeldInv(key)'
      BY ZenonT(30), <3>1, <3>4 DEF KeyInv, StageInv, HeldInv
    <3>8. QED
      BY ZenonT(30), <3>5, <3>6, <3>7 DEF KeyInv
  <2>5. QED
    BY ZenonT(30), <2>3, <2>4 DEF ReceiptInv, CompletionInv
<1>3. QED
  BY ZenonT(30), <1>1, <1>2

\* Giving up a writer keeps it.
LEMMA ReceiptAbandon ==
    ASSUME StateTypes, WriterOK, ReceiptInv, Abandon,
           UNCHANGED <<queue, backend, receipt, snap, enq>>
    PROVE  ReceiptInv'
<1>1. cs'.pc \notin CompletePcs
  BY ZenonT(30), NullTypes DEF Abandon, CompletePcs
<1>2. ASSUME NEW k \in Keys PROVE KeyInv(k)'
  <2>1. KeyInv(k)
    BY ZenonT(30) DEF ReceiptInv
  <2>2. CASE up'[k] = up[k]
    BY ZenonT(30), <2>1, <2>2 DEF KeyInv, ItemInv, StageInv, HeldInv, Agrees, Queued,
       SameGeneration, Holds
  <2>3. CASE up'[k] = NoUpload
    BY ZenonT(30), <2>1, <2>3, ForgetUpload
  <2>4. CASE up'[k] = [up[k] EXCEPT !.stage = "failed"] /\ up[k].stage \in {"sent", "skip"}
    <3>1. up[k] \in Upload
      BY ZenonT(30) DEF StateTypes
    <3>2. /\ up'[k].stage = "failed" /\ up'[k].op = up[k].op /\ up'[k].val = up[k].val
          /\ up'[k].gen = up[k].gen
      BY ZenonT(30), <2>4, <3>1 DEF Upload
    <3>3. QED
      BY ZenonT(30), <2>1, <2>4, <3>2 DEF KeyInv, ItemInv, StageInv, HeldInv, Agrees, Queued,
         SameGeneration, Holds
  <2>5. QED
    <3>1. CASE EndsCycle \/ cs.pc \notin CompletePcs
      BY ZenonT(30), <3>1, <2>2, <2>3 DEF Abandon
    <3>2. CASE ~EndsCycle /\ cs.pc \in CompletePcs
      BY Zenon, <3>2, <2>2, <2>4 DEF Abandon, ReceiptInv, CompletionInv, StateTypes
    <3>3. QED
      BY ZenonT(30), <3>1, <3>2
<1>3. QED
  BY ZenonT(30), <1>1, <1>2 DEF ReceiptInv, CompletionInv

\* No step of the code breaks ReceiptInv.
LEMMA ReceiptStep ==
    ASSUME StateTypes, WriterOK, ReceiptInv, [Next]_vars
    PROVE  ReceiptInv'
<1> USE DEF files, marks, worker, volatile, hist
<1>1. CASE \E items \in Batches : BeginPut(items)
  BY ZenonT(30), <1>1, ReceiptFrame DEF BeginPut, StateTypes, Writer, NoWriter, CompletePcs
<1>2. CASE PutStore
  BY ZenonT(30), <1>2, ReceiptFrame DEF PutStore, StateTypes, Writer, NoWriter, CompletePcs
<1>3. CASE PutCancelGc
  BY ZenonT(30), <1>3, ReceiptFrame DEF PutCancelGc, StateTypes, Writer, NoWriter, CompletePcs
<1>4. CASE PutRemoveIntent
  BY ZenonT(30), <1>4, ReceiptFrame DEF PutRemoveIntent, StateTypes, Writer, NoWriter, CompletePcs
<1>5. CASE AckPut
  BY ZenonT(30), <1>5, ReceiptFrame DEF AckPut, StateTypes, Writer, NoWriter, CompletePcs
<1>6. CASE \E k \in Keys : BeginDelete(k)
  BY ZenonT(30), <1>6, ReceiptFrame DEF BeginDelete, StateTypes, Writer, NoWriter, CompletePcs
<1>7. CASE RecoverStore
  BY ZenonT(30), <1>7, ReceiptFrame DEF RecoverStore, StateTypes, Writer, NoWriter, CompletePcs
<1>8. CASE RecoverCancelGc
  BY ZenonT(30), <1>8, ReceiptFrame DEF RecoverCancelGc, StateTypes, Writer, NoWriter, CompletePcs
<1>9. CASE RecoverRemoveIntent
  BY ZenonT(30), <1>9, ReceiptFrame DEF RecoverRemoveIntent, StateTypes, Writer, NoWriter,
     CompletePcs
<1>10. CASE \E k \in Keys : WorkerRecover(k)
  BY ZenonT(30), <1>10, ReceiptFrame DEF WorkerRecover, StateTypes, Writer, NoWriter, CompletePcs
<1>11. CASE GcDeleteStore
  BY ZenonT(30), <1>11, ReceiptFrame DEF GcDeleteStore, StateTypes, Writer, NoWriter, CompletePcs
<1>12. CASE GcRemoveTomb
  BY ZenonT(30), <1>12, ReceiptFrame DEF GcRemoveTomb, StateTypes, Writer, NoWriter, CompletePcs
<1>13. CASE PutItem \/ \E k \in Keys : GcBegin(k)
  <2>1. cs'.pc \notin CompletePcs
    <3>1. CASE PutItem
      BY Zenon, <1>13, <3>1, NullTypes DEF PutItem, StateTypes, Writer, CompletePcs
    <3>2. CASE \E k \in Keys : GcBegin(k)
      BY Zenon, <1>13, <3>2, NullTypes DEF GcBegin, LockFree, Writer, CompletePcs
    <3>3. QED
      BY ZenonT(30), <1>13, <3>1, <3>2
  <2>2. QED
    BY Zenon, <1>13, <2>1, ReceiptFrame DEF PutItem, GcBegin
<1>14. CASE WorkerWake
  BY ZenonT(30), <1>14, ReceiptFrame DEF WorkerWake, ReceiptInv, CompletionInv, LockFree,
     CompletePcs
<1>15. CASE WorkerRecovered
  BY ZenonT(30), <1>15, ReceiptFrame DEF WorkerRecovered, ReceiptInv, CompletionInv, LockFree,
     CompletePcs
<1>16. CASE WorkerNotDue
  BY ZenonT(30), <1>16, ReceiptFrame DEF WorkerNotDue, ReceiptInv, CompletionInv, LockFree,
     CompletePcs
<1>17. CASE WorkerDue
  BY ZenonT(30), <1>17, ReceiptFrame DEF WorkerDue, ReceiptInv, CompletionInv, LockFree, CompletePcs
<1>18. CASE NothingSelected
  BY ZenonT(30), <1>18, ReceiptFrame DEF NothingSelected, ReceiptInv, CompletionInv, LockFree,
     CompletePcs
<1>19. CASE FlushCheck
  BY ZenonT(30), <1>19, ReceiptFrame DEF FlushCheck, ReceiptInv, CompletionInv, LockFree,
     CompletePcs
<1>20. CASE RemoveFlushRequest
  BY ZenonT(30), <1>20, ReceiptFrame DEF RemoveFlushRequest, ReceiptInv, CompletionInv, LockFree,
     CompletePcs
<1>21. CASE GcCollect
  BY ZenonT(30), <1>21, ReceiptFrame DEF GcCollect, ReceiptInv, CompletionInv, LockFree, CompletePcs
<1>22. CASE GcEnd
  BY ZenonT(30), <1>22, ReceiptFrame DEF GcEnd, ReceiptInv, CompletionInv, LockFree, CompletePcs
<1>23. CASE Serve
  BY ZenonT(30), <1>23, ReceiptFrame DEF Serve, ReceiptInv, CompletionInv, LockFree, CompletePcs
<1>24. CASE RequestFlush
  BY ZenonT(30), <1>24, ReceiptFrame DEF RequestFlush
<1>25. CASE \E k \in Keys : TombExpires(k)
  BY ZenonT(30), <1>25, ReceiptFrame DEF TombExpires
<1>26. CASE \E k \in Readable : BeginGet(k)
  BY ZenonT(30), <1>26, ReceiptFrame DEF BeginGet
<1>27. CASE GetReadQueue
  BY ZenonT(30), <1>27, ReceiptFrame DEF GetReadQueue
<1>28. CASE GetReadTomb
  BY ZenonT(30), <1>28, ReceiptFrame DEF GetReadTomb
<1>29. CASE GetReadStore
  BY ZenonT(30), <1>29, ReceiptFrame DEF GetReadStore
<1>30. CASE GetReadBackend
  BY ZenonT(30), <1>30, ReceiptFrame DEF GetReadBackend
<1>31. CASE GetHydrate
  BY ZenonT(30), <1>31, ReceiptFrame DEF GetHydrate
<1>32. CASE PutEnqueue
  <2>1. cs.key \in Keys /\ cs'.pc \notin CompletePcs
    BY ZenonT(30), <1>32, NullTypes DEF PutEnqueue, StateTypes, WriterOK, Writer, CompletePcs
  <2>2. QED
    BY ZenonT(30), <1>32, <2>1, ReceiptEnqueue DEF PutEnqueue
<1>33. CASE RecoverEnqueue
  <2>1. cs.key \in Keys /\ cs'.pc \notin CompletePcs
    BY ZenonT(30), <1>33, NullTypes DEF RecoverEnqueue, StateTypes, WriterOK, Writer, CompletePcs
  <2>2. QED
    BY ZenonT(30), <1>33, <2>1, ReceiptEnqueue DEF RecoverEnqueue
<1>34. CASE DeleteEnqueue
  <2>1. cs.key \in Keys /\ cs'.pc \notin CompletePcs
    BY ZenonT(30), <1>34, NullTypes DEF DeleteEnqueue, StateTypes, WriterOK, Writer, CompletePcs
  <2>2. QED
    BY ZenonT(30), <1>34, <2>1, ReceiptEnqueue DEF DeleteEnqueue
<1>35. CASE \E k \in Keys : Reconcile(k)
  BY ZenonT(30), <1>35, ReceiptEnqueue DEF Reconcile, LockFree, CompletePcs
<1>36. CASE RecoverRefuse \/ WriteFails
  BY ZenonT(30), <1>36, ReceiptAbandon DEF RecoverRefuse, WriteFails
<1>37. CASE ListQueue \/ \E k \in Keys : ReadQueueItem(k)
  <2>1. cs'.pc \notin CompletePcs
    BY ZenonT(30), <1>37 DEF ListQueue, ReadQueueItem, ReceiptInv, CompletionInv
  <2>2. ASSUME NEW k \in Keys PROVE KeyInv(k)'
    <3>1. KeyInv(k) /\ Len(enq) \in Nat
      BY DEF ReceiptInv, StateTypes
    <3>2. snap'[k] = snap[k] \/ snap'[k] = NoItem \/ snap'[k] = queue[k]
      BY ZenonT(30), <1>37 DEF ListQueue, ReadQueueItem, StateTypes
    <3>3. NoItem.gen = 0 /\ NoItem.op = "none"
      BY ZenonT(30) DEF NoItem
    <3>4. QED
      BY <1>37, <3>1, <3>2, <3>3
      DEF ListQueue, ReadQueueItem, KeyInv, ItemInv, StageInv, HeldInv, Agrees, Queued, SameGeneration, Holds
  <2>3. QED
    BY ZenonT(30), <2>1, <2>2 DEF ReceiptInv, CompletionInv
<1>38. CASE \E s \in SUBSET Keys, hosts \in SUBSET Hosts : SelectRound(s, hosts)
  <2>1. PICK s \in SUBSET Keys, hosts \in SUBSET Hosts : SelectRound(s, hosts)
    BY ZenonT(30), <1>38
  <2>2. cs'.pc \notin CompletePcs
    BY ZenonT(30), <2>1 DEF SelectRound, ReceiptInv, CompletionInv
  <2>3. ASSUME NEW k \in Keys PROVE KeyInv(k)'
    <3>1. KeyInv(k) /\ UNCHANGED <<queue, backend, receipt, snap, enq>>
      BY ZenonT(30), <2>1 DEF SelectRound, ReceiptInv
    <3>2. CASE k \notin s
      BY ZenonT(30), <2>1, <3>1, <3>2, ForgetUpload DEF SelectRound
    <3>3. CASE k \in s
      <4>1. snap[k].op # "none"
        BY ZenonT(30), <2>1, <3>3 DEF SelectRound, Selections, Eligible
      <4>2. /\ up'[k].op = snap[k].op /\ up'[k].val = snap[k].val /\ up'[k].gen = snap[k].gen
            /\ up'[k].stage \in {"wait", "skip", "ready"}
            /\ up'[k].stage = "skip" => snap[k].op # "Delete" /\ AlreadyThere(k, hosts)
        BY ZenonT(30), <2>1, <3>3 DEF SelectRound
      <4>3. snap[k].op \in {"none", "Put", "Delete"}
        BY ZenonT(30) DEF StateTypes, Item
      <4>4. QED
        BY ZenonT(30), <3>1, <4>1, <4>2, <4>3
        DEF AlreadyThere, KeyInv, ItemInv, StageInv, HeldInv, Agrees, Queued, SameGeneration, Holds
    <3>4. QED
      BY ZenonT(30), <3>2, <3>3
  <2>4. QED
    BY ZenonT(30), <2>2, <2>3 DEF ReceiptInv, CompletionInv
<1>39. CASE \E k \in Keys : UploadCheck(k)
  <2>1. PICK key \in Keys : UploadCheck(key)
    BY ZenonT(30), <1>39
  <2>2. cs'.pc \notin CompletePcs
    BY ZenonT(30), <2>1 DEF UploadCheck, LockFree, CompletePcs
  <2>3. ASSUME NEW k \in Keys PROVE KeyInv(k)'
    <3>1. KeyInv(k) /\ UNCHANGED <<queue, backend, receipt, snap, enq>> /\ up[k] \in Upload
      BY ZenonT(30), <2>1 DEF UploadCheck, ReceiptInv, StateTypes
    <3>2. CASE up'[k] = up[k]
      BY ZenonT(30), <3>1, <3>2 DEF KeyInv, ItemInv, StageInv, HeldInv, Agrees, Queued,
         SameGeneration, Holds
    <3>3. CASE up'[k] = NoUpload
      BY ZenonT(30), <3>1, <3>3, ForgetUpload
    <3>4. CASE /\ up'[k] = [up[k] EXCEPT !.stage = "failed"] \/ up'[k] = [up[k] EXCEPT !.stage = "send"]
               /\ Queued(k) /\ up[k].stage = "ready"
      <4>1. /\ up'[k].stage \in {"failed", "send"} /\ up'[k].op = up[k].op
            /\ up'[k].val = up[k].val /\ up'[k].gen = up[k].gen
        BY ZenonT(30), <3>1, <3>4 DEF Upload
      <4>2. QED
        BY ZenonT(30), <3>1, <3>4, <4>1 DEF KeyInv, ItemInv, StageInv, HeldInv, Agrees, Queued,
           SameGeneration, Holds
    <3>5. QED
      BY Zenon, <2>1, <3>2, <3>3, <3>4 DEF UploadCheck, StateTypes, SameGeneration
  <2>4. QED
    BY ZenonT(30), <2>2, <2>3 DEF ReceiptInv, CompletionInv
<1>40. CASE \E k \in Keys : UploadSend(k)
  <2>1. PICK key \in Keys : UploadSend(key)
    BY ZenonT(30), <1>40
  <2>2. /\ UNCHANGED <<queue, receipt, snap, enq, cs, wk>> /\ up[key].stage = "send"
        /\ \A k \in Keys \ {key} : up'[k] = up[k] /\ backend'[k] = backend[k]
    BY ZenonT(30), <2>1 DEF UploadSend, ApplyToBackend, StateTypes
  <2>3. /\ up'[key].stage = "sent" /\ up'[key].op = up[key].op /\ up'[key].val = up[key].val
        /\ up'[key].gen = up[key].gen
    <3>1. up[key] \in Upload /\ up'[key] = [up[key] EXCEPT !.stage = "sent"]
      BY ZenonT(30), <2>1 DEF UploadSend, StateTypes
    <3>2. QED
      BY ZenonT(30), <3>1 DEF Upload
  <2>4. ASSUME NEW k \in Keys, k # key PROVE KeyInv(k)'
    <3>1. KeyInv(k) /\ Len(enq) \in Nat
      BY DEF ReceiptInv, StateTypes
    <3>2. up'[k] = up[k] /\ backend'[k] = backend[k]
      BY ZenonT(30), <2>2, <2>4
    <3>3. QED
      BY <2>2, <3>1, <3>2, KeyStep
  <2>5. KeyInv(key)'
    <3>1. KeyInv(key) /\ Queued(key)
      BY Zenon, <2>2 DEF ReceiptInv, KeyInv, StageInv
    <3>2. (up[key].val # None /\ SameGeneration(key) /\ up'[key].stage # "failed") => Holds(key, up[key].val)'
      <4>1. up[key].op = "Delete" => up[key].val = None
        BY ZenonT(30), <3>1 DEF KeyInv, Agrees
      <4>2. QED
        BY ZenonT(30), <2>1, <2>2, <2>3, <4>1 DEF UploadSend, ApplyToBackend, StateTypes, Holds
    <3>3. ItemInv(key)' /\ Agrees(key, snap[key])' /\ Agrees(key, up[key])'
      BY Zenon, <2>2, <2>3, <3>1 DEF KeyInv, ItemInv, Agrees, Queued
    <3>4. StageInv(key)'
      BY ZenonT(30), <2>2, <2>3, <3>1 DEF KeyInv, StageInv
    <3>5. Queued(key)' /\ (SameGeneration(key)' => SameGeneration(key))
      BY Zenon, <2>2, <2>3, <3>1 DEF Queued, SameGeneration
    <3>6. HeldInv(key)'
      BY ZenonT(30), <2>3, <3>2, <3>5 DEF HeldInv
    <3>7. QED
      BY Zenon, <3>3, <3>4, <3>6 DEF KeyInv
  <2>6. CompletionInv'
    BY ZenonT(30), <2>2, <2>3 DEF ReceiptInv, CompletionInv, Queued, SameGeneration
  <2>7. QED
    BY ZenonT(30), <2>4, <2>5, <2>6 DEF ReceiptInv
<1>41. CASE \E k \in Keys : UploadError(k)
  <2>1. PICK key \in Keys : UploadError(key)
    BY ZenonT(30), <1>41
  <2>2. /\ UNCHANGED <<queue, receipt, snap, enq, cs, wk>> /\ up[key].stage = "send"
        /\ \A k \in Keys \ {key} : up'[k] = up[k] /\ backend'[k] = backend[k]
    BY ZenonT(30), <2>1 DEF UploadError, ApplyToBackend, StateTypes
  <2>3. /\ up'[key].stage = "failed" /\ up'[key].op = up[key].op /\ up'[key].val = up[key].val
        /\ up'[key].gen = up[key].gen
    <3>1. up[key] \in Upload /\ up'[key] = [up[key] EXCEPT !.stage = "failed"]
      BY ZenonT(30), <2>1 DEF UploadError, StateTypes
    <3>2. QED
      BY ZenonT(30), <3>1 DEF Upload
  <2>4. ASSUME NEW k \in Keys, k # key PROVE KeyInv(k)'
    <3>1. KeyInv(k) /\ Len(enq) \in Nat
      BY DEF ReceiptInv, StateTypes
    <3>2. up'[k] = up[k] /\ backend'[k] = backend[k]
      BY ZenonT(30), <2>2, <2>4
    <3>3. QED
      BY <2>2, <3>1, <3>2, KeyStep
  <2>5. KeyInv(key)'
    <3>1. KeyInv(key) /\ Queued(key)
      BY Zenon, <2>2 DEF ReceiptInv, KeyInv, StageInv
    <3>2. (up[key].val # None /\ SameGeneration(key) /\ up'[key].stage # "failed") => Holds(key, up[key].val)'
      <4>1. up[key].op = "Delete" => up[key].val = None
        BY ZenonT(30), <3>1 DEF KeyInv, Agrees
      <4>2. QED
        BY ZenonT(30), <2>1, <2>2, <2>3, <4>1 DEF UploadError, ApplyToBackend, StateTypes, Holds
    <3>3. ItemInv(key)' /\ Agrees(key, snap[key])' /\ Agrees(key, up[key])'
      BY Zenon, <2>2, <2>3, <3>1 DEF KeyInv, ItemInv, Agrees, Queued
    <3>4. StageInv(key)'
      BY ZenonT(30), <2>2, <2>3, <3>1 DEF KeyInv, StageInv
    <3>5. Queued(key)' /\ (SameGeneration(key)' => SameGeneration(key))
      BY Zenon, <2>2, <2>3, <3>1 DEF Queued, SameGeneration
    <3>6. HeldInv(key)'
      BY ZenonT(30), <2>3, <3>2, <3>5 DEF HeldInv
    <3>7. QED
      BY Zenon, <3>3, <3>4, <3>6 DEF KeyInv
  <2>6. CompletionInv'
    BY ZenonT(30), <2>2, <2>3 DEF ReceiptInv, CompletionInv, Queued, SameGeneration
  <2>7. QED
    BY ZenonT(30), <2>4, <2>5, <2>6 DEF ReceiptInv
<1>42. CASE \E k \in Keys : UploadComplete(k)
  <2>1. PICK key \in Keys : UploadComplete(key)
    BY ZenonT(30), <1>42
  <2>2. ASSUME NEW k \in Keys PROVE KeyInv(k)'
    <3>1. KeyInv(k) /\ UNCHANGED <<queue, backend, receipt, snap, enq>>
      BY ZenonT(30), <2>1 DEF UploadComplete, ReceiptInv
    <3>2. CASE up'[k] = up[k]
      BY ZenonT(30), <3>1, <3>2 DEF KeyInv, ItemInv, StageInv, HeldInv, Agrees, Queued,
         SameGeneration, Holds
    <3>3. CASE up'[k] = NoUpload
      BY ZenonT(30), <3>1, <3>3, ForgetUpload
    <3>4. QED
      BY ZenonT(30), <2>1, <3>2, <3>3 DEF UploadComplete, StateTypes
  <2>3. CompletionInv'
    <3>1. CASE SameGeneration(key)
      <4>1. cs'.key = key /\ cs'.pc \in {"c_retain", "c_receipt"}
        BY Zenon, <2>1, <3>1, NullTypes DEF UploadComplete, Writer
      <4>2. /\ UNCHANGED <<up, wk, queue>> /\ up[key].stage \in {"sent", "skip"}
            /\ wk.pc \in {"tier", "deleting"}
        BY ZenonT(30), <2>1, <3>1 DEF UploadComplete, Running
      <4>3. QED
        BY ZenonT(30), <3>1, <4>1, <4>2 DEF CompletionInv, Queued, SameGeneration
    <3>2. CASE ~SameGeneration(key)
      BY ZenonT(30), <2>1, <3>2 DEF UploadComplete, LockFree, CompletionInv, CompletePcs
    <3>3. QED
      BY ZenonT(30), <3>1, <3>2
  <2>4. QED
    BY ZenonT(30), <2>2, <2>3 DEF ReceiptInv
<1>43. CASE CompleteRetain
  <2>1. /\ UNCHANGED <<queue, backend, receipt, snap, up, enq, wk>>
        /\ cs'.pc = "c_receipt" /\ cs'.key = cs.key /\ cs.pc \in CompletePcs
    BY ZenonT(30), <1>43 DEF CompleteRetain, StateTypes, Writer, CompletePcs
  <2>2. \A k \in Keys : KeyInv(k)'
    BY ZenonT(30), <2>1, KeySame DEF ReceiptInv
  <2>3. CompletionInv'
    BY Zenon, <2>1 DEF ReceiptInv, CompletionInv, Queued, SameGeneration
  <2>4. QED
    BY ZenonT(30), <2>2, <2>3 DEF ReceiptInv
<1>44. CASE CompleteReceipt
  <2>1. /\ UNCHANGED <<queue, backend, snap, up, enq, wk>> /\ cs.pc \in CompletePcs
        /\ cs'.pc = "c_unqueue" /\ cs'.key = cs.key /\ cs.key \in Keys
    BY ZenonT(30), <1>44 DEF CompleteReceipt, StateTypes, WriterOK, Writer, CompletePcs
  <2>2. /\ receipt'[cs.key] = up[cs.key].val
        /\ \A k \in Keys \ {cs.key} : receipt'[k] = receipt[k]
    BY ZenonT(30), <1>44, <2>1 DEF CompleteReceipt, StateTypes
  <2>3. Queued(cs.key)
    BY Zenon, <2>1 DEF ReceiptInv, CompletionInv, SameGeneration
  <2>4. ASSUME NEW k \in Keys PROVE KeyInv(k)'
    <3>1. KeyInv(k)
      BY ZenonT(30) DEF ReceiptInv
    <3>2. ItemInv(k)' /\ Agrees(k, snap[k])' /\ Agrees(k, up[k])' /\ StageInv(k)'
      BY Zenon, <2>1, <3>1 DEF KeyInv, ItemInv, StageInv, Agrees, Queued
    <3>3. Queued(k)' = Queued(k) /\ SameGeneration(k)' = SameGeneration(k)
      BY Zenon, <2>1 DEF Queued, SameGeneration
    <3>4. Queued(k) \/ receipt'[k] = receipt[k]
      BY ZenonT(30), <2>2, <2>3
    <3>5. HeldInv(k)'
      BY ZenonT(30), <2>1, <3>1, <3>3, <3>4 DEF KeyInv, HeldInv, Holds
    <3>6. QED
      BY Zenon, <3>2, <3>5 DEF KeyInv
  <2>5. CompletionInv'
    BY Zenon, <2>1, <2>2 DEF ReceiptInv, CompletionInv, Queued, SameGeneration
  <2>6. QED
    BY ZenonT(30), <2>4, <2>5 DEF ReceiptInv
<1>45. CASE CompleteUnqueue
  <2>1. /\ UNCHANGED <<backend, receipt, snap, enq>> /\ cs.key \in Keys
        /\ up[cs.key].stage \in {"sent", "skip"} /\ SameGeneration(cs.key)
        /\ receipt[cs.key] = up[cs.key].val
    BY ZenonT(30), <1>45 DEF CompleteUnqueue, ReceiptInv, CompletionInv, CompletePcs
  <2>2. /\ queue'[cs.key] = NoItem /\ up'[cs.key] = NoUpload
        /\ \A k \in Keys \ {cs.key} : queue'[k] = queue[k] /\ up'[k] = up[k]
    BY ZenonT(30), <1>45, <2>1 DEF CompleteUnqueue, StateTypes
  <2>3. ASSUME NEW k \in Keys, k # cs.key PROVE KeyInv(k)'
    <3>1. KeyInv(k) /\ Len(enq) \in Nat
      BY DEF ReceiptInv, StateTypes
    <3>2. queue'[k] = queue[k] /\ up'[k] = up[k]
      BY ZenonT(30), <2>2, <2>3
    <3>3. QED
      BY Zenon, <2>1, <3>1, <3>2, KeySame
  <2>4. ASSUME NEW k \in Keys, k = cs.key PROVE KeyInv(k)'
    <3>1. KeyInv(k) /\ Len(enq) \in Nat /\ up[k].op \in {"none", "Put", "Delete"}
      BY DEF ReceiptInv, StateTypes, Upload
    <3>2. receipt[k] # None => Holds(k, receipt[k])
      BY ZenonT(30), <2>1, <2>4, <3>1 DEF KeyInv, HeldInv
    <3>3. NoItem.gen = 0 /\ NoItem.op = "none" /\ NoUpload.gen = 0 /\ NoUpload.op = "none"
          /\ NoUpload.stage = "none"
      BY ZenonT(30) DEF NoItem, NoUpload
    <3>4. queue'[k] = NoItem /\ up'[k] = NoUpload
      BY ZenonT(30), <2>2, <2>4
    <3>5. ~Queued(k)'
      BY ZenonT(30), <3>3, <3>4 DEF Queued
    <3>a. 0 <= Len(enq')
      BY <2>1, <3>1
    <3>6. ItemInv(k)' /\ StageInv(k)'
      BY Zenon, <3>a, <3>3, <3>4 DEF ItemInv, StageInv
    <3>7. Agrees(k, snap[k])' /\ Agrees(k, up[k])'
      <4>1. Agrees(k, snap[k])'
        BY Zenon, <2>1, <3>1, <3>5 DEF KeyInv, Agrees
      <4>2. 0 <= Len(enq')
        BY <2>1, <3>1
      <4>3. Agrees(k, up[k])'
        BY Zenon, <3>3, <3>4, <4>2 DEF Agrees
      <4>4. QED
        BY ZenonT(30), <4>1, <4>3
    <3>8. HeldInv(k)'
      BY ZenonT(30), <2>1, <3>2, <3>3, <3>4 DEF HeldInv, Holds
    <3>9. QED
      BY ZenonT(30), <3>6, <3>7, <3>8 DEF KeyInv
  <2>5. cs'.pc \notin CompletePcs
    BY ZenonT(30), <1>45, NullTypes DEF CompleteUnqueue, CompletePcs
  <2>6. QED
    BY ZenonT(30), <2>3, <2>4, <2>5 DEF ReceiptInv, CompletionInv
<1>46. CASE \E k \in Keys : UploadFailed(k)
  <2>1. PICK key \in Keys : UploadFailed(key)
    BY ZenonT(30), <1>46
  <2>2. \A k \in Keys : /\ queue'[k].op = queue[k].op /\ queue'[k].val = queue[k].val
                        /\ queue'[k].gen = queue[k].gen
    <3>1. \A k \in Keys : queue[k] \in Item
      BY ZenonT(30) DEF StateTypes
    <3>2. \A k \in Keys : queue'[k] = queue[k] \/ \E b \in BOOLEAN : queue'[k] = [queue[k] EXCEPT !.retry = b]
      BY Zenon, <2>1 DEF UploadFailed, StateTypes
    <3>3. QED
      BY ZenonT(40), <3>1, <3>2 DEF Item
  <2>3. UNCHANGED <<backend, receipt, snap, enq>>
    BY ZenonT(30), <2>1 DEF UploadFailed
  <2>4. ASSUME NEW k \in Keys PROVE KeyInv(k)'
    <3>1. up'[k] = up[k] \/ up'[k] = NoUpload
      BY ZenonT(30), <2>1 DEF UploadFailed, StateTypes
    <3>2. KeyInv(k) /\ Len(enq) \in Nat
      BY DEF ReceiptInv, StateTypes
    <3>3. /\ queue'[k].op = queue[k].op /\ queue'[k].val = queue[k].val
          /\ queue'[k].gen = queue[k].gen
      BY ZenonT(30), <2>2
    <3>4. QED
      <4>1. Len(enq') \in Nat /\ Len(enq) <= Len(enq')
        BY <2>3, <3>2
      <4>2. QED
        BY Zenon, <2>3, <3>1, <3>2, <3>3, <4>1, KeyStep
  <2>5. CompletionInv'
    <3>1. UNCHANGED <<cs, receipt>> /\ (cs.pc \notin CompletePcs \/ UNCHANGED <<wk, up>>)
      BY ZenonT(30), <2>1 DEF UploadFailed, LockFree, CompletePcs
    <3>2. QED
      BY ZenonT(30), <2>2, <3>1 DEF ReceiptInv, CompletionInv, Queued, SameGeneration
  <2>6. QED
    BY ZenonT(30), <2>4, <2>5 DEF ReceiptInv
<1>47. CASE \E k \in Keys : RetryElapses(k)
  <2>1. PICK key \in Keys : RetryElapses(key)
    BY ZenonT(30), <1>47
  <2>2. \A k \in Keys : /\ queue'[k].op = queue[k].op /\ queue'[k].val = queue[k].val
                        /\ queue'[k].gen = queue[k].gen
    <3>1. \A k \in Keys : queue[k] \in Item
      BY ZenonT(30) DEF StateTypes
    <3>2. \A k \in Keys : queue'[k] = queue[k] \/ \E b \in BOOLEAN : queue'[k] = [queue[k] EXCEPT !.retry = b]
      BY Zenon, <2>1 DEF RetryElapses, StateTypes
    <3>3. QED
      BY ZenonT(40), <3>1, <3>2 DEF Item
  <2>3. UNCHANGED <<backend, receipt, snap, enq>>
    BY ZenonT(30), <2>1 DEF RetryElapses
  <2>4. ASSUME NEW k \in Keys PROVE KeyInv(k)'
    <3>1. up'[k] = up[k] \/ up'[k] = NoUpload
      BY ZenonT(30), <2>1 DEF RetryElapses, StateTypes
    <3>2. KeyInv(k) /\ Len(enq) \in Nat
      BY DEF ReceiptInv, StateTypes
    <3>3. /\ queue'[k].op = queue[k].op /\ queue'[k].val = queue[k].val
          /\ queue'[k].gen = queue[k].gen
      BY ZenonT(30), <2>2
    <3>4. QED
      <4>1. Len(enq') \in Nat /\ Len(enq) <= Len(enq')
        BY <2>3, <3>2
      <4>2. QED
        BY Zenon, <2>3, <3>1, <3>2, <3>3, <4>1, KeyStep
  <2>5. CompletionInv'
    <3>1. UNCHANGED <<cs, receipt>> /\ (cs.pc \notin CompletePcs \/ UNCHANGED <<wk, up>>)
      BY ZenonT(30), <2>1 DEF RetryElapses, LockFree, CompletePcs
    <3>2. QED
      BY ZenonT(30), <2>2, <3>1 DEF ReceiptInv, CompletionInv, Queued, SameGeneration
  <2>6. QED
    BY ZenonT(30), <2>4, <2>5 DEF ReceiptInv
<1>48. CASE NextTier \/ RoundEnd \/ \E batch \in BOOLEAN : DeleteBegin(batch)
  <2>1. cs'.pc \notin CompletePcs
    BY Zenon, <1>48 DEF NextTier, RoundEnd, DeleteBegin, LockFree, CompletePcs
  <2>2. ASSUME NEW k \in Keys PROVE KeyInv(k)'
    <3>1. KeyInv(k) /\ UNCHANGED <<queue, backend, receipt, snap, enq>> /\ up[k] \in Upload
      BY Zenon, <1>48 DEF NextTier, RoundEnd, DeleteBegin, ReceiptInv, StateTypes
    <3>2. CASE up'[k] = up[k]
      BY ZenonT(30), <3>1, <3>2, KeySame
    <3>3. CASE up'[k] = NoUpload
      BY ZenonT(30), <3>1, <3>3, ForgetUpload
    <3>4. CASE \/ up'[k] = [up[k] EXCEPT !.stage = "ready"] /\ up[k].stage = "wait"
               \/ up'[k] = [up[k] EXCEPT !.stage = "send"] /\ SameGeneration(k) /\ up[k].stage = "wait"
      <4>1. /\ up'[k].stage = "ready" \/ (up'[k].stage = "send" /\ Queued(k))
            /\ up'[k].op = up[k].op /\ up'[k].val = up[k].val /\ up'[k].gen = up[k].gen
        BY ZenonT(30), <3>1, <3>4 DEF Upload, SameGeneration
      <4>2. QED
        BY ZenonT(30), <3>1, <3>4, <4>1 DEF KeyInv, ItemInv, StageInv, HeldInv, Agrees, Queued,
           SameGeneration, Holds
    <3>5. QED
      BY Zenon, <1>48, <3>2, <3>3, <3>4 DEF NextTier, RoundEnd, DeleteBegin
  <2>3. QED
    BY ZenonT(30), <2>1, <2>2 DEF ReceiptInv, CompletionInv
<1>49. CASE Crash
  <2>1. cs'.pc \notin CompletePcs
    BY ZenonT(30), <1>49, NullTypes DEF Crash, CompletePcs
  <2>2. ASSUME NEW k \in Keys PROVE KeyInv(k)'
    <3>1. KeyInv(k) /\ UNCHANGED <<queue, backend, receipt, enq>> /\ Len(enq) \in Nat
          /\ snap'[k] = NoItem /\ up'[k] = NoUpload
      BY <1>49 DEF Crash, ReceiptInv, StateTypes
    <3>2. QED
      BY <3>1, KeyStep
  <2>3. QED
    BY ZenonT(30), <2>1, <2>2 DEF ReceiptInv, CompletionInv
<1>50. CASE UNCHANGED vars
  BY ZenonT(30), <1>50, ReceiptFrame DEF vars
<1>51. CASE \E j \in Keys : RetryMarkFails(j)
  <2>1. PICK j \in Keys : RetryMarkFails(j)
    BY ZenonT(30), <1>51
  <2>2. cs'.pc \notin CompletePcs
    BY ZenonT(30), <2>1 DEF RetryMarkFails, LockFree, CompletePcs
  <2>3. ASSUME NEW k \in Keys PROVE KeyInv(k)'
    <3>1. KeyInv(k) /\ UNCHANGED <<queue, backend, receipt, snap, enq>> /\ up'[k] = NoUpload
      BY ZenonT(30), <2>1 DEF RetryMarkFails, ReceiptInv
    <3>2. QED
      BY ZenonT(30), <3>1, ForgetUpload
  <2>4. QED
    BY ZenonT(30), <2>2, <2>3 DEF ReceiptInv, CompletionInv
<1>52. CASE Rpc
  BY Zenon, <1>52, <1>1, <1>6, <1>24 DEF Rpc
<1>53. CASE Locked
  BY Zenon, <1>53, <1>2, <1>3, <1>4, <1>5, <1>7, <1>8, <1>9, <1>11, <1>12, <1>13, <1>32, <1>33,
     <1>34, <1>36, <1>43, <1>44, <1>45 DEF Locked
<1>54. CASE Startup
  BY Zenon, <1>54, <1>10, <1>23, <1>35 DEF Startup
<1>55. CASE Drain
  BY Zenon, <1>55, <1>17, <1>18, <1>37, <1>38, <1>39, <1>42, <1>46, <1>48 DEF Drain
<1>56. CASE Cycle
  BY Zenon, <1>56, <1>13, <1>14, <1>15, <1>16, <1>19, <1>20, <1>21, <1>22 DEF Cycle
<1>57. CASE Backend \/ Time
  BY Zenon, <1>57, <1>25, <1>40, <1>41, <1>47 DEF Backend, Time
<1>58. CASE Get
  BY Zenon, <1>58, <1>26, <1>27, <1>28, <1>29, <1>30, <1>31 DEF Get
<1>59. QED
  BY Zenon, <1>36, <1>49, <1>50, <1>51, <1>52, <1>53, <1>54, <1>55, <1>56, <1>57, <1>58 DEF Next,
     Step

\* The state the process starts from satisfies ReceiptInv.
LEMMA ReceiptInit == Init => ReceiptInv
<1> SUFFICES ASSUME Init PROVE ReceiptInv
  BY ZenonT(30)
<1>1. cs.pc \notin CompletePcs
  BY ZenonT(30), NullTypes DEF Init, CompletePcs
<1>2. ASSUME NEW k \in Keys PROVE KeyInv(k)
  <2>1. /\ queue[k] = NoItem /\ snap[k] = NoItem /\ up[k] = NoUpload /\ receipt[k] = None
        /\ Len(enq) = 0
    BY ZenonT(30) DEF Init
  <2>2. /\ NoItem.gen = 0 /\ NoItem.op = "none" /\ NoUpload.gen = 0 /\ NoUpload.op = "none"
        /\ NoUpload.stage = "none"
    BY ZenonT(30) DEF NoItem, NoUpload
  <2>3. ItemInv(k) /\ StageInv(k)
    BY <2>1, <2>2 DEF ItemInv, StageInv
  <2>4. Agrees(k, snap[k]) /\ Agrees(k, up[k])
    BY SMTT(20), <2>1, <2>2 DEF Agrees
  <2>5. HeldInv(k)
    BY ZenonT(30), <2>1, <2>2 DEF HeldInv
  <2>6. QED
    BY ZenonT(30), <2>3, <2>4, <2>5 DEF KeyInv
<1>3. QED
  BY ZenonT(30), <1>1, <1>2 DEF ReceiptInv, CompletionInv
=============================================================================
