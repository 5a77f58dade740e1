------------------------ MODULE ClusterMasterProofs ------------------------
(* What is proved of ClusterMaster, for every value of its constants.          *)
EXTENDS ClusterMasterReceiptProofs, ClusterMasterDurableProofs, ClusterMasterServiceProofs,
        FiniteSetTheorems

\* Every variable keeps its type, and the writer of every durable file has a key.
THEOREM TypeCorrect == Spec => [](TypeOK /\ WriterOK)
<1>1. Counted
  BY ZenonT(30), ConstantsAssumption, FS_Subset, FS_CardinalityType DEF Counted
<1>2. (TypeOK /\ WriterOK) /\ [Next]_vars => (TypeOK /\ WriterOK)'
  BY ZenonT(30), <1>1, TypeStep
<1>3. QED
  BY <1>2, TypeInit, PTL DEF Spec

\* The receipts, the uploads and the worker's copies of the queue stay in step.
THEOREM ReceiptCorrect == Spec => [](TypeOK /\ WriterOK /\ ReceiptInv)
<1>1. TypeOK /\ WriterOK /\ ReceiptInv /\ [Next]_vars => ReceiptInv'
  BY ZenonT(30), ReceiptStep DEF TypeOK, StateTypes
<1>2. QED
  BY <1>1, ReceiptInit, TypeCorrect, PTL DEF Spec

\* What BackendCommitted confirms is in the backend, whatever crashed, failed or
\* was rewritten between the upload and the answer.
THEOREM CommittedCorrect == Spec => []CommittedIsInBackend
<1>1. ReceiptInv => CommittedIsInBackend
  BY ZenonT(30) DEF ReceiptInv, KeyInv, HeldInv, CommittedIsInBackend, Committed, Holds
<1>2. QED
  BY <1>1, ReceiptCorrect, PTL

\* The inductive invariant of the durable writes: the types, what the receipts and
\* the uploads know (ReceiptInv), what every key and the writer guarantee (DurInv),
\* and what the running batch has done (BatchInv).
THEOREM DurCorrect == Spec => [](TypeOK /\ WriterOK /\ ReceiptInv /\ DurInv /\ BatchInv)
<1>1. ASSUME TypeOK, WriterOK, ReceiptInv, DurInv, BatchInv, [Next]_vars
      PROVE  DurInv' /\ BatchInv'
  <2>1. StateTypes
    BY ZenonT(30), <1>1 DEF TypeOK, StateTypes
  <2>2. DurInv'
    BY ZenonT(30), <1>1, <2>1, DurStep
  <2>3. BatchInv'
    <3>1. CASE UNCHANGED vars
      BY ZenonT(30), <1>1, <3>1 DEF vars, files, volatile, BatchInv, Safe, Deleted, Tombstoned
    <3>2. CASE Step
      BY ZenonT(30), <1>1, <2>1, <3>2, BatchStep DEF DurInv, ReceiptInv
    <3>3. QED
      BY ZenonT(30), <1>1, <3>1, <3>2 DEF Next
  <2>4. QED
    BY ZenonT(30), <2>2, <2>3
<1>2. QED
  BY <1>1, DurInit, ReceiptCorrect, PTL DEF Spec

\* Live bytes are always backed up or on their way: no crash or failed write between
\* the writes of process_puts, replay, completion and local GC leaves an object that
\* nothing would ever back up.
THEOREM LiveProtected == Spec => []LiveIsProtected
<1>1. TypeOK /\ ReceiptInv /\ DurInv => LiveIsProtected
  <2> SUFFICES ASSUME TypeOK, ReceiptInv, DurInv, migrated, NEW k \in Keys,
                      store[k] # None, ~Deleted(k), intent[k] = None, k \notin stale
               PROVE  \/ queue[k].op = "Put" /\ queue[k].val = store[k]
                      \/ backend[k] = store[k]
                      \/ k \in Immutable /\ backend[k] # None
    BY ZenonT(30) DEF LiveIsProtected
  <2>1. KeyDur(k) /\ KeyInv(k)
    BY ZenonT(30) DEF DurInv, ReceiptInv
  <2>2. CASE queue[k].op = "Put"
    BY ZenonT(30), <2>1, <2>2 DEF KeyDur, PutInv
  <2>3. CASE ~Queued(k)
    BY ZenonT(30), <2>1, <2>3 DEF KeyDur, LiveInv, KeyInv, HeldInv, Holds, Deleted
  <2>4. QED
    <3>1. queue[k].op # "Delete"
      BY ZenonT(30) DEF Deleted
    <3>2. queue[k].op \in {"none", "Put", "Delete"}
      BY ZenonT(30) DEF TypeOK, Item
    <3>3. QED
      BY ZenonT(30), <2>2, <2>3, <3>1, <3>2 DEF Queued
<1>2. QED
  BY <1>1, DurCorrect, PTL

\* When process_puts answers master_durable, every object of the batch is what a GET
\* returns and is queued for the backend or already there, whatever the worker, the
\* local GC and the readers did while the batch was written.
THEOREM AckedDurable == Spec => []AckedIsDurable
<1>1. TypeOK /\ BatchInv => AckedIsDurable
  <2> SUFFICES ASSUME TypeOK, BatchInv, cs.pc = "put", NEW i \in DOMAIN cs.done,
                      ~\E j \in DOMAIN cs.done : j > i /\ cs.done[j][1] = cs.done[i][1]
               PROVE  /\ Visible(cs.done[i][1]) = cs.done[i][2] /\ store[cs.done[i][1]] = cs.done[i][2]
                      /\ \/ queue[cs.done[i][1]].op = "Put" /\ queue[cs.done[i][1]].val = cs.done[i][2]
                         \/ receipt[cs.done[i][1]] = cs.done[i][2]
    BY ZenonT(30) DEF AckedIsDurable
  <2>1. cs.done[i][2] # None
    <3>1. cs.done \in Seq(Keys \X Vals)
      BY ZenonT(30) DEF TypeOK, Writer
    <3>2. cs.done[i] \in Keys \X Vals
      BY <3>1
    <3>3. QED
      BY ZenonT(30), <3>2, ConstantsAssumption
  <2>2. Safe(cs.done[i][1], cs.done[i][2])
    BY ZenonT(30) DEF BatchInv, PutPcs
  <2>3. QED
    BY ZenonT(30), <2>1, <2>2 DEF Safe, Visible
<1>2. QED
  BY <1>1, DurCorrect, PTL

\* The master implements the object service: whatever files it writes in whatever
\* order, and whatever crashes, fails or is read meanwhile, the slaves see single
\* objects being put, shown and deleted.
THEOREM ServiceCorrect == Spec => ServiceSpec
<1>1. Init => Service!Init
  <2> SUFFICES ASSUME Init PROVE Service!Init
    BY ZenonT(30)
  <2>1. /\ store \in [Keys -> Content] /\ backend \in [Keys -> Content]
        /\ rd.pc = "idle" /\ stale = {} /\ intent = [k \in Keys |-> None]
    BY ZenonT(30), ConstantsAssumption, NullFields DEF Init, Content
  <2>2. \A k \in Keys : Visible(k) \in Content
    BY ZenonT(30), <2>1 DEF Visible, Content
  <2>3. QED
    BY ZenonT(30), <2>1, <2>2 DEF Service!Init, Service!Content, Content
<1>2. ASSUME TypeOK, TypeOK', WriterOK, ReceiptInv, DurInv, [Next]_vars
      PROVE  [Service!Next]_(Service!vars)
  <2>1. StateTypes
    BY ZenonT(30), <1>2 DEF TypeOK, StateTypes
  <2>2. CASE UNCHANGED vars
    BY ZenonT(30), <2>2 DEF vars, files, volatile, Service!vars, Visible, Deleted, Tombstoned
  <2>3. CASE Step /\ Mark
    <3>1. CASE QuietStep
      BY ZenonT(30), <1>2, <2>1, <2>3, <3>1, QuietSame, ServiceStep
    <3>2. CASE WriteStep
      BY ZenonT(30), <1>2, <2>1, <2>3, <3>2, WriteServes, ServiceStep
    <3>3. QED
      BY ZenonT(30), <2>3, <3>1, <3>2, StepKinds
  <2>4. QED
    BY ZenonT(30), <1>2, <2>2, <2>3 DEF Next
<1>3. QED
  BY <1>1, <1>2, DurCorrect, PTL DEF Spec, ServiceSpec, Service!Spec

\* A lock-free GET answers with something the key looked like while it ran, or was
\* being given by a PUT under way: none of the interleavings of the four reads of
\* master_get_optional with the worker, the local GC and other clients mixes states.
THEOREM GetRegular == Spec => []GetIsRegular
<1>1. Init => ReadInv
  <2> SUFFICES ASSUME Init PROVE ReadInv
    BY ZenonT(30)
  <2>1. rd.pc = "idle" /\ \A k \in Keys : up[k].op = "none"
    BY ZenonT(30), NullFields DEF Init
  <2>2. QED
    BY ZenonT(30), <2>1 DEF ReadInv, SendInv
<1>2. ASSUME TypeOK, WriterOK, ReceiptInv, DurInv, ReadInv, [Next]_vars
      PROVE  ReadInv'
  <2>1. StateTypes
    BY ZenonT(30), <1>2 DEF TypeOK, StateTypes
  <2>2. CASE UNCHANGED vars
    BY ZenonT(30), <1>2, <2>2 DEF vars, files, volatile, worker, ReadInv, SendInv, Watches,
       PastQueue, PastTomb, PastStore,
       Visible, Deleted, Tombstoned
  <2>3. CASE Step /\ Observe
    BY ZenonT(30), <1>2, <2>1, <2>3, RegularStep
  <2>4. QED
    BY ZenonT(30), <1>2, <2>2, <2>3 DEF Next
<1>3. ReadInv => GetIsRegular
  BY ZenonT(30) DEF ReadInv, GetIsRegular
<1>4. QED
  BY <1>1, <1>2, <1>3, DurCorrect, PTL DEF Spec
=============================================================================
