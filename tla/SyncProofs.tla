----------------------------- MODULE SyncProofs -----------------------------
(* What is proved of a sync of one host: the lock it takes (ProcessLock) and *)
(* the pipeline it runs (SyncPipeline), for any number of processes, keys,   *)
(* versions and faults.                                                      *)
EXTENDS ProcessLock, SyncPipeline, TLAPS

-----------------------------------------------------------------------------
(* The pipeline *)

Steady == Keys \ Recurring

\* The keys that the present phase has to publish
Due == IF sy.phase = 1 THEN Journal ELSE Keys

\* The versions of a key: the remote lags behind the payload file, which lags
\* behind the local state; the cache names no version the remote does not have.
Bounded ==
    \A k \in Steady :
        /\ remote[k] <= want[k] /\ cache[k] <= want[k]
        /\ k \in Immutable => want[k] <= 1
        /\ k \in Inline /\ payload[k] # 0 => remote[k] <= payload[k] /\ payload[k] <= want[k]
        /\ k \notin Journal /\ cache[k] = want[k] => Published(k)

AckedHeld == \A k \in acked : remote[k] # 0

\* What the stage of a key says about the sync, the key's bytes and the remote.
StageInv ==
    \A k \in Keys :
        /\ up[k] = "staged" => sy.pc = "enqueue" /\ k \in todo /\ payload[k] = want[k]
        /\ up[k] \in {"ready", "sent", "bare", "failed"} => sy.pc = "drain"
        /\ up[k] = "ready" /\ master => Source(k) # 0
        /\ up[k] \in {"sent", "bare"} /\ k \in Due \cap Steady => Published(k)

\* A key of the phase is published, still to be enqueued, or in the queue with
\* its present version.
Progress ==
    sy.pc \in {"enqueue", "drain"} =>
        \A k \in Due \cap Steady :
            \/ Published(k)
            \/ sy.pc = "enqueue" /\ k \in todo
            \/ item[k] # "none" /\ Source(k) = want[k]

\* A drain that has not failed misses no item of the queue.
Covered ==
    sy.pc = "drain" /\ ~sy.err =>
        \A k \in Queued : k \in todo \/ up[k] \in {"ready", "sent", "bare", "failed"}

SyncInv == TypeOK /\ Bounded /\ AckedHeld /\ StageInv /\ Progress /\ Covered /\ SyncedIsPublished

-----------------------------------------------------------------------------
(* Types *)

\* What a PUT leaves in the remote has the type of the remote.
LEMMA PutType ==
    ASSUME TypeOK, NEW S, remote' = Put(S)
    PROVE  remote' \in [Keys -> Versions]
BY ZenonT(30) DEF TypeOK, Put, Source

\* Every step keeps the types.
LEMMA TypeStep == TypeOK /\ [Next]_vars => TypeOK'
<1> SUFFICES ASSUME TypeOK, [Next]_vars PROVE TypeOK'
  BY ZenonT(30)
<1> USE DEF queue
<1>1. ASSUME NEW k \in Keys, NEW v \in Versions, LocalChange(k, v) PROVE TypeOK'
  BY ZenonT(30), <1>1 DEF LocalChange, TypeOK
<1>2. ASSUME NEW k \in Keys, RetryElapses(k) PROVE TypeOK'
  BY ZenonT(30), <1>2 DEF RetryElapses, TypeOK
<1>3. CASE Start
  <2>1. sy' \in [pc : {"idle", "enqueue", "drain", "done"}, phase : 1..2, err : BOOLEAN]
    BY <1>3 DEF Start
  <2>2. todo' \subseteq Keys
    BY ZenonT(30), <1>3, ConstantsAssumption DEF Start
  <2>3. QED
    BY <1>3, <2>1, <2>2, Zenon DEF Start, TypeOK
<1>4. ASSUME NEW k \in Keys, WritePayload(k) PROVE TypeOK'
  BY ZenonT(30), <1>4 DEF WritePayload, Stage, TypeOK, Stages
<1>5. ASSUME NEW k \in Keys, WriteItem(k) PROVE TypeOK'
  BY ZenonT(30), <1>5 DEF WriteItem, Stage, TypeOK, Stages
<1>6. ASSUME NEW k \in Keys, Skip(k) PROVE TypeOK'
  BY <1>6, ConstantsAssumption DEF Skip, Stage, TypeOK, Stages, Versions
<1>7. ASSUME NEW k \in Keys, Collect(k) PROVE TypeOK'
  BY ZenonT(30), <1>7 DEF Collect, Stage, TypeOK, Stages
<1>8. ASSUME NEW k \in Keys, SourceGone(k) PROVE TypeOK'
  BY ZenonT(30), <1>8 DEF SourceGone, Goto, TypeOK, Stages
<1>9. ASSUME NEW k \in Keys, RemovePayload(k) PROVE TypeOK'
  BY <1>9, ConstantsAssumption DEF RemovePayload, Stage, TypeOK, Stages, Versions
<1>10. ASSUME NEW k \in Keys, RemoveItem(k) PROVE TypeOK'
  BY ZenonT(30), <1>10 DEF RemoveItem, Stage, TypeOK, Stages
<1>11. ASSUME NEW k \in Keys, RecordAttempt(k) PROVE TypeOK'
  BY ZenonT(30), <1>11 DEF RecordAttempt, Stage, TypeOK, Stages
<1>12. ASSUME NEW chunk \in SUBSET Keys, TakeChunk(chunk) PROVE TypeOK'
  BY ZenonT(30), <1>12 DEF TakeChunk, TypeOK, Stages
<1>13. CASE StartDrain
  BY ZenonT(30), <1>13 DEF StartDrain, Goto, Queued, TypeOK
<1>14. CASE DrainFails
  BY ZenonT(30), <1>14 DEF DrainFails, Goto, TypeOK
<1>15. CASE Return
  BY ZenonT(30), <1>15 DEF Return, Goto, TypeOK
<1>16. ASSUME NEW k \in Keys, Upload(k) PROVE TypeOK'
  <2>1. remote' \in [Keys -> Versions]
    BY ZenonT(30), <1>16, PutType DEF Upload
  <2>2. QED
    BY ZenonT(30), <1>16, <2>1 DEF Upload, Stage, TypeOK, Stages
<1>17. ASSUME NEW k \in Keys, UploadFails(k) PROVE TypeOK'
  <2>1. remote' \in [Keys -> Versions]
    BY ZenonT(30), <1>17, PutType DEF UploadFails, TypeOK
  <2>2. QED
    BY ZenonT(30), <1>17, <2>1 DEF UploadFails, Stage, TypeOK, Stages
<1>18. CASE SendBatch
  <2>1. remote' \in [Keys -> Versions]
    BY ZenonT(30), <1>18, PutType DEF SendBatch
  <2>2. QED
    BY ZenonT(30), <1>18, <2>1 DEF SendBatch, Move, TypeOK, Stages
<1>19. CASE SendFails
  <2>1. remote' \in [Keys -> Versions]
    BY ZenonT(30), <1>19, PutType DEF SendFails
  <2>2. QED
    BY ZenonT(30), <1>19, <2>1 DEF SendFails, Move, TypeOK, Stages
<1>20. CASE JournalDone
  <2>1. acked' \subseteq Journal
    BY ZenonT(30), <1>20 DEF JournalDone, Acknowledge, TypeOK
  <2>2. todo' \subseteq Keys /\ sy' \in [pc : {"idle", "enqueue", "drain", "done"}, phase : 1..2, err : BOOLEAN]
    <3>1. CASE Goto("done") /\ todo' = {}
      BY ZenonT(30), <3>1 DEF Goto, TypeOK
    <3>2. ASSUME NEW listed \in BOOLEAN, todo' = {k \in Keys \ Journal : Needed(k, listed)},
                 sy' = [pc |-> "enqueue", phase |-> 2, err |-> FALSE]
          PROVE  todo' \subseteq Keys /\ sy' \in [pc : {"idle", "enqueue", "drain", "done"}, phase : 1..2, err : BOOLEAN]
      BY <3>2
    <3>3. QED
      BY <1>20, <3>1, <3>2, Zenon DEF JournalDone
  <2>3. QED
    BY <1>20, <2>1, <2>2, Zenon DEF JournalDone, TypeOK
<1>21. CASE Finish
  <2>1. acked' \subseteq Journal
    BY ZenonT(30), <1>21 DEF Finish, Acknowledge, TypeOK
  <2>2. QED
    BY ZenonT(30), <1>21, <2>1 DEF Finish, Goto, TypeOK
<1>22. CASE SyncFails
  BY ZenonT(30), <1>22 DEF SyncFails, Goto, TypeOK
<1>23. CASE Abort
  BY <1>23 DEF Abort, Goto, TypeOK, Stages
<1>24. CASE UNCHANGED vars
  BY ZenonT(30), <1>24 DEF vars, TypeOK
<1>25. QED
  BY ZenonT(30), <1>1, <1>2, <1>3, <1>4, <1>5, <1>6, <1>7, <1>8, <1>9, <1>10, <1>11, <1>12,
     <1>13, <1>14,
     <1>15, <1>16, <1>17, <1>18, <1>19, <1>20, <1>21, <1>22, <1>23, <1>24
     DEF Next, Proceed, Attempt

-----------------------------------------------------------------------------
(* The remote *)

\* A PUT of readable bytes never takes a steady key back, and publishes it when
\* the bytes are its present version.
LEMMA PutEffect ==
    ASSUME TypeOK, Bounded, NEW S \in SUBSET Keys, \A k \in S : Source(k) # 0,
           remote' = Put(S), want' = want
    PROVE  /\ \A k \in Keys : remote[k] # 0 => remote'[k] # 0
           /\ \A k \in Steady : remote'[k] <= want[k]
           /\ \A k \in Steady \cap Inline : payload[k] # 0 => remote'[k] <= payload[k]
           /\ \A k \in Steady : Published(k) => Published(k)'
           /\ \A k \in S \cap Steady : Source(k) = want[k] => Published(k)'
<1>1. \A k \in Keys : remote'[k] = IF k \in S /\ ~(k \in Immutable /\ remote[k] # 0) THEN Source(k) ELSE remote[k]
  BY ZenonT(30) DEF Put
<1>2. \A k \in Keys : remote[k] # 0 => remote'[k] # 0
  BY ZenonT(30), <1>1
<1>3. ASSUME NEW k \in Steady
      PROVE  /\ remote[k] \in Nat /\ remote'[k] \in Nat /\ want[k] \in Nat /\ payload[k] \in Nat
             /\ remote[k] <= remote'[k] /\ remote'[k] <= want[k]
             /\ k \in Inline /\ payload[k] # 0 => remote'[k] <= payload[k]
  <2>1. k \in Keys /\ remote[k] \in Nat /\ want[k] \in Nat /\ payload[k] \in Nat
    BY ConstantsAssumption DEF TypeOK, Steady, Versions
  <2>2. CASE k \in Inline
    BY <1>1, <2>1, <2>2 DEF Bounded, Source
  <2>3. CASE k \notin Inline
    BY <1>1, <2>1, <2>3 DEF Bounded, Source
  <2>4. QED
    BY ZenonT(30), <2>2, <2>3
<1>4. ASSUME NEW k \in Steady, Skippable(k) PROVE Skippable(k)'
  BY ZenonT(30), <1>2, <1>4, ConstantsAssumption DEF Skippable, Steady
<1>5. ASSUME NEW k \in Steady, Published(k) PROVE Published(k)'
  BY <1>3, <1>4, <1>5 DEF Published
<1>6. ASSUME NEW k \in S \cap Steady, Source(k) = want[k] PROVE Published(k)'
  <2>1. remote'[k] = want[k]
    BY <1>1, <1>3, <1>6 DEF Bounded, Steady
  <2>2. QED
    BY ZenonT(30), <2>1 DEF Published
<1>7. QED
  BY ZenonT(30), <1>2, <1>3, <1>5, <1>6

\* The steps that change the remote put the bytes of some keys, which they read.
Puts(S) ==
    /\ S \in SUBSET Keys /\ \A k \in S : Source(k) # 0
    /\ remote' = Put(S)
    /\ UNCHANGED <<want, item, payload, cache, acked, master, sy, todo, aborts>>

\* Every step of the uploads is such a PUT.
LEMMA UploadsPut ==
    ASSUME TypeOK, StageInv
    PROVE  /\ \A k \in Keys : Upload(k) => Puts({k})
           /\ \A k \in Keys : UploadFails(k) => \E S \in SUBSET {k} : Puts(S)
           /\ SendBatch => Puts(At("ready"))
           /\ SendFails => \E S \in SUBSET At("ready") : Puts(S)
<1> USE DEF queue
<1>1. ASSUME NEW k \in Keys, Upload(k) PROVE Puts({k})
  BY ZenonT(30), <1>1 DEF Upload, Puts
<1>2. ASSUME NEW k \in Keys, UploadFails(k) PROVE \E S \in SUBSET {k} : Puts(S)
  <2>1. CASE remote' = remote
    <3>1. Put({}) = remote
      BY ZenonT(30) DEF Put, TypeOK
    <3>2. Puts({})
      BY ZenonT(30), <1>2, <2>1, <3>1 DEF UploadFails, Puts
    <3>3. QED
      BY ZenonT(30), <3>2
  <2>2. CASE Source(k) # 0 /\ remote' = Put({k})
    <3>1. Puts({k})
      BY ZenonT(30), <1>2, <2>2 DEF UploadFails, Puts
    <3>2. QED
      BY ZenonT(30), <3>1
  <2>3. QED
    BY ZenonT(30), <1>2, <2>1, <2>2 DEF UploadFails
<1>3. BatchComplete => \A k \in At("ready") : Source(k) # 0
  BY ZenonT(30) DEF BatchComplete, Collecting, At, StageInv
<1>4. At("ready") \subseteq Keys
  BY ZenonT(30) DEF At
<1>5. SendBatch => Puts(At("ready"))
  BY ZenonT(30), <1>3, <1>4 DEF SendBatch, Puts
<1>6. ASSUME SendFails PROVE \E S \in SUBSET At("ready") : Puts(S)
  <2>1. PICK S \in SUBSET At("ready") : remote' = Put(S)
    BY ZenonT(30), <1>6 DEF SendFails
  <2>2. Puts(S)
    BY ZenonT(30), <1>3, <1>4, <1>6, <2>1 DEF SendFails, Puts
  <2>3. QED
    BY ZenonT(30), <2>2
<1>7. QED
  BY ZenonT(30), <1>1, <1>2, <1>5, <1>6

-----------------------------------------------------------------------------
(* The order of the uploads *)

InHand == {"ready", "sent", "bare", "failed"}

\* What a drain has before it and in hand is queued, and a key about to be
\* uploaded has no queued key of a lower priority behind it: to a store there is
\* none left, and a batch for the master contains it.
Ordered ==
    /\ sy.pc = "drain" => \A k \in todo : item[k] # "none" /\ up[k] = "none"
    /\ \A k \in Keys : up[k] \in InHand => item[k] # "none"
    /\ \A k, j \in Keys :
         up[k] = "ready" /\ PriorityOf[j] < PriorityOf[k] /\ item[j] # "none"
           => master /\ up[j] = "ready"

\* Every step keeps the order of the uploads.
LEMMA OrderedStep == SyncInv /\ Ordered /\ Next => Ordered'
<1> SUFFICES ASSUME SyncInv, Ordered, Next PROVE Ordered'
  BY ZenonT(30)
<1> USE DEF queue, InHand
<1>1. /\ TypeOK
      /\ \A k \in Keys : up[k] \in InHand => sy.pc = "drain"
      /\ \A k \in Keys : up[k] = "staged" => sy.pc = "enqueue"
      /\ sy.pc = "drain" /\ ~sy.err =>
           \A k \in Keys : item[k] # "none" => k \in todo \/ up[k] \in InHand
  BY ZenonT(30) DEF SyncInv, StageInv, Covered, Queued
<1>2. PriorityOf \in [Keys -> 1..3]
  BY ZenonT(30), ConstantsAssumption
<1> USE <1>1, <1>2
<1>3. ASSUME NEW k \in Keys, NEW v \in Versions, LocalChange(k, v) PROVE Ordered'
  BY ZenonT(30), <1>3 DEF LocalChange, Ordered
<1>4. ASSUME NEW k \in Keys, RetryElapses(k) PROVE Ordered'
  BY ZenonT(30), <1>4 DEF RetryElapses, Ordered, TypeOK
<1>5. CASE Start
  BY ZenonT(30), <1>5 DEF Start, Ordered
<1>6. ASSUME NEW k \in Keys, WritePayload(k) PROVE Ordered'
  BY ZenonT(30), <1>6 DEF WritePayload, Stage, Ordered, TypeOK
<1>7. ASSUME NEW k \in Keys, WriteItem(k) PROVE Ordered'
  BY ZenonT(30), <1>7 DEF WriteItem, Stage, Ordered, TypeOK
<1>8. ASSUME NEW k \in Keys, Skip(k) PROVE Ordered'
  BY <1>8 DEF Skip, Stage, Ordered, TypeOK
<1>9. ASSUME NEW k \in Keys, Collect(k) PROVE Ordered'
  <2>1. /\ todo' = todo \ {k} /\ up' = [up EXCEPT ![k] = "ready"] /\ k \in todo /\ master
        /\ sy.pc = "drain" /\ ~sy.err /\ \A j \in Keys : up[j] \in {"none", "ready"}
        /\ \A j \in todo : PriorityOf[k] <= PriorityOf[j]
        /\ UNCHANGED <<item, sy, master>>
    BY ZenonT(30), <1>9 DEF Collect, Collecting, Lowest, Stage
  <2>2. \A j \in Keys : PriorityOf[j] < PriorityOf[k] /\ item[j] # "none" => up[j] = "ready"
    BY <2>1
  <2>3. QED
    BY <2>1, <2>2 DEF Ordered, TypeOK
<1>10. ASSUME NEW k \in Keys, SourceGone(k) PROVE Ordered'
  BY ZenonT(30), <1>10 DEF SourceGone, Goto, Ordered, TypeOK
<1>11. ASSUME NEW k \in Keys, RemovePayload(k) PROVE Ordered'
  BY <1>11 DEF RemovePayload, Stage, Ordered, TypeOK
<1>12. ASSUME NEW k \in Keys, RemoveItem(k) PROVE Ordered'
  BY ZenonT(30), <1>12 DEF RemoveItem, Stage, Ordered, TypeOK
<1>13. ASSUME NEW k \in Keys, RecordAttempt(k) PROVE Ordered'
  BY <1>13 DEF RecordAttempt, Stage, Ordered, TypeOK
<1>14. ASSUME NEW chunk \in SUBSET Keys, TakeChunk(chunk) PROVE Ordered'
  <2>1. /\ todo' = todo \ chunk /\ sy.pc = "drain" /\ ~sy.err /\ \A j \in Keys : up[j] = "none"
        /\ up' = [k \in Keys |-> IF k \in chunk THEN "ready" ELSE up[k]] /\ chunk \subseteq todo
        /\ \A k \in chunk, j \in todo : PriorityOf[k] <= PriorityOf[j]
        /\ UNCHANGED <<item, sy, master>>
    BY ZenonT(30), <1>14 DEF TakeChunk, Lowest, Quiet
  <2>2. \A k \in chunk, j \in Keys : PriorityOf[j] < PriorityOf[k] => item[j] = "none"
    BY <2>1 DEF TypeOK
  <2>3. QED
    BY ZenonT(30), <2>1, <2>2 DEF Ordered, TypeOK
<1>15. CASE StartDrain
  <2>1. \A k \in Keys : up[k] = "none"
    BY ZenonT(30), <1>15 DEF StartDrain, SyncInv, StageInv, TypeOK, Stages
  <2>2. QED
    BY ZenonT(30), <1>15, <2>1 DEF StartDrain, Goto, Queued, Ordered, TypeOK
<1>16. CASE DrainFails
  BY ZenonT(30), <1>16 DEF DrainFails, Goto, Quiet, Ordered, TypeOK
<1>17. CASE Return
  BY ZenonT(30), <1>17 DEF Return, Goto, Ordered, TypeOK
<1>18. ASSUME NEW k \in Keys, Upload(k) PROVE Ordered'
  BY <1>18 DEF Upload, Stage, Ordered, TypeOK
<1>19. ASSUME NEW k \in Keys, UploadFails(k) PROVE Ordered'
  BY <1>19 DEF UploadFails, Stage, Ordered, TypeOK
<1>20. CASE SendBatch
  BY ZenonT(30), <1>20 DEF SendBatch, BatchComplete, Collecting, Move, Ordered, TypeOK
<1>21. CASE SendFails
  BY ZenonT(30), <1>21 DEF SendFails, BatchComplete, Collecting, Move, Ordered, TypeOK
<1>22. CASE JournalDone
  BY <1>22 DEF JournalDone, Drained, Quiet, Goto, Ordered, TypeOK
<1>23. CASE Finish \/ SyncFails
  BY ZenonT(30), <1>23 DEF Finish, SyncFails, Drained, Quiet, Goto, Ordered, TypeOK
<1>24. CASE Abort
  BY ZenonT(30), <1>24 DEF Abort, Goto, Ordered, TypeOK
<1>25. QED
  BY ZenonT(30), <1>3, <1>4, <1>5, <1>6, <1>7, <1>8, <1>9, <1>10, <1>11, <1>12, <1>13, <1>14, <1>15,
     <1>16, <1>17, <1>18, <1>19, <1>20, <1>21, <1>22, <1>23, <1>24 DEF Next, Proceed, Attempt

\* A PUT of bytes leaves a key with no older version than those bytes.
LEMMA PutReaches ==
    ASSUME SyncInv, NEW S \in SUBSET Keys, remote' = Put(S), NEW j \in S, Source(j) # 0
    PROVE  remote'[j] # 0 /\ remote'[j] >= Source(j)
<1>1. TypeOK /\ (j \in Immutable => want[j] <= 1 /\ Source(j) <= 1)
  BY ConstantsAssumption DEF SyncInv, TypeOK, Bounded, Steady, Source, Versions
<1>2. Source(j) \in Versions /\ remote[j] \in Versions
  BY ZenonT(30), <1>1 DEF TypeOK, Source
<1>3. QED
  BY <1>1, <1>2 DEF Put, Versions

\* A key the remote receives is in hand, and what is queued with a lower priority
\* is there with it.
LEMMA UploadOrder ==
    ASSUME SyncInv, Ordered, Next,
           NEW k \in Keys, NEW j \in Keys,
           remote'[k] # remote[k], PriorityOf[j] < PriorityOf[k], item[j] # "none"
    PROVE  remote'[j] # 0 /\ remote'[j] >= Source(j)
<1>1. TypeOK /\ PriorityOf \in [Keys -> 1..3]
  BY ZenonT(30), ConstantsAssumption DEF SyncInv
<1>2. up[k] = "ready" => master /\ up[j] = "ready" /\ Source(j) # 0
  BY ZenonT(30) DEF Ordered, SyncInv, StageInv
<1>3. ASSUME NEW i \in Keys, Upload(i) \/ UploadFails(i) PROVE FALSE
  BY ZenonT(30), <1>1, <1>2, <1>3 DEF Upload, UploadFails, Put, TypeOK
<1>4. CASE SendBatch
  <2>1. k \in At("ready")
    BY ZenonT(30), <1>1, <1>4 DEF SendBatch, Put, TypeOK
  <2>2. j \in At("ready") /\ Source(j) # 0
    BY ZenonT(30), <1>2, <2>1 DEF At
  <2>3. QED
    BY ZenonT(30), <1>4, <2>2, PutReaches DEF SendBatch, At
<1>5. CASE SendFails
  <2>1. PICK S \in SUBSET At("ready") :
          /\ \A x \in S, y \in At("ready") : PriorityOf[y] < PriorityOf[x] => y \in S
          /\ remote' = Put(S)
    BY ZenonT(30), <1>5 DEF SendFails
  <2>2. k \in S
    BY ZenonT(30), <1>1, <2>1 DEF Put, TypeOK
  <2>3. j \in S /\ Source(j) # 0
    BY ZenonT(30), <1>2, <2>1, <2>2 DEF At
  <2>4. S \in SUBSET Keys
    BY ZenonT(30), <2>1 DEF At
  <2>5. QED
    BY ZenonT(30), <2>1, <2>3, <2>4, PutReaches
<1>6. QED
  BY ZenonT(30), <1>3, <1>4, <1>5 DEF Next, Proceed, Attempt, LocalChange, Start, WritePayload,
     WriteItem,
     StartDrain, TakeChunk, Skip, Collect, SourceGone, RemovePayload, RemoveItem, RecordAttempt,
     DrainFails, RetryElapses, JournalDone, Finish, SyncFails, Return, Abort, queue

-----------------------------------------------------------------------------
(* Versions and acknowledgements *)

\* Every step keeps the order of the versions.
LEMMA BoundedStep == SyncInv /\ Next => Bounded'
<1> SUFFICES ASSUME SyncInv, Next, NEW k \in Steady
             PROVE  /\ remote'[k] <= want'[k] /\ cache'[k] <= want'[k]
                    /\ k \in Immutable => want'[k] <= 1
                    /\ k \in Inline /\ payload'[k] # 0
                         => remote'[k] <= payload'[k] /\ payload'[k] <= want'[k]
                    /\ k \notin Journal /\ cache'[k] = want'[k] => Published(k)'
  BY ZenonT(30) DEF Bounded, Steady
<1> DEFINE Goal == /\ remote'[k] <= want'[k] /\ cache'[k] <= want'[k]
                   /\ k \in Immutable => want'[k] <= 1
                   /\ k \in Inline /\ payload'[k] # 0
                        => remote'[k] <= payload'[k] /\ payload'[k] <= want'[k]
                   /\ k \notin Journal /\ cache'[k] = want'[k] => Published(k)'
<1> USE DEF queue
<1>1. /\ k \in Keys /\ remote[k] \in Nat /\ want[k] \in Nat /\ payload[k] \in Nat /\ cache[k] \in Nat
      /\ TypeOK /\ Bounded /\ StageInv
  BY ConstantsAssumption DEF SyncInv, TypeOK, Steady, Versions
<1>2. /\ remote[k] <= want[k] /\ cache[k] <= want[k]
      /\ k \in Immutable => want[k] <= 1
      /\ k \in Inline /\ payload[k] # 0 => remote[k] <= payload[k] /\ payload[k] <= want[k]
      /\ k \notin Journal /\ cache[k] = want[k] => Published(k)
  BY ZenonT(30), <1>1 DEF Bounded
<1>3. ASSUME UNCHANGED <<want, payload, remote, cache>> PROVE Goal
  <2>1. Published(k)' = Published(k)
    BY ZenonT(30), <1>3 DEF Published, Skippable
  <2>2. QED
    BY ZenonT(30), <1>2, <1>3, <2>1
<1>4. ASSUME NEW j \in Keys, UNCHANGED <<want, remote, cache>>, payload' = [payload EXCEPT ![j] = 0]
      PROVE  Goal
  <2>1. Published(k)' = Published(k)
    BY ZenonT(30), <1>4 DEF Published, Skippable
  <2>2. payload'[k] # 0 => payload'[k] = payload[k]
    BY ZenonT(30), <1>1, <1>4 DEF TypeOK
  <2>3. QED
    BY ZenonT(30), <1>2, <1>4, <2>1, <2>2
<1>5. ASSUME NEW S, Puts(S) PROVE Goal
  <2>1. /\ S \in SUBSET Keys /\ \A x \in S : Source(x) # 0
        /\ remote' = Put(S) /\ want' = want /\ payload' = payload /\ cache' = cache
    BY ZenonT(30), <1>5 DEF Puts
  <2>2. /\ remote'[k] <= want[k]
        /\ k \in Inline /\ payload[k] # 0 => remote'[k] <= payload[k]
        /\ Published(k) => Published(k)'
    BY ZenonT(30), <1>1, <2>1, PutEffect
  <2>3. QED
    BY ZenonT(30), <1>2, <2>1, <2>2
<1>6. ASSUME NEW j \in Keys, NEW v \in Versions, LocalChange(j, v) PROVE Goal
  <2>1. CASE j = k
    <3>1. want'[k] = v /\ v = want[k] + 1 /\ (k \in Immutable => v = 1)
      BY ZenonT(30), <1>1, <1>6, <2>1 DEF LocalChange, Steady, TypeOK
    <3>2. QED
      BY <1>1, <1>2, <1>6, <3>1 DEF LocalChange
  <2>2. CASE j # k
    <3>1. want'[k] = want[k]
      BY ZenonT(30), <1>1, <1>6, <2>2 DEF LocalChange, TypeOK
    <3>2. Published(k)' = Published(k)
      BY ZenonT(30), <1>6, <3>1 DEF LocalChange, Published, Skippable
    <3>3. QED
      BY ZenonT(30), <1>2, <1>6, <3>1, <3>2 DEF LocalChange
  <2>3. QED
    BY ZenonT(30), <2>1, <2>2
<1>7. ASSUME NEW j \in Keys, WritePayload(j) PROVE Goal
  <2>1. Published(k)' = Published(k)
    BY ZenonT(30), <1>7 DEF WritePayload, Published, Skippable
  <2>2. payload'[k] = want[k] \/ payload'[k] = payload[k]
    BY ZenonT(30), <1>1, <1>7 DEF WritePayload, TypeOK
  <2>3. QED
    BY <1>1, <1>2, <1>7, <2>1, <2>2 DEF WritePayload
<1>8. CASE Finish
  <2>1. Published(k)
    BY <1>1, <1>8 DEF Finish, Drained, Quiet, SyncInv, Progress, Covered, Due, Queued
  <2>2. Published(k)' = Published(k)
    BY ZenonT(30), <1>8 DEF Finish, Published, Skippable
  <2>3. QED
    BY <1>1, <1>2, <1>8, <2>1, <2>2 DEF Finish
<1>9. CASE \E j \in Keys : Upload(j) \/ UploadFails(j)
  BY ZenonT(30), <1>1, <1>5, <1>9, UploadsPut
<1>10. CASE SendBatch \/ SendFails
  BY ZenonT(30), <1>1, <1>5, <1>10, UploadsPut
<1>11. CASE \E j \in Keys : Skip(j) \/ RemovePayload(j)
  BY ZenonT(30), <1>4, <1>11 DEF Skip, RemovePayload
<1>12. CASE \E j \in Keys : RetryElapses(j) \/ WriteItem(j) \/ Collect(j) \/ SourceGone(j)
                               \/ RemoveItem(j) \/ RecordAttempt(j)
  BY <1>3, <1>12, Zenon DEF RetryElapses, WriteItem, Collect, SourceGone, RemoveItem, RecordAttempt
<1>13. CASE \E chunk \in SUBSET Keys : TakeChunk(chunk)
  BY <1>3, <1>13, Zenon DEF TakeChunk
<1>14. CASE Start \/ StartDrain \/ DrainFails \/ Return \/ JournalDone \/ SyncFails \/ Abort
  BY <1>3, <1>14, Zenon DEF Start, StartDrain, DrainFails, Return, JournalDone, SyncFails, Abort
<1>15. QED
  BY <1>6, <1>7, <1>8, <1>9, <1>10, <1>11, <1>12, <1>13, <1>14, Zenon DEF Next, Proceed, Attempt

\* No step takes anything out of the remote, and no step of a sync takes back
\* what is published.
LEMMA RemoteStep ==
    SyncInv /\ Next => /\ \A k \in Keys : remote[k] # 0 => remote'[k] # 0
                       /\ sy.pc # "idle" => /\ want' = want
                                            /\ \A k \in Steady : Published(k) => Published(k)'
<1> SUFFICES ASSUME SyncInv, Next
             PROVE  /\ \A k \in Keys : remote[k] # 0 => remote'[k] # 0
                    /\ sy.pc # "idle" => want' = want /\ \A k \in Steady : Published(k) => Published(k)'
  BY ZenonT(30)
<1> DEFINE Goal == /\ \A k \in Keys : remote[k] # 0 => remote'[k] # 0
                   /\ sy.pc # "idle" => want' = want /\ \A k \in Steady : Published(k) => Published(k)'
<1> USE DEF queue
<1>1. TypeOK /\ Bounded /\ StageInv
  BY ZenonT(30) DEF SyncInv
<1>2. ASSUME UNCHANGED <<want, remote>> PROVE Goal
  BY ZenonT(30), <1>2 DEF Published, Skippable
<1>3. ASSUME NEW S, Puts(S) PROVE Goal
  <2>1. S \in SUBSET Keys /\ (\A x \in S : Source(x) # 0) /\ remote' = Put(S) /\ want' = want
    BY ZenonT(30), <1>3 DEF Puts
  <2>2. QED
    BY ZenonT(30), <1>1, <2>1, PutEffect
<1>4. ASSUME NEW j \in Keys, NEW v \in Versions, LocalChange(j, v) PROVE Goal
  BY ZenonT(30), <1>4 DEF LocalChange
<1>5. CASE \E j \in Keys : Upload(j) \/ UploadFails(j)
  BY ZenonT(30), <1>1, <1>3, <1>5, UploadsPut
<1>6. CASE SendBatch \/ SendFails
  BY ZenonT(30), <1>1, <1>3, <1>6, UploadsPut
<1>7. CASE \E j \in Keys : \/ RetryElapses(j) \/ WritePayload(j) \/ WriteItem(j) \/ Skip(j) \/ Collect(j)
                           \/ SourceGone(j) \/ RemovePayload(j) \/ RemoveItem(j) \/ RecordAttempt(j)
  BY <1>2, <1>7, Zenon DEF RetryElapses, WritePayload, WriteItem, Skip, Collect, SourceGone,
                           RemovePayload, RemoveItem, RecordAttempt
<1>8. CASE \E chunk \in SUBSET Keys : TakeChunk(chunk)
  BY <1>2, <1>8, Zenon DEF TakeChunk
<1>9. CASE Start \/ StartDrain \/ DrainFails \/ Return \/ JournalDone \/ Finish \/ SyncFails \/ Abort
  BY <1>2, <1>9, Zenon DEF Start, StartDrain, DrainFails, Return, JournalDone, Finish, SyncFails,
     Abort
<1>10. QED
  BY <1>4, <1>5, <1>6, <1>7, <1>8, <1>9, Zenon DEF Next, Proceed, Attempt

\* An event is acknowledged only when the remote has it, and keeps it.
LEMMA AckedStep == SyncInv /\ Next => AckedHeld'
<1> SUFFICES ASSUME SyncInv, Next PROVE AckedHeld'
  BY ZenonT(30)
<1> USE DEF queue
<1>1. /\ \A k \in Keys : remote[k] # 0 => remote'[k] # 0
      /\ acked \subseteq Keys /\ \A k \in acked : remote[k] # 0
  BY ZenonT(30), RemoteStep, ConstantsAssumption DEF SyncInv, TypeOK, AckedHeld
<1>2. CASE acked' = acked
  BY ZenonT(30), <1>1, <1>2 DEF AckedHeld
<1>3. CASE JournalDone \/ Finish
  BY ZenonT(30), <1>1, <1>3, ConstantsAssumption DEF JournalDone, Finish, Acknowledge, AckedHeld
<1>4. CASE \E k \in Keys : RetryElapses(k) \/ \E v \in Versions : LocalChange(k, v)
  BY <1>2, <1>4, Zenon DEF RetryElapses, LocalChange
<1>5. CASE \E k \in Keys : \/ WritePayload(k) \/ WriteItem(k) \/ Skip(k) \/ Collect(k) \/ SourceGone(k)
                           \/ RemovePayload(k) \/ RemoveItem(k) \/ RecordAttempt(k)
                           \/ Upload(k) \/ UploadFails(k)
  BY <1>2, <1>5, Zenon DEF WritePayload, WriteItem, Skip, Collect, SourceGone, RemovePayload,
                           RemoveItem, RecordAttempt, Upload, UploadFails
<1>6. CASE \E chunk \in SUBSET Keys : TakeChunk(chunk)
  BY <1>2, <1>6, Zenon DEF TakeChunk
<1>7. CASE Start \/ StartDrain \/ DrainFails \/ Return \/ SendBatch \/ SendFails \/ SyncFails \/ Abort
  BY <1>2, <1>7, Zenon DEF Start, StartDrain, DrainFails, Return, SendBatch, SendFails,
     SyncFails, Abort
<1>8. QED
  BY <1>3, <1>4, <1>5, <1>6, <1>7, Zenon DEF Next, Proceed, Attempt

-----------------------------------------------------------------------------
(* The stages of the uploads *)

\* Between two syncs and at the end of one no key is in a stage.
LEMMA Idle ==
    SyncInv => /\ sy.pc \in {"idle", "done"} => Quiet
               /\ sy.pc = "enqueue" => \A k \in Keys : up[k] \in {"none", "staged"}
               /\ sy.pc = "drain" => \A k \in Keys : up[k] # "staged"
<1> SUFFICES ASSUME SyncInv, NEW k \in Keys
             PROVE  /\ sy.pc \in {"idle", "done"} => up[k] = "none"
                    /\ sy.pc = "enqueue" => up[k] \in {"none", "staged"}
                    /\ sy.pc = "drain" => up[k] # "staged"
  BY ZenonT(30) DEF Quiet
<1>1. up[k] \in Stages
  BY ZenonT(30) DEF SyncInv, TypeOK
<1>2. QED
  BY ZenonT(30), <1>1 DEF SyncInv, StageInv, Stages

\* Every step keeps what the stages say.
LEMMA StageStep == SyncInv /\ Next => StageInv'
<1> SUFFICES ASSUME SyncInv, Next, NEW k \in Keys
             PROVE  /\ up'[k] = "staged" => sy'.pc = "enqueue" /\ k \in todo' /\ payload'[k] = want'[k]
                    /\ up'[k] \in {"ready", "sent", "bare", "failed"} => sy'.pc = "drain"
                    /\ up'[k] = "ready" /\ master' => Source(k)' # 0
                    /\ up'[k] \in {"sent", "bare"} /\ k \in Due' \cap Steady => Published(k)'
  BY ZenonT(30) DEF StageInv, Steady
<1> DEFINE Goal == /\ up'[k] = "staged" => sy'.pc = "enqueue" /\ k \in todo' /\ payload'[k] = want'[k]
                   /\ up'[k] \in {"ready", "sent", "bare", "failed"} => sy'.pc = "drain"
                   /\ up'[k] = "ready" /\ master' => Source(k)' # 0
                   /\ up'[k] \in {"sent", "bare"} /\ k \in Due' \cap Steady => Published(k)'
<1> USE DEF queue
<1>1. TypeOK /\ StageInv
  BY ZenonT(30) DEF SyncInv
<1>2. /\ up[k] = "staged" => sy.pc = "enqueue" /\ k \in todo /\ payload[k] = want[k]
      /\ up[k] \in {"ready", "sent", "bare", "failed"} => sy.pc = "drain"
      /\ up[k] = "ready" /\ master => Source(k) # 0
      /\ up[k] \in {"sent", "bare"} /\ k \in Due \cap Steady => Published(k)
  BY ZenonT(30), <1>1 DEF StageInv
<1>3. /\ sy.pc \in {"idle", "done"} => Quiet
      /\ sy.pc = "enqueue" => \A j \in Keys : up[j] \in {"none", "staged"}
      /\ sy.pc = "drain" => \A j \in Keys : up[j] # "staged"
  BY ZenonT(30), Idle
<1>4. ASSUME up'[k] = "none" PROVE Goal
  BY ZenonT(30), <1>4
<1>5. ASSUME up'[k] = up[k], up[k] = "staged" => k \in todo', sy' = sy,
             UNCHANGED <<want, payload, master>>
      PROVE  Goal
  <2>1. Source(k)' = Source(k) /\ Due' = Due
    BY ZenonT(30), <1>5 DEF Source, Due
  <2>2. sy.pc # "idle" /\ k \in Steady /\ Published(k) => Published(k)'
    BY ZenonT(30), RemoteStep
  <2>3. QED
    BY ZenonT(30), <1>2, <1>5, <2>1, <2>2
<1>6. ASSUME NEW j \in Keys, NEW v \in Versions, LocalChange(j, v) PROVE Goal
  BY ZenonT(30), <1>3, <1>4, <1>6 DEF LocalChange, Quiet
<1>7. ASSUME NEW j \in Keys, RetryElapses(j) PROVE Goal
  BY ZenonT(30), <1>3, <1>4, <1>7 DEF RetryElapses, Quiet
<1>8. ASSUME NEW j \in Keys, WritePayload(j) PROVE Goal
  <2>1. CASE j = k
    BY ZenonT(30), <1>1, <1>8, <2>1 DEF WritePayload, Stage, TypeOK
  <2>2. CASE j # k
    BY ZenonT(30), <1>1, <1>4, <1>8, <2>2 DEF WritePayload, Stage, TypeOK, Quiet
  <2>3. QED
    BY ZenonT(30), <2>1, <2>2
<1>9. ASSUME NEW j \in Keys, WriteItem(j) PROVE Goal
  <2>1. up'[k] = "none" \/ (up'[k] = up[k] /\ j # k)
    BY ZenonT(30), <1>1, <1>9 DEF WriteItem, Stage, TypeOK
  <2>2. QED
    BY ZenonT(30), <1>2, <1>4, <1>5, <1>9, <2>1 DEF WriteItem
<1>10. ASSUME NEW j \in Keys, Skip(j) PROVE Goal
  <2>1. CASE j = k
    BY ZenonT(30), <1>1, <1>4, <1>10, <2>1 DEF Skip, Stage, TypeOK
  <2>2. CASE j # k
    <3>1. up'[k] = up[k] /\ payload'[k] = payload[k] /\ sy' = sy /\ want' = want /\ master' = master /\ todo' = todo
      BY ZenonT(30), <1>1, <1>10, <2>2 DEF Skip, Stage, TypeOK
    <3>2. Source(k)' = Source(k) /\ Due' = Due
      BY ZenonT(30), <3>1 DEF Source, Due
    <3>3. sy.pc # "idle" /\ k \in Steady /\ Published(k) => Published(k)'
      BY ZenonT(30), RemoteStep
    <3>4. QED
      BY ZenonT(30), <1>2, <3>1, <3>2, <3>3
  <2>3. QED
    BY ZenonT(30), <2>1, <2>2
<1>11. ASSUME NEW j \in Keys, Collect(j) PROVE Goal
  <2>1. CASE j = k
    BY ZenonT(30), <1>1, <1>11, <2>1 DEF Collect, Collecting, Stage, TypeOK, Source
  <2>2. CASE j # k
    <3>1. up'[k] = up[k] /\ up[k] # "staged"
      BY ZenonT(30), <1>1, <1>3, <1>11, <2>2 DEF Collect, Collecting, Stage, TypeOK
    <3>2. QED
      BY ZenonT(30), <1>5, <1>11, <3>1 DEF Collect
  <2>3. QED
    BY ZenonT(30), <2>1, <2>2
<1>12. ASSUME NEW j \in Keys, SourceGone(j) PROVE Goal
  BY ZenonT(30), <1>4, <1>12 DEF SourceGone
<1>13. ASSUME NEW j \in Keys, RemovePayload(j) PROVE Goal
  <2>1. want' = want /\ sy' = sy /\ master' = master /\ todo' = todo /\ Due' = Due
    BY ZenonT(30), <1>13 DEF RemovePayload, Due
  <2>2. sy.pc # "idle" /\ k \in Steady /\ Published(k) => Published(k)'
    BY ZenonT(30), RemoteStep
  <2>3. CASE j = k
    <3>1. up[k] = "sent" /\ up'[k] = "bare"
      BY ZenonT(30), <1>1, <1>13, <2>3 DEF RemovePayload, Stage, TypeOK
    <3>2. QED
      BY ZenonT(30), <1>2, <2>1, <2>2, <3>1
  <2>4. CASE j # k
    <3>1. up'[k] = up[k] /\ payload'[k] = payload[k]
      BY ZenonT(30), <1>1, <1>13, <2>4 DEF RemovePayload, Stage, TypeOK
    <3>2. Source(k)' = Source(k)
      BY ZenonT(30), <2>1, <3>1 DEF Source
    <3>3. QED
      BY ZenonT(30), <1>2, <2>1, <2>2, <3>1, <3>2
  <2>5. QED
    BY ZenonT(30), <2>3, <2>4
<1>14. ASSUME NEW j \in Keys, RemoveItem(j) PROVE Goal
  <2>1. up'[k] = "none" \/ up'[k] = up[k]
    BY ZenonT(30), <1>1, <1>14 DEF RemoveItem, Stage, TypeOK
  <2>2. QED
    BY ZenonT(30), <1>2, <1>4, <1>5, <1>14, <2>1 DEF RemoveItem
<1>15. ASSUME NEW j \in Keys, RecordAttempt(j) PROVE Goal
  <2>1. CASE j = k
    BY ZenonT(30), <1>1, <1>4, <1>15, <2>1 DEF RecordAttempt, Stage, TypeOK
  <2>2. CASE j # k
    <3>1. up'[k] = up[k] /\ sy'.pc = sy.pc /\ sy'.phase = sy.phase /\ UNCHANGED <<want, payload, master, todo>>
      BY ZenonT(30), <1>1, <1>15, <2>2 DEF RecordAttempt, Stage, TypeOK
    <3>2. Source(k)' = Source(k) /\ Due' = Due
      BY ZenonT(30), <3>1 DEF Source, Due
    <3>3. sy.pc # "idle" /\ k \in Steady /\ Published(k) => Published(k)'
      BY ZenonT(30), RemoteStep
    <3>4. QED
      BY ZenonT(30), <1>2, <3>1, <3>2, <3>3
  <2>3. QED
    BY ZenonT(30), <2>1, <2>2
<1>16. ASSUME NEW chunk \in SUBSET Keys, TakeChunk(chunk) PROVE Goal
  <2>1. CASE k \in chunk
    BY ZenonT(30), <1>1, <1>16, <2>1 DEF TakeChunk
  <2>2. CASE k \notin chunk
    BY ZenonT(30), <1>1, <1>4, <1>16, <2>2 DEF TakeChunk, Quiet
  <2>3. QED
    BY ZenonT(30), <2>1, <2>2
<1>17. CASE StartDrain
  BY ZenonT(30), <1>1, <1>2, <1>3, <1>4, <1>17 DEF StartDrain, Goto, Stages, TypeOK
<1>18. CASE DrainFails \/ SyncFails
  BY ZenonT(30), <1>4, <1>18 DEF DrainFails, SyncFails, Drained, Quiet
<1>19. CASE JournalDone \/ Finish
  BY ZenonT(30), <1>4, <1>19 DEF JournalDone, Finish, Drained, Quiet
<1>20. CASE Start \/ Return
  BY ZenonT(30), <1>3, <1>4, <1>20 DEF Start, Return, Quiet
<1>21. CASE Abort
  BY ZenonT(30), <1>4, <1>21 DEF Abort
<1>22. ASSUME NEW j \in Keys, Upload(j) PROVE Goal
  <2>1. Puts({j})
    BY ZenonT(30), <1>1, <1>22, UploadsPut
  <2>2. UNCHANGED <<want, payload, master, sy, todo>>
    BY ZenonT(30), <2>1 DEF Puts
  <2>3. CASE j = k
    <3>1. up[k] = "ready" /\ up'[k] = "sent"
      BY ZenonT(30), <1>1, <1>22, <2>3 DEF Upload, Stage, TypeOK
    <3>2. ASSUME k \in Due' \cap Steady PROVE Published(k)'
      <4>1. Published(k) \/ Source(k) = want[k]
        BY ZenonT(30), <1>2, <2>2, <3>1, <3>2 DEF Due, SyncInv, Progress
      <4>2. QED
        BY ZenonT(30), <1>1, <2>1, <2>3, <3>2, <4>1, PutEffect DEF Puts, SyncInv
    <3>3. QED
      BY ZenonT(30), <1>2, <2>2, <3>1, <3>2
  <2>4. CASE j # k
    BY ZenonT(30), <1>1, <1>2, <1>5, <1>22, <2>2, <2>4 DEF Upload, Stage, TypeOK
  <2>5. QED
    BY ZenonT(30), <2>3, <2>4
<1>23. ASSUME NEW j \in Keys, UploadFails(j) PROVE Goal
  <2>1. UNCHANGED <<want, payload, master, sy, todo>>
    BY ZenonT(30), <1>23 DEF UploadFails
  <2>2. CASE j = k
    BY ZenonT(30), <1>1, <1>2, <1>23, <2>1, <2>2 DEF UploadFails, Stage, TypeOK
  <2>3. CASE j # k
    BY ZenonT(30), <1>1, <1>2, <1>5, <1>23, <2>1, <2>3 DEF UploadFails, Stage, TypeOK
  <2>4. QED
    BY ZenonT(30), <2>2, <2>3
<1>24. CASE SendBatch
  <2>1. Puts(At("ready"))
    BY ZenonT(30), <1>1, <1>24, UploadsPut
  <2>2. UNCHANGED <<want, payload, master, sy, todo>>
    BY ZenonT(30), <2>1 DEF Puts
  <2>3. CASE up[k] = "ready"
    <3>1. k \in At("ready") /\ up'[k] = "sent"
      BY ZenonT(30), <1>24, <2>3 DEF SendBatch, Move, At
    <3>2. ASSUME k \in Due' \cap Steady PROVE Published(k)'
      <4>1. Published(k) \/ Source(k) = want[k]
        BY ZenonT(30), <1>2, <2>2, <2>3, <3>2 DEF Due, SyncInv, Progress
      <4>2. QED
        BY ZenonT(30), <1>1, <2>1, <3>1, <3>2, <4>1, PutEffect DEF Puts, SyncInv
    <3>3. QED
      BY ZenonT(30), <1>2, <2>2, <2>3, <3>1, <3>2
  <2>4. CASE up[k] # "ready"
    BY ZenonT(30), <1>2, <1>5, <1>24, <2>2, <2>4 DEF SendBatch, Move
  <2>5. QED
    BY ZenonT(30), <2>3, <2>4
<1>25. CASE SendFails
  <2>1. UNCHANGED <<want, payload, master, sy, todo>>
    BY ZenonT(30), <1>25 DEF SendFails
  <2>2. CASE up[k] = "ready"
    BY ZenonT(30), <1>2, <1>25, <2>1, <2>2 DEF SendFails, Move
  <2>3. CASE up[k] # "ready"
    BY ZenonT(30), <1>2, <1>5, <1>25, <2>1, <2>3 DEF SendFails, Move
  <2>4. QED
    BY ZenonT(30), <2>2, <2>3
<1>26. QED
  BY ZenonT(30), <1>6, <1>7, <1>8, <1>9, <1>10, <1>11, <1>12, <1>13, <1>14, <1>15, <1>16, <1>17,
     <1>18, <1>19,
     <1>20, <1>21, <1>22, <1>23, <1>24, <1>25, Zenon DEF Next, Proceed, Attempt

-----------------------------------------------------------------------------
(* The phases *)

\* When a phase has drained the queue, its keys are published.
LEMMA DrainedPublishes ==
    SyncInv /\ Drained => Queued = {} /\ \A k \in Due \cap Steady : Published(k)
<1> SUFFICES ASSUME SyncInv, Drained PROVE Queued = {} /\ \A k \in Due \cap Steady : Published(k)
  BY ZenonT(30)
<1>1. Queued = {}
  BY ZenonT(30) DEF SyncInv, Covered, Drained, Quiet, Queued
<1>2. QED
  BY ZenonT(30), <1>1 DEF SyncInv, Progress, Drained, Queued, Due, Steady

\* A steady key without a version, with its version in the cache, or immutable
\* and in the remote, is published.
LEMMA NotNeeded ==
    ASSUME SyncInv, NEW k \in Steady
    PROVE  /\ want[k] = 0 => Published(k)
           /\ k \in Immutable /\ remote[k] # 0 => Published(k)
           /\ k \notin Journal /\ cache[k] = want[k] => Published(k)
<1>1. k \in Keys /\ remote[k] \in Nat /\ want[k] \in Nat
  BY ConstantsAssumption DEF SyncInv, TypeOK, Versions, Steady
<1>2. QED
  BY <1>1 DEF SyncInv, Bounded, Published

\* Every step keeps track of the keys that are still to be published.
LEMMA ProgressStep == SyncInv /\ Next => Progress'
<1> SUFFICES ASSUME SyncInv, Next, sy'.pc \in {"enqueue", "drain"}, NEW k \in Due' \cap Steady
             PROVE  \/ Published(k)'
                    \/ sy'.pc = "enqueue" /\ k \in todo'
                    \/ item'[k] # "none" /\ Source(k)' = want'[k]
  BY ZenonT(30) DEF Progress, Steady
<1> DEFINE Goal == \/ Published(k)'
                   \/ sy'.pc = "enqueue" /\ k \in todo'
                   \/ item'[k] # "none" /\ Source(k)' = want'[k]
<1> USE DEF queue
<1>1. TypeOK /\ StageInv /\ k \in Keys
  BY ZenonT(30) DEF SyncInv, Steady
<1>2. sy.pc # "idle" => want' = want /\ (Published(k) => Published(k)')
  BY ZenonT(30), RemoteStep
<1>3. ASSUME sy.pc \in {"enqueue", "drain"}, Due' = Due, Published(k) PROVE Goal
  BY ZenonT(30), <1>2, <1>3
<1>4. ASSUME sy.pc \in {"enqueue", "drain"}, sy'.pc = sy.pc, sy'.phase = sy.phase,
             sy.pc = "enqueue" /\ k \in todo => k \in todo',
             item[k] # "none" => item'[k] # "none", payload'[k] = payload[k]
      PROVE  Goal
  <2>1. \/ Published(k)
        \/ sy.pc = "enqueue" /\ k \in todo
        \/ item[k] # "none" /\ Source(k) = want[k]
    BY ZenonT(30), <1>4 DEF SyncInv, Progress, Due
  <2>2. Source(k)' = Source(k)
    BY ZenonT(30), <1>2, <1>4 DEF Source
  <2>3. QED
    BY ZenonT(30), <1>2, <1>4, <2>1, <2>2
<1>5. ASSUME NEW j \in Keys, WritePayload(j) PROVE Goal
  <2>1. CASE j = k
    BY ZenonT(30), <1>5, <2>1 DEF WritePayload
  <2>2. CASE j # k
    BY ZenonT(30), <1>1, <1>4, <1>5, <2>2 DEF WritePayload, TypeOK
  <2>3. QED
    BY ZenonT(30), <2>1, <2>2
<1>6. ASSUME NEW j \in Keys, WriteItem(j) PROVE Goal
  <2>1. CASE j = k
    <3>1. item'[k] # "none"
      BY ZenonT(30), <1>1, <1>6, <2>1 DEF WriteItem, TypeOK
    <3>2. Source(k)' = want'[k]
      BY ZenonT(30), <1>1, <1>6, <2>1 DEF WriteItem, Source, StageInv
    <3>3. QED
      BY ZenonT(30), <3>1, <3>2
  <2>2. CASE j # k
    BY ZenonT(30), <1>1, <1>4, <1>6, <2>2 DEF WriteItem, TypeOK
  <2>3. QED
    BY ZenonT(30), <2>1, <2>2
<1>7. ASSUME NEW j \in Keys, Skip(j) PROVE Goal
  <2>1. sy.pc = "drain" /\ Due' = Due
    BY ZenonT(30), <1>1, <1>7 DEF Skip, StageInv, Due
  <2>2. CASE j = k
    BY ZenonT(30), <1>3, <1>7, <2>1, <2>2 DEF Skip, Published
  <2>3. CASE j # k
    BY ZenonT(30), <1>1, <1>4, <1>7, <2>1, <2>3 DEF Skip, TypeOK
  <2>4. QED
    BY ZenonT(30), <2>2, <2>3
<1>8. ASSUME NEW j \in Keys, RemovePayload(j) PROVE Goal
  <2>1. sy.pc = "drain" /\ Due' = Due
    BY ZenonT(30), <1>1, <1>8 DEF RemovePayload, StageInv, Due
  <2>2. CASE j = k
    BY ZenonT(30), <1>1, <1>3, <1>8, <2>1, <2>2 DEF RemovePayload, StageInv
  <2>3. CASE j # k
    BY ZenonT(30), <1>1, <1>4, <1>8, <2>1, <2>3 DEF RemovePayload, TypeOK
  <2>4. QED
    BY ZenonT(30), <2>2, <2>3
<1>9. ASSUME NEW j \in Keys, RemoveItem(j) PROVE Goal
  <2>1. sy.pc = "drain" /\ Due' = Due
    BY ZenonT(30), <1>1, <1>9 DEF RemoveItem, StageInv, Due
  <2>2. CASE j = k
    BY ZenonT(30), <1>1, <1>3, <1>9, <2>1, <2>2 DEF RemoveItem, StageInv
  <2>3. CASE j # k
    BY ZenonT(30), <1>1, <1>4, <1>9, <2>1, <2>3 DEF RemoveItem, TypeOK
  <2>4. QED
    BY ZenonT(30), <2>2, <2>3
<1>10. ASSUME NEW j \in Keys, RecordAttempt(j) PROVE Goal
  <2>1. sy.pc = "drain" /\ sy'.pc = sy.pc /\ sy'.phase = sy.phase
    BY ZenonT(30), <1>1, <1>10 DEF RecordAttempt, StageInv, TypeOK
  <2>2. item[k] # "none" => item'[k] # "none"
    BY ZenonT(30), <1>1, <1>10 DEF RecordAttempt, TypeOK
  <2>3. QED
    BY ZenonT(30), <1>4, <1>10, <2>1, <2>2 DEF RecordAttempt
<1>11. ASSUME NEW j \in Keys, Upload(j) \/ UploadFails(j) PROVE Goal
  <2>1. sy.pc = "drain"
    BY ZenonT(30), <1>1, <1>11 DEF Upload, UploadFails, StageInv
  <2>2. UNCHANGED <<sy, item, payload>>
    BY ZenonT(30), <1>11 DEF Upload, UploadFails
  <2>3. QED
    BY ZenonT(30), <1>4, <2>1, <2>2
<1>12. CASE SendBatch \/ SendFails
  <2>1. sy.pc = "drain"
    BY ZenonT(30), <1>12 DEF SendBatch, SendFails, BatchComplete, Collecting
  <2>2. UNCHANGED <<sy, item, payload>>
    BY ZenonT(30), <1>12 DEF SendBatch, SendFails
  <2>3. QED
    BY ZenonT(30), <1>4, <2>1, <2>2
<1>13. ASSUME NEW j \in Keys, Collect(j) PROVE Goal
  BY ZenonT(30), <1>4, <1>13 DEF Collect, Collecting
<1>14. ASSUME NEW chunk \in SUBSET Keys, TakeChunk(chunk) PROVE Goal
  BY ZenonT(30), <1>4, <1>14 DEF TakeChunk
<1>15. CASE StartDrain
  <2>1. Due' = Due /\ UNCHANGED <<item, payload, want, remote>>
    BY ZenonT(30), <1>1, <1>15 DEF StartDrain, Goto, Due, TypeOK
  <2>2. Published(k) \/ (item[k] # "none" /\ Source(k) = want[k])
    BY ZenonT(30), <1>15, <2>1 DEF StartDrain, SyncInv, Progress
  <2>3. Source(k)' = Source(k)
    BY ZenonT(30), <2>1 DEF Source
  <2>4. QED
    BY ZenonT(30), <1>2, <1>15, <2>1, <2>2, <2>3 DEF StartDrain
<1>16. CASE Start
  <2>1. k \in Journal /\ UNCHANGED <<want, remote>> /\ sy'.pc = "enqueue"
    BY ZenonT(30), <1>16 DEF Start, Due
  <2>2. Published(k)' = Published(k)
    BY ZenonT(30), <2>1 DEF Published, Skippable
  <2>3. CASE k \in acked \/ want[k] = 0
    BY ZenonT(30), <2>1, <2>2, <2>3, NotNeeded, ConstantsAssumption DEF SyncInv, AckedHeld
  <2>4. CASE k \notin acked /\ want[k] # 0
    BY ZenonT(30), <1>16, <2>1, <2>4 DEF Start
  <2>5. QED
    BY ZenonT(30), <2>3, <2>4
<1>17. CASE JournalDone
  <2>1. Drained /\ sy.phase = 1 /\ UNCHANGED <<want, remote>>
    BY ZenonT(30), <1>17 DEF JournalDone
  <2>2. Published(k)' = Published(k)
    BY ZenonT(30), <2>1 DEF Published, Skippable
  <2>3. Queued = {} /\ item[k] = "none"
    BY ZenonT(30), <1>1, <2>1, DrainedPublishes DEF Queued
  <2>4. CASE k \in Journal
    BY ZenonT(30), <2>1, <2>2, <2>4, DrainedPublishes DEF Due
  <2>5. CASE k \notin Journal
    <3>1. ~(Goto("done") /\ todo' = {})
      BY ZenonT(30), <1>1 DEF Goto, TypeOK
    <3>2. PICK listed \in BOOLEAN : todo' = {x \in Keys \ Journal : Needed(x, listed)}
      BY <1>17, <3>1, Zenon DEF JournalDone
    <3>3. sy'.pc = "enqueue"
      BY <1>17, <3>1 DEF JournalDone
    <3>4. CASE Needed(k, listed)
      BY ZenonT(30), <1>1, <2>5, <3>2, <3>3, <3>4
    <3>5. CASE ~Needed(k, listed)
      BY ZenonT(30), <2>2, <2>3, <2>5, <3>5, NotNeeded DEF Needed
    <3>6. QED
      BY ZenonT(30), <3>4, <3>5
  <2>6. QED
    BY ZenonT(30), <2>4, <2>5
<1>18. ASSUME NEW j \in Keys, RetryElapses(j) \/ SourceGone(j) \/ \E v \in Versions : LocalChange(j, v)
       PROVE  FALSE
  BY ZenonT(30), <1>1, <1>18 DEF RetryElapses, SourceGone, LocalChange, Goto, TypeOK
<1>19. CASE DrainFails \/ Return \/ Finish \/ SyncFails \/ Abort
  BY ZenonT(30), <1>1, <1>19 DEF DrainFails, Return, Finish, SyncFails, Abort, Goto, TypeOK
<1>20. QED
  BY ZenonT(30), <1>5, <1>6, <1>7, <1>8, <1>9, <1>10, <1>11, <1>12, <1>13, <1>14, <1>15, <1>16,
     <1>17, <1>18, <1>19,
     Zenon DEF Next, Proceed, Attempt

\* No step makes a drain lose an item of the queue.
LEMMA CoveredStep == SyncInv /\ Next => Covered'
<1> SUFFICES ASSUME SyncInv, Next, sy'.pc = "drain", ~sy'.err, NEW k \in Keys, item'[k] # "none"
             PROVE  k \in todo' \/ up'[k] \in {"ready", "sent", "bare", "failed"}
  BY ZenonT(30) DEF Covered, Queued
<1> DEFINE Goal == k \in todo' \/ up'[k] \in {"ready", "sent", "bare", "failed"}
<1> USE DEF queue
<1>1. TypeOK /\ StageInv
  BY ZenonT(30) DEF SyncInv
<1>2. sy.pc = "drain" /\ ~sy.err /\ item[k] # "none"
        => k \in todo \/ up[k] \in {"ready", "sent", "bare", "failed"}
  BY ZenonT(30) DEF SyncInv, Covered, Queued
<1>3. ASSUME NEW j \in Keys, Skip(j) \/ RemoveItem(j) PROVE Goal
  <2>1. j # k
    BY ZenonT(30), <1>1, <1>3 DEF Skip, RemoveItem, TypeOK
  <2>2. up'[k] = up[k] /\ item'[k] = item[k] /\ todo' = todo /\ sy' = sy
    BY ZenonT(30), <1>1, <1>3, <2>1 DEF Skip, RemoveItem, Stage, TypeOK
  <2>3. QED
    BY ZenonT(30), <1>2, <2>2
<1>4. ASSUME NEW j \in Keys, RemovePayload(j) \/ Upload(j) \/ UploadFails(j) PROVE Goal
  <2>1. up'[k] = up[k] \/ up'[k] \in {"bare", "sent", "failed"}
    BY ZenonT(30), <1>1, <1>4 DEF RemovePayload, Upload, UploadFails, Stage, TypeOK
  <2>2. UNCHANGED <<item, todo, sy>>
    BY ZenonT(30), <1>4 DEF RemovePayload, Upload, UploadFails
  <2>3. QED
    BY ZenonT(30), <1>2, <2>1, <2>2
<1>5. CASE SendBatch \/ SendFails
  <2>1. up'[k] = up[k] \/ up'[k] \in {"sent", "failed"}
    BY ZenonT(30), <1>5 DEF SendBatch, SendFails, Move
  <2>2. UNCHANGED <<item, todo, sy>>
    BY ZenonT(30), <1>5 DEF SendBatch, SendFails
  <2>3. QED
    BY ZenonT(30), <1>2, <2>1, <2>2
<1>6. ASSUME NEW j \in Keys, Collect(j) PROVE Goal
  <2>1. CASE j = k
    BY ZenonT(30), <1>1, <1>6, <2>1 DEF Collect, Stage, TypeOK
  <2>2. CASE j # k
    BY ZenonT(30), <1>1, <1>2, <1>6, <2>2 DEF Collect, Stage, TypeOK
  <2>3. QED
    BY ZenonT(30), <2>1, <2>2
<1>7. ASSUME NEW chunk \in SUBSET Keys, TakeChunk(chunk) PROVE Goal
  BY ZenonT(30), <1>2, <1>7 DEF TakeChunk
<1>8. CASE StartDrain
  BY ZenonT(30), <1>8 DEF StartDrain, Queued
<1>9. ASSUME NEW j \in Keys, RecordAttempt(j) PROVE FALSE
  BY ZenonT(30), <1>1, <1>9 DEF RecordAttempt, TypeOK
<1>10. ASSUME NEW j \in Keys, \/ RetryElapses(j) \/ SourceGone(j) \/ WritePayload(j) \/ WriteItem(j)
                              \/ \E v \in Versions : LocalChange(j, v)
       PROVE  FALSE
  BY ZenonT(30), <1>1, <1>10 DEF RetryElapses, SourceGone, WritePayload, WriteItem, LocalChange,
     Goto, TypeOK
<1>11. CASE Start \/ DrainFails \/ Return \/ Finish \/ SyncFails \/ Abort
  BY <1>1, <1>11 DEF Start, DrainFails, Return, Finish, SyncFails, Abort, Goto, TypeOK
<1>12. CASE JournalDone
  BY <1>1, <1>12 DEF JournalDone, Goto, TypeOK
<1>13. QED
  BY <1>3, <1>4, <1>5, <1>6, <1>7, <1>8, <1>9, <1>10, <1>11, <1>12, Zenon DEF Next, Proceed, Attempt

\* A sync gets to its end only with every key published.
LEMMA SyncedStep == SyncInv /\ Next => SyncedIsPublished'
<1> SUFFICES ASSUME SyncInv, Next, sy'.pc = "done", NEW k \in Steady PROVE Published(k)'
  BY ZenonT(30) DEF SyncedIsPublished, Steady
<1> USE DEF queue
<1>1. TypeOK /\ k \in Keys /\ (sy.pc = "done" => Published(k))
  BY ZenonT(30) DEF SyncInv, SyncedIsPublished, Steady
<1>2. sy.pc = "done" => Published(k)'
  BY ZenonT(30), <1>1, RemoteStep
<1>3. CASE JournalDone
  <2>1. Published(k)' = Published(k)
    BY ZenonT(30), <1>3 DEF JournalDone, Published, Skippable
  <2>2. Unchanged
    BY <1>3 DEF JournalDone
  <2>3. CASE k \in Journal
    BY ZenonT(30), <1>3, <2>1, <2>3, DrainedPublishes DEF JournalDone, Due
  <2>4. CASE k \notin Journal
    BY ZenonT(30), <1>1, <2>1, <2>2, <2>4, NotNeeded DEF Unchanged
  <2>5. QED
    BY ZenonT(30), <2>3, <2>4
<1>4. CASE Finish
  <2>1. Published(k)' = Published(k)
    BY ZenonT(30), <1>4 DEF Finish, Published, Skippable
  <2>2. QED
    BY <1>1, <1>4, <2>1, DrainedPublishes DEF Finish, Due
<1>5. ASSUME NEW j \in Keys, \/ RetryElapses(j) \/ WritePayload(j) \/ WriteItem(j) \/ Skip(j) \/ Collect(j)
                             \/ RemovePayload(j) \/ RemoveItem(j) \/ Upload(j) \/ UploadFails(j)
                             \/ \E v \in Versions : LocalChange(j, v)
      PROVE  sy' = sy
  BY <1>5, Zenon DEF RetryElapses, WritePayload, WriteItem, Skip, Collect, RemovePayload,
     RemoveItem,
                     Upload, UploadFails, LocalChange
<1>6. ASSUME NEW j \in Keys, RecordAttempt(j) \/ SourceGone(j) PROVE sy.pc = "done"
  BY ZenonT(30), <1>1, <1>6 DEF RecordAttempt, SourceGone, Goto, TypeOK
<1>7. ASSUME NEW chunk \in SUBSET Keys, TakeChunk(chunk) PROVE sy' = sy
  BY ZenonT(30), <1>7 DEF TakeChunk
<1>8. CASE SendBatch \/ SendFails
  BY ZenonT(30), <1>2, <1>8 DEF SendBatch, SendFails
<1>9. CASE Start \/ StartDrain \/ DrainFails \/ Return \/ SyncFails \/ Abort
  BY <1>1, <1>9 DEF Start, StartDrain, DrainFails, Return, SyncFails, Abort, Goto, TypeOK
<1>10. QED
  BY <1>2, <1>3, <1>4, <1>5, <1>6, <1>7, <1>8, <1>9, Zenon DEF Next, Proceed, Attempt

-----------------------------------------------------------------------------
(* The theorems *)

\* The invariant holds in the beginning and after every step.
LEMMA SyncInvariant == Spec => []SyncInv
<1>1. Init => SyncInv
  <2> SUFFICES ASSUME Init PROVE SyncInv
    BY ZenonT(30)
  <2>1. TypeOK
    <3>1. want \in [Keys -> Versions] /\ payload \in [Keys -> Versions]
      BY ConstantsAssumption DEF Init, Versions
    <3>2. remote \in [Keys -> Versions] /\ cache \in [Keys -> Versions]
      BY ConstantsAssumption DEF Init, Versions
    <3>3. item \in [Keys -> {"none", "due", "delayed"}] /\ up \in [Keys -> Stages]
      BY ZenonT(30) DEF Init, Stages
    <3>4. sy \in [pc : {"idle", "enqueue", "drain", "done"}, phase : 1..2, err : BOOLEAN]
      BY DEF Init
    <3>5. acked \subseteq Journal /\ todo \subseteq Keys /\ aborts \in Nat
      BY ZenonT(30) DEF Init
    <3>6. master \in BOOLEAN
      BY Zenon DEF Init
    <3>7. QED
      BY ZenonT(30), <3>1, <3>2, <3>3, <3>4, <3>5, <3>6 DEF TypeOK
  <2>2. Bounded
    BY ConstantsAssumption DEF Init, Bounded, Steady, Published
  <2>3. AckedHeld /\ StageInv
    BY ZenonT(30) DEF Init, AckedHeld, StageInv
  <2>4. Progress /\ Covered /\ SyncedIsPublished
    BY ZenonT(30) DEF Init, Progress, Covered, SyncedIsPublished
  <2>5. QED
    BY ZenonT(30), <2>1, <2>2, <2>3, <2>4 DEF SyncInv
<1>2. SyncInv /\ [Next]_vars => SyncInv'
  <2>1. ASSUME SyncInv, Next PROVE SyncInv'
    <3>1. TypeOK'
      BY ZenonT(30), <2>1, TypeStep DEF SyncInv
    <3>2. QED
      BY ZenonT(30), <2>1, <3>1, BoundedStep, AckedStep, StageStep, ProgressStep, CoveredStep,
         SyncedStep DEF SyncInv
  <2>2. ASSUME SyncInv, UNCHANGED vars PROVE SyncInv'
    <3>0. /\ UNCHANGED <<want, payload, item, remote, cache, acked, sy, todo, up, master, aborts>>
          /\ UNCHANGED <<Due, Queued>>
          /\ \A k : UNCHANGED <<Published(k), Source(k)>>
      BY ZenonT(30), <2>2 DEF vars, queue, Published, Skippable, Source, Due, Queued
    <3>1. TypeOK' /\ Bounded' /\ AckedHeld'
      BY ZenonT(30), <2>2, <3>0 DEF SyncInv, TypeOK, Bounded, AckedHeld
    <3>2. StageInv' /\ Covered'
      BY ZenonT(30), <2>2, <3>0 DEF SyncInv, StageInv, Covered
    <3>3. Progress' /\ SyncedIsPublished'
      BY ZenonT(30), <2>2, <3>0 DEF SyncInv, Progress, SyncedIsPublished
    <3>4. QED
      BY ZenonT(30), <3>1, <3>2, <3>3 DEF SyncInv
  <2>3. QED
    BY ZenonT(30), <2>1, <2>2
<1>3. QED
  BY <1>1, <1>2, PTL DEF Spec

\* Every variable keeps its type.
THEOREM SyncTypeCorrect == Spec => []TypeOK
<1>1. SyncInv => TypeOK
  BY ZenonT(30) DEF SyncInv
<1>2. QED
  BY <1>1, SyncInvariant, PTL

\* A sync that reports success has put every version of the host's state into
\* the remote, whatever failing, killed and repeated syncs went before it, for
\* every key that does not go back to an earlier version (sync_configured_remote,
\* enqueue_and_drain_sync, drain_upload_queue).
THEOREM SyncPublishesState == Spec => []SyncedIsPublished
<1>1. SyncInv => SyncedIsPublished
  BY ZenonT(30) DEF SyncInv
<1>2. QED
  BY <1>1, SyncInvariant, PTL

\* A version reaches the remote only when everything of a lower priority that is
\* queued has reached it, also what an earlier sync that failed or was killed has
\* queued: no ref overtakes its content (drain_upload_queue,
\* drain_upload_queue_via_master).
THEOREM RefsFollow == Spec => RefsFollowContent
<1> DEFINE Follows == \A k, j \in Keys :
             remote'[k] # remote[k] /\ PriorityOf[j] < PriorityOf[k] /\ item[j] # "none"
               => remote'[j] # 0 /\ remote'[j] >= Source(j)
<1>1. Init => Ordered
  BY ZenonT(30) DEF Init, Ordered, InHand
<1>2. SyncInv /\ Ordered /\ [Next]_vars => Ordered'
  <2>1. ASSUME Ordered, UNCHANGED vars PROVE Ordered'
    BY ZenonT(30), <2>1 DEF Ordered, vars, queue
  <2>2. QED
    BY ZenonT(30), <2>1, OrderedStep
<1>3. SyncInv /\ Ordered /\ [Next]_vars => [Follows]_vars
  BY ZenonT(30), UploadOrder
<1>4. QED
  BY <1>1, <1>2, <1>3, SyncInvariant, PTL DEF Spec, RefsFollowContent

-----------------------------------------------------------------------------
(* The lock *)

\* Only a writer has the file at the path open.  As long as no file was
\* broken, the file is the one its writer opened or names its holder.
OwnFile ==
    /\ \A p \in fd : pc[p] = "write"
    /\ ~broken => \A p \in Procs : /\ pc[p] = "write" => lock = Unreadable /\ fd = {p}
                                   /\ pc[p] = "held" => lock = p

\* A latecomer has only looked, and what it read is the owner's pid.
LateOnlyLooks ==
    \A p \in late : /\ Settled # {}
                    /\ pc[p] \in {"idle", "read", "check", "o_read", "o_check", "dead"}
                    /\ pc[p] \in {"check", "o_check"} => saw[p] = lock

LockInv == LockTypeOK /\ OwnFile /\ LateOnlyLooks

\* The variables keep their types in a step of any process.
LEMMA LockTypeStep == ASSUME LockTypeOK, LockNext PROVE LockTypeOK'
<1>. USE LockConstants
<1>1. PICK p \in Procs : LockStep(p)
  BY ZenonT(30) DEF LockNext
<1>2. late' \subseteq Procs
  BY ZenonT(30) DEF LockNext, Observe
<1>3. CASE Open(p)
  BY <1>2, <1>3 DEF LockTypeOK, Open, GoTo, Pcs
<1>4. CASE ReadOwner(p)
  BY ZenonT(30), <1>2, <1>4 DEF LockTypeOK, ReadOwner, GoTo, Pcs
<1>5. CASE CheckOwner(p)
  BY ZenonT(30), <1>2, <1>5 DEF LockTypeOK, CheckOwner, GoTo, Pcs
<1>6. CASE Remove(p)
  BY ZenonT(30), <1>2, <1>6 DEF LockTypeOK, Remove, GoTo, Pcs
<1>7. CASE Create(p)
  BY ZenonT(30), <1>2, <1>7 DEF LockTypeOK, Create, GoTo, Pcs
<1>8. CASE WritePid(p)
  BY ZenonT(30), <1>2, <1>8 DEF LockTypeOK, WritePid, GoTo, Pcs
<1>9. CASE WriteFails(p)
  BY <1>2, <1>9 DEF LockTypeOK, WriteFails, GoTo, Pcs
<1>10. CASE Release(p)
  BY ZenonT(30), <1>2, <1>10 DEF LockTypeOK, Release, GoTo, Pcs
<1>11. CASE AskOwner(p)
  BY ZenonT(30), <1>2, <1>11 DEF LockTypeOK, AskOwner, GoTo, Pcs
<1>12. CASE AnswerOwner(p)
  BY ZenonT(30), <1>2, <1>12 DEF LockTypeOK, AnswerOwner, GoTo, Pcs
<1>13. CASE RemoveStale(p)
  BY ZenonT(30), <1>2, <1>13 DEF LockTypeOK, RemoveStale, GoTo, Pcs
<1>14. CASE Die(p)
  BY <1>2, <1>14 DEF LockTypeOK, Die, GoTo, Pcs
<1>15. CASE Reuse(p)
  BY ZenonT(30), <1>2, <1>15 DEF LockTypeOK, Reuse, GoTo, Pcs
<1>16. CASE ClearOwn(p)
  BY ZenonT(30), <1>2, <1>16 DEF LockTypeOK, ClearOwn, GoTo, Pcs
<1>. QED
  BY ZenonT(30), <1>1, <1>3, <1>4, <1>5, <1>6, <1>7, <1>8, <1>9, <1>10, <1>11, <1>12, <1>13, <1>14,
     <1>15, <1>16 DEF LockStep, Acquire

\* create_new, release and death keep the file its owner's; removing or
\* truncating one that is there is what broken records.
LEMMA OwnFileStep == ASSUME LockTypeOK, OwnFile, LockNext PROVE OwnFile'
<1>. USE LockConstants
<1>1. PICK p \in Procs : LockStep(p)
  BY ZenonT(30) DEF LockNext
<1>3. CASE Open(p)
  BY <1>3 DEF LockTypeOK, OwnFile, Open, GoTo
<1>4. CASE ReadOwner(p)
  BY ZenonT(30), <1>4 DEF LockTypeOK, OwnFile, ReadOwner, GoTo
<1>5. CASE CheckOwner(p)
  BY ZenonT(30), <1>5 DEF LockTypeOK, OwnFile, CheckOwner, GoTo
<1>6. CASE Remove(p)
  BY ZenonT(30), <1>6 DEF LockTypeOK, OwnFile, Remove, GoTo
<1>7. CASE Create(p)
  <2>1. fd' = fd \cup {p} /\ lock' = Unreadable /\ pc' = [pc EXCEPT ![p] = "write"]
    BY ZenonT(30), <1>7 DEF Create, GoTo
  <2>2. \A q \in fd' : pc'[q] = "write"
    BY <2>1 DEF LockTypeOK, OwnFile
  <2>3. ASSUME ~broken' PROVE ~broken /\ lock = Absent
    BY ZenonT(30), <1>7, <2>3 DEF LockTypeOK, Create
  <2>4. ASSUME ~broken' PROVE (\A q \in Procs : pc[q] \notin {"write", "held"}) /\ fd = {}
    BY ZenonT(30), <2>3, <2>4 DEF LockTypeOK, OwnFile
  <2>. QED
    BY ZenonT(30), <2>1, <2>2, <2>3, <2>4 DEF LockTypeOK, OwnFile
<1>8. CASE WritePid(p)
  BY <1>8 DEF LockTypeOK, OwnFile, WritePid, GoTo
<1>9. CASE WriteFails(p)
  BY ZenonT(30), <1>9 DEF LockTypeOK, OwnFile, WriteFails, GoTo
<1>10. CASE Release(p)
  BY ZenonT(30), <1>10 DEF LockTypeOK, OwnFile, Release, GoTo
<1>11. CASE AskOwner(p)
  BY ZenonT(30), <1>11 DEF LockTypeOK, OwnFile, AskOwner, GoTo
<1>12. CASE AnswerOwner(p)
  BY ZenonT(30), <1>12 DEF LockTypeOK, OwnFile, AnswerOwner, GoTo
<1>13. CASE RemoveStale(p)
  BY ZenonT(30), <1>13 DEF LockTypeOK, OwnFile, RemoveStale, GoTo
<1>14. CASE Die(p)
  BY ZenonT(30), <1>14 DEF LockTypeOK, OwnFile, Die, GoTo
<1>15. CASE Reuse(p)
  BY ZenonT(30), <1>15 DEF LockTypeOK, OwnFile, Reuse, GoTo
<1>16. CASE ClearOwn(p)
  BY ZenonT(30), <1>16 DEF LockTypeOK, OwnFile, ClearOwn, GoTo
<1>. QED
  BY ZenonT(30), <1>1, <1>3, <1>4, <1>5, <1>6, <1>7, <1>8, <1>9, <1>10, <1>11, <1>12, <1>13, <1>14,
     <1>15, <1>16 DEF LockStep, Acquire

\* While the owner keeps its pid in the file, whoever looks finds it alive.
LEMMA LateStep == ASSUME LockTypeOK, LateOnlyLooks, LockNext PROVE LateOnlyLooks'
<1>. USE LockConstants
<1>1. PICK p \in Procs : LockStep(p)
  BY ZenonT(30) DEF LockNext
<1>. SUFFICES ASSUME NEW r \in late'
     PROVE /\ Settled' # {}
           /\ pc'[r] \in {"idle", "read", "check", "o_read", "o_check", "dead"}
           /\ pc'[r] \in {"check", "o_check"} => saw'[r] = lock'
  BY ZenonT(30) DEF LateOnlyLooks
<1>2. /\ r \in Procs /\ Settled' # {}
      /\ pc'[r] = "idle" \/ (lock' = lock /\ r \in late)
  BY ZenonT(30) DEF LockNext, Observe
<1>. SUFFICES ASSUME lock' = lock, r \in late
     PROVE /\ pc'[r] \in {"idle", "read", "check", "o_read", "o_check", "dead"}
           /\ pc'[r] \in {"check", "o_check"} => saw'[r] = lock'
  BY ZenonT(30), <1>2
<1>3. PICK o \in Procs : pc[o] = "held" /\ lock = o
  BY ZenonT(30) DEF LateOnlyLooks, Settled
<1>4. /\ pc[r] \in {"idle", "read", "check", "o_read", "o_check", "dead"}
      /\ pc[r] \in {"check", "o_check"} => saw[r] = lock
  BY ZenonT(30) DEF LateOnlyLooks
<1>5. /\ lock \in Procs /\ lock # Absent /\ lock # Unreadable
      /\ Alive(lock)
  BY ZenonT(30), <1>3 DEF Alive
<1>6. pc \in [Procs -> Pcs] /\ saw \in [Procs -> Procs \cup {Absent}]
  BY ZenonT(30) DEF LockTypeOK
<1>. USE <1>2, <1>4, <1>5, <1>6
<1>7. CASE r # p
  <2>1. pc'[r] = pc[r]
    BY ZenonT(30), <1>1, <1>7 DEF LockStep, Acquire, Open, ReadOwner, CheckOwner, Remove, Create,
       WritePid,
       WriteFails, Release, AskOwner, AnswerOwner, ClearOwn, RemoveStale, Die, Reuse, GoTo
  <2>2. saw'[r] = saw[r]
    BY ZenonT(30), <1>1, <1>7 DEF LockStep, Acquire, Open, ReadOwner, CheckOwner, Remove, Create,
       WritePid,
       WriteFails, Release, AskOwner, AnswerOwner, ClearOwn, RemoveStale, Die, Reuse
  <2>. QED
    BY ZenonT(30), <2>1, <2>2
<1>8. CASE r = p
  <2>1. CASE Open(p)
    BY ZenonT(30), <1>8, <2>1 DEF Open, GoTo
  <2>2. CASE ReadOwner(p)
    BY ZenonT(30), <1>8, <2>2 DEF ReadOwner, GoTo
  <2>3. CASE CheckOwner(p)
    BY ZenonT(30), <1>8, <2>3 DEF CheckOwner, OwnerAlive, GoTo
  <2>4. CASE AskOwner(p)
    BY ZenonT(30), <1>8, <2>4 DEF AskOwner, GoTo
  <2>5. CASE AnswerOwner(p)
    BY ZenonT(30), <1>8, <2>5 DEF AnswerOwner, OwnerAlive, GoTo
  <2>6. CASE ClearOwn(p)
    BY ZenonT(30), <1>3, <1>8, <2>6 DEF ClearOwn
  <2>. QED
    BY ZenonT(30), <1>1, <1>8, <2>1, <2>2, <2>3, <2>4, <2>5, <2>6 DEF LockStep, Acquire, Remove,
       Create, WritePid,
       WriteFails, Release, RemoveStale, Die, Reuse, GoTo
<1>. QED
  BY ZenonT(30), <1>7, <1>8

\* The invariant holds initially and every step keeps it.
LEMMA LockInvariant == LockSpec => []LockInv
<1>1. LockInit => LockInv
  <2>. SUFFICES ASSUME LockInit PROVE LockInv
    BY ZenonT(30)
  <2>1. LockTypeOK
    BY ZenonT(30), LockConstants DEF LockInit, LockTypeOK, Pcs
  <2>2. OwnFile
    BY ZenonT(30) DEF LockInit, OwnFile
  <2>3. LateOnlyLooks
    BY ZenonT(30) DEF LockInit, LateOnlyLooks
  <2>. QED
    BY ZenonT(30), <2>1, <2>2, <2>3 DEF LockInv
<1>2. LockInv /\ [LockNext]_lockVars => LockInv'
  <2>. SUFFICES ASSUME LockInv, [LockNext]_lockVars PROVE LockInv'
    BY ZenonT(30)
  <2>1. CASE LockNext
    BY ZenonT(30), <2>1, LockTypeStep, OwnFileStep, LateStep DEF LockInv
  <2>2. CASE UNCHANGED lockVars
    BY <2>2, Zenon DEF LockInv, lockVars, LockTypeOK, OwnFile, LateOnlyLooks, Settled
  <2>. QED
    BY ZenonT(30), <2>1, <2>2
<1>. QED
  BY <1>1, <1>2, PTL DEF LockSpec

\* Every reachable state of the lock protocol is well typed.
THEOREM LockTypeCorrect == LockSpec => []LockTypeOK
<1>1. LockInv => LockTypeOK
  BY ZenonT(30) DEF LockInv
<1>. QED
  BY <1>1, LockInvariant, PTL

\* acquire_process_lock is exclusive among any number of processes, through any
\* number of deaths and failing writes, until a file taken for stale is replaced.
THEOREM LockExclusive == LockSpec => []ExclusiveUnlessBroken
<1>1. LockInv => ExclusiveUnlessBroken
  BY ZenonT(30) DEF LockInv, OwnFile, ExclusiveUnlessBroken
<1>. QED
  BY <1>1, LockInvariant, PTL

\* A process that comes while the file names a living owner neither removes the
\* file nor takes the lock, for any number of processes, broken files or not.
THEOREM LockHonoured == LockSpec => []OwnerIsHonoured
<1>1. LockInv => OwnerIsHonoured
  BY ZenonT(30) DEF LockInv, LateOnlyLooks, OwnerIsHonoured
<1>. QED
  BY <1>1, LockInvariant, PTL

=============================================================================
