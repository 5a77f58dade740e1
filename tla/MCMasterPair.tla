---------------------------- MODULE MCMasterPair ----------------------------
(***************************************************************************)
(* Two more instances of ClusterMaster for TLC, explored in one run: part  *)
(* says which one a behaviour belongs to.                                  *)
(*  - "legacy": a content-addressed key and a ref, batches of two, and     *)
(*    whatever an older version of the master may have left in the store   *)
(*    and the backend, with one crash or failing write;                    *)
(*  - "reads": one ref with two contents, a client that reads it all the   *)
(*    time, an operator who flushes, an object of an older version in the  *)
(*    backend, and no fault.                                               *)
(***************************************************************************)
EXTENDS Naturals

CONSTANTS a, r, v1, v2, h1, None

VARIABLES part, store, queue, intent, receipt, tomb, flush, migrated, backend, cs, wk, snap, up,
          gcq, rd, enq, pub, seen, stale, faults

Legacy == INSTANCE ClusterMaster WITH
    Keys <- {a, r}, Vals <- {v1}, Hosts <- {h1}, Immutable <- {a},
    HostOf <- [k \in {a, r} |-> h1], PriorityOf <- [k \in {a, r} |-> IF k = a THEN 1 ELSE 3],
    InitStore <- {None, v1}, InitBackend <- {None, v1}, Readable <- {}, WithFlush <- FALSE,
    MaxObjects <- 2, DedupeMin <- 1, Quota <- 5, MaxBatch <- 2, MaxEnq <- 2, MaxFaults <- 1

Reads == INSTANCE ClusterMaster WITH
    Keys <- {r}, Vals <- {v1, v2}, Hosts <- {h1}, Immutable <- {},
    HostOf <- [k \in {r} |-> h1], PriorityOf <- [k \in {r} |-> 3],
    InitStore <- {None}, InitBackend <- {None, v1}, Readable <- {r}, WithFlush <- TRUE,
    MaxObjects <- 2, DedupeMin <- 1, Quota <- 5, MaxBatch <- 1, MaxEnq <- 2, MaxFaults <- 0

PairInit ==
    \/ part = "legacy" /\ Legacy!Init
    \/ part = "reads" /\ Reads!Init

PairNext ==
    \/ part = "legacy" /\ UNCHANGED part /\ Legacy!Next
    \/ part = "reads" /\ UNCHANGED part /\ Reads!Next

pairVars == <<part, store, queue, intent, receipt, tomb, flush, migrated, backend, cs, wk, snap,
              up, gcq, rd, enq, pub, seen, stale, faults>>
PairSpec == PairInit /\ [][PairNext]_pairVars

-----------------------------------------------------------------------------

\* A ref never overtakes the content queued before it: the worker publishes a tier only when
\* the earlier tiers of the queue it listed are in the backend (publish_backend_queue).
RefsFollowContent == [][part = "legacy" => Legacy!RefsFollowStep]_pairVars

\* With objects of an older version on disk, and with readers that fill the store, too,
\* what is shown from the store is in the backend or on its way there (process_puts,
\* reconcile_legacy_backend_queue, master_get_optional).
LiveIsProtected ==
    /\ part = "legacy" => Legacy!LiveIsProtected
    /\ part = "reads" => Reads!LiveIsProtected

\* A GET, which takes no lock and reads four places one after the other, answers with a
\* content the key had at some time during the read (master_get_optional).
GetIsRegular == part = "reads" => Reads!GetIsRegular
=============================================================================
