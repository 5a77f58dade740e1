----------------------------- MODULE MCProgress -----------------------------
(***************************************************************************)
(* The process lock and the sync pipeline, each on its own, on instances   *)
(* small enough for their liveness properties.  part says which of the two *)
(* a behaviour is about; the other rests in a state in which none of its   *)
(* fair steps is enabled.                                                  *)
(***************************************************************************)
EXTENDS ProcessLock, SyncPipeline

CONSTANTS p1, p2,      \* processes of the lock
          a, c, r      \* keys of the sync: a journal event, an object, a head

VARIABLE part

-----------------------------------------------------------------------------
(* The instance of the sync: c has the canonical alias a, r refers to c *)

Events == {a}
Content == {a, c}
Payloads == {r}
Priority == [k \in Keys |-> IF k = r THEN 3 ELSE 1]
Alias == [k \in Keys |-> IF k = c THEN a ELSE k]
Referents == [k \in Keys |-> IF k = r THEN {c} ELSE {}]

-----------------------------------------------------------------------------

LockRests ==
    /\ lock = Absent /\ fd = {} /\ broken = FALSE /\ faults = 0 /\ late = {}
    /\ pc = [p \in Procs |-> "dead"] /\ saw = [p \in Procs |-> Absent]

SyncRests ==
    /\ want = [k \in Keys |-> 1] /\ remote = want /\ cache = want
    /\ item = [k \in Keys |-> "none"] /\ payload = [k \in Keys |-> 0]
    /\ acked = {} /\ master = FALSE /\ todo = {} /\ aborts = 0
    /\ sy = [pc |-> "drain", phase |-> 1, err |-> TRUE]
    /\ up = [k \in Keys |-> "staged"]

ProgressInit ==
    \/ part = "lock" /\ LockInit /\ SyncRests
    \/ part = "sync" /\ LockRests /\ Init

ProgressNext ==
    \/ part = "lock" /\ LockNext /\ UNCHANGED <<part, vars>>
    \/ part = "sync" /\ Next /\ UNCHANGED <<part, lockVars>>

progressVars == <<part, lockVars, vars>>

ProgressSpec == /\ ProgressInit /\ [][ProgressNext]_progressVars
                /\ LockFairness /\ Fairness
=============================================================================
