---------------------------- MODULE ProcessLock ----------------------------
(***************************************************************************)
(* acquire_process_lock and process_lock_owner of                          *)
(* src/src/process_runtime.rs: a lock file that names the pid of its       *)
(* owner, taken over when the owner is no longer alive.  It serialises     *)
(* sync, snapshot, prune, gc and the daemon.                               *)
(*                                                                         *)
(* Opening the file, reading it, asking for the pid, removing, creating    *)
(* and writing are steps of their own.                                     *)
(***************************************************************************)
EXTENDS Naturals

CONSTANTS
    Procs,      \* processes, named by their pids
    Absent,     \* no file at the path
    Unreadable, \* a file without a pid: still empty, or overwritten in part
    MaxFaults   \* bound: processes that die, and failing writes

ASSUME LockConstants ==
    /\ Absent \notin Procs /\ Unreadable \notin Procs /\ Absent # Unreadable
    /\ MaxFaults \in Nat

VARIABLES
    lock,    \* what is at the path: Absent, Unreadable or a pid
    fd,      \* processes whose open file is the one at the path
    pc,      \* where each process is
    saw,     \* the pid a process read, or Absent for none
    broken,  \* history: a file that was at the path was removed or truncated
             \* by a process that did not hold the lock
    late,    \* history: the processes that have been idle since the present
             \* owner had its pid in the file
    faults   \* processes that died and writes that failed so far

lockVars == <<lock, fd, pc, saw, broken, late, faults>>

Pcs == {"idle", "read", "check", "remove", "create", "write", "held",
        "o_read", "o_check", "o_remove", "dead"}

Alive(p) == pc[p] # "dead"
GoTo(p, to) == pc' = [pc EXCEPT ![p] = to]

-----------------------------------------------------------------------------
(* acquire_process_lock *)

\* Fault: create instead of create_new, which takes a file that is there.
OpenExisting(p) ==
    /\ pc[p] = "idle"
    /\ lock' = Unreadable /\ fd' = fd \cup {p} /\ GoTo(p, "write")
    /\ UNCHANGED <<saw, broken, faults>>

\* create_new succeeds for one process only.
Open(p) ==
    /\ pc[p] = "idle"
    /\ IF lock = Absent
       THEN lock' = Unreadable /\ fd' = {p} /\ GoTo(p, "write")
       ELSE GoTo(p, "read") /\ UNCHANGED <<lock, fd>>
    /\ UNCHANGED <<saw, broken, faults>>

\* An absent or unreadable file has no owner.
ReadOwner(p) ==
    /\ pc[p] \in {"read", "o_read"}
    /\ saw' = [saw EXCEPT ![p] = IF lock \in Procs THEN lock ELSE Absent]
    /\ GoTo(p, IF pc[p] = "read" THEN "check" ELSE "o_check")
    /\ UNCHANGED <<lock, fd, broken, faults>>

OwnerAlive(p) == saw[p] \in Procs /\ Alive(saw[p])

\* Fault: the pid is not looked at.
CheckOwnerAlways(p) ==
    /\ pc[p] = "check"
    /\ GoTo(p, "remove")
    /\ UNCHANGED <<lock, fd, saw, broken, faults>>

\* Fault: a file without a pid counts as owned.
CheckOwnerStrict(p) ==
    /\ pc[p] = "check"
    /\ GoTo(p, IF OwnerAlive(p) \/ saw[p] = Absent THEN "idle" ELSE "remove")
    /\ UNCHANGED <<lock, fd, saw, broken, faults>>

\* "already running", or the file is stale.
CheckOwner(p) ==
    /\ pc[p] = "check"
    /\ GoTo(p, IF OwnerAlive(p) THEN "idle" ELSE "remove")
    /\ UNCHANGED <<lock, fd, saw, broken, faults>>

Remove(p) ==
    /\ pc[p] = "remove"
    /\ lock' = Absent /\ fd' = {} /\ broken' = (broken \/ lock # Absent)
    /\ GoTo(p, "create")
    /\ UNCHANGED <<saw, faults>>

\* File::create truncates a file another process has put there meanwhile.
Create(p) ==
    /\ pc[p] = "create"
    /\ lock' = Unreadable /\ fd' = fd \cup {p} /\ broken' = (broken \/ lock # Absent)
    /\ GoTo(p, "write")
    /\ UNCHANGED <<saw, faults>>

\* The pid goes to the file that was opened, at the path or no longer there.
\* Over another pid in the same file it may leave a rest of it.
WritePid(p) ==
    /\ pc[p] = "write"
    /\ IF p \notin fd THEN UNCHANGED lock
       ELSE IF lock = Unreadable THEN lock' = p
       ELSE lock' \in {p, Unreadable}
    /\ fd' = fd \ {p}
    /\ GoTo(p, "held")
    /\ UNCHANGED <<saw, broken, faults>>

\* The write fails and so does the acquisition; the file stays.
WriteFails(p) ==
    /\ pc[p] = "write" /\ faults < MaxFaults
    /\ faults' = faults + 1 /\ fd' = fd \ {p}
    /\ GoTo(p, "idle")
    /\ UNCHANGED <<lock, saw, broken>>

\* Drop removes whatever is at the path.
Release(p) ==
    /\ pc[p] = "held"
    /\ lock' = Absent /\ fd' = {}
    /\ GoTo(p, "idle")
    /\ UNCHANGED <<saw, broken, faults>>

-----------------------------------------------------------------------------
(* process_lock_owner, asked by sync, status and health *)

AskOwner(p) ==
    /\ pc[p] = "idle" /\ lock # Absent
    /\ GoTo(p, "o_read")
    /\ UNCHANGED <<lock, fd, saw, broken, faults>>

\* A living owner is the answer; a stale file is to be removed.
AnswerOwner(p) ==
    /\ pc[p] = "o_check"
    /\ GoTo(p, IF OwnerAlive(p) THEN "idle" ELSE "o_remove")
    /\ UNCHANGED <<lock, fd, saw, broken, faults>>

\* wait_for_sync_catchup removes a file that names its own process, before it
\* acquires the lock.
ClearOwn(p) ==
    /\ pc[p] = "o_check" /\ saw[p] = p
    /\ GoTo(p, "o_remove")
    /\ UNCHANGED <<lock, fd, saw, broken, faults>>

RemoveStale(p) ==
    /\ pc[p] = "o_remove"
    /\ lock' = Absent /\ fd' = {} /\ broken' = (broken \/ lock # Absent)
    /\ GoTo(p, "idle")
    /\ UNCHANGED <<saw, faults>>

-----------------------------------------------------------------------------

\* A process stops at any point and leaves the file as it is.
Die(p) ==
    /\ Alive(p) /\ faults < MaxFaults
    /\ faults' = faults + 1 /\ fd' = fd \ {p}
    /\ GoTo(p, "dead")
    /\ UNCHANGED <<lock, saw, broken>>

\* The system gives the pid to a new process.
Reuse(p) ==
    /\ pc[p] = "dead"
    /\ GoTo(p, "idle")
    /\ UNCHANGED <<lock, fd, saw, broken, faults>>

LockInit ==
    /\ lock = Absent /\ fd = {} /\ broken = FALSE /\ faults = 0
    /\ pc = [p \in Procs |-> "idle"]
    /\ saw = [p \in Procs |-> Absent]
    /\ late = {}

\* The steps that bring p to its lock, or to the answer that it is taken
Acquire(p) == Open(p) \/ ReadOwner(p) \/ CheckOwner(p) \/ Remove(p) \/ Create(p)
              \/ WritePid(p) \/ AnswerOwner(p) \/ RemoveStale(p)

LockStep(p) == Acquire(p) \/ WriteFails(p) \/ Release(p) \/ AskOwner(p) \/ ClearOwn(p)
           \/ Die(p) \/ Reuse(p)

\* The owner, once its pid is in the file
Settled == {q \in Procs : pc[q] = "held" /\ lock = q}

Observe ==
    late' = IF Settled' = {} THEN {}
            ELSE {p \in Procs : pc'[p] = "idle" \/ (lock' = lock /\ p \in late)}

LockNext == (\E p \in Procs : LockStep(p)) /\ Observe

LockSpec == LockInit /\ [][LockNext]_lockVars

\* A process that began to acquire goes on, its work under the lock ends, and
\* sync, watch and retry scheduler try again and again.
LockFairness == \A p \in Procs : /\ WF_lockVars(LockNext /\ Acquire(p)) /\ WF_lockVars(LockNext /\ Release(p))
                             /\ SF_lockVars(LockNext /\ Open(p))

LockFairSpec == LockSpec /\ LockFairness

-----------------------------------------------------------------------------
(* Properties *)

\* Every variable keeps its type.
LockTypeOK ==
    /\ lock \in Procs \cup {Absent, Unreadable}
    /\ fd \subseteq Procs /\ late \subseteq Procs
    /\ pc \in [Procs -> Pcs]
    /\ saw \in [Procs -> Procs \cup {Absent}]
    /\ broken \in BOOLEAN /\ faults \in Nat

\* A process that begins acquire_process_lock or process_lock_owner while the
\* file names a living owner never gets so far as to remove the file or take the
\* lock, as long as that owner keeps it: however its look at the file, its look at
\* the pid, and the steps of others fall.
OwnerIsHonoured ==
    \A p \in late : pc[p] \notin {"remove", "create", "write", "held", "o_remove"}

\* Two processes hold the lock only after some process removed or truncated a file
\* it took for stale: create_new, the release and the death of owners alone keep
\* the lock exclusive.
ExclusiveUnlessBroken ==
    ~broken => \A p, q \in Procs : pc[p] = "held" /\ pc[q] = "held" => p = q

\* One sync, snapshot or maintenance at a time, as the tests of the callers have it.
Exclusive == \A p, q \in Procs : pc[p] = "held" /\ pc[q] = "held" => p = q

\* While a process lives, a file that a dead process, a failed write or two takers
\* left behind keeps nobody from the lock for ever, unless the pid in it was given
\* to a process that lives.
LockIsObtainable ==
    []<>(\/ \E p \in Procs : pc[p] = "held"
         \/ lock \in Procs /\ Alive(lock)
         \/ \A p \in Procs : ~Alive(p))
=============================================================================
