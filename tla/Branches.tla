------------------------------ MODULE Branches ------------------------------
(***************************************************************************)
(* The refs of one host and its operation log: branch_runtime.rs, the refs *)
(* table of db_refs.rs, mj op restore and mj note of history_runtime.rs,   *)
(* operation_log.rs, and what a snapshot, a prune and a sync do to them.   *)
(* A branch command takes no lock and no transaction: it reads, decides,   *)
(* and then runs one statement after the other, each committed by itself.  *)
(* The operation log exists twice, as a table and as a file that commands  *)
(* append to and that a sync rewrites from the table.                      *)
(***************************************************************************)
EXTENDS Naturals, Sequences, SequencesExt, FiniteSets

CONSTANTS Names,     \* branch names, in their order: a sequence
          Default,   \* DEFAULT_BRANCH
          Procs,     \* processes
          Scenes     \* what a behaviour may do: see MCBranches

VARIABLES scene,
          snaps,     \* snapshots in the table, numbered as they are made
          heads,     \* refs branches/<name>: 0 when there is none
          act,       \* ref current-branch: "" when there is none
          cur,       \* ref current: 0 when there is none
          ops,       \* table operations: a sequence of [id, before, after, st]
          file,      \* ops/local-oplog.cborl: the same
          proc,      \* the command of a process: what it still has to do
          made,      \* snapshots made
          count,     \* operation ids handed out
          spent,
          raced,     \* two commands that write refs overlapped
          torn,      \* one was stopped between two of its statements
          crossed,   \* two commands that write the log overlapped
          gap,       \* one was stopped between the table and the file
          lost,      \* a snapshot moved a branch away from a head that is not its parent
          loose      \* refs were made to name a snapshot without asking for it: by op restore, or by
                     \* prune --drop-missing-remote-history deleting what a branch names

bvars == <<scene, snaps, heads, act, cur, ops, file, proc, made, count, spent, raced, torn, crossed,
           gap, loose, lost>>
refvars == <<heads, act, cur>>
ghosts == <<raced, torn, crossed, gap, loose, lost>>

NameSet == Range(Names)
First(S) == Names[CHOOSE i \in DOMAIN Names : Names[i] \in S /\ \A j \in 1..(i - 1) : Names[j] \notin S]
Branches == {n \in NameSet : heads[n] # 0}
NewOp(id, b, a, st) == [id |-> id, before |-> b, after |-> a, st |-> st, note |-> FALSE]
Rest == [cmd |-> "none", todo |-> <<>>, args |-> <<>>, hit |-> FALSE, wrote |-> FALSE,
         alone |-> FALSE, rec |-> NewOp(0, 0, 0, "none"), table |-> <<>>]
Active(p) == proc[p].cmd # "none"
RefCmds == {"create", "switch", "sethead", "delete", "rename", "oprestore", "snapshot", "prune"}

\* The commands that hold the maintenance lock from their first read to their end.
Maintenance == {"snapshot", "snapfail", "prune", "sync"}
RefStatements == {"head", "act", "cur", "curIfActive", "next", "active"}

\* One statement: what it does, to which name, with which value and what was read before.
Do(k, n, v, b) == [k |-> k, n |-> n, v |-> v, b |-> b]
Logged(b, a) == <<Do("op", "done", a, b), Do("append", "", 0, 0)>>

-----------------------------------------------------------------------------
(* What the commands decide, from the refs they read *)

\* ensure_default_branch, before every branch command
EnsureDefault ==
    IF Branches # {}
      THEN IF act = ""
             THEN LET same == {n \in Branches : heads[n] = cur} IN
                  <<Do("act", IF cur # 0 /\ same # {} THEN First(same) ELSE First(Branches), 0, 0)>>
             ELSE <<>>
      ELSE IF cur # 0 THEN <<Do("act", Default, 0, 0), Do("head", Default, cur, 0)>> ELSE <<>>

\* switch_to_branch; with --restore the restore comes first, and its failure ends the command
SwitchTodo(n) ==
    IF heads[n] = 0 \/ heads[n] \notin snaps THEN <<>>
    ELSE <<Do("act", n, 0, 0), Do("cur", "", heads[n], 0)>> \o Logged(cur, heads[n])

\* Fault: a branch created over the active one leaves current behind.
CreateTodoBehind(n, s, force, switch) ==
    IF s \notin snaps \/ (heads[n] # 0 /\ ~force) THEN <<>>
    ELSE <<Do("head", n, s, 0), Do("opHit", n, s, cur), Do("append", "", 0, 0)>>
         \o (IF switch THEN <<Do("switch", n, 0, 0)>> ELSE <<>>)

\* create_branch; --switch goes on with the new branch
CreateTodo(n, s, force, switch) ==
    IF s \notin snaps \/ (heads[n] # 0 /\ ~force) THEN <<>>
    ELSE <<Do("head", n, s, 0), Do("curIfActive", n, s, 0), Do("opHit", n, s, cur),
           Do("append", "", 0, 0)>>
         \o (IF switch THEN <<Do("switch", n, 0, 0)>> ELSE <<>>)

\* set_branch_head
SetHeadTodo(n, s) ==
    IF heads[n] = 0 \/ s \notin snaps THEN <<>>
    ELSE <<Do("head", n, s, 0), Do("curIfActive", n, s, 0)>> \o Logged(heads[n], s)

\* delete_branch
DeleteTodo(n, force) ==
    IF heads[n] = 0 \/ (act = n /\ ~force) THEN <<>>
    ELSE <<Do("head", n, 0, 0)>> \o (IF act = n THEN <<Do("next", "", 0, 0)>> ELSE <<>>)
         \o <<Do("opNow", "", 0, heads[n]), Do("append", "", 0, 0)>>

\* rename_branch: current follows when the source or the destination is the active branch
RenameTodo(o, n, force) ==
    IF o = n \/ heads[o] = 0 \/ (heads[n] # 0 /\ ~force) \/ (act = n /\ ~force) THEN <<>>
    ELSE <<Do("head", n, heads[o], 0), Do("head", o, 0, 0)>>
         \o (IF act = o THEN <<Do("act", n, 0, 0)>> ELSE <<>>)
         \o (IF act \in {o, n} THEN <<Do("cur", "", heads[o], 0)>> ELSE <<>>)
         \o <<Do("opNow", "", 0, cur), Do("append", "", 0, 0)>>

\* OpCommand::Restore: the snapshot before the operation, else the one after; nobody asks whether
\* it still exists
OpRestoreTodo(op) ==
    LET s == IF op.before # 0 THEN op.before ELSE op.after IN
    IF s = 0 THEN <<>>
    ELSE <<Do("cur", "", s, 0), Do("active", "", s, 0)>> \o Logged(cur, s)

\* build_prune_plan: the policy takes what no ref names and what is no root's first snapshot;
\* --drop-missing-remote-history takes anything but current
Protected == {heads[n] : n \in NameSet} \cup {cur}
             \cup {s \in snaps : \A t \in snaps : s <= t}
PruneTodo(D) == <<Do("drop", "", 0, D)>> \o Logged(cur, cur)

\* note_cmd; update_operation_message rewrites the file
Rewritten == <<Do("query", "", 0, 0), Do("rewrite", "", 0, 0)>>
NoteTodo(i) == <<Do("note", "", i, 0)>> \o Rewritten

\* record_snapshot_failure: the roots could not be scanned
FailTodo == <<Do("op", "failed", cur, cur), Do("append", "", 0, 0)>>

\* The operation of a sync: running before the uploads, its result after them
SyncTodo ==
    <<Do("op", "running", cur, cur), Do("append", "", 0, 0), Do("result", "", 0, 0)>> \o Rewritten

\* mark_stale_running_operations of a health report: running operations whose process is gone, one
\* after the other; that they are old enough is a choice of the reader of the clock
StaleTodo ==
    LET stale == SelectSeq(ops, LAMBDA o : o.st = "running" /\ \A p \in Procs : proc[p].rec.id # o.id) IN
    FlattenSeq([i \in DOMAIN stale |-> <<Do("stale", "", stale[i].id, 0)>> \o Rewritten])

-----------------------------------------------------------------------------
(* Steps *)

Begin(p, cmd, args) ==
    /\ ~Active(p) /\ spent.cmd < scene.cmd /\ cmd \in scene.cmds[p]
    /\ \A q \in Procs : ~({cmd, proc[q].cmd} \subseteq Maintenance)
    /\ proc' = [[q \in Procs |-> [proc[q] EXCEPT !.alone = FALSE]]
                 EXCEPT ![p] = [Rest EXCEPT !.cmd = cmd, !.args = args,
                   !.alone = \A q \in Procs : ~Active(q),
                   !.todo = (IF cmd \in {"create", "switch", "sethead", "delete", "rename"}
                               THEN EnsureDefault ELSE <<>>) \o <<Do("decide", "", 0, 0)>>]]
    /\ spent' = [spent EXCEPT !.cmd = @ + 1]
    /\ raced' = (raced \/ (cmd \in RefCmds /\ \E q \in Procs : proc[q].cmd \in RefCmds))
    /\ crossed' = (crossed \/ \E q \in Procs : Active(q))
    /\ UNCHANGED <<scene, snaps, refvars, ops, file, made, count, torn, gap, loose, lost>>

Decided(cmd, a) ==
    CASE cmd = "create" -> CreateTodo(a[1], a[2], a[3], a[4])
      [] cmd = "switch" -> SwitchTodo(a[1])
      [] cmd = "sethead" -> SetHeadTodo(a[1], a[2])
      [] cmd = "delete" -> DeleteTodo(a[1], a[2])
      [] cmd = "rename" -> RenameTodo(a[1], a[2], a[3])
      [] cmd = "oprestore" -> OpRestoreTodo(ops[a[1]])
      [] cmd = "note" -> NoteTodo(a[1])
      [] cmd = "snapshot" -> <<Do("snapfile", "", 0, cur), Do("snapdone", "", 0, cur)>>
      [] cmd = "snapfail" -> FailTodo
      [] cmd = "sync" -> SyncTodo
      [] cmd = "health" -> StaleTodo
      [] OTHER -> PruneTodo(a[1])

\* A snapshot's transaction holds the write lock of the database from its first insert to its commit.
Locked(p) == \E q \in Procs \ {p} : proc[q].todo # <<>> /\ Head(proc[q].todo).k = "snapdone"
Now(p) == Head(proc[p].todo)
Then(p, more) == [proc[p] EXCEPT !.todo = more \o Tail(@)]
Insert(p, b, a, st) ==
    LET rec == NewOp(count + 1, b, a, st) IN
    /\ ops' = Append(ops, rec) /\ count' = count + 1
    /\ proc' = [proc EXCEPT ![p] = [Then(p, <<>>) EXCEPT !.rec = rec]]
OpOf(id) == CHOOSE i \in DOMAIN ops : ops[i].id = id

\* The statements that write the refs table.
RefStep(p) ==
    LET d == Now(p) IN
    /\ d.k \in RefStatements
    /\ heads' = IF d.k = "head" THEN [heads EXCEPT ![d.n] = d.v] ELSE heads
    /\ act' = IF d.k = "act" THEN d.n ELSE act
    /\ cur' = IF d.k = "cur" \/ (d.k = "curIfActive" /\ act = d.n) THEN d.v ELSE cur
    /\ loose' = (loose \/ (d.k = "cur" /\ d.v \notin snaps))
    /\ proc' = [proc EXCEPT ![p] =
         [Then(p, CASE d.k = "next" /\ Branches # {} ->
                           <<Do("act", First(Branches), 0, 0), Do("cur", "", heads[First(Branches)], 0)>>
                    [] d.k = "next" -> <<Do("act", "", 0, 0)>>
                    [] d.k = "active" ->      \* update_active_branch_head
                           LET b == IF act = "" THEN Default ELSE act IN
                           <<Do("act", b, 0, 0), Do("head", b, d.v, 0), Do("cur", "", d.v, 0)>>
                    [] OTHER -> <<>>)
            EXCEPT !.wrote = TRUE, !.hit = (d.k = "curIfActive" /\ act = d.n)]]
    /\ UNCHANGED <<snaps, ops, file, made, count>>

\* The statements that write the operation log: record_op inserts, then appends to the file;
\* update_operation_result and update_operation_message rewrite the file from the table.
LogStep(p) ==
    LET d == Now(p)
        after == CASE d.k = "op" -> d.v [] d.k = "opHit" -> (IF proc[p].hit THEN d.v ELSE d.b)
                   [] OTHER -> cur IN
    /\ \/ d.k \in {"op", "opHit", "opNow"}
          /\ Insert(p, d.b, after, IF d.k = "op" THEN d.n ELSE "done") /\ UNCHANGED <<file>>
       \/ d.k = "append"
          /\ file' = Append(file, proc[p].rec)
          /\ proc' = [proc EXCEPT ![p] = Then(p, <<>>)] /\ UNCHANGED <<ops, count>>
       \/ d.k = "note"
          /\ ops' = [ops EXCEPT ![d.v].note = ~@]
          /\ proc' = [proc EXCEPT ![p] = Then(p, <<>>)] /\ UNCHANGED <<file, count>>
       \/ d.k = "result" /\ \E st \in {"done", "failed"} :
          /\ ops' = [ops EXCEPT ![OpOf(proc[p].rec.id)].st = st]
          /\ proc' = [proc EXCEPT ![p] = Then(p, <<>>)] /\ UNCHANGED <<file, count>>
       \/ d.k = "stale"
          /\ ops' = [ops EXCEPT ![OpOf(d.v)].st = "failed"]
          /\ proc' = [proc EXCEPT ![p] = Then(p, <<>>)] /\ UNCHANGED <<file, count>>
       \/ d.k = "query"
          /\ proc' = [proc EXCEPT ![p] = [Then(p, <<>>) EXCEPT !.table = ops]]
          /\ UNCHANGED <<ops, file, count>>
       \/ d.k = "rewrite"
          /\ file' = proc[p].table
          /\ proc' = [proc EXCEPT ![p] = [Then(p, <<>>) EXCEPT !.table = <<>>]]
          /\ UNCHANGED <<ops, count>>
    /\ gap' = (gap /\ d.k # "rewrite")
    /\ crossed' = (crossed /\ ~(d.k = "rewrite" /\ proc[p].alone))
    /\ UNCHANGED <<snaps, refvars, made, loose, lost>>

\* snapshot_cmd: the file is appended to inside the transaction; the commit makes the rest real.
SnapStep(p) ==
    LET d == Now(p) IN
    \/ /\ d.k = "snapfile"
       /\ LET rec == NewOp(count + 1, d.b, made + 1, "done") IN
            /\ file' = Append(file, rec) /\ count' = count + 1
            /\ proc' = [proc EXCEPT ![p] = [Then(p, <<>>) EXCEPT !.rec = rec]]
       /\ UNCHANGED <<snaps, refvars, ops, made, lost>>
    \/ /\ d.k = "snapdone"
       /\ LET b == IF act = "" THEN Default ELSE act IN
            /\ act' = b /\ heads' = [heads EXCEPT ![b] = made + 1] /\ cur' = made + 1
            /\ lost' = (lost \/ heads[b] \notin {0, d.b})
       /\ snaps' = snaps \cup {made + 1} /\ made' = made + 1
       /\ ops' = Append(ops, proc[p].rec)
       /\ proc' = [proc EXCEPT ![p] = Then(p, <<>>)]
       /\ UNCHANGED <<file, count>>

\* prune_cmd: the transaction that deletes what the plan named
DropStep(p) ==
    /\ Now(p).k = "drop"
    /\ snaps' = snaps \ Now(p).b
    /\ loose' = (loose \/ \E n \in NameSet : heads[n] \in Now(p).b)
    /\ proc' = [proc EXCEPT ![p] = Then(p, <<>>)]
    /\ UNCHANGED <<refvars, ops, file, made, count>>

DecideStep(p) ==
    /\ Now(p).k \in {"decide", "switch"}
    /\ \/ proc' = [proc EXCEPT ![p] = Then(p, IF Now(p).k = "switch" THEN SwitchTodo(Now(p).n)
                                              ELSE Decided(proc[p].cmd, proc[p].args))]
       \/ /\ proc[p].cmd \in {"switch", "create"}    \* the restore of switch --restore fails
          /\ proc[p].cmd = "switch" \/ Now(p).k = "switch"
          /\ proc' = [proc EXCEPT ![p] = Then(p, <<>>)]
    /\ UNCHANGED <<snaps, refvars, ops, file, made, count>>

Step(p) ==
    /\ Active(p) /\ proc[p].todo # <<>>
    /\ ~Locked(p) \/ Now(p).k \in {"decide", "switch", "append", "query", "rewrite"}
    /\ \/ RefStep(p) /\ UNCHANGED <<gap, crossed, lost>>
       \/ LogStep(p)
       \/ SnapStep(p) /\ UNCHANGED <<gap, crossed, loose>>
       \/ DropStep(p) /\ UNCHANGED <<gap, crossed, lost>>
       \/ DecideStep(p) /\ UNCHANGED <<gap, crossed, loose, lost>>
    /\ UNCHANGED <<scene, spent, raced, torn>>

End(p) ==
    /\ Active(p) /\ proc[p].todo = <<>>
    /\ proc' = [proc EXCEPT ![p] = Rest]
    /\ UNCHANGED <<scene, snaps, refvars, ops, file, made, count, spent, ghosts>>

\* The process is killed between two statements.
Stop(p) ==
    /\ Active(p) /\ proc[p].todo # <<>> /\ spent.stop < scene.stop
    /\ spent' = [spent EXCEPT !.stop = @ + 1]
    /\ torn' = (torn \/ (proc[p].wrote
                         /\ \E i \in DOMAIN proc[p].todo : proc[p].todo[i].k \in RefStatements))
    /\ gap' = (gap \/ Now(p).k \in {"append", "query", "rewrite", "snapdone"})
    /\ proc' = [proc EXCEPT ![p] = Rest]
    /\ UNCHANGED <<scene, snaps, refvars, ops, file, made, count, raced, crossed, loose, lost>>

Commands(p) ==
    \/ \E n \in NameSet : \E s \in snaps : \E f, sw \in BOOLEAN : Begin(p, "create", <<n, s, f, sw>>)
    \/ \E n \in NameSet : Begin(p, "switch", <<n>>)
    \/ \E n \in NameSet : \E s \in snaps : Begin(p, "sethead", <<n, s>>)
    \/ \E n \in NameSet : \E f \in BOOLEAN : Begin(p, "delete", <<n, f>>)
    \/ \E o, n \in NameSet : \E f \in BOOLEAN : Begin(p, "rename", <<o, n, f>>)
    \/ \E i \in DOMAIN ops : Begin(p, "oprestore", <<i>>)
    \/ \E i \in DOMAIN ops : Begin(p, "note", <<i>>)
    \/ made < scene.snaps /\ Begin(p, "snapshot", <<>>)
    \/ \E cmd \in {"sync", "snapfail", "health"} : Begin(p, cmd, <<>>)
    \/ \E D \in SUBSET (snaps \ (IF scene.dropping THEN {cur} ELSE Protected)) :
          D # {} /\ Begin(p, "prune", <<D>>)

\* A new repository, or one as import_metadata of a clone leaves it: refs and operations of the
\* export, and the file rewritten from the table
BInit ==
    /\ scene \in Scenes
    /\ snaps = 1..scene.old /\ made = scene.old
    /\ heads = [n \in NameSet |-> IF n = Default /\ scene.old > 0 THEN scene.old ELSE 0]
    /\ act = (IF scene.old > 0 THEN Default ELSE "") /\ cur = scene.old
    /\ ops = [i \in 1..scene.old |-> NewOp(i, i - 1, i, "done")] /\ file = ops /\ count = scene.old
    /\ proc = [p \in Procs |-> Rest]
    /\ spent = [cmd |-> 0, stop |-> 0]
    /\ raced = FALSE /\ torn = FALSE /\ crossed = FALSE /\ gap = FALSE /\ loose = FALSE /\ lost = FALSE

BNext == \E p \in Procs : Commands(p) \/ Step(p) \/ End(p) \/ Stop(p)

BSpec == BInit /\ [][BNext]_bvars

-----------------------------------------------------------------------------
(* Properties *)

Idle == \A p \in Procs : ~Active(p)

BranchesTypeOK ==
    /\ snaps \subseteq 1..made /\ heads \in [NameSet -> 0..made] /\ act \in NameSet \cup {""}
    /\ cur \in 0..made /\ \A i \in DOMAIN ops : ops[i].id \in 1..count
    /\ \A i, j \in DOMAIN ops : i # j => ops[i].id # ops[j].id

\* Between commands the active branch's head is current, whatever branches were created over each
\* other, renamed over the active one, deleted while active or reset by mj op restore
\* (branch_runtime.rs): commands that did not overlap and were not stopped halfway.
HeadIsCurrent == Idle /\ ~raced /\ ~torn /\ act # "" => heads[act] = cur

\* A snapshot never moves a branch away from a head that is not the snapshot's own parent, so the
\* history of a branch stays reachable from its head and prune keeps what the branch names.
SnapshotFollowsHead == lost => raced \/ torn

\* Every branch and current name a snapshot that exists, also after a command was stopped between
\* any two statements: prune takes no snapshot a ref names. Only mj op restore of a pruned
\* snapshot and prune --drop-missing-remote-history leave a ref naming nothing.
NamedExists ==
    ~raced /\ ~loose => cur \in snaps \cup {0} /\ \A n \in NameSet : heads[n] \in snaps \cup {0}

\* Between commands the operation log file holds what the table holds, in the same order
\* (what fsck compares), unless commands that write it overlapped or one was stopped between the
\* two; the rewrite of the next sync or note that runs alone repairs both.
LogAgrees == Idle /\ ~crossed /\ ~gap => file = ops

\* Nothing more is claimed of refs after commands that write them have overlapped.
Alone == ~raced
=============================================================================
