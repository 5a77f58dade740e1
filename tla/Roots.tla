-------------------------------- MODULE Roots --------------------------------
(***************************************************************************)
(* The configured roots live twice: in the table roots of the database and *)
(* in config.toml.  Every process that opens the database first imports    *)
(* the roots of the file (open_db, sync_config_roots): it reads the file   *)
(* once and then writes one row after the other.  The root and tracking    *)
(* commands, and a snapshot that finds a root missing, unmounted or        *)
(* unreadable, change a row and then write the file back from the table    *)
(* (sync_roots_to_config).  None of them takes a lock and the two copies   *)
(* are not changed together, so processes of the command line and of the   *)
(* daemon interleave at every read and write.                              *)
(*                                                                         *)
(* A row is its status, whether it carries a degraded note, and opt, which *)
(* stands for all settings that root set and the tracking commands change. *)
(* The other settings of the file are carried over and left out.           *)
(***************************************************************************)
EXTENDS Naturals, FiniteSets, Sequences

CONSTANTS Procs,    \* processes of the host
          RootIds,  \* root names, in the order of the table
          Scenes    \* instances: commands, bounds, first state

VARIABLES rscene,   \* the instance
          db,       \* table roots: root -> row
          conf,     \* the roots of config.toml: root -> row
          proc,     \* the processes
          place,    \* the directory of a root: "ok", "gone" or "denied"
          cur,      \* roots in the current snapshot
          want,     \* ghost: root -> what its last undisturbed command left, or Unknown
          dropped,  \* ghost: roots that a command removed or marked deleted
          spent     \* steps so far, by kind

rovars == <<rscene, db, conf, proc, place, cur, want, dropped, spent>>

Idle == [pc |-> "idle"]
Absent == [status |-> "absent"]
Unknown == [status |-> "unknown"]
NewRow == [status |-> "active", deg |-> FALSE, opt |-> 0]
Statuses == {"active", "paused", "deleted", "missing", "permission-denied"}

Ids == {RootIds[i] : i \in DOMAIN RootIds}
RowOf(rs, r) == IF r \in DOMAIN rs THEN rs[r] ELSE Absent
Put(rs, r, row) == [x \in DOMAIN rs \cup {r} |-> IF x = r THEN row ELSE rs[x]]
Without(rs, r) == [x \in DOMAIN rs \ {r} |-> rs[x]]
InOrder(set) == SelectSeq(RootIds, LAMBDA r : r \in set)

\* a process may be disturbed by one that imports, or that is between its row and the file
Opening == {"import"}
Writing == {"save", "readdb", "writeconf"}
Busy(p) == proc[p].pc \in Opening \cup Writing
Alone(p) == \A q \in Procs \ {p} : ~Busy(q)

\* step p to the given local state; entering a disturbing phase marks the others
Step(p, st) ==
  proc' = [q \in Procs |->
             IF q = p THEN st
             ELSE IF st.pc \in Opening \cup Writing /\ proc[q].pc # "idle" THEN [proc[q] EXCEPT !.clean = FALSE]
             ELSE proc[q]]

Spend(k) == spent[k] < rscene.bound[k] /\ spent' = [spent EXCEPT ![k] = @ + 1]

RootsInit ==
  /\ rscene \in Scenes
  /\ db = rscene.db
  /\ conf = rscene.conf
  /\ proc = [p \in Procs |-> Idle]
  /\ place = [r \in Ids |-> "ok"]
  /\ cur = DOMAIN rscene.db
  /\ want = [r \in Ids |-> Unknown]
  /\ dropped = {}
  /\ spent = [cmd |-> 0, crash |-> 0, place |-> 0]

-----------------------------------------------------------------------------
(* Opening the database *)

\* a snapshot holds its lock from before it opens the database
Snapshotting == \E q \in Procs : proc[q] # Idle /\ proc[q].cmd.op = "snapshot"

\* open_db reads the file, from which the rows are then imported
Start(p, c) ==
  /\ proc[p] = Idle /\ Spend("cmd")
  /\ ~(c.op = "snapshot" /\ Snapshotting)
  /\ Step(p, [pc |-> "import", cmd |-> c, conf |-> conf, todo |-> InOrder(DOMAIN conf),
              row |-> Absent, rows |-> <<>>, seen |-> <<>>, took |-> {}, clean |-> TRUE])
  /\ UNCHANGED <<rscene, db, conf, place, cur, want, dropped>>

\* to_root_config: what the file leaves open is taken from the row
Imported(r, row) ==
  [row EXCEPT !.deg = row.deg \/ (r \in DOMAIN db /\ db[r].deg)]

Import(p) ==
  /\ proc[p].pc = "import"
  /\ LET w == proc[p] IN
     IF w.todo = <<>>
     THEN Step(p, [w EXCEPT !.pc = "run", !.conf = <<>>, !.clean = TRUE]) /\ UNCHANGED db
     ELSE LET r == Head(w.todo) IN
          /\ db' = Put(db, r, Imported(r, w.conf[r]))
          /\ Step(p, [w EXCEPT !.todo = Tail(@)])
  /\ UNCHANGED <<rscene, conf, place, cur, want, dropped, spent>>

-----------------------------------------------------------------------------
(* Root and tracking commands *)

Finish(p) == Step(p, Idle)

Add(p) ==
  /\ proc[p].pc = "run" /\ proc[p].cmd.op = "add"
  /\ LET r == proc[p].cmd.r IN
     IF r \in DOMAIN db \/ place[r] # "ok"
     THEN Finish(p) /\ UNCHANGED <<db, want>>
     ELSE /\ db' = Put(db, r, NewRow)
          /\ want' = [want EXCEPT ![r] = Unknown]
          /\ Step(p, [proc[p] EXCEPT !.pc = "readdb", !.row = NewRow, !.clean = Alone(p)])
  /\ UNCHANGED <<rscene, conf, place, cur, dropped, spent>>

Remove(p) ==
  /\ proc[p].pc = "run" /\ proc[p].cmd.op = "remove"
  /\ LET r == proc[p].cmd.r IN
     IF r \notin DOMAIN db
     THEN Finish(p) /\ UNCHANGED <<db, dropped, want>>
     ELSE /\ db' = Without(db, r)
          /\ want' = [want EXCEPT ![r] = Unknown]
          /\ dropped' = dropped \cup {r}
          /\ Step(p, [proc[p] EXCEPT !.pc = "readdb", !.row = Absent, !.clean = Alone(p)])
  /\ UNCHANGED <<rscene, conf, place, cur, spent>>

\* update_root_status and save_root: the row as read, with the change
Changed(op, row) ==
  CASE op = "pause" -> [row EXCEPT !.status = "paused"]
    [] op = "resume" -> [row EXCEPT !.status = "active", !.deg = FALSE]
    [] op = "delete" -> [row EXCEPT !.status = "deleted"]
    [] op = "set" -> [row EXCEPT !.opt = 1 - @]

\* root pause, resume, mark-deleted and set, track and untrack: the row is read
ReadRow(p) ==
  /\ proc[p].pc = "run" /\ proc[p].cmd.op \in {"pause", "resume", "delete", "set"}
  /\ LET r == proc[p].cmd.r IN
     IF r \notin DOMAIN db THEN Finish(p)
     ELSE Step(p, [proc[p] EXCEPT !.pc = "save", !.row = Changed(proc[p].cmd.op, db[r]), !.clean = Alone(p)])
  /\ UNCHANGED <<rscene, db, conf, place, cur, want, dropped, spent>>

\* and written; an update of a row that is gone changes nothing
SaveRow(p) ==
  /\ proc[p].pc = "save"
  /\ LET w == proc[p] IN
     /\ db' = IF w.cmd.r \in DOMAIN db THEN Put(db, w.cmd.r, w.row) ELSE db
     /\ want' = [want EXCEPT ![w.cmd.r] = Unknown]
     /\ dropped' = IF w.cmd.op = "delete" THEN dropped \cup {w.cmd.r} ELSE dropped
     /\ Step(p, [w EXCEPT !.pc = "readdb"])
  /\ UNCHANGED <<rscene, conf, place, cur, spent>>

\* sync_roots_to_config: read the table, replace the roots of the file
ReadDb(p) ==
  /\ proc[p].pc = "readdb"
  /\ Step(p, [proc[p] EXCEPT !.pc = "writeconf", !.rows = db])
  /\ UNCHANGED <<rscene, db, conf, place, cur, want, dropped, spent>>

AfterConf(w) ==
  IF w.cmd.op = "snapshot" THEN [w EXCEPT !.pc = "scan", !.rows = <<>>, !.row = Absent, !.todo = Tail(@)] ELSE Idle

WriteConfMerges(p) ==
  /\ proc[p].pc = "writeconf"
  /\ LET w == proc[p] IN
     /\ conf' = [r \in DOMAIN w.rows \cup DOMAIN conf |-> IF r \in DOMAIN w.rows THEN w.rows[r] ELSE conf[r]]
     /\ want' = [want EXCEPT ![w.cmd.r] = IF w.clean THEN w.row ELSE Unknown]
     /\ Step(p, AfterConf(w))
  /\ UNCHANGED <<rscene, db, place, cur, dropped, spent>>

WriteConf(p) ==
  /\ proc[p].pc = "writeconf"
  /\ LET w == proc[p] IN
     /\ conf' = w.rows
     /\ want' = [want EXCEPT ![w.cmd.r] = IF w.clean THEN w.row ELSE Unknown]
     /\ Step(p, AfterConf(w))
  /\ UNCHANGED <<rscene, db, place, cur, dropped, spent>>

-----------------------------------------------------------------------------
(* Snapshot *)

SnapBegin(p) ==
  /\ proc[p].pc = "run" /\ proc[p].cmd.op = "snapshot"
  /\ Step(p, [proc[p] EXCEPT !.pc = "scan", !.seen = db, !.todo = InOrder(DOMAIN db)])
  /\ UNCHANGED <<rscene, db, conf, place, cur, want, dropped, spent>>

\* a root that is not scanned keeps its records of the parent snapshot
Carried(r) == {r} \cap cur

\* one root, as the list of the beginning has it
SnapRoot(p) ==
  /\ proc[p].pc = "scan" /\ proc[p].todo # <<>>
  /\ LET w == proc[p]
         r == Head(w.todo)
         status == w.seen[r].status
         found == IF place[r] = "gone" THEN "missing" ELSE "permission-denied"
         next(took) == [w EXCEPT !.todo = Tail(@), !.took = @ \cup took]
     IN  CASE status = "deleted" -> Step(p, next({}))
           [] status # "active" /\ status # "deleted" -> Step(p, next(Carried(r)))
           [] status = "active" /\ place[r] = "ok" -> Step(p, next({r}))
           [] status = "active" /\ place[r] # "ok" /\ r \notin DOMAIN db -> Step(p, Idle)
           [] OTHER ->
                Step(p, [w EXCEPT !.pc = "save", !.cmd.r = r, !.took = @ \cup Carried(r), !.clean = Alone(p),
                           !.row = [db[r] EXCEPT !.status = found, !.deg = @ \/ found = "permission-denied"]])
  /\ UNCHANGED <<rscene, db, conf, place, cur, want, dropped, spent>>

SnapCommit(p) ==
  /\ proc[p].pc = "scan" /\ proc[p].todo = <<>>
  /\ cur' = proc[p].took
  /\ Step(p, Idle)
  /\ UNCHANGED <<rscene, db, conf, place, want, dropped, spent>>

-----------------------------------------------------------------------------
(* The environment *)

\* any other command only opens the database
OpenOnly(p) ==
  /\ proc[p].pc = "run" /\ proc[p].cmd.op = "open"
  /\ Step(p, Idle)
  /\ UNCHANGED <<rscene, db, conf, place, cur, want, dropped, spent>>

Crash(p) ==
  /\ proc[p] # Idle /\ Spend("crash")
  /\ proc' = [proc EXCEPT ![p] = Idle]
  /\ UNCHANGED <<rscene, db, conf, place, cur, want, dropped>>

Place(r, s) ==
  /\ place[r] # s /\ Spend("place")
  /\ place' = [place EXCEPT ![r] = s]
  /\ UNCHANGED <<rscene, db, conf, proc, cur, want, dropped>>

RootsNext ==
  \/ \E p \in Procs :
       \/ \E c \in rscene.cmds : Start(p, c)
       \/ Import(p) \/ Add(p) \/ Remove(p) \/ ReadRow(p) \/ SaveRow(p) \/ ReadDb(p) \/ WriteConf(p)
       \/ SnapBegin(p) \/ SnapRoot(p) \/ SnapCommit(p) \/ OpenOnly(p) \/ Crash(p)
  \/ \E r \in Ids, s \in {"ok", "gone", "denied"} : Place(r, s)

RootsSpec == RootsInit /\ [][RootsNext]_rovars

-----------------------------------------------------------------------------
(* Properties *)

IsRow(row) == row.status \in Statuses /\ row.deg \in BOOLEAN /\ row.opt \in {0, 1}

\* The type invariant: rows of roots in the table and the file, the steps of processes.
RootsTypeOK ==
  /\ DOMAIN db \subseteq Ids /\ \A r \in DOMAIN db : IsRow(db[r])
  /\ DOMAIN conf \subseteq Ids /\ \A r \in DOMAIN conf : IsRow(conf[r])
  /\ cur \subseteq Ids /\ dropped \subseteq Ids
  /\ \A p \in Procs : proc[p].pc \in {"idle", "import", "run", "scan"} \cup Writing
  /\ \A p \in Procs : proc[p].pc = "import" => \A i \in DOMAIN proc[p].todo : proc[p].todo[i] \in DOMAIN proc[p].conf

(* What a root command or a snapshot reported stays in the table and in the file
   until another command changes that root: neither the import of the file by later
   processes nor commands for other roots undo it.  A command during which another
   process imported the file, or changed a row, is not covered. *)
ChangeIsKept ==
  \A r \in Ids : want[r] # Unknown => RowOf(db, r) = want[r] /\ RowOf(conf, r) = want[r]

(* A root leaves the snapshots only when it was removed or marked deleted, not when it is
   paused, missing, unreadable, or when processes race. *)
RootsStay == DOMAIN rscene.db \subseteq cur \cup dropped
=============================================================================
