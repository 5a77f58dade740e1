------------------------------- MODULE Changes -------------------------------
(* What mj says has changed (src/src/history_runtime.rs): mj log and mj diff
   compare snapshots, mj state compares a snapshot with the work tree.

   One root.  Its snapshots keep their records in a manifest (v1) or in one node
   per directory, named by its contents (v2); mj diff loads the records of a
   snapshot, mj log works on the trees.  mj state has one implementation for the
   terminal and another for --json, which hashes every file.  The reports are
   functions of the state: the properties compare them with one another and with
   plain definitions of what they should say. *)
EXTENDS Naturals, Sequences, FiniteSets

CONSTANTS Paths,     \* the paths of the root, sequences of names
          Root,      \* the name of the root
          Choices,   \* what the user may put at each path, time aside
          Scenes,    \* instances: formats, commands and bounds
          Limit,     \* MAX_OPERATION_CHANGE_SUMMARY_ENTRIES
          Detail,    \* DEFAULT_TREE_DETAIL_LIMIT: records of a tree that mj log lists
          PerSecond  \* ticks of the clock in a second

VARIABLES scene,
          live,      \* the work tree: path -> record
          snaps,     \* the snapshots, oldest first: records, format, time and summary
          gone,      \* snapshots that were pruned
          rows,      \* tracked_paths: path -> status and source
          clock,     \* finer than the seconds in which a file's time is kept
          used

cvars == <<scene, live, snaps, gone, rows, clock, used>>

NoRec == [kind |-> "none", data |-> 0, mode |-> 0, time |-> 0]
Tombstone == [kind |-> "tombstone", data |-> 0, mode |-> 0, time |-> 0]
NoRow == [st |-> "none", src |-> "none", first |-> 0, last |-> 0, off |-> 0]

\* contents 1 and 2 have the same length
Size(r) == IF r.kind = "file" THEN 1 + (r.data \div 3) ELSE 0

Files(m) == {p \in Paths : m[p] # NoRec}
Only(m, P) == [p \in Paths |-> IF p \in P THEN m[p] ELSE NoRec]
NotDir(m) == Only(m, {p \in Files(m) : m[p].kind # "dir"})
Row(st, p) == [st |-> st, path |-> p]
Under(p, q) == Len(p) <= Len(q) /\ SubSeq(q, 1, Len(p)) = p
Parent(p) == SubSeq(p, 1, Len(p) - 1)

Untracked == {p \in Paths : rows[p].st = "untracked"}
Tracked == {p \in Paths : rows[p].st = "tracked"}
\* tombstone_tracked_paths_for_root
Tombstones == {p \in Tracked : rows[p].src \in {"explicit", "journal"}}

-----------------------------------------------------------------------------
(* Snapshots and their trees *)

\* TreeNodeBuild and store_tree_node: a node holds the records right below its directory and
\* the names of the nodes below it; a directory without children has no node
NodeDirs(m) == {<<>>} \cup {p \in Paths : \E q \in Files(m) : q # p /\ Under(p, q)}
Entries(m, dir) == {p \in Files(m) : Parent(p) = dir}
Below(m, dir) == {p \in NodeDirs(m) : p # <<>> /\ Parent(p) = dir}

\* node keys hash the records at and below a node
NodeKey(m, dir) == [dir |-> dir, recs |-> Only(m, {p \in Files(m) : p # dir /\ Under(dir, p)})]

\* tree_entries_from_node, visit_tree_node_records: the entries of the nodes reached from the root
Reached(m, dir) ==
  LET R[d \in NodeDirs(m)] == Entries(m, d) \cup UNION {R[c] : c \in Below(m, d)} IN R[dir]

\* root_file_map
FileMap(i) ==
  IF i = 0 THEN [p \in Paths |-> NoRec]
  ELSE IF snaps[i].fmt = "v2" THEN Only(snaps[i].recs, Reached(snaps[i].recs, <<>>)) ELSE snaps[i].recs

\* append_entry_map_diff
EntryDiff(a, b, P) ==
  {Row("A", p) : p \in {q \in P : a[q] = NoRec /\ b[q] # NoRec}} \cup
  {Row("D", p) : p \in {q \in P : a[q] # NoRec /\ b[q] = NoRec}} \cup
  {Row("M", p) : p \in {q \in P : a[q] # NoRec /\ b[q] # NoRec /\ a[q] # b[q]}}

NodeRows(m, dir, st, read) ==
  {Row(st, p) : p \in UNION {Entries(m, d) : d \in {e \in NodeDirs(m) \cap read : Under(dir, e)}}}

\* an early return on equal records rather than on equal keys of all that is below
NodeDiffShallow(a, b, read) ==
  LET D == NodeDirs(a) \cup NodeDirs(b)
      R[d \in D] ==
        CASE d \in NodeDirs(a) /\ d \in NodeDirs(b) /\ Only(a, Entries(a, d)) = Only(b, Entries(b, d)) -> {}
          [] d \notin NodeDirs(a) -> NodeRows(b, d, "A", read)
          [] d \notin NodeDirs(b) -> NodeRows(a, d, "D", read)
          [] OTHER -> EntryDiff(a, b, Entries(a, d) \cup Entries(b, d)) \cup
                      UNION {R[c] : c \in Below(a, d) \cup Below(b, d)}
  IN R[<<>>]
\* append_node_diff: what has the same key is not read; an error ends it, and the rows of the
\* nodes that were read before it stay
SameNode(a, b, d) == d \in NodeDirs(a) /\ d \in NodeDirs(b) /\ NodeKey(a, d) = NodeKey(b, d)
NodeDiff(a, b, read) ==
  LET D == NodeDirs(a) \cup NodeDirs(b)
      R[d \in D] ==
        CASE SameNode(a, b, d) -> {}
          [] d \notin NodeDirs(a) -> NodeRows(b, d, "A", read)
          [] d \notin NodeDirs(b) -> NodeRows(a, d, "D", read)
          [] OTHER -> IF d \notin read THEN {}
                      ELSE EntryDiff(a, b, Entries(a, d) \cup Entries(b, d)) \cup
                           UNION {R[c] : c \in Below(a, d) \cup Below(b, d)}
  IN R[<<>>]

\* the nodes that a comparison has to read; a v1 tree is one object
Nodes(i) == IF i = 0 THEN {} ELSE IF snaps[i].fmt = "v2" THEN NodeDirs(snaps[i].recs) ELSE {<<>>}
Split(i, j) == i > 0 /\ snaps[i].fmt = "v2" /\ snaps[j].fmt = "v2"
Needed(i, j) ==
  IF Split(i, j)
  THEN {d \in Nodes(i) \cup Nodes(j) : \A e \in Nodes(i) : Under(e, d) => ~SameNode(snaps[i].recs, snaps[j].recs, e)}
  ELSE Nodes(i) \cup Nodes(j)

\* large_tree_fold_required, the size of the tree object standing for the number of its records;
\* folded_root_status
Large(i) == i > 0 /\ Cardinality(Files(snaps[i].recs)) > Detail
Folded(i) == {Row(IF i = 0 THEN "A" ELSE "M", <<>>)}
\* the row of a tree that could not be read, and of a summary that was cut
Warning == {Row("warning", <<>>)}

\* snapshot_file_changes_from_root_trees and append_root_file_changes; i = 0: no snapshot before,
\* loaded: the records were read with the snapshot (mj diff), full: mj log --full,
\* read: the nodes that could be read before an error
TreeChanges(i, j, loaded, full, read) ==
  LET cut == IF Needed(i, j) \subseteq read THEN {} ELSE Warning IN
  CASE i > 0 /\ snaps[i].recs = snaps[j].recs /\ snaps[i].fmt = snaps[j].fmt -> {}
    [] ~full /\ (Large(i) \/ Large(j)) -> Folded(i)
    [] full /\ loaded -> EntryDiff(FileMap(i), FileMap(j), Paths)
    [] i = 0 /\ ~loaded /\ snaps[j].fmt = "v2" -> NodeRows(snaps[j].recs, <<>>, "A", read) \cup cut
    [] Split(i, j) /\ ~loaded -> NodeDiff(snaps[i].recs, snaps[j].recs, read) \cup cut
    [] OTHER -> IF cut = {} THEN EntryDiff(FileMap(i), FileMap(j), Paths) ELSE cut

\* append_operation_changes: what a snapshot notes for the time when it is pruned
Summary(a, b) ==
  LET rs == EntryDiff(NotDir(a), NotDir(b), Paths) IN
  [rows |-> CHOOSE T \in SUBSET rs : Cardinality(T) = (IF Cardinality(rs) > Limit THEN Limit ELSE Cardinality(rs)),
   none |-> rs = {}, cut |-> Cardinality(rs) > Limit]

\* mj diff, of two snapshots or of an operation
Dirs == {<<>>} \cup Paths
DiffCmd(i, j) == TreeChanges(i, j, TRUE, TRUE, Dirs)

\* operation_summary_changes; snapshot_metadata_unavailable_changes
Noted(j) == snaps[j].sum.rows \cup (IF snaps[j].sum.cut THEN Warning ELSE {})
\* operation_file_changes of the operation that took snapshot j
LogOf(j) ==
  CASE {j, j - 1} \cap gone = {} -> TreeChanges(j - 1, j, FALSE, FALSE, Dirs)
    [] {j, j - 1} \cap gone # {} -> IF Noted(j) # {} \/ snaps[j].sum.none THEN Noted(j) ELSE Warning

-----------------------------------------------------------------------------
(* mj state: a snapshot, or all of the past, against the work tree *)

\* state_metadata_changed
MetaChanged(a, b) == Size(a) # Size(b) \/ a.mode # b.mode \/ a.time # b.time
\* state_record_change_status, on hashed files
Hashed(a, b) ==
  CASE a.kind # b.kind \/ a.data # b.data -> "M"
    [] a.kind = b.kind /\ a.data = b.data /\ MetaChanged(a, b) -> "m"
    [] OTHER -> "same"

\* state_stream_record_fast_status, without reading the file
Fast(a, b) ==
  CASE a.kind # b.kind \/ (a.kind = "file" /\ Size(a) # Size(b)) \/ (a.kind = "link" /\ a.data # b.data) -> "M"
    [] OTHER -> IF MetaChanged(a, b) THEN "m" ELSE "same"
\* state_stream_payload_changed reads it
PayloadChanged(a, b) == a.kind = "file" /\ a.data # b.data
Streamed(a, b) == IF Fast(a, b) = "M" \/ PayloadChanged(a, b) THEN "M" ELSE Fast(a, b)

\* the records of the reference, with a tombstone for what is tracked and not among them
Basis(i) ==
  LET m == Only(FileMap(i), Paths \ Untracked)
      dead == Tombstones
  IN [p \in Paths |-> IF m[p] = NoRec /\ p \in dead THEN Tombstone ELSE m[p]]
Seen == Only(live, Paths \ Untracked)

\* the walk, and state_live_record_for_relative_path for what it leaves out
Here == Files(live)
\* append_state_untracked_changes: a directory stands for what is below it
Strange(known) ==
  LET loose == Here \ known
      whole == {p \in loose : live[p].kind = "dir" /\ ~\E q \in known : q # p /\ Under(p, q)}
      top == {p \in whole : ~\E q \in whole : q # p /\ Under(q, p)}
      single == {p \in loose : live[p].kind # "dir" /\ ~\E q \in top : Under(q, p)}
  IN {Row("?", p) : p \in top \cup single}

\* state_live_file_changes_for_root (--json)
JsonState(i, meta, untracked) ==
  LET a == Basis(i)
      b == Seen
      both == Files(a) \cap Files(b)
  IN {Row("A", p) : p \in Files(b) \ Files(a)} \cup {Row("D", p) : p \in Files(a) \ Files(b)} \cup
     {Row(Hashed(a[p], b[p]), p) : p \in {q \in both : Hashed(a[q], b[q]) = "M" \/ (meta /\ Hashed(a[q], b[q]) = "m")}} \cup
     (IF untracked THEN Strange(Files(a) \cup Files(b)) ELSE {})

\* state_stream_live_file_changes_for_root (the terminal)
TextState(i, meta, untracked) ==
  LET a == Basis(i)
      b == Seen
      fresh == {p \in Files(b) : a[p] \in {NoRec, Tombstone}}
      both == Files(b) \ fresh
  IN {Row("A", p) : p \in fresh} \cup {Row("D", p) : p \in Files(a) \ Files(b)} \cup
     {Row(Streamed(a[p], b[p]), p) : p \in {q \in both : Streamed(a[q], b[q]) = "M" \/ (meta /\ Streamed(a[q], b[q]) = "m")}} \cup
     (IF untracked THEN Strange(Files(a) \cup Files(b)) ELSE {})

\* first_snapshots_for_roots
Left == {i \in 1..Len(snaps) : i \notin gone}
Oldest == IF Left = {} THEN 0 ELSE CHOOSE i \in Left : \A j \in Left : i <= j
\* state_lifecycle_file_change_records_for_root (mj state without a reference)
Lifecycle(meta, untracked) ==
  LET first == Only(NotDir(FileMap(Oldest)), Paths \ Untracked)
      managed == (Tracked \cup Files(first) \cup Tombstones) \ Untracked
      here == {p \in managed : live[p] # NoRec /\ live[p].kind # "dir"}
      lost == {p \in managed : live[p] = NoRec \/ live[p].kind = "dir"}
      status(p) == IF p \in Files(first) THEN Streamed(first[p], live[p]) ELSE "A"
      shown(p) == IF status(p) = "M" \/ (meta /\ status(p) = "m") THEN status(p) ELSE "A"
  IN {Row(shown(p), p) : p \in here} \cup
     {Row("D", p) : p \in {q \in lost : q \in Files(first) \cup Tombstones}} \cup
     (IF untracked THEN Strange(managed) ELSE {})

\* state_cmd: without a reference (i = 0) both forms show the life cycle
Report(i, json, meta, untracked) ==
  CASE i = 0 -> Lifecycle(meta, untracked)
    [] i > 0 /\ json -> JsonState(i, meta, untracked)
    [] i > 0 /\ ~json -> TextState(i, meta, untracked)

-----------------------------------------------------------------------------
(* References and filters of mj state *)

\* snapshot_id_at; a time before all snapshots stands for the oldest (resolve_state_basis_optional)
BasisAt(t) ==
  LET S == {i \in Left : snaps[i].at <= t} IN
  IF S = {} THEN Oldest ELSE CHOOSE i \in S : \A j \in S : j <= i

Later(s, t) == IF s > t THEN s ELSE t
\* added_state_order_time, modified_state_order_time, deleted_state_order_time
OrderTime(c, i) ==
  CASE c.st = "A" -> Later(rows[c.path].first, live[c.path].time)
    [] c.st = "D" -> IF rows[c.path].st # "none" THEN Later(rows[c.path].off, rows[c.path].last) ELSE FileMap(i)[c.path].time
    [] OTHER -> live[c.path].time
\* StateChangeOptions::allows on the time; op and snapshot references do not filter
SinceRows(cs, i, t) == {c \in cs : OrderTime(c, i) >= t}

\* PathspecMatcher::from_raw below a root, in directory cwd; the name of the root may come first
SpecPath(cwd, spec) == IF Len(spec) > 1 /\ spec[1] = Root THEN Tail(spec) ELSE cwd \o spec
\* allows_display_path and pathspec_matches
Filtered(cs, cwd, spec) == {c \in cs : Under(SpecPath(cwd, spec), c.path)}

-----------------------------------------------------------------------------
(* Steps *)

ChangesInit ==
  /\ scene \in Scenes
  /\ live = scene.start
  /\ snaps = <<>> /\ gone = {} /\ clock = 1
  /\ rows = [p \in Paths |-> NoRow]
  /\ used = [edit |-> 0, row |-> 0, prune |-> 0]

Spend(what) == used[what] < scene[what] /\ used' = [used EXCEPT ![what] = @ + 1]
Tick == clock' = clock + 1

\* a file's time is read in whole seconds (modified_secs), those of rows and snapshots are not
Second(t) == t - (t % PerSecond)

\* the user writes, creates or removes a file; the time may be an old one (cp -p)
Edit(p, r, old) ==
  LET new == IF r = NoRec THEN NoRec ELSE [r EXCEPT !.time = IF old THEN 0 ELSE Second(clock)] IN
  /\ Spend("edit") /\ Tick
  /\ old => r.kind = "file" /\ scene.old
  /\ r # NoRec /\ Len(p) > 1 => live[Parent(p)].kind = "dir"
  /\ r # live[p]
  /\ live' = [q \in Paths |-> IF q = p THEN new
                              ELSE IF Under(p, q) /\ r.kind # "dir" THEN NoRec ELSE live[q]]
  /\ UNCHANGED <<scene, snaps, gone, rows>>

\* mark_path_tracked_with_source
Marked(row, src) ==
  [st |-> "tracked", off |-> 0, last |-> clock,
   first |-> IF row.st = "none" THEN clock ELSE row.first,
   src |-> CASE row.st = "none" -> src
             [] row.st # "none" /\ (row.src = "explicit" \/ src = "snapshot") -> row.src
             [] OTHER -> src]

\* stabilize_directory_modified_times
Stable(before, m) ==
  [p \in Paths |-> IF m[p].kind = "dir" /\ before[p].kind = "dir" /\ before[p].mode = m[p].mode
                   THEN before[p] ELSE m[p]]

\* a snapshot takes what is not untracked; one that equals its parent is not taken
Snapshot ==
  LET n == Len(snaps)
      before == FileMap(n)
      recs == Stable(before, Seen)
  IN
  /\ n < Len(scene.fmts) /\ n \notin gone
  /\ n > 0 => recs # before
  /\ snaps' = Append(snaps, [recs |-> recs, fmt |-> scene.fmts[n + 1], at |-> clock, sum |-> Summary(before, recs)])
  /\ rows' = [p \in Paths |-> IF recs[p] # NoRec /\ recs[p].kind # "dir" THEN Marked(rows[p], "snapshot") ELSE rows[p]]
  /\ Tick
  /\ UNCHANGED <<scene, live, gone, used>>

\* mj track, and the watcher's mark on a path it journals
Mark(p, src) ==
  /\ Spend("row") /\ Tick
  /\ live[p] # NoRec /\ live[p].kind # "dir" /\ (src = "journal" => p \notin Untracked)
  /\ rows' = [rows EXCEPT ![p] = Marked(@, src)]
  /\ UNCHANGED <<scene, live, snaps, gone>>
\* mj untrack
Untrack(p) ==
  /\ Spend("row") /\ Tick
  /\ live[p].kind # "dir"
  /\ rows' = [rows EXCEPT ![p] = [st |-> "untracked", src |-> "explicit", off |-> clock, last |-> clock,
                                  first |-> IF rows[p].st = "none" THEN clock ELSE rows[p].first]]
  /\ UNCHANGED <<scene, live, snaps, gone>>
\* retention drops a snapshot that is not the current one; its operation and summary stay
Prune(i) ==
  /\ Spend("prune") /\ Tick
  /\ i \in Left /\ i # Len(snaps)
  /\ gone' = gone \cup {i}
  /\ UNCHANGED <<scene, live, snaps, rows>>

ChangesNext ==
  \/ \E p \in Paths : \E r \in Choices[p], old \in BOOLEAN : Edit(p, r, old)
  \/ Snapshot
  \/ \E p \in Paths : (\E src \in {"explicit", "journal"} : Mark(p, src)) \/ Untrack(p)
  \/ \E i \in Left : Prune(i)

ChangesSpec == ChangesInit /\ [][ChangesNext]_cvars

-----------------------------------------------------------------------------
(* Properties *)

\* Pruned snapshots were taken, and whatever exists has a directory above it.
ChangesTypeOK ==
  /\ gone \subseteq 1..Len(snaps)
  /\ \A p \in Paths : live[p] # NoRec /\ Len(p) > 1 => live[Parent(p)].kind = "dir"

\* the plain definitions
Differs(a, b, p) ==
  CASE a[p] = NoRec /\ b[p] # NoRec -> "A"
    [] a[p] # NoRec /\ b[p] = NoRec -> "D"
    [] a[p] # NoRec /\ b[p] # NoRec /\ a[p] # b[p] -> "M"
    [] OTHER -> "same"
DiffOf(a, b) == {Row(Differs(a, b, p), p) : p \in {q \in Paths : Differs(a, b, q) # "same"}}
Recs(i) == IF i = 0 THEN [p \in Paths |-> NoRec] ELSE snaps[i].recs

\* mj diff and mj log --full report exactly the paths at which two snapshots differ, whichever
\* formats their trees have and however much of them is skipped by key; when a tree cannot be read
\* the log says so, and what it lists is right.  Without --full a large tree is one row, which is
\* there whenever something differs (snapshot_file_changes_from_root_trees, append_root_file_changes).
DiffIsExact ==
  \A i \in 0..Len(snaps), j \in 1..Len(snaps) :
    LET diff == DiffOf(Recs(i), Recs(j))
        brief == TreeChanges(i, j, FALSE, FALSE, Dirs)
    IN i # j =>
         /\ DiffCmd(i, j) = diff
         /\ \A read \in SUBSET Needed(i, j) :
              LET log == TreeChanges(i, j, FALSE, TRUE, read) IN
              IF read = Needed(i, j) THEN log = diff ELSE log \ Warning \subseteq diff /\ (diff # {} => Warning \subseteq log)
         /\ IF Large(i) \/ Large(j) THEN diff # {} => brief # {} ELSE brief = diff

\* The log of an operation names the same files after its snapshots were pruned as before, or says
\* that it was cut (operation_file_changes, append_operation_changes).
LogSurvivesPrune ==
  \A j \in 1..Len(snaps) :
    {j, j - 1} \cap gone # {} /\ ~(Warning \subseteq LogOf(j)) =>
      LogOf(j) = DiffOf(NotDir(Recs(j - 1)), NotDir(Recs(j)))

\* mj state with a reference: a file is A, D or M exactly if it was created, removed or changed since
\* the snapshot; D also stands for what was journalled or tracked and is gone.
Expected(i, p) ==
  LET a == Recs(i)[p]  b == live[p] IN
  CASE a = NoRec /\ b # NoRec -> "A"
    [] b = NoRec -> IF a # NoRec \/ p \in Tombstones THEN "D" ELSE "same"
    [] OTHER -> IF a.kind # b.kind \/ a.data # b.data THEN "M"
                ELSE IF a.mode # b.mode \/ a.time # b.time THEN "m" ELSE "same"
StateIsExact ==
  \A i \in Left, meta \in BOOLEAN :
    Report(i, FALSE, meta, FALSE) =
      {Row(Expected(i, p), p) : p \in {q \in Paths \ Untracked : Expected(i, q) \in {"A", "D", "M"} \cup (IF meta THEN {"m"} ELSE {})}}

\* The terminal and --json show the same rows, except that --json calls a file M that was tracked or
\* journalled since the reference and is not in it (state_live_file_changes_for_root).
FormsAgree ==
  \A i \in Left :
    LET new == {p \in Tombstones : Recs(i)[p] = NoRec /\ live[p] # NoRec}
        rest(S) == {c \in S : c.path \notin new \/ c.st = "?"}
        text == Report(i, FALSE, TRUE, TRUE)
        json == Report(i, TRUE, TRUE, TRUE)
    IN /\ rest(text) = rest(json)
       /\ \A p \in new : Row("A", p) \in text /\ Row("M", p) \in json

\* Without a reference every managed file has one row: it is there (A or M) or was there (D); with -U
\* each other file has a row, or one of a directory above it.
LifecycleIsComplete ==
  LET L == Report(0, FALSE, FALSE, TRUE)
      at(p) == {c \in L : c.path = p /\ c.st # "?"}
  IN /\ \A p \in Paths : Cardinality(at(p)) <= 1
     /\ \A p \in Tracked : live[p] # NoRec /\ live[p].kind # "dir" => \E c \in at(p) : c.st \in {"A", "M"}
     /\ \A p \in Tombstones : live[p] = NoRec => Row("D", p) \in L
     /\ \A p \in Untracked : at(p) = {}
     /\ \A p \in Files(live) : live[p].kind # "dir" => at(p) # {} \/ \E q \in Paths : Under(q, p) /\ Row("?", q) \in L

\* mj state <time> hides no change made since then, unless the file carries, in whole seconds, an
\* older time than that (StateChangeOptions::allows compares the modification time).
SinceIsComplete ==
  LET all == [i \in Left |-> Report(i, FALSE, FALSE, FALSE)] IN
  Left # {} => \A t \in 1..(clock - 1) :
    LET i == BasisAt(t) IN
       \A c \in all[i] \ SinceRows(all[i], i, t) :
         \/ live[c.path] # NoRec /\ live[c.path].time < t
         \/ live[c.path] = NoRec /\ rows[c.path].last < t

\* In a directory below the root, a pathspec selects the rows below that directory's path of this
\* name; a first name equal to the root's stands for the root (PathspecMatcher::from_raw).
SpecSelects ==
  LET cs == Report(Oldest, FALSE, TRUE, FALSE) IN
  \A p \in Paths :
    LET name == <<p[Len(p)]>> IN
    /\ Filtered(cs, Parent(p), name) = {c \in cs : Under(p, c.path)}
    /\ Filtered(cs, Parent(p), <<Root>> \o p) = {c \in cs : Under(p, c.path)}
=============================================================================
