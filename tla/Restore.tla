------------------------------- MODULE Restore -------------------------------
(***************************************************************************)
(* `mj restore` (apply, prepare, resume) and the materialized mount view   *)
(* of one root: choosing the snapshot, overlaying the journal, planning    *)
(* the deletions, prefetching the objects, checking for conflicts,         *)
(* deleting and writing, and the restore job that waits for archived       *)
(* objects.                                                                *)
(*                                                                         *)
(* A path is a sequence of names, a tree a function from the paths that    *)
(* exist to nodes; the root itself, <<>>, is a directory and no member.    *)
(* File contents are values; the objects that hold a value are loose, in   *)
(* the pack, or a large manifest with a chunk.  A scene fixes the history, *)
(* the objects, the commands that are run and what may disturb them.       *)
(***************************************************************************)
EXTENDS Integers, Sequences, FiniteSets, SequencesExt

CONSTANT Scenes

VARIABLES scene,  \* the history, the objects and the script
          tree,   \* the live target
          store,  \* objects: local, torn (partly written), and on the remote
          task,   \* queue/restores/<job>.json
          cmd,    \* the command that runs, or ran last
          view,   \* the mount point
          user    \* what the user had at the check, and changed since

rvars == <<scene, tree, store, task, cmd, view, user>>

None == <<"none">>
Dir == <<"dir">>
Torn == <<"file", "torn">>
File(v) == <<"file", v>>
IsFile(n) == n[1] = "file"
IsLink(n) == n[1] = "link"
Dangling == <<"link", "dangling">>

\* The entry at p, or None.
At(tr, p) == IF p \in DOMAIN tr THEN tr[p] ELSE None
Without(tr, ps) == [p \in DOMAIN tr \ ps |-> tr[p]]
With(tr, p, n) == IF n = None THEN Without(tr, {p}) ELSE [q \in DOMAIN tr \cup {p} |-> IF q = p THEN n ELSE tr[q]]
Ancestors(p) == {SubSeq(p, 1, n) : n \in 1 .. Len(p) - 1}
Below(tr, p) == {q \in DOMAIN tr : IsStrictPrefix(p, q)}

-----------------------------------------------------------------------------
(* History, snapshots, journal *)

\* What the root held at time t.
History(t) ==
  FoldLeft(LAMBDA tr, c : IF c.time <= t THEN With(tr, c.path, c.node) ELSE tr, scene.base, scene.changes)

LatestAt(t) == CHOOSE s \in scene.snaps : s <= t /\ \A o \in scene.snaps : o <= t => o <= s

\* --snapshot, --op, --at, --ago, or the current snapshot.
Selected(sel) ==
  CASE sel[1] \in {"snapshot", "op"} -> sel[2]
    [] sel[1] \in {"at", "ago"} -> LatestAt(sel[2])
    [] sel[1] = "current" -> scene.current

InScope(p, call) == IsPrefix(call.path, p)

\* The synced journal records in (snapshot, target time], oldest first.
Overlaid(call) ==
  LET target == IF call.sel[1] = "at" THEN call.sel[2] ELSE scene.now
  IN SelectSeq(scene.changes, LAMBDA c : /\ call.sel[1] # "snapshot"
                                         /\ c.kept /\ c.synced
                                         /\ c.time > Selected(call.sel) /\ c.time <= target
                                         /\ InScope(c.path, call))

Scoped(tr, call) == Without(tr, {p \in DOMAIN tr : ~InScope(p, call)})

PlanFiles(call) ==
  FoldLeft(LAMBDA tr, c : With(tr, c.path, c.node), Scoped(History(Selected(call.sel)), call), Overlaid(call))

\* Only regular files are extra.
PlanDeletesFiles(call, files) ==
  LET extra == {p \in DOMAIN tree : InScope(p, call) /\ IsFile(tree[p]) /\ p \notin DOMAIN files}
  IN SetToSortSeq(extra, LAMBDA p, q : Len(p) > Len(q))

\* Every live entry in scope that the plan does not list, unless a directory; deepest first.
PlanDeletes(call, files) ==
  LET extra == {p \in DOMAIN tree : InScope(p, call) /\ tree[p] # Dir /\ p \notin DOMAIN files}
  IN SetToSortSeq(extra, LAMBDA p, q : Len(p) > Len(q))

\* Directories come before what they hold.
WriteOrder(files) == SetToSortSeq(DOMAIN files, LAMBDA p, q : Len(p) < Len(q))

-----------------------------------------------------------------------------
(* Objects *)

Blob(v) == <<"blob", v>>
Manifest(v) == <<"manifest", v>>
Chunk(v) == <<"chunk", v>>
Pack == <<"pack">>
Index == <<"index">>

FormOf(v) == scene.form[v]
Packed == {v \in DOMAIN scene.form : FormOf(v) = "packed"}
Values(files) == {files[p][2] : p \in {q \in DOMAIN files : IsFile(files[q])}}

\* required_object_keys_for_plan
Required(files) ==
  UNION {CASE FormOf(v) = "loose" -> {Blob(v)}
           [] FormOf(v) = "packed" -> {Pack, Index}
           [] FormOf(v) = "large" -> {Manifest(v), Chunk(v)} : v \in Values(files)}

\* The remote object that holds a local one.
Source(k) == IF k \in {Blob(v) : v \in Packed} THEN Pack ELSE k
OnRemote(k) == store.remote[Source(k)]
Present(k) == k \in store.local
Obtainable(k) == Present(k) \/ OnRemote(k) = "here"

\* The manifests are read while the plan is made.
ManifestsReadable(files) ==
  \A v \in Values(files) : FormOf(v) = "large" => Obtainable(Manifest(v)) /\ Manifest(v) \notin store.torn

\* What apply fetches before it touches the target.
Prefetched(files) ==
  {k \in UNION {CASE FormOf(v) = "loose" -> {Blob(v)}
                  [] FormOf(v) = "packed" -> IF Present(Pack) THEN {} ELSE {Blob(v)}
                  [] FormOf(v) = "large" -> {Manifest(v), Chunk(v)} : v \in Values(files)} : ~Present(k)}

\* The objects a read of v touches: read_blob_payload, write_large_chunks_atomic.
ReadKeys(v) ==
  CASE FormOf(v) = "loose" -> {Blob(v)}
    [] FormOf(v) = "packed" -> IF ~Present(Pack) /\ Present(Blob(v)) THEN {Blob(v)} ELSE {Pack}
    [] FormOf(v) = "large" -> {Manifest(v), Chunk(v)}
Readable(v) == /\ \A k \in ReadKeys(v) : Obtainable(k)
               /\ FormOf(v) = "large" => Manifest(v) \notin store.torn
Content(v) == IF ReadKeys(v) \cap store.torn = {} THEN File(v) ELSE Torn
AfterRead(v) == [store EXCEPT !.local = @ \cup ReadKeys(v)]

\* restore_object_stats: what is only remote, and what is nowhere.
Archived(keys) == {k \in keys : ~Present(k) /\ OnRemote(k) # "gone"}
Missing(keys) == {k \in keys : ~Present(k) /\ OnRemote(k) = "gone"}

-----------------------------------------------------------------------------
(* Commands *)

\* Before the first command.
NoCall == [kind |-> "none", sel |-> <<"current">>, path |-> <<>>, force |-> FALSE, check |-> FALSE]

Resting == {"idle", "done", "failed", "stopped"}
Quiet == cmd.pc \in Resting
Fail(why) == cmd' = [cmd EXCEPT !.pc = "failed", !.why = why]
NextCall == scene.script[user.run + 1]

\* A command starts with the target as the user has it.
Started == user' = [run |-> user.run + 1, had |-> tree, edited |-> {}, edits |-> user.edits, stops |-> user.stops]

Command(call, pc, why, files, fetch) ==
  [pc |-> pc, why |-> why, call |-> call, files |-> files, deletes |-> PlanDeletes(call, files),
   todo |-> WriteOrder(files), fetch |-> fetch, pending |-> {}, stats |-> [archived |-> Archived(Required(files)),
   missing |-> Missing(Required(files))]]

\* `mj restore`: the plan is made from the live target and the journal.
Apply ==
  /\ Quiet /\ user.run < Len(scene.script) /\ NextCall.kind = "apply"
  /\ LET files == PlanFiles(NextCall)
     IN cmd' = IF ManifestsReadable(files) THEN Command(NextCall, "fetch", "", files, <<>>)
               ELSE Command(NextCall, "failed", "object", files, <<>>)
  /\ Started
  /\ UNCHANGED <<scene, tree, store, task, view>>

\* prefetch_packed_blob_ranges_for_plan, then hydrate_local_objects_from_remote, in parallel:
\* an object that cannot be had fails the command, and any of the others may have come.
Fetch ==
  /\ cmd.pc = "fetch"
  /\ LET need == Prefetched(cmd.files)
         can == {k \in need : Obtainable(k)}
     IN IF can = need
        THEN /\ store' = [store EXCEPT !.local = @ \cup need]
             /\ cmd' = [cmd EXCEPT !.pc = "check"]
        ELSE /\ \E got \in SUBSET can : store' = [store EXCEPT !.local = @ \cup got]
             /\ Fail("object")
  /\ UNCHANGED <<scene, tree, task, view, user>>

\* try_exists follows links: a dangling one, or one among the parents, is no entry; a parent
\* that is not a directory is an error.
FirstOdd(p) == {q \in Ancestors(p) : At(tree, q) # Dir /\ \A r \in Ancestors(q) : At(tree, r) = Dir}
TryExists(p) ==
  CASE FirstOdd(p) = {} -> IF At(tree, p) \in {None, Dangling} THEN "no" ELSE "yes"
    [] \E q \in FirstOdd(p) : At(tree, q) \in {None, Dangling} -> "no"
    [] OTHER -> "error"

\* A file is compared with the stored content, which is read for it.
Conflicts(files) == {p \in DOMAIN files : TryExists(p) = "yes" /\ tree[p] # files[p]}
CheckFails(files) ==
  \E p \in DOMAIN files :
     \/ TryExists(p) = "error"
     \/ TryExists(p) = "yes" /\ IsFile(tree[p]) /\ IsFile(files[p]) /\ ~Readable(files[p][2])

\* With --check-conflicts and no --force nothing may differ and nothing may be deleted.
Check ==
  /\ cmd.pc = "check"
  /\ IF cmd.call.check /\ ~cmd.call.force
     THEN CASE CheckFails(cmd.files) -> Fail("check")
            [] ~CheckFails(cmd.files) /\ Conflicts(cmd.files) # {} -> Fail("conflict")
            [] ~CheckFails(cmd.files) /\ Conflicts(cmd.files) = {} /\ cmd.deletes # <<>> -> Fail("deletes")
            [] OTHER -> cmd' = [cmd EXCEPT !.pc = "delete"]
     ELSE cmd' = [cmd EXCEPT !.pc = "delete"]
  /\ UNCHANGED <<scene, tree, store, task, view, user>>

\* ensure_restore_parent_beneath: missing parents are created, anything else in their place is refused.
ParentsOk(p) == \A q \in Ancestors(p) : At(tree, q) \in {None, Dir}
WithParents(p) == [q \in DOMAIN tree \cup Ancestors(p) |-> IF q \in DOMAIN tree THEN tree[q] ELSE Dir]

\* remove_empty_restore_parents: upwards until a directory still holds something.
WithoutEmptyParents(tr, p) ==
  Without(tr, {q \in Ancestors(p) : Below(tr, q) \subseteq Ancestors(p)})

Delete ==
  /\ cmd.pc = "delete" /\ cmd.deletes # <<>>
  /\ LET p == Head(cmd.deletes)
         rest == cmd' = [cmd EXCEPT !.deletes = Tail(@)]
     IN CASE ~ParentsOk(p) -> Fail("parent") /\ UNCHANGED tree
          [] ParentsOk(p) /\ IsLink(At(tree, p)) -> Fail("symlink") /\ tree' = WithParents(p)
          [] ParentsOk(p) /\ At(tree, p) = Dir -> Fail("directory") /\ tree' = WithParents(p)
          [] ParentsOk(p) /\ At(tree, p) = None -> rest /\ tree' = WithParents(p)
          [] OTHER -> rest /\ tree' = WithoutEmptyParents(Without(tree, {p}), p)
  /\ UNCHANGED <<scene, store, task, view, user>>

Deleted ==
  /\ cmd.pc = "delete" /\ cmd.deletes = <<>>
  /\ cmd' = [cmd EXCEPT !.pc = "clear"]
  /\ UNCHANGED <<scene, tree, store, task, view, user>>

\* Why what is at a path cannot make room, or "": restore_symlink, restore_special_file,
\* prepare_directory_restore_destination, prepare_file_restore_destination.
LinkRefusal(old, force) ==
  IF old = None THEN "" ELSE IF ~force THEN "exists" ELSE IF old = Dir THEN "directory" ELSE ""
SpecialRefusal(old, n, force) ==
  IF n # <<"special", "fifo">> THEN "special"
  ELSE IF old \in {None, n} THEN "" ELSE IF ~force THEN "exists" ELSE IF old = Dir THEN "directory" ELSE ""
DirRefusal(old, force) == IF old \in {None, Dir} \/ force THEN "" ELSE "exists"
FileRefusal(p, old, force) ==
  IF old # Dir THEN "" ELSE IF ~force THEN "exists" ELSE IF Below(tree, p) # {} THEN "directory" ELSE ""

Refusal(p, n, force) ==
  LET old == At(tree, p)
  IN CASE ~ParentsOk(p) -> "parent"
       [] ParentsOk(p) /\ IsLink(n) -> LinkRefusal(old, force)
       [] ParentsOk(p) /\ ~IsLink(n) /\ IsLink(old) -> "symlink"
       [] ParentsOk(p) /\ n[1] = "special" /\ ~IsLink(old) -> SpecialRefusal(old, n, force)
       [] ParentsOk(p) /\ n = Dir /\ ~IsLink(old) -> DirRefusal(old, force)
       [] ParentsOk(p) /\ IsFile(n) /\ ~IsLink(old) -> FileRefusal(p, old, force)

\* What is removed before n is written: a file is replaced by rename.
Cleared(p, n) ==
  IF (At(tree, p) = n /\ ~IsLink(n)) \/ (IsFile(n) /\ At(tree, p) # Dir) THEN WithParents(p)
  ELSE Without(WithParents(p), {p})

\* prepare_*_restore_destination and the first half of restore_symlink and restore_special_file.
Clear ==
  /\ cmd.pc = "clear" /\ cmd.todo # <<>>
  /\ LET p == Head(cmd.todo)
         n == cmd.files[p]
         why == Refusal(p, n, cmd.call.force)
     IN IF why = "" THEN cmd' = [cmd EXCEPT !.pc = "write"] /\ tree' = Cleared(p, n)
        ELSE Fail(why) /\ tree' = IF why = "parent" THEN tree ELSE WithParents(p)
  /\ UNCHANGED <<scene, store, task, view, user>>

\* Whether the entry can be created now: a file is renamed over anything but a directory.
Room(p, n) ==
  /\ Ancestors(p) \subseteq DOMAIN tree /\ ParentsOk(p)
  /\ IF IsFile(n) THEN At(tree, p) # Dir ELSE At(tree, p) \in {None, n} /\ ~IsLink(At(tree, p))

\* What is written: all chunks of a large file, or nothing.
Placed(tr, p, n) == With(tr, p, IF IsFile(n) THEN Content(n[2]) ELSE n)

\* The entry is created; the payload of a file is read first, and is not compared with its hash.
WriteEntry ==
  /\ cmd.pc = "write"
  /\ LET p == Head(cmd.todo)
         n == cmd.files[p]
     IN CASE ~Room(p, n) -> Fail("race") /\ UNCHANGED <<tree, store>>
          [] Room(p, n) /\ IsFile(n) /\ ~Readable(n[2]) -> Fail("object") /\ UNCHANGED <<tree, store>>
          [] OTHER -> /\ tree' = Placed(tree, p, n)
                      /\ store' = IF IsFile(n) THEN AfterRead(n[2]) ELSE store
                      /\ cmd' = [cmd EXCEPT !.pc = "clear", !.todo = Tail(@)]
  /\ UNCHANGED <<scene, task, view, user>>

\* The operation is recorded; mark_restore_job_done for a resumed job.
Finish ==
  /\ cmd.pc = "clear" /\ cmd.todo = <<>>
  /\ cmd' = [cmd EXCEPT !.pc = "done"]
  /\ task' = IF cmd.call.kind = "resume" THEN [task EXCEPT !.state = "done"] ELSE task
  /\ UNCHANGED <<scene, tree, store, view, user>>

-----------------------------------------------------------------------------
(* Restore jobs *)

NoTask == [state |-> "none", call |-> NoCall, snap |-> 0, required |-> {}, archived |-> {}, missing |-> {}]

\* build_restore_job
Job(call, req) ==
  [state |-> IF Archived(req) = {} THEN "prepared" ELSE "archive-requested", call |-> call, snap |-> Selected(call.sel),
   required |-> req, archived |-> Archived(req), missing |-> Missing(req)]

\* request_archive_restore_for_job
Requested(keys) ==
  [store EXCEPT !.remote = [k \in DOMAIN @ |-> IF @[k] = "cold" /\ k \in keys THEN "thawing" ELSE @[k]]]

Prepare ==
  /\ Quiet /\ user.run < Len(scene.script) /\ NextCall.kind = "prepare"
  /\ LET files == PlanFiles(NextCall)
         req == Required(files)
     IN IF ~ManifestsReadable(files)
        THEN /\ cmd' = Command(NextCall, "failed", "object", files, <<>>)
             /\ UNCHANGED <<store, task>>
        ELSE /\ task' = Job(NextCall, req)
             /\ store' = Requested(Archived(req))
             /\ cmd' = Command(NextCall, "done", "", files, <<>>)
  /\ Started
  /\ UNCHANGED <<scene, tree, view>>

\* ensure_restore_job_resumable, ensure_restore_job_has_no_missing_objects.
Resume ==
  /\ Quiet /\ user.run < Len(scene.script) /\ NextCall.kind = "resume"
  /\ LET call == [NextCall EXCEPT !.sel = <<"snapshot", task.snap>>, !.path = task.call.path,
                                  !.force = task.call.force, !.check = task.call.check]
         none == [p \in {} |-> None]
     IN cmd' = CASE task.state \in {"none", "torn", "done"} -> Command(NextCall, "failed", "job", none, <<>>)
                 [] task.state \notin {"none", "torn", "done"} /\ task.missing # {} ->
                      Command(call, "failed", "missing", none, <<>>)
                 [] OTHER -> Command(call, "hydrate", "", none, SetToSeq(task.archived))
  /\ Started
  /\ UNCHANGED <<scene, tree, store, task, view>>

\* The files a key's hydration writes, in place.
Written(k) == IF k = Pack THEN {Blob(v) : v \in Packed} ELSE {k}

\* hydrate_restore_job_objects, one key: a pack is hydrated blob by blob, and a blob that cannot
\* be read ends the command; any other object that cannot be read stays pending.
HydrateKey ==
  /\ cmd.pc = "hydrate" /\ cmd.fetch # <<>>
  /\ LET k == Head(cmd.fetch)
         next == [cmd EXCEPT !.fetch = Tail(@)]
     IN IF Present(k) THEN cmd' = next /\ UNCHANGED store
        ELSE IF \A b \in Written(k) : Obtainable(b)
        THEN cmd' = next /\ store' = [store EXCEPT !.local = @ \cup Written(k)]
        ELSE /\ IF k = Pack /\ OnRemote(k) # "gone" THEN Fail("object") ELSE cmd' = [next EXCEPT !.pending = @ \cup {k}]
             /\ UNCHANGED store
  /\ UNCHANGED <<scene, tree, task, view, user>>

\* mark_ready_if_archives_hydrated, write_restore_job, then the plan of the job's snapshot.
Hydrated ==
  /\ cmd.pc = "hydrate" /\ cmd.fetch = <<>>
  /\ LET files == PlanFiles(cmd.call)
     IN /\ task' = [task EXCEPT !.archived = IF @ = {} THEN @ ELSE cmd.pending,
                               !.state = IF task.archived # {} /\ cmd.pending = {} THEN "ready" ELSE @]
        /\ CASE cmd.pending # {} -> Fail("pending")
             [] cmd.pending = {} /\ ~ManifestsReadable(files) -> cmd' = Command(cmd.call, "failed", "object", files, <<>>)
             [] OTHER -> cmd' = Command(cmd.call, "fetch", "", files, <<>>)
  /\ user' = [user EXCEPT !.had = tree, !.edited = {}]
  /\ UNCHANGED <<scene, tree, store, view>>

-----------------------------------------------------------------------------
(* The materialized mount view *)

Hole == <<"hole">>
NoView == [marker |-> FALSE, tree |-> <<>>, lazy |-> {}]

\* mount_cmd: the mount point must be empty.
Mount ==
  /\ Quiet /\ user.run < Len(scene.script) /\ NextCall.kind = "mount"
  /\ cmd' = IF view = NoView THEN [Command(NextCall, "mount", "", PlanFiles(NextCall), <<>>) EXCEPT !.deletes = <<>>]
            ELSE Command(NextCall, "failed", "mountpoint", PlanFiles(NextCall), <<>>)
  /\ Started
  /\ UNCHANGED <<scene, tree, store, task, view>>

IsLazy(n) == IsFile(n) /\ FormOf(n[2]) = "large"

\* A large file is created empty, at its size; its sidecar follows.
MountEntry ==
  /\ cmd.pc = "mount" /\ cmd.todo # <<>>
  /\ LET p == Head(cmd.todo)
         n == cmd.files[p]
         put(m) == [view EXCEPT !.tree = With([q \in DOMAIN @ \cup Ancestors(p) |-> IF q \in DOMAIN @ THEN @[q] ELSE Dir], p, m)]
     IN CASE IsLazy(n) /\ At(view.tree, p) = None ->
               view' = put(Hole) /\ UNCHANGED <<cmd, store>>
          [] IsLazy(n) /\ At(view.tree, p) # None ->
               view' = [view EXCEPT !.lazy = @ \cup {<<p, n[2]>>}] /\ cmd' = [cmd EXCEPT !.todo = Tail(@)] /\ UNCHANGED store
          [] n[1] = "special" /\ n # <<"special", "fifo">> -> Fail("special") /\ UNCHANGED <<view, store>>
          [] IsFile(n) /\ ~IsLazy(n) /\ ~Readable(n[2]) -> Fail("object") /\ UNCHANGED <<view, store>>
          [] OTHER -> /\ view' = put(IF IsFile(n) THEN Content(n[2]) ELSE n)
                      /\ store' = IF IsFile(n) THEN AfterRead(n[2]) ELSE store
                      /\ cmd' = [cmd EXCEPT !.todo = Tail(@)]
  /\ UNCHANGED <<scene, tree, task, user>>

Mounted ==
  /\ cmd.pc = "mount" /\ cmd.todo = <<>>
  /\ view' = [view EXCEPT !.marker = TRUE]
  /\ cmd' = [cmd EXCEPT !.pc = "done"]
  /\ UNCHANGED <<scene, tree, store, task, user>>

\* hydrate_cmd over every sidecar; the plan is kept to compare with.
HydrateView ==
  /\ Quiet /\ user.run < Len(scene.script) /\ NextCall.kind = "hydrate"
  /\ cmd' = [cmd EXCEPT !.call = NextCall, !.todo = SetToSeq(view.lazy), !.why = IF view.lazy = {} THEN "nothing" ELSE "",
                        !.pc = IF view.lazy = {} THEN "failed" ELSE "view"]
  /\ Started
  /\ UNCHANGED <<scene, tree, store, task, view>>

\* The content is renamed into place, then the sidecar is removed.
FillHole ==
  /\ cmd.pc = "view" /\ cmd.todo # <<>>
  /\ LET p == Head(cmd.todo)[1]
         v == Head(cmd.todo)[2]
     IN IF Readable(v)
        THEN /\ view' = [view EXCEPT !.tree = With(@, p, Content(v))]
             /\ store' = AfterRead(v)
             /\ cmd' = [cmd EXCEPT !.pc = "filled"]
        ELSE Fail("object") /\ UNCHANGED <<view, store>>
  /\ UNCHANGED <<scene, tree, task, user>>

DropSidecar ==
  /\ cmd.pc = "filled"
  /\ view' = [view EXCEPT !.lazy = @ \ {Head(cmd.todo)}]
  /\ cmd' = [cmd EXCEPT !.todo = Tail(@), !.pc = IF Tail(cmd.todo) = <<>> THEN "done" ELSE "view"]
  /\ UNCHANGED <<scene, tree, store, task, user>>

\* unmount_cmd: only what carries the marker is removed.
Unmount ==
  /\ Quiet /\ user.run < Len(scene.script) /\ NextCall.kind = "unmount"
  /\ view' = IF view.marker THEN NoView ELSE view
  /\ cmd' = [cmd EXCEPT !.call = NextCall, !.pc = IF view.marker THEN "done" ELSE "failed", !.why = "mountpoint"]
  /\ Started
  /\ UNCHANGED <<scene, tree, store, task>>

-----------------------------------------------------------------------------
(* What happens around a command *)

\* The storage makes an archived object readable.
Thaw ==
  /\ \E k \in DOMAIN store.remote :
       /\ store.remote[k] = "thawing"
       /\ store' = [store EXCEPT !.remote[k] = "here"]
  /\ UNCHANGED <<scene, tree, task, cmd, view, user>>

\* The user changes the live tree; up to the check that is what the command must respect.
Edit ==
  /\ user.edits > 0 /\ ~Quiet
  /\ \E e \in scene.edits :
       /\ \A q \in Ancestors(e.path) : At(tree, q) = Dir
       /\ At(tree, e.path) # e.node /\ Below(tree, e.path) = {}
       /\ tree' = With(tree, e.path, e.node)
       /\ user' = [user EXCEPT !.edits = @ - 1, !.edited = @ \cup {e.path},
                               !.had = IF cmd.pc \in {"hydrate", "fetch", "check"} THEN tree' ELSE @]
  /\ UNCHANGED <<scene, store, task, cmd, view>>

\* The payload cache is pruned: restore takes no lock.
Evict ==
  /\ scene.evict /\ user.edits > 0 /\ ~Quiet
  /\ \E k \in store.local :
       /\ OnRemote(k) = "here"
       /\ store' = [store EXCEPT !.local = @ \ {k}, !.torn = @ \ {k}]
  /\ user' = [user EXCEPT !.edits = @ - 1]
  /\ UNCHANGED <<scene, tree, task, cmd, view>>

\* The process ends.  The job file and the hydrated objects are written in place, so that the
\* one being written may be left torn.
TornObjects ==
  IF cmd.pc = "hydrate" /\ cmd.fetch # <<>>
  THEN {b \in Written(Head(cmd.fetch)) : ~Present(b) /\ Obtainable(b)}
  ELSE {}
WritesJob == \/ cmd.pc = "hydrate" /\ cmd.fetch = <<>> /\ task.archived # {}
             \/ cmd.pc = "clear" /\ cmd.todo = <<>> /\ cmd.call.kind = "resume"

Stop ==
  /\ ~Quiet /\ user.stops > 0
  /\ cmd' = [cmd EXCEPT !.pc = "stopped"]
  /\ user' = [user EXCEPT !.stops = @ - 1]
  /\ \/ UNCHANGED <<store, task>>
     \/ /\ \E b \in TornObjects : store' = [store EXCEPT !.local = @ \cup {b}, !.torn = @ \cup {b}]
        /\ UNCHANGED task
     \/ WritesJob /\ task' = [task EXCEPT !.state = "torn"] /\ UNCHANGED store
  /\ UNCHANGED <<scene, tree, view>>

RInit ==
  /\ scene \in Scenes
  /\ tree = scene.live
  /\ store = [local |-> scene.local, torn |-> {}, remote |-> scene.remote]
  /\ task = NoTask
  /\ cmd = [pc |-> "idle", why |-> "", call |-> NoCall, files |-> <<>>, deletes |-> <<>>, todo |-> <<>>, fetch |-> <<>>,
            pending |-> {}, stats |-> [archived |-> {}, missing |-> {}]]
  /\ view = NoView
  /\ user = [run |-> 0, had |-> scene.live, edited |-> {}, edits |-> scene.budget, stops |-> scene.stops]

RNext ==
  \/ Apply \/ Fetch \/ Check \/ Delete \/ Deleted \/ Clear \/ WriteEntry \/ Finish
  \/ Prepare \/ Resume \/ HydrateKey \/ Hydrated
  \/ Mount \/ MountEntry \/ Mounted \/ HydrateView \/ FillHole \/ DropSidecar \/ Unmount
  \/ Thaw \/ Edit \/ Evict \/ Stop

RSpec == RInit /\ [][RNext]_rvars

-----------------------------------------------------------------------------
(* Properties *)

\* Type invariant: a tree's entries hang below directories and the job names what it waits for.
RestoreTypeOK ==
  /\ \A p \in DOMAIN tree : \A q \in Ancestors(p) : At(tree, q) = Dir
  /\ store.torn \subseteq store.local /\ store.local \subseteq DOMAIN store.remote
  /\ task.state \in {"none", "prepared", "archive-requested", "ready", "done", "torn"}
  /\ cmd.why # "" => cmd.pc = "failed" \/ cmd.call.kind = "unmount"

Applies == cmd.call.kind \in {"apply", "resume"}
Undisturbed == user.edited = {} /\ store.torn = {}

\* A restore that reports success (apply_restore_plan returned) has made the target equal to its
\* plan: every planned entry is there with the planned content, of the other entries in scope
\* only directories are left, and nothing outside the scope changed, except that directories on
\* the way to planned entries may be new.
RestoreIsExact ==
  Applies /\ cmd.pc = "done" /\ Undisturbed =>
    /\ \A p \in DOMAIN cmd.files : At(tree, p) = cmd.files[p]
    /\ \A p \in DOMAIN tree \ DOMAIN cmd.files :
         \/ tree[p] = Dir
         \/ ~InScope(p, cmd.call) /\ tree[p] = At(user.had, p)
    /\ \A p \in DOMAIN user.had : ~InScope(p, cmd.call) /\ user.had[p] # Dir => At(tree, p) = user.had[p]

\* Without --force and with the conflict check (the defaults of a prepared job) no entry the user
\* had when the check ran is ever removed or replaced, whatever the command does next and wherever
\* it fails or is stopped; an entry changed after the check is the only exception.
NothingIsLost ==
  Applies /\ cmd.call.check /\ ~cmd.call.force =>
    \A p \in DOMAIN user.had \ user.edited : At(tree, p) = user.had[p]

\* At every moment, also after a stop or a failure, each entry is what the user had or what was
\* planned: no entry is partly written (write_atomic), and of the files, links and special files that
\* are both had and planned at most the one being replaced is absent.
StopLosesAtMostOne ==
  Applies /\ Undisturbed /\ cmd.pc # "hydrate" =>
    /\ \A p \in DOMAIN tree :
         tree[p] \in {At(user.had, p), At(cmd.files, p), Dir}
    /\ Cardinality({p \in DOMAIN user.had \cap DOMAIN cmd.files :
                     user.had[p] # Dir /\ cmd.files[p] # Dir /\ p \notin DOMAIN tree}) <= 1

\* What stands in the way of a forced restore.
Obstacle ==
  \/ \E p \in DOMAIN user.had : /\ InScope(p, cmd.call) /\ IsLink(user.had[p])
                                /\ ~IsLink(At(cmd.files, p))
  \/ \E p \in DOMAIN cmd.files : \E q \in Ancestors(p) : At(user.had, q) \notin {None, Dir} /\ ~InScope(q, cmd.call)
  \/ \E p \in DOMAIN cmd.files : /\ cmd.files[p][1] \in {"link", "special"} /\ At(user.had, p) = Dir
  \/ \E p \in DOMAIN cmd.files : /\ IsFile(cmd.files[p]) /\ At(user.had, p) = Dir
                                  /\ \E q \in Below(user.had, p) : user.had[q] = Dir /\ Below(user.had, q) = {}
  \/ \E p \in DOMAIN cmd.files : cmd.files[p][1] = "special" /\ cmd.files[p] # <<"special", "fifo">>

\* A forced restore that nobody disturbs fails only for an obstacle a user can see before it
\* starts, or for an object the plan's statistics already reported as archived or missing: a
\* restore that failed or was stopped halfway can be run again.
ForceSucceeds ==
  Applies /\ cmd.pc = "failed" /\ cmd.call.force /\ Undisturbed /\ user.edits = scene.budget =>
    \/ cmd.why \in {"symlink", "parent", "directory", "special"} /\ Obstacle
    \/ cmd.why = "object" /\ (cmd.stats.archived # {} \/ cmd.stats.missing # {} \/ cmd.call.kind = "resume")
    \/ cmd.why \in {"job", "missing", "pending"} /\ cmd.call.kind = "resume"

\* The journal holds everything up to the requested time.
Covered(t) == \A i \in 1 .. Len(scene.changes) :
  LET c == scene.changes[i] IN c.time > Selected(cmd.call.sel) /\ c.time <= t => c.kept /\ c.synced

\* `restore --at t` plans the state of the root at t, `restore` the newest state and `restore
\* --snapshot` the state of that snapshot, whenever the events after the snapshot are in the
\* synced journal; `--op` and `--ago` plan their snapshot when no synced event follows it.
PlanIsAsOf ==
  Applies /\ cmd.pc \in {"check", "done"} =>
    LET s == cmd.call.sel
        wanted == CASE s[1] = "at" -> s[2] [] s[1] = "current" -> scene.now [] OTHER -> Selected(s)
    IN (s[1] \in {"op", "ago"} => Overlaid(cmd.call) = <<>>) /\ Covered(wanted)
         => cmd.files = Scoped(History(wanted), cmd.call)

\* docs/RESTORE_TUTORIAL.md: "`mj restore --op` restores the state produced by that operation."
OpIsRestored ==
  Applies /\ cmd.pc = "done" /\ cmd.call.sel[1] = "op" => cmd.files = Scoped(History(cmd.call.sel[2]), cmd.call)

\* A job says what it waits for: it is ready only when nothing is pending, it is done only after
\* every object it needed could be read, and what is pending is always among what is required.
JobIsSound ==
  /\ task.state \in {"ready", "done"} => task.archived = {} /\ task.missing = {}
  /\ task.archived \cup task.missing \subseteq task.required
  /\ cmd.pc = "fetch" /\ cmd.call.kind = "resume" =>
       \A k \in task.required : Present(k) \/ OnRemote(k) = "here" \/ user.edits < scene.budget

\* A mounted view shows no hole it does not also list as lazy, at any moment of `hydrate` and after
\* any stop: a large file reads as zeroes only while its sidecar exists.
ViewIsHonest ==
  view.marker =>
    \A p \in DOMAIN view.tree : view.tree[p] = Hole => \E l \in view.lazy : l[1] = p
=============================================================================
