------------------------------ MODULE MCHost ------------------------------
(***************************************************************************)
(* The commands of one host that have no liveness property, explored in    *)
(* one run: restore and mount, fsck with prune and untrack, the scan of a  *)
(* root, the root table, key rotation, the remote store, the reports of    *)
(* changes, the watch daemon's life, and branches with the operation log.  *)
(* A behaviour belongs to one of them (mode), whose variables are the      *)
(* first of x1 .. x17; the others stay 0.  Every component keeps its own   *)
(* module and its own scenes.                                              *)
(***************************************************************************)
EXTENDS Naturals, Sequences

CONSTANTS RestoreScenes, FsckScenes, ScanScenes, RootsScenes, KeyScenes, StoreScenes,
          ChangeScenes, ChangePaths, ChangeChoices, DaemonScenes, BranchScenes, BranchNames,
          HostPart, HostStem, HostFiles, HostRootOf, HostBlobs, HostLarges, HostProcs, HostIds,
          HostKeys

VARIABLES mode, x1, x2, x3, x4, x5, x6, x7, x8, x9, x10, x11, x12, x13, x14, x15, x16, x17

R == INSTANCE MCRestore WITH
    Scenes <- RestoreScenes, scene <- x1, tree <- x2, store <- x3, task <- x4, cmd <- x5,
    view <- x6, user <- x7

F == INSTANCE MCFsck WITH
    Blobs <- HostBlobs, Larges <- HostLarges, RootOf <- HostRootOf, Scenes <- FsckScenes,
    scene <- x1, work <- x2, managed <- x3, snaps <- x4, last <- x5, idx <- x6, rows <- x7,
    disk <- x8, rem <- x9, up <- x10, refs <- x11, oplog <- x12, said <- x13, used <- x14,
    short <- x15

W == INSTANCE MCScan WITH
    Part <- HostPart, Stem <- HostStem, Files <- HostFiles, Scenes <- ScanScenes, scene <- x1,
    root <- x2, world <- x3, rows <- x4, snap <- x5, scan <- x6, last <- x7, used <- x8,
    gone <- x9, mixed <- x10, kept <- x11

T == INSTANCE MCRoots WITH
    Procs <- HostProcs, RootIds <- HostIds, Scenes <- RootsScenes, rscene <- x1, db <- x2,
    conf <- x3, proc <- x4, place <- x5, cur <- x6, want <- x7, dropped <- x8, spent <- x9

K == INSTANCE MCKeyRotation WITH
    KeySet <- HostKeys, FirstKey <- "k1", Scenes <- KeyScenes, kscene <- x1, keys <- x2,
    disk <- x3, remote <- x4, up <- x5, rows <- x6, packed <- x7, rot <- x8, shot <- x9,
    synced <- x10, spent <- x11, blind <- x12, stacked <- x13, overlap <- x14

S == INSTANCE MCRemoteStore WITH
    Threads <- {"a", "b"}, Keys <- 1..3, Parts <- 1..3, Parallel <- 2, Attempts <- 2,
    LockTries <- 2, Scenes <- StoreScenes, scene <- x1, obj <- x2, disk <- x3, tmps <- x4,
    lock <- x5, uploads <- x6, neg <- x7, th <- x8, used <- x9, spent <- x10, kept <- x11,
    hit <- x12, won <- x13, rough <- x14, raced <- x15, leaked <- x16, seen <- x17

C == INSTANCE MCChanges WITH
    Paths <- ChangePaths, Root <- "r", Choices <- ChangeChoices, Limit <- 2, Detail <- 2, PerSecond <- 2,
    Scenes <- ChangeScenes, scene <- x1, live <- x2, snaps <- x3, gone <- x4, rows <- x5,
    clock <- x6, used <- x7

D == INSTANCE MCDaemon WITH
    Pids <- 1..3, Cmds <- {"c", "d"}, Scenes <- DaemonScenes, scene <- x1, pidf <- x2, ident <- x3,
    lockf <- x4, sock <- x5, w <- x6, c <- x7, used <- x8, last <- x9, broken <- x10,
    overlap <- x11

B == INSTANCE MCBranches WITH
    Names <- BranchNames, Default <- "main", Procs <- HostProcs, Scenes <- BranchScenes, scene <- x1,
    snaps <- x2, heads <- x3, act <- x4, cur <- x5, ops <- x6, file <- x7, proc <- x8,
    made <- x9, count <- x10, spent <- x11, raced <- x12, torn <- x13, crossed <- x14,
    gap <- x15, loose <- x16, lost <- x17

-----------------------------------------------------------------------------
(* The scenes of the components, for the cfg: the same modules once more,   *)
(* with nothing in the place of what the scenes are to be.                  *)

RestoreParts == INSTANCE MCRestore WITH
    Scenes <- {}, scene <- x1, tree <- x2, store <- x3, task <- x4, cmd <- x5, view <- x6,
    user <- x7
FsckParts == INSTANCE MCFsck WITH
    Blobs <- HostBlobs, Larges <- HostLarges, RootOf <- <<>>, Scenes <- {}, scene <- x1,
    work <- x2, managed <- x3, snaps <- x4, last <- x5, idx <- x6, rows <- x7, disk <- x8,
    rem <- x9, up <- x10, refs <- x11, oplog <- x12, said <- x13, used <- x14, short <- x15
ScanParts == INSTANCE MCScan WITH
    Part <- <<>>, Stem <- <<>>, Files <- {}, Scenes <- {}, scene <- x1, root <- x2,
    world <- x3, rows <- x4, snap <- x5, scan <- x6, last <- x7, used <- x8, gone <- x9,
    mixed <- x10, kept <- x11
RootsParts == INSTANCE MCRoots WITH
    Procs <- HostProcs, RootIds <- <<>>, Scenes <- {}, rscene <- x1, db <- x2, conf <- x3,
    proc <- x4, place <- x5, cur <- x6, want <- x7, dropped <- x8, spent <- x9
KeyParts == INSTANCE MCKeyRotation WITH
    KeySet <- HostKeys, FirstKey <- "k1", Scenes <- {}, kscene <- x1, keys <- x2, disk <- x3,
    remote <- x4, up <- x5, rows <- x6, packed <- x7, rot <- x8, shot <- x9, synced <- x10,
    spent <- x11, blind <- x12, stacked <- x13, overlap <- x14
StoreParts == INSTANCE MCRemoteStore WITH
    Threads <- {"a", "b"}, Keys <- 1..3, Parts <- 1..3, Parallel <- 2, Attempts <- 2,
    LockTries <- 2, Scenes <- {}, scene <- x1, obj <- x2, disk <- x3, tmps <- x4,
    lock <- x5, uploads <- x6, neg <- x7, th <- x8, used <- x9, spent <- x10, kept <- x11,
    hit <- x12, won <- x13, rough <- x14, raced <- x15, leaked <- x16, seen <- x17
ChangeParts == INSTANCE MCChanges WITH
    Paths <- {}, Root <- "r", Choices <- <<>>, Limit <- 2, Detail <- 2, PerSecond <- 2,
    Scenes <- {}, scene <- x1, live <- x2, snaps <- x3, gone <- x4, rows <- x5,
    clock <- x6, used <- x7
DaemonParts == INSTANCE MCDaemon WITH
    Pids <- 1..3, Cmds <- {"c", "d"}, Scenes <- {}, scene <- x1, pidf <- x2, ident <- x3,
    lockf <- x4, sock <- x5, w <- x6, c <- x7, used <- x8, last <- x9, broken <- x10,
    overlap <- x11
BranchParts == INSTANCE MCBranches WITH
    Names <- <<>>, Default <- "main", Procs <- HostProcs, Scenes <- {}, scene <- x1,
    snaps <- x2, heads <- x3, act <- x4, cur <- x5, ops <- x6, file <- x7, proc <- x8,
    made <- x9, count <- x10, spent <- x11, raced <- x12, torn <- x13, crossed <- x14,
    gap <- x15, loose <- x16, lost <- x17

MCRestoreScenes == RestoreParts!MCScenes
MCFsckScenes == FsckParts!MCScenes
MCScanScenes == ScanParts!MCScenes
MCRootsScenes == RootsParts!MCScenes
MCKeyScenes == KeyParts!MCScenes
MCStoreScenes == StoreParts!MCScenes
MCChangeScenes == ChangeParts!MCScenes
MCChangePaths == ChangeParts!MCPaths
MCChangeChoices == ChangeParts!MCChoices
MCDaemonScenes == DaemonParts!MCScenes
MCBranchScenes == BranchParts!MCScenes
MCBranchNames == BranchParts!MCNames
MCHostPart == ScanParts!MCPart
MCHostStem == ScanParts!MCStem
MCHostFiles == ScanParts!MCFiles
MCHostRootOf == FsckParts!MCRootOf
MCHostIds == RootsParts!MCRootIds

-----------------------------------------------------------------------------

HostInit ==
    \/ mode = "restore" /\ R!RInit
       /\ x8 = 0 /\ x9 = 0 /\ x10 = 0 /\ x11 = 0 /\ x12 = 0 /\ x13 = 0 /\ x14 = 0 /\ x15 = 0
       /\ x16 = 0 /\ x17 = 0
    \/ mode = "fsck" /\ F!FInit
       /\ x16 = 0 /\ x17 = 0
    \/ mode = "scan" /\ W!ScanInit
       /\ x12 = 0 /\ x13 = 0 /\ x14 = 0 /\ x15 = 0
       /\ x16 = 0 /\ x17 = 0
    \/ mode = "roots" /\ T!RootsInit
       /\ x10 = 0 /\ x11 = 0 /\ x12 = 0 /\ x13 = 0 /\ x14 = 0 /\ x15 = 0
       /\ x16 = 0 /\ x17 = 0
    \/ mode = "keys" /\ K!KeyInit
       /\ x15 = 0 /\ x16 = 0 /\ x17 = 0
    \/ mode = "store" /\ S!SInit
    \/ mode = "changes" /\ C!ChangesInit
       /\ x8 = 0 /\ x9 = 0 /\ x10 = 0 /\ x11 = 0 /\ x12 = 0 /\ x13 = 0 /\ x14 = 0 /\ x15 = 0
       /\ x16 = 0 /\ x17 = 0
    \/ mode = "daemon" /\ D!DInit
       /\ x12 = 0 /\ x13 = 0 /\ x14 = 0 /\ x15 = 0 /\ x16 = 0 /\ x17 = 0
    \/ mode = "branches" /\ B!BInit

HostNext ==
    \/ mode = "restore" /\ R!RNext
       /\ UNCHANGED <<mode, x8, x9, x10, x11, x12, x13, x14, x15, x16, x17>>
    \/ mode = "fsck" /\ F!FNext
       /\ UNCHANGED <<mode, x16, x17>>
    \/ mode = "scan" /\ W!ScanNext
       /\ UNCHANGED <<mode, x12, x13, x14, x15, x16, x17>>
    \/ mode = "roots" /\ T!RootsNext
       /\ UNCHANGED <<mode, x10, x11, x12, x13, x14, x15, x16, x17>>
    \/ mode = "keys" /\ K!KeyNext
       /\ UNCHANGED <<mode, x15, x16, x17>>
    \/ mode = "store" /\ S!SNext
       /\ UNCHANGED <<mode>>
    \/ mode = "changes" /\ C!ChangesNext
       /\ UNCHANGED <<mode, x8, x9, x10, x11, x12, x13, x14, x15, x16, x17>>
    \/ mode = "daemon" /\ D!DNext
       /\ UNCHANGED <<mode, x12, x13, x14, x15, x16, x17>>
    \/ mode = "branches" /\ B!BNext
       /\ UNCHANGED <<mode>>

hostVars == <<mode, x1, x2, x3, x4, x5, x6, x7, x8, x9, x10, x11, x12, x13, x14, x15, x16, x17>>
HostSpec == HostInit /\ [][HostNext]_hostVars

\* States after an event the component's properties exempt are not explored further.
Unhurt ==
    /\ mode = "keys" => K!Unhurt
    /\ mode = "daemon" => D!Followed
    /\ mode = "branches" => B!Alone

-----------------------------------------------------------------------------

\* A restore that reports success (apply_restore_plan returned) has made the target equal to its
\* plan and has changed nothing outside its scope; the plan is the state of the requested time, a
\* forced restore can be run again after any stop, a job says what it waits for and is done only
\* when all of it could be read, and a mounted view shows no hole it does not list
\* (build_restore_plan, resume_restore_job, hydrate_mount).  Without --force no entry the user had
\* when the conflict check ran is ever removed or replaced; with it, wherever the restore fails or
\* is stopped, each entry is what the user had or what was planned, and at most the one being
\* replaced is absent (write_atomic).
RestoreIsExact ==
    mode = "restore" =>
        /\ R!RestoreTypeOK /\ R!RestoreIsExact
        /\ R!PlanIsAsOf /\ R!ForceSucceeds /\ R!JobIsSound /\ R!ViewIsHonest
        /\ R!NothingIsLost /\ R!StopLosesAtMostOne

\* When mj fsck, or fsck --since, says ok, the files it covers can be read back from the local
\* store or the remote, and what the commands themselves leave behind passes it; prune and untrack
\* keep the payload rows of what the remaining snapshots use, and untrack takes its path out of
\* the whole history (prune_unreferenced_metadata, forget_unmanaged_root_history).  Excepted are
\* contents that a payload index has left out (short).
FsckIsSound ==
    mode = "fsck" =>
        /\ F!FsckTypeOK /\ F!FsckIsSound /\ F!SinceIsSound /\ F!NoFalseAlarm
        /\ F!RowsAreKept /\ F!UntrackForgets

\* The walk enters every directory that holds a managed file, takes every file that is known or
\* tracked, adds no more new files than the limit, and takes the same files for the live journal
\* as for a snapshot; what was untracked stays out, and leaves the history unless its rewriting was
\* skipped or failed (root_dir_allows_descend, root_record_is_managed, the clean-up of an untrack).
\* The walk does not enter an excluded directory for an include that has a wildcard within a name.
WalkTakesManaged ==
    mode = "scan" =>
        /\ W!ScanTypeOK /\ W!WalkFindsManaged /\ W!KnownIsTaken /\ W!TrackIsHonoured
        /\ W!NewIsModest /\ W!LiveAgrees /\ W!UntrackedStaysOut /\ W!RowsAgree

\* What a root command reported stays in the table and in config.toml until another command
\* changes that root, and a root leaves the snapshots only when it was removed or deleted.
ChangeIsKept == mode = "roots" => T!RootsTypeOK /\ T!ChangeIsKept /\ T!RootsStay

\* Wherever a key rotation stops, every snapshot lists its files and each can be read with the
\* keys at hand; once the spare keys are removed, nothing needs the old key (rotate_key).
KeepsHistory == mode = "keys" => K!KeyTypeOK /\ K!KeepsHistory /\ K!OldKeyIsUnneeded

\* An object of the remote is never seen in part, an operation that reported success has its effect
\* also after a crash or a power loss, of the conditional writers of a key one is told it won, and
\* no multipart upload stays open (put_file, put_if_absent, multipart_upload of remote_store).  An
\* answer "absent" was true at some moment of the question unless another writer raced it, and a
\* listing holds every object that was there throughout (exists, the negative cache, list).
\* Excepted are a directory that a put created and a power loss took, and conditional writers of
\* which one could link its file and the other could not.
StoreIsSound ==
    mode = "store" =>
        /\ S!StoreTypeOK /\ S!ObjectsAreWhole /\ S!AckedIsStored /\ S!WinnerIsUnique
        /\ S!UploadsAreClosed /\ S!AbsenceIsTrue /\ S!ListIsComplete

\* The difference of two snapshots is exactly what differs between their trees, of either format,
\* and the summary an operation keeps says the same after its snapshots were pruned.  mj state
\* against a reference reports exactly the entries that differ, in the terminal as in --json up to
\* the classes they may name differently; without one it shows every tracked path; a time filter
\* hides no change later than its time, in whole seconds of the file's own time, and a pathspec
\* selects its subtree (state_cmd).  The brief log folds a large tree into one row.
ChangesAreExact ==
    mode = "changes" =>
        /\ C!ChangesTypeOK /\ C!DiffIsExact /\ C!LogSurvivesPrune /\ C!StateIsExact
        /\ C!FormsAgree /\ C!LifecycleIsComplete /\ C!SinceIsComplete /\ C!SpecSelects

\* Two watchers run at once only after another process took a living holder's lock file away,
\* which commands given one after the other never do; a running watcher is the one daemon.pid
\* names, a stop that reports success leaves none, a start reports a living one, and no command
\* signals a process that only inherited a watcher's pid (acquire_daemon_lock, daemon_cmd).
\* Excepted are watchers of a home whose path begins with this one's, which the commands take for
\* their own, and what dies or gets its pid reused between a command's look and its use.
DaemonIsSound ==
    mode = "daemon" =>
        /\ D!DaemonTypeOK /\ D!OneWatcher /\ D!SequentialIsSafe /\ D!RunningIsKnown
        /\ D!StopStops /\ D!ReportIsTrue /\ D!AlienSpared

\* Between commands the active branch's head is current; a snapshot moves a branch only from the
\* snapshot's own parent; refs name existing snapshots wherever a command is stopped; and the
\* operation log file holds what the table holds, which a rewrite restores after a stop or an
\* overlap (branch_runtime, op restore, build_prune_plan, record_op, rewrite_local_oplog).
RefsAreSound ==
    mode = "branches" =>
        /\ B!BranchesTypeOK /\ B!HeadIsCurrent /\ B!SnapshotFollowsHead /\ B!NamedExists
        /\ B!LogAgrees
=============================================================================
