-------------------------------- MODULE Scan --------------------------------
(***************************************************************************)
(* Which files of a root a snapshot takes.  The rules of a root (include   *)
(* and exclude patterns, volatile patterns, explicitly tracked and         *)
(* untracked paths) decide twice: for a record (root_record_is_managed)    *)
(* and, before that, for every directory of the walk                       *)
(* (root_dir_allows_descend).  On top of the rules the automatic tracking  *)
(* leaves out new files that are large or come in too large a batch.  The  *)
(* same decisions are taken again by the live diff of a sync, which marks  *)
(* paths as tracked by the journal.                                        *)
(*                                                                         *)
(* A path is the sequence of its names.  A pattern is a sequence of parts: *)
(* names, and the wildcards in the domain of Part, which gives the names a *)
(* wildcard part matches; Stem is the literal text in front of the         *)
(* wildcard.  An exclude pattern also says whether it begins with a slash  *)
(* (top) and whether it ends with one (dir).                               *)
(*                                                                         *)
(* A snapshot and a live diff walk the root twice: the first walk counts   *)
(* the unknown files, the second takes the files.  Both hold the           *)
(* maintenance lock, so at most one of them runs; the work tree and the    *)
(* track, untrack and root commands, which take no lock, may change        *)
(* between the walks.                                                      *)
(***************************************************************************)
EXTENDS Naturals, Sequences, FiniteSets, SequencesExt

CONSTANTS Part,     \* wildcard part -> the names it matches
          Stem,     \* wildcard part -> literal name in front of it, or ""
          Files,    \* the paths a file may have
          Scenes    \* instances: rules, limits, first work tree, commands

VARIABLES scene,    \* the instance
          root,     \* rules of the root, as the database holds them
          world,    \* the work tree: path -> [size, binary]
          rows,     \* tracked_paths: path -> [st, src]
          snap,     \* the current snapshot: [files], or NoSnap
          scan,     \* the running walk
          last,     \* what the last walk did
          used,     \* commands and edits so far
          gone,     \* ghost: untracked by the user and not tracked since
          mixed,    \* ghost: a command ran between the walks of a snapshot
          kept      \* ghost: paths an untrack could not take out of the snapshot

svars == <<scene, root, world, rows, snap, scan, last, used, gone, mixed, kept>>

NoSnap == <<>>
Idle == [pc |-> "idle"]
Quiet == [kind |-> "none"]

-----------------------------------------------------------------------------
(* Patterns *)

Wild(c) == c \in DOMAIN Part
Meta(p) == \E i \in DOMAIN p : Wild(p[i])
FitsPart(c, n) == IF Wild(c) THEN n \in Part[c] ELSE c = n
Dirs(f) == {SubSeq(f, 1, k) : k \in 1 .. Len(f) - 1}

\* globset with literal separators: ** stands for any number of names, at the end for one or more
RECURSIVE Glob(_, _)
Glob(p, r) ==
  IF p = <<>> THEN r = <<>>
  ELSE IF p = <<"**">> THEN r # <<>>
  ELSE IF Head(p) = "**" THEN \E k \in 0 .. Len(r) : Glob(Tail(p), SubSeq(r, k + 1, Len(r)))
  ELSE r # <<>> /\ FitsPart(Head(p), Head(r)) /\ Glob(Tail(p), Tail(r))

CatchAll(p) == p \in {<<"**">>, <<"*">>}

PathMatch(p, r) ==
  /\ p # <<>>
  /\ IF CatchAll(p) THEN TRUE
     ELSE IF Last(p) = "**" THEN IF Meta(Front(p)) THEN Glob(p, r) ELSE IsPrefix(Front(p), r)
     ELSE IF Head(p) = "*.e" THEN FitsPart("*.e", Last(r))
     ELSE \/ Meta(p) /\ Glob(p, r)
          \/ Head(p) = "**" /\ IsSuffix(Tail(p), r)
          \/ Head(p) # "**" /\ IsPrefix(p, r)

\* the names in front of the first wildcard; the text in front of it counts as a name
Literal(p) ==
  LET wild == {i \in DOMAIN p : Wild(p[i])}
      i == CHOOSE k \in wild : \A j \in wild : k <= j
  IN  IF wild = {} THEN p
      ELSE SubSeq(p, 1, i - 1) \o (IF Stem[p[i]] = "" THEN <<>> ELSE <<Stem[p[i]]>>)

Comparable(a, b) == IsPrefix(a, b) \/ IsPrefix(b, a)

GlobMayMatchInside(p, d) ==
  /\ Len(p) > Len(d)
  /\ \A i \in DOMAIN d : (\A j \in 1 .. i : p[j] # "**") => FitsPart(p[i], d[i])

MayMatchInside(p, d) ==
  /\ p # <<>>
  /\ \/ CatchAll(p) \/ Head(p) = "**"
     \/ PathMatch(p, d)
     \/ Meta(p) /\ GlobMayMatchInside(p, d)
     \/ Literal(p) = <<>>
     \/ Comparable(Literal(p), d)

\* which include patterns are exceptions to the excludes
CanOverride(p) == ~CatchAll(p) /\ (Meta(p) => Len(p) > 1 /\ ~Wild(Head(p)))
CanDescendExcluded(p, d) ==
  ~CatchAll(p) /\ ~Wild(Head(p)) /\ Literal(p) # <<>> /\ Comparable(Literal(p), d)

\* the directory lines that build_ignore adds for a pattern that ends in /**
Expanded(e) ==
  LET base == Front(e.parts)
      line(top, parts) == [top |-> top, parts |-> parts, dir |-> TRUE]
  IN  IF Last(e.parts) # "**" \/ base = <<>> THEN {}
      ELSE {line(e.top, base), line(FALSE, base)} \cup
           (IF Head(base) = "**" THEN {line(FALSE, Tail(base)), line(TRUE, Tail(base))}
            ELSE {line(FALSE, <<"**">> \o base)})
Lines(exc) == exc \cup UNION {Expanded(e) : e \in exc}

\* the ignore crate: one line against one path
GitMatch(e, r, isDir) ==
  /\ e.dir => isDir
  /\ Glob(IF e.top \/ Len(e.parts) > 1 THEN e.parts ELSE <<"**">> \o e.parts, r)

Ignored(exc, r, isDir) ==
  \E k \in 1 .. Len(r), e \in Lines(exc) : GitMatch(e, SubSeq(r, 1, k), k < Len(r) \/ isDir)

-----------------------------------------------------------------------------
(* The rules of a root *)

Covers(list, r) == \E p \in list : IsPrefix(p, r) \/ PathMatch(p, r)
MayCover(list, d) == \E p \in list : (IsPrefix(d, p) /\ d # p) \/ MayMatchInside(p, d)

Included(inc, r) == inc = {} \/ \E p \in inc : PathMatch(p, r)
IncludeDescends(inc, d) ==
  (\A p \in inc : CatchAll(p)) \/ Included(inc, d) \/ \E p \in inc : MayMatchInside(p, d)

Volatile(rt, r) == \E p \in rt.vol.pats : PathMatch(p, r)
VolatileExcluded(rt, r) == rt.vol.mode = "exclude" /\ Volatile(rt, r)

IgnoredParent(rt, r) == \E d \in Dirs(r) : Ignored(rt.exc, d, TRUE)

Managed(rt, r, isDir) ==
  /\ ~Covers(rt.untrack, r)
  /\ \/ Covers(rt.track, r)
     \/ /\ Included(rt.inc, r)
        /\ ~VolatileExcluded(rt, r)
        /\ Ignored(rt.exc, r, isDir) =>
             \E p \in rt.inc : PathMatch(p, r) /\ (CanOverride(p) \/ (~IgnoredParent(rt, r) /\ ~CatchAll(p)))

DescendUnlessIgnored(rt, d) ==
  /\ ~Covers(rt.untrack, d)
  /\ MayCover(rt.track, d) \/ (~Ignored(rt.exc, d, TRUE) /\ IncludeDescends(rt.inc, d) /\ ~VolatileExcluded(rt, d))

Descend(rt, d) ==
  /\ ~Covers(rt.untrack, d)
  /\ \/ MayCover(rt.track, d)
     \/ IF Ignored(rt.exc, d, TRUE)
        THEN ~VolatileExcluded(rt, d) /\ \E p \in rt.inc : CanDescendExcluded(p, d) /\ MayMatchInside(p, d)
        ELSE (IncludeDescends(rt.inc, d) /\ ~VolatileExcluded(rt, d)) \/ rt.track # {}

\* the root's own large-file settings in front of the configured ones
EffectiveLarge(rt) ==
  [k \in DOMAIN scene.large |-> IF k \in DOMAIN rt.large THEN rt.large[k] ELSE scene.large[k]]

NameFits(names, f) == \E c \in names : FitsPart(c, Last(f))

IsLarge(c, f, v) ==
  /\ c.enabled
  /\ ~NameFits(c.never, f)
  /\ NameFits(c.always, f) \/ v.size >= c.min \/ (v.binary /\ v.size >= c.binMin)

TooLargeToAdd(rt, f, v) ==
  LET c == EffectiveLarge(rt) IN IsLarge(c, f, v) \/ (c.enabled /\ v.size >= c.chunkedMin)

-----------------------------------------------------------------------------
(* The walks *)

With(st) == {f \in DOMAIN rows : rows[f].st = st}
Present == DOMAIN world
InSnap == IF snap = NoSnap THEN {} ELSE DOMAIN snap.files

\* files the walk reaches: every directory above them is entered
Reached(rt) == {f \in Present : \A d \in Dirs(f) : Descend(rt, d)}

Candidates(rt) == {f \in Reached(rt) : Managed(rt, f, FALSE)}

\* root_known_paths of a snapshot, journal_known_paths of a live diff
SnapKnown == (With("tracked") \cup InSnap) \ With("untracked")
LiveKnown == With("tracked") \cup InSnap

\* the count stops one above the limit
Counted(rt, known) ==
  LET n == Cardinality(Candidates(rt) \ known) IN IF n > scene.max THEN scene.max + 1 ELSE n

TooMany(w) == ~w.first /\ w.count > scene.max
IsKnown(w, f) == w.first \/ f \in w.known

\* AutoTrackPolicy::may_descend
MayDescend(w, d) ==
  \/ ~TooMany(w)
  \/ Covers(w.root.track, d) \/ MayCover(w.root.track, d)
  \/ \E k \in w.known : IsPrefix(d, k) /\ k # d

TakenBySnap(w) ==
  {f \in Reached(w.root) :
     /\ \A d \in Dirs(f) : MayDescend(w, d)
     /\ Managed(w.root, f, FALSE)
     /\ IsKnown(w, f) \/ (~TooMany(w) /\ ~TooLargeToAdd(w.root, f, world[f]))}

TakenByLive(w) ==
  {f \in Reached(w.root) :
     /\ Managed(w.root, f, FALSE)
     /\ IsKnown(w, f) \/ (~TooMany(w) /\ ~TooLargeToAdd(w.root, f, world[f]))}

\* mark_path_tracked_with_source and mark_path_untracked
Marked(rs, new, src) ==
  [f \in DOMAIN rs \cup new |->
     IF f \notin new THEN rs[f]
     ELSE [st |-> "tracked",
           src |-> IF f \notin DOMAIN rs THEN src
                   ELSE IF rs[f].src = "explicit" \/ src = "snapshot" THEN rs[f].src ELSE src]]
Unmarked(rs, old) ==
  [f \in DOMAIN rs \cup old |-> IF f \in old THEN [st |-> "untracked", src |-> "explicit"] ELSE rs[f]]

Restricted(files, keep) == [f \in keep |-> files[f]]

-----------------------------------------------------------------------------
(* Commands *)

ScanInit ==
  /\ scene \in Scenes
  /\ root = scene.root
  /\ world = scene.world
  /\ rows = <<>>
  /\ snap = NoSnap
  /\ scan = Idle
  /\ last = Quiet
  /\ used = [edit |-> 0, cmd |-> 0, snap |-> 0, live |-> 0]
  /\ gone = {}
  /\ mixed = FALSE
  /\ kept = {}

Count(k) == used' = [used EXCEPT ![k] = @ + 1]
Allowed(k) == used[k] < scene.bound[k]

\* the user writes or removes a file
Edit ==
  /\ Allowed("edit")
  /\ \/ \E f \in Files, v \in scene.contents :
          /\ f \in Present => world[f] # v
          /\ world' = [g \in Present \cup {f} |-> IF g = f THEN v ELSE world[g]]
     \/ \E f \in Present : world' = Restricted(world, Present \ {f})
  /\ Count("edit")
  /\ last' = Quiet
  /\ UNCHANGED <<scene, root, rows, snap, scan, gone, mixed, kept>>

\* forget_unmanaged_root_history: the snapshots lose what the new rules do not manage
Forget(rt) ==
  /\ snap' = IF snap = NoSnap THEN NoSnap
             ELSE [files |-> Restricted(snap.files, {f \in InSnap : Managed(rt, f, FALSE)})]
  /\ kept' = {f \in kept : Managed(rt, f, FALSE)}

\* the cleanup of the history by an untrack: an error rolls the transaction back, but with
\* --continue-on-history-error the rest is saved and the snapshot keeps the paths
Cleanup(rt) ==
  \/ Forget(rt)
  \/ /\ kept' = kept \cup {f \in InSnap : ~Managed(rt, f, FALSE)}
     /\ UNCHANGED snap

Command ==
  /\ Allowed("cmd") /\ Count("cmd")
  /\ last' = Quiet
  /\ mixed' = (mixed \/ scan # Idle)
  /\ UNCHANGED <<scene, world, scan>>

Track(p) ==
  /\ Command
  /\ root' = [root EXCEPT !.untrack = @ \ {p}, !.track = @ \cup {p}]
  /\ rows' = Marked(rows, {p}, "explicit")
  /\ gone' = {f \in gone : ~Comparable(f, p)}
  /\ UNCHANGED <<snap, kept>>

Untrack(p) ==
  /\ Command
  /\ root' = [root EXCEPT !.track = @ \ {p}, !.untrack = @ \cup {p}]
  /\ rows' = Unmarked(rows, {p})
  /\ Cleanup(root')
  /\ gone' = gone \cup {p}

\* untrack --excluded: the tracked paths the rules do not manage
Excluded == {p \in With("tracked") : ~Managed(root, p, \E f \in Present : p \in Dirs(f))}

\* prune_redundant_excluded_untrack_patterns
StillNeeded(rt) ==
  {p \in rt.untrack : Managed([rt EXCEPT !.untrack = {}], p, \E f \in Present : p \in Dirs(f))}

UntrackExcluded ==
  /\ Excluded # {}
  /\ Command
  /\ LET bare == [root EXCEPT !.track = @ \ Excluded, !.untrack = @ \ Excluded]
     IN  root' = [bare EXCEPT !.untrack = StillNeeded(bare)]
  /\ rows' = Unmarked(rows, Excluded)
  /\ Cleanup(root')
  /\ UNCHANGED gone

\* root set with other patterns; --skip-history-rewrite leaves the snapshots, and a command
\* that stops before save_root has rewritten them for rules that are not kept
SetRules ==
  /\ \E r \in scene.rules :
       LET new == [root EXCEPT !.inc = r.inc, !.exc = r.exc, !.vol = r.vol] IN
       /\ root # new
       /\ \/ root' = new /\ Forget(new)
          \/ root' = new /\ UNCHANGED <<snap, kept>>
          \/ Forget(new) /\ UNCHANGED root
  /\ Command
  /\ UNCHANGED <<rows, gone>>

-----------------------------------------------------------------------------
(* Snapshot and live diff *)

SnapCount ==
  /\ scan = Idle /\ Allowed("snap") /\ Count("snap")
  /\ LET first == snap = NoSnap /\ SnapKnown = {}
     IN  scan' = [pc |-> "snap", root |-> root, known |-> SnapKnown, first |-> first,
                  count |-> IF first THEN 0 ELSE Counted(root, SnapKnown), seen |-> Present, parent |-> snap]
  /\ last' = Quiet
  /\ UNCHANGED <<scene, root, world, rows, snap, gone, mixed, kept>>

\* a snapshot equal to its parent is dropped; a changed directory alone makes one
SnapTake ==
  /\ scan.pc = "snap"
  /\ LET taken == TakenBySnap(scan)
         files == Restricted(world, taken)
     IN  /\ \/ /\ scan.parent # NoSnap /\ scan.parent.files = files
               /\ UNCHANGED <<snap, rows, kept>>
            \/ /\ snap' = [files |-> files]
               /\ kept' = {}
               /\ rows' = Marked(rows, taken, "snapshot")
         /\ last' = [kind |-> "snap", taken |-> taken, walk |-> scan]
  /\ scan' = Idle
  /\ UNCHANGED <<scene, root, world, used, gone, mixed>>

LiveCount ==
  /\ scan = Idle /\ Allowed("live") /\ Count("live")
  /\ snap # NoSnap
  /\ scan' = [pc |-> "live", root |-> root, known |-> LiveKnown, first |-> FALSE,
              count |-> Counted(root, LiveKnown), seen |-> Present, parent |-> snap]
  /\ last' = Quiet
  /\ UNCHANGED <<scene, root, world, rows, snap, gone, mixed, kept>>

\* created and modified files become tracked by the journal
LiveTake ==
  /\ scan.pc = "live"
  /\ LET view == TakenByLive(scan)
         was == scan.parent.files
         changed == {f \in view : f \notin DOMAIN was \/ was[f] # world[f]}
     IN  /\ rows' = Marked(rows, changed, "journal")
         /\ last' = [kind |-> "live", taken |-> view, walk |-> scan]
  /\ scan' = Idle
  /\ UNCHANGED <<scene, root, world, snap, used, gone, mixed, kept>>

ScanNext ==
  \/ Edit
  \/ \E p \in scene.targets : Track(p) \/ Untrack(p)
  \/ UntrackExcluded
  \/ SetRules
  \/ SnapCount \/ SnapTake
  \/ LiveCount \/ LiveTake

ScanSpec == ScanInit /\ [][ScanNext]_svars
-----------------------------------------------------------------------------
(* Properties *)

\* The type invariant: what the rows, the snapshot and a walk under way may hold.
ScanTypeOK ==
  /\ scene \in Scenes
  /\ Present \subseteq Files
  /\ \A f \in DOMAIN rows : rows[f].st \in {"tracked", "untracked"} /\ rows[f].src \in {"snapshot", "explicit", "journal"}
  /\ InSnap \subseteq Files
  /\ scan.pc \in {"idle", "snap", "live"}
  /\ scan.pc # "idle" => scan.count \in 0 .. scene.max + 1 /\ (scan.first => scan.known = {})
  /\ root.track \cap root.untrack = {}

\* below a directory that a volatile pattern excludes, nothing is taken
Shadowed(rt, f) == \E d \in Dirs(f) : VolatileExcluded(rt, d)

\* an exception whose first wildcard begins inside a name: d/b*/f
CutName(p) == Meta(p) /\ Stem[p[CHOOSE i \in DOMAIN p : Wild(p[i]) /\ \A j \in 1 .. i - 1 : ~Wild(p[j])]] # ""
OnlyCutNames(rt, f) == IgnoredParent(rt, f) /\ \A p \in rt.inc : PathMatch(p, f) /\ CanOverride(p) => CutName(p)

(* The walk enters every directory that holds a file the rules manage, so that
   root_dir_allows_descend never hides what root_record_is_managed takes: except below
   excluded directories that only a pattern such as d/b*/f makes an exception. *)
WalkFindsManaged ==
  \A f \in Files :
    Managed(root, f, FALSE) /\ ~Shadowed(root, f) /\ ~OnlyCutNames(root, f) =>
      \A d \in Dirs(f) : Descend(root, d)

(* An include pattern is an exception to the excludes: a file it matches is reached
   even below an excluded directory. *)
IncludeIsReached ==
  \A f \in Files :
    (\E p \in root.inc : ~CatchAll(p) /\ PathMatch(p, f)) /\ Managed(root, f, FALSE) /\ ~Shadowed(root, f) =>
      \A d \in Dirs(f) : Descend(root, d)

(* A file that is known, still there and managed is in every snapshot, however many
   or large new files keep the automatic tracking from descending elsewhere: except
   below excluded directories that only a pattern such as d/b*/f makes an exception. *)
KnownIsTaken ==
  last.kind = "snap" =>
    LET w == last.walk IN
    \A f \in w.known \cap Present :
      Managed(w.root, f, FALSE) /\ ~Shadowed(w.root, f) /\ ~OnlyCutNames(w.root, f) => f \in last.taken

(* A file that mj track named is in the next snapshot whatever the excludes, volatile
   patterns, its size and the batch say, unless a directory above it is untracked. *)
TrackIsHonoured ==
  last.kind = "snap" =>
    LET w == last.walk IN
    \A f \in w.root.track \cap Present : ~Covers(w.root.untrack, f) => f \in last.taken

(* No walk but the first adds more new files than the limit, or a new large file;
   files that appeared between the two walks are not counted. *)
NewIsModest ==
  last.kind # "none" /\ ~last.walk.first =>
    LET w == last.walk
        new == last.taken \ w.known
    IN  /\ Cardinality(new \cap w.seen) <= scene.max
        /\ \A f \in new : ~TooLargeToAdd(w.root, f, world[f])

(* The live diff of a sync takes the files that a snapshot would take: a restore from
   the journal and one from the next snapshot hold the same paths. *)
LiveAgrees == last.kind = "live" => last.taken = TakenBySnap(last.walk)

(* What the user untracked is in no snapshot, old or new, until it is tracked again;
   unless the untrack ran between the walks of a snapshot, or went on although the
   history could not be rewritten: then the next snapshot is without it. *)
UntrackedStaysOut ==
  mixed \/ \A p \in gone, f \in InSnap \ kept : ~IsPrefix(p, f)

(* A path whose row says untracked is not in the current snapshot, with the same
   exceptions. *)
RowsAgree == mixed \/ (InSnap \ kept) \cap With("untracked") = {}
=============================================================================
