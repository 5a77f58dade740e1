------------------------------- MODULE MCFsck -------------------------------
EXTENDS Fsck

MCRootOf == [c \in Blobs \cup Larges |-> IF c = "y" THEN "b" ELSE "a"]
Bounds == [snaps |-> 2, edits |-> 1, faults |-> 0, crashes |-> 0,
           outages |-> 0, untracks |-> 0, jobs |-> 0, pins |-> 0, drops |-> {}]
MCScenes ==
  {\* damage, small and large files
   [Bounds EXCEPT !.faults = 1, !.snaps = 1, !.edits = 0] @@ [start |-> "new", files |-> {"x", "l"}],
   [Bounds EXCEPT !.faults = 1, !.drops = {"payload", "metadata"}] @@ [start |-> "new", files |-> {"l"}],
   \* kills; a long history with a restore job
   [Bounds EXCEPT !.crashes = 1, !.untracks = 1, !.pins = 1] @@ [start |-> "new", files |-> {"l"}],
   [Bounds EXCEPT !.snaps = 3, !.edits = 2, !.jobs = 1] @@ [start |-> "new", files |-> {"x"}],
   \* untracking and outages in a repository of its own and in a clone
   [Bounds EXCEPT !.untracks = 1, !.outages = 1, !.edits = 0] @@ [start |-> "new", files |-> {"x", "y"}],
   [Bounds EXCEPT !.untracks = 1, !.outages = 1, !.snaps = 1, !.edits = 0] @@ [start |-> "clone", files |-> {"x", "y", "l"}],
   [Bounds EXCEPT !.edits = 2, !.drops = {"payload"}] @@ [start |-> "clone", files |-> {"y"}],
   Bounds @@ [start |-> "clone", files |-> {"x", "y"}]}
=============================================================================
