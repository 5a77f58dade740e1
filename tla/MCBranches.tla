----------------------------- MODULE MCBranches -----------------------------
(* Instances of Branches for TLC: what the two processes may run, the snapshots there are at the *)
(* start and in all, how many commands and stops, and whether prune drops missing history.      *)
EXTENDS Branches
Scene(cmds1, cmds2, old, sn, cmd, stop, dropping) ==
    [cmds |-> [p \in Procs |-> IF p = "p" THEN cmds1 ELSE cmds2], old |-> old, snaps |-> sn, cmd |-> cmd,
     stop |-> stop, dropping |-> dropping]
Refs == {"create", "switch", "sethead", "delete", "rename", "snapshot"}
MCNames == <<"a", "main">>
MCScenes ==
    {Scene(Refs, {}, 1, 2, 3, 1, FALSE),
     Scene({"create", "switch", "oprestore", "prune", "snapshot"}, {}, 2, 3, 3, 1, FALSE),
     Scene({"create", "switch", "rename", "prune", "sethead"}, {}, 2, 2, 2, 0, TRUE),
     Scene({"sync", "snapshot", "snapfail"}, {"note", "switch", "health"}, 1, 2, 3, 1, FALSE),
     Scene({"create", "delete", "snapshot"}, {"rename", "snapshot"}, 0, 1, 3, 0, FALSE)}
=============================================================================
