------------------------------ MODULE MCDaemon ------------------------------
(* Instances of Daemon for TLC: commands, how many and by how many users, foreground watchers,  *)
(* kills, reused pids, exits and a watcher of a home near this one.                            *)
EXTENDS Daemon

inst(cmds, ops, cmd, fg, home, kill, reuse, exit, foreign, near) ==
  [cmds |-> cmds, ops |-> ops, cmd |-> cmd, fg |-> fg, home |-> home, kill |-> kill,
   reuse |-> reuse, exit |-> exit, foreign |-> foreign, near |-> near]
MCScenes ==
  {inst({"c"}, {"start", "stop", "ensure"}, 4, 1, TRUE, 1, 1, 0, FALSE, 0),
   inst({"c"}, {"start", "restart", "status"}, 3, 0, TRUE, 1, 1, 1, FALSE, 0),
   inst({"c", "d"}, {"start", "ensure"}, 2, 0, TRUE, 0, 0, 0, FALSE, 0),
   inst({"c", "d"}, {"start"}, 1, 1, TRUE, 1, 0, 0, FALSE, 0),
   inst({"c", "d"}, {"start", "stop"}, 2, 0, TRUE, 1, 0, 1, FALSE, 0),
   inst({"c"}, {"start"}, 1, 1, FALSE, 0, 0, 0, FALSE, 0),
   inst({"c"}, {"stop", "restart"}, 2, 1, TRUE, 0, 0, 0, TRUE, 0),
   inst({"c"}, {"start", "stop"}, 3, 1, TRUE, 1, 0, 0, FALSE, 1)}
=============================================================================
