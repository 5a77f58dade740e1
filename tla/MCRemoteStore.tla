--------------------------- MODULE MCRemoteStore ---------------------------
(* Instances of RemoteStore for TLC: what two threads may do, how often, to which keys. *)
EXTENDS RemoteStore

inst(kind, link, dirs, big, opsA, timesA, opsB, timesB, stored, crash, power) ==
  [kind |-> kind, link |-> link, dirs |-> dirs, big |-> big,
   ops |-> [a |-> opsA, b |-> opsB], budget |-> [a |-> timesA, b |-> timesB],
   keys |-> stored \cup {1}, stored |-> stored \ {1}, crash |-> crash, power |-> power]
MCScenes ==
  {inst("file", {TRUE}, {}, FALSE, {"absent", "put"}, 1, {"absent", "list", "prefixes"}, 1, {1}, 1, 1),
   inst("file", BOOLEAN, {1}, FALSE, {"absent"}, 2, {"absent", "exists", "get"}, 2, {1}, 1, 1),
   inst("file", {TRUE}, {}, FALSE, {"absent", "delete"}, 2, {"delete", "batch"}, 2, {1, 2}, 0, 0),
   inst("s3", {}, {}, FALSE, {"put", "absent", "delete"}, 2, {"exists", "get"}, 2, {1}, 1, 0),
   inst("s3", {}, {}, FALSE, {"absent"}, 2, {"absent"}, 1, {1}, 1, 0),
   inst("s3", {}, {}, TRUE, {"absent", "put"}, 1, {"exists", "delete"}, 1, {1}, 1, 0),
   inst("s3", {}, {}, FALSE, {"put", "batch"}, 1, {"list", "prefixes"}, 1, {1, 2, 3}, 0, 0)}
=============================================================================
