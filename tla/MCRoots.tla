------------------------------- MODULE MCRoots -------------------------------
(* Instances of Roots for TLC: two processes, two roots. *)
EXTENDS Roots

MCRootIds == <<"a", "b">>
on == NewRow
ill == [status |-> "permission-denied", deg |-> TRUE, opt |-> 0]
cmd(op, r) == [op |-> op, r |-> r]
inst(d, cs, n, cr, pl) == [db |-> d, conf |-> d, cmds |-> cs, bound |-> [cmd |-> n, crash |-> cr, place |-> pl]]
one == [r \in {"a"} |-> on]
two == [r \in {"a", "b"} |-> on]
sick == [r \in {"a"} |-> ill]

MCScenes ==
  {inst(one, {cmd("pause", "a"), cmd("resume", "a"), cmd("open", "a"), cmd("snapshot", "a")}, 2, 1, 1),
   inst(one, {cmd("add", "b"), cmd("remove", "a"), cmd("open", "a"), cmd("set", "a")}, 3, 0, 1),
   inst(one, {cmd("add", "b"), cmd("remove", "a"), cmd("open", "a"), cmd("set", "a")}, 2, 1, 1),
   inst(two, {cmd("set", "a"), cmd("delete", "b"), cmd("remove", "b"), cmd("snapshot", "a")}, 2, 1, 1),
   inst(sick, {cmd("resume", "a"), cmd("set", "a"), cmd("open", "a"), cmd("snapshot", "a")}, 3, 0, 1)}
=============================================================================
