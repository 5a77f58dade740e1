------------------------------ MODULE MCChanges ------------------------------
(* Instances of Changes for TLC. *)
EXTENDS Changes, TLC

A == <<"a">>
D == <<"d">>
B == <<"d", "b">>
MCPaths == {A, D, B}
rec(kind, data, mode) == [kind |-> kind, data |-> data, mode |-> mode, time |-> 0]
MCChoices ==
  (A :> {NoRec, rec("file", 1, 1), rec("file", 2, 1), rec("file", 3, 1), rec("file", 1, 2), rec("link", 1, 1)})
  @@ (D :> {NoRec, rec("dir", 0, 1), rec("dir", 0, 2), rec("file", 1, 1)})
  @@ (B :> {NoRec, rec("file", 1, 1), rec("file", 2, 1)})
full == (A :> rec("file", 1, 1)) @@ (D :> rec("dir", 0, 1)) @@ (B :> rec("file", 1, 1))
empty == [p \in MCPaths |-> NoRec]
inst(start, fmts, edit, row, prune, old) ==
  [start |-> start, fmts |-> fmts, edit |-> edit, row |-> row, prune |-> prune, old |-> old]
MCScenes ==
  {inst(full, <<"v1", "v2">>, 1, 2, 0, TRUE), inst(full, <<"v2", "v2">>, 2, 0, 0, FALSE),
   inst(full, <<"v2", "v2", "v1">>, 2, 0, 1, FALSE), inst(empty, <<"v2", "v1">>, 2, 1, 0, FALSE)}
=============================================================================
