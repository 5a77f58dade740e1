------------------------------- MODULE MCScan -------------------------------
(* Instances of Scan for TLC. *)
EXTENDS Scan

MCNames == {"d", "bc", "f", "g.e"}
MCPart == [c \in {"*", "**", "b*", "*.e"} |->
            CASE c = "b*" -> {"bc"} [] c = "*.e" -> {"g.e"} [] OTHER -> MCNames]
MCStem == [c \in {"*", "**", "b*", "*.e"} |-> IF c = "b*" THEN "b" ELSE ""]
MCFiles == {<<"f">>, <<"d", "f">>, <<"d", "g.e">>, <<"d", "bc", "f">>, <<"bc", "f">>}

small == [size |-> 1, binary |-> FALSE]
big == [size |-> 3, binary |-> FALSE]

line(top, parts) == [top |-> top, parts |-> parts, dir |-> FALSE]
none == [mode |-> "checkpoint", pats |-> {}]
vol(m, p) == [mode |-> m, pats |-> {p}]
rules(i, e, v) == [inc |-> i, exc |-> e, vol |-> v]
rootOf(r, t, u) == [inc |-> r.inc, exc |-> r.exc, vol |-> r.vol, track |-> t, untrack |-> u, large |-> <<>>]
bounds(e, c, s, l) == [edit |-> e, cmd |-> c, snap |-> s, live |-> l]
largeCfg == [enabled |-> TRUE, min |-> 3, binMin |-> 2, chunkedMin |-> 3, always |-> {}, never |-> {"g.e"}]
all == {<<"**">>}

\* every combination of patterns over the full tree, one snapshot each
Static ==
  {[root |-> rootOf(rules(i, e, v), t, u), world |-> [f \in MCFiles |-> small], max |-> 9, large |-> largeCfg,
    contents |-> {}, targets |-> {}, rules |-> {}, bound |-> bounds(0, 0, 1, 0)] :
   i \in {{}, all, {<<"d">>}, {<<"d", "bc", "**">>}, {<<"d", "*", "f">>}, {<<"*.e">>}, {<<"**", "f">>},
          {<<"b*", "f">>}, {<<"d", "b*", "f">>}, all \cup {<<"d", "g.e">>}, all \cup {<<"d", "bc">>}},
   e \in {{}, {line(FALSE, <<"d", "**">>)}, {line(TRUE, <<"bc", "**">>)}, {line(FALSE, <<"bc">>)},
          {line(FALSE, <<"*.e">>)}},
   v \in {none, vol("exclude", <<"d", "bc", "**">>), vol("exclude", <<"**", "bc">>), vol("checkpoint", <<"d">>)},
   t \in {{}, {<<"d", "bc", "f">>}},
   u \in {{}, {<<"d">>}, {<<"d", "bc">>}}}

\* commands, edits, snapshots and live diffs over chosen rules
dyn(r, w, mx, e, tg, rs, b) ==
  [root |-> rootOf(r, {}, {}), world |-> w, max |-> mx, large |-> largeCfg, contents |-> e, targets |-> tg,
   rules |-> rs, bound |-> b]
open == rules(all, {}, none)
closed == rules(all, {line(FALSE, <<"d", "**">>)}, none)
cut == rules({<<"d", "b*", "f">>}, {line(FALSE, <<"d", "**">>)}, none)
tree(fs) == [f \in fs |-> small]

Dynamic ==
  {dyn(open, tree({<<"f">>}), 1, {small, big}, {<<"d", "f">>}, {}, bounds(2, 1, 2, 1)),
   dyn(open, tree({<<"d", "bc", "f">>}), 0, {small}, {<<"d", "f">>, <<"d">>}, {}, bounds(1, 2, 2, 1)),
   dyn(open, tree({<<"d", "f">>, <<"f">>}), 1, {small}, {<<"d", "f">>, <<"d">>}, {closed}, bounds(0, 3, 2, 1)),
   dyn(closed, tree({<<"d", "f">>, <<"d", "g.e">>, <<"f">>}), 0, {big}, {<<"d", "f">>, <<"d">>}, {open}, bounds(1, 2, 2, 0)),
   dyn(open, tree({<<"d", "bc", "f">>, <<"d", "f">>}), 0, {}, {}, {cut}, bounds(0, 2, 2, 1))}

MCScenes == Static \cup Dynamic
=============================================================================
