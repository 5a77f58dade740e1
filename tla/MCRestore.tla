------------------------------ MODULE MCRestore ------------------------------
EXTENDS Restore, TLC

A == <<"a">>
AB == <<"a", "b">>
ABE == <<"a", "b", "e">>
C == <<"c">>
D == <<"d">>
Fifo == <<"special", "fifo">>
Socket == <<"special", "socket">>
Link == <<"link", "x">>

Tree0 == (A :> Dir) @@ (AB :> File("x")) @@ (C :> File("x"))
Change(t, p, n, synced, kept) == [time |-> t, path |-> p, node |-> n, synced |-> synced, kept |-> kept]

\* Changes at odd times, snapshots at even ones.
Changes(n3, n5, synced7, kept1) ==
  << Change(1, C, File("y"), TRUE, kept1), Change(3, C, n3, TRUE, TRUE),
     Change(5, AB, n5, TRUE, TRUE), Change(7, C, File("z"), synced7, TRUE) >>

Keys == {Blob(v) : v \in {"x", "y", "z"}} \cup {Manifest("z"), Chunk("z"), Pack, Index}
Form == [x |-> "loose", y |-> "packed", z |-> "large"]
Remote(cold, gone) == [k \in Keys |-> IF k \in cold THEN "cold" ELSE IF k \in gone THEN "gone" ELSE "here"]

Call(kind, sel, path, force, check) == [kind |-> kind, sel |-> sel, path |-> path, force |-> force, check |-> check]
Resume1 == Call("resume", <<"current">>, <<>>, FALSE, FALSE)

Scene(changes, live, local, remote, script, edits, budget, evict, stops) ==
  [base |-> Tree0, changes |-> changes, snaps |-> {0, 2, 4}, current |-> 4, now |-> 9, form |-> Form,
   live |-> live, local |-> local, remote |-> remote, script |-> script, edits |-> edits, budget |-> budget,
   evict |-> evict, stops |-> stops]

Lives == { <<>>, Tree0,
           (A :> Dir) @@ (C :> File("y")) @@ (D :> File("u")),
           (A :> File("u")) @@ (C :> Dir),
           (A :> Dir) @@ (C :> Dir) @@ (<<"c", "e">> :> Dir) @@ (<<"c", "e", "f">> :> File("u")),
           (A :> Link) @@ (C :> Dangling),
           (A :> Dir) @@ (AB :> Dir) @@ (ABE :> Dir) @@ (C :> Link),
           (A :> Dir) @@ (AB :> Dir) @@ (C :> Fifo) @@ (D :> Link) }

Edits == {[path |-> p, node |-> n] : p \in {C, AB, D}, n \in {None, File("w"), Link}}

Selectors == {<<"current">>, <<"snapshot", 2>>, <<"at", 3>>, <<"at", 5>>, <<"at", 8>>, <<"op", 4>>, <<"ago", 5>>}

\* One restore of any kind onto any tree.
Single(sels, paths) ==
  {Scene(Changes(n3, n5, s7, s7), live, Keys \ {Blob("y")}, Remote({}, {}), <<Call("apply", sel, path, force, check)>>,
         Edits, IF sel = <<"current">> THEN 1 ELSE 0, FALSE, 0) :
     n3 \in {Link, Fifo}, n5 \in {None, File("y")}, s7 \in BOOLEAN, live \in Lives, sel \in sels,
     path \in paths, force \in BOOLEAN, check \in BOOLEAN}

\* A forced restore that is stopped, and run again.
Again ==
  {Scene(Changes(n3, n5, TRUE, TRUE), live, local, Remote({}, {}),
         <<Call("apply", <<"current">>, <<>>, TRUE, FALSE), Call("apply", sel, <<>>, TRUE, FALSE)>>,
         {}, 1, TRUE, 1) :
     n3 \in {Link, Socket}, n5 \in {None, File("y")}, live \in Lives, local \in {{}, Keys}, sel \in {<<"current">>, <<"snapshot", 2>>}}

\* A job for archived objects, resumed until they are there.
Jobs ==
  {Scene(Changes(Fifo, File("y"), TRUE, TRUE), live, local, Remote(cold, gone),
         <<Call("prepare", sel, <<>>, TRUE, FALSE), Resume1, Resume1, Resume1>>, {}, 0, FALSE, 1) :
     live \in {<<>>, Tree0}, local \in {{}, {Blob("x"), Manifest("z")}},
     cold \in {{}, {Chunk("z")}, {Pack, Chunk("z")}, {Blob("x"), Manifest("z")}}, gone \in {{}, {Chunk("z")}},
     sel \in {<<"current">>, <<"snapshot", 2>>, <<"at", 8>>}}

Views ==
  {Scene(Changes(n3, n5, TRUE, TRUE), <<>>, local, Remote({}, {}),
         <<Call("mount", <<"current">>, <<>>, TRUE, FALSE), Call("hydrate", <<"current">>, <<>>, FALSE, FALSE),
           Call("hydrate", <<"current">>, <<>>, FALSE, FALSE), Call("unmount", <<"current">>, <<>>, FALSE, FALSE)>>,
         {}, 1, TRUE, 1) :
     n3 \in {Link}, n5 \in {File("z"), File("y")}, local \in {{}, Keys}}

MCScenes == Single(Selectors, {<<>>}) \cup Single({<<"at", 5>>, <<"snapshot", 2>>}, {AB}) \cup Again \cup Jobs \cup Views

\* `restore --op` of an older operation while the journal has synced events.
OpScenes == {s \in Single({<<"op", 4>>}, {<<>>}) : s.live = <<>>}
=============================================================================
