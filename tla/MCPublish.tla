----------------------------- MODULE MCPublish -----------------------------
(* Small instances of Publish for TLC. *)
EXTENDS Publish

Small(kind, hosts, payload) ==
    [kind |-> kind, hosts |-> hosts, payload |-> payload, cloned |-> {}, snaps |-> 2,
     events |-> 0, switches |-> 0, syncs |-> 2, stops |-> 0, faults |-> 0]

MCInstances ==
    {b @@ Small("file", {"a"}, "blob") : b \in
        {[cloned |-> {"a"}, events |-> 1],
         [events |-> 1, stops |-> 1],
         [cloned |-> {"a"}, faults |-> 1, snaps |-> 1],
         [switches |-> 1, stops |-> 1, syncs |-> 3]}}
    \cup {b @@ Small("file", {"a"}, "chunk") : b \in
        {[cloned |-> {"a"}, faults |-> 1, snaps |-> 1], [syncs |-> 3, stops |-> 1]}}
    \cup {b @@ Small("file", {"a"}, "pack") : b \in
        {[cloned |-> {"a"}, faults |-> 1, snaps |-> 1, syncs |-> 1], [switches |-> 1, syncs |-> 3]}}
    \cup {[snaps |-> 1, syncs |-> 2] @@ Small("s3", {"a", "b"}, "blob")}
    \cup {b @@ Small("s3", {"a"}, "blob") : b \in
        {[events |-> 1, stops |-> 1, snaps |-> 1],
         [cloned |-> {"a"}, faults |-> 1, snaps |-> 1],
         [switches |-> 1]}}

Shared == {[snaps |-> 1, syncs |-> 1] @@ Small("file", {"a", "b"}, "blob")}
============================================================================
