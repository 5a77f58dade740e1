---------------------------- MODULE MCRepository ----------------------------
(***************************************************************************)
(* Small instances of Repository.                                          *)
(***************************************************************************)
EXTENDS Repository, TLC

MCChunksOf == [l \in Larges |-> {"c1"}]

Instance(kind, contents, snap, pack, ev) ==
  [kind |-> kind, contents |-> contents, snap |-> snap, pack |-> pack,
   events |-> ev]

Small == CHOOSE b \in Blobs : TRUE
Mixed == {Small} \cup Larges

MCInstances ==
  {Instance("s3", Mixed, 2, 0, 2), Instance("s3", {Small}, 1, 2, 2),
   Instance("s3", Mixed, 3, 0, 1), Instance("s3", Blobs, 2, 2, 0), Instance("s3", Mixed, 2, 1, 1),
   Instance("file", Mixed, 2, 1, 1), Instance("file", Blobs, 3, 0, 1)}

Symmetry == Permutations(Procs)
=============================================================================
