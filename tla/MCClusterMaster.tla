-------------------------- MODULE MCClusterMaster --------------------------
(* Instances of ClusterMaster for TLC: a is content-addressed and goes to   *)
(* the first tier, m is mutable metadata, r a mutable ref.                  *)
EXTENDS ClusterMaster

CONSTANTS a, m, r, v1, v2, h1

SameHost == [k \in Keys |-> h1]
ContentKeys == {a} \cap Keys
Tiers == [k \in Keys |-> IF k = a THEN 1 ELSE IF k = m THEN 2 ELSE 3]
Absent == {None}
Older == {None, v1}
=============================================================================
