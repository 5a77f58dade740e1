--------------------------- MODULE MCClusterFront ---------------------------
EXTENDS ClusterFront

CONSTANTS c1, c2, c3, k1

Instance(conns, ops, keys, kinds, sizes, limits, n, f) ==
  [conns |-> conns, ops |-> ops, keys |-> keys, kinds |-> kinds, sizes |-> sizes,
   limits |-> limits, requests |-> n, faults |-> f, cold |-> FALSE]

Cold(i) == [i EXCEPT !.cold = TRUE]

\* Admission and the frame budget; listings against PUTs and DELETEs; requests
\* and uploads at the gate; GETs that fill the store against DELETEs; timeouts,
\* failures and restarts.
MCInstances ==
  { Instance({c1, c2, c3}, {"put", "bad"}, {k1}, {"keys"}, {1, 2}, {2}, 3, 0),
    Instance({c1, c2}, {"capabilities", "put", "bad"}, {k1}, {"keys"}, {1, 2}, {1, 2}, 2, 1),
    Instance({c1, c2, c3}, {"put", "get"}, {k1}, {"keys"}, {1}, {3}, 3, 0),
    Cold(Instance({c1, c2}, {"delete", "get", "list"}, {k1}, {"keys"}, {1}, {2}, 3, 0)),
    Cold(Instance({c1, c2}, {"put", "delete", "get"}, {k1}, {"keys"}, {1}, {2}, 3, 0)),
    Instance({c1, c2}, {"put", "list"}, Keys, {"sizes"}, {1}, {2}, 2, 0) }
  \cup { Instance({c1, c2}, {"put", "delete", "list"}, {k1}, {d}, {1}, {2}, 3, 0) :
           d \in {"keys", "sizes"} }
  \cup { Cold(Instance({c1, c2}, {"put", "delete", "get", "list"}, {k1}, {d}, {1}, {2}, 2, 1)) :
           d \in Kinds }

=============================================================================
