--------------------------- MODULE MCKeyRotation ---------------------------
(* Instances of KeyRotation for TLC. *)
EXTENDS KeyRotation

inst(age, format, b) == [age |-> age, format |-> format, bound |-> b]
bound(r, c, s, p, g, y, e, n) ==
  [rot |-> r, crash |-> c, snap |-> s, pack |-> p, gc |-> g, sync |-> y, evict |-> e, net |-> n]
MCScenes ==
  {inst(FALSE, "flat", bound(2, 2, 1, 1, 1, 0, 0, 0)),
   inst(FALSE, "flat", bound(2, 1, 1, 0, 0, 1, 1, 1)),
   inst(FALSE, "v2", bound(2, 1, 1, 0, 1, 0, 0, 0)),
   inst(TRUE, "v2", bound(1, 1, 1, 0, 1, 1, 1, 0))}

\* states after an exempted event are not explored further: the event stays on record
Unhurt == ~overlap /\ ~stacked /\ blind = {}
=============================================================================
