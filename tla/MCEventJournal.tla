---- MODULE MCEventJournal ----
EXTENDS EventJournal, TLC

CONSTANTS r1, r2
\* The third change undoes the second.
Recurring == [v \in 0..MaxVer |-> IF v = 4 THEN 2 ELSE v]
AnyRoot == Permutations(Roots)
====
