--------------------------- MODULE MCSchedGroups ----------------------------
(* Trees of at most four groups, and bandwidths in quarters of a CPU.       *)
EXTENDS SchedGroups

CONSTANTS g1, g2, g3, p1, p2

Below(S) == [g \in Group |-> IF g \in S THEN Root ELSE NoGroup]
TwoBelow == Below({g1, g2})
Chain == [g \in Group |-> IF g = g1 THEN Root ELSE IF g = g2 THEN g1 ELSE NoGroup]

OneInRoot == [p \in Task |-> IF p = p1 THEN Root ELSE NoGroup]

\* No limit, or one of a quarter or two.
Quarters == {-1, 1, 2}

ThreeQuarters == [period |-> 4, runtime |-> 3]

ASSUME GroupsInstance == SchedGroupsAssumption
=============================================================================
