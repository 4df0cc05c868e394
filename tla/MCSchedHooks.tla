---------------------------- MODULE MCSchedHooks ----------------------------
(* Two CPUs, the watched task, one more and one that has not run yet.  Two  *)
(* loads of the module, so that counters of the first one could survive.    *)
EXTENDS SchedHooks

CONSTANTS p1, p2, p3, c1, c2, i1, i2

Swappers == [c \in CPU |-> IF c = c1 THEN i1 ELSE i2]
Homes == [t \in Task |-> c1]
=============================================================================
