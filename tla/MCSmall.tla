-------------------------------- MODULE MCSmall --------------------------------
(* Components small enough to share a run, one at a time: they share nothing, *)
(* so a behaviour picks one of them and the others stay in their initial      *)
(* states.                                                                    *)
(*                                                                            *)
(* Moves: two tasks on two CPUs, one of which moves itself and the other      *)
(* about while a CPU goes down.  wss5.c and rss2.c: two areas that touch, and *)
(* two with a missing table between them.  ex6_ver2.c: two opens and three    *)
(* mappings.                                                                  *)
EXTENDS TaskMoves, PageWatch, MappedPage, TLC

CONSTANTS t1, t2

VARIABLE which              \* the component

\* The task that is waited for blocks twice, so that results differ.
Switches == [p \in Task |-> IF p = t2 THEN 2 ELSE 1]

Area(first, end) == [vm_start |-> first, vm_end |-> end]
Touching == [areas |-> <<Area(0, 1), Area(1, 2)>>, resident |-> {0}, table |-> {0, 1, 2}]
Apart == [areas |-> <<Area(0, 1), Area(2, 3)>>, resident |-> {0, 2}, table |-> {0, 2}]
TwoLayouts == {Touching, Apart}

ASSUME SmallInstances == MovesAssumption /\ WatchAssumption /\ MappedAssumption

\* The CPUs of the moves differ in nothing.
AlikeCpus == Permutations(CPU)

SmallInit ==
    /\ which \in {"moves", "watch", "map"}
    /\ Init /\ WatchInit /\ MapInit
    /\ which # "moves" => task[t1].cpu = task[t2].cpu
    /\ which # "watch" => areas = Apart.areas

SmallNext ==
    \/ which = "moves" /\ Next /\ UNCHANGED <<which, watchVars, mapping>>
    \/ which = "watch" /\ WatchNext /\ UNCHANGED <<which, vars, mapping>>
    \/ which = "map" /\ MapNext /\ UNCHANGED <<which, vars, watchVars>>

\* Properties hold in the initial states, in which the other components stay.
SmallSpec == SmallInit /\ [][SmallNext]_<<which, vars, watchVars, mapping>>
=============================================================================
