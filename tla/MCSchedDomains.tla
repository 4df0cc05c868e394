--------------------------- MODULE MCSchedDomains ---------------------------
(* Instances of SchedDomains for TLC.                                       *)
EXTENDS SchedDomains

MCCpu == 0..2

\* A core of two threads and a single one in one package.
Threads == [default |-> <<[mask |-> [c \in MCCpu |-> IF c = 2 THEN {2} ELSE {0, 1}],
                           flags |-> {"SHARE_CPUCAPACITY", "SHARE_PKG_RESOURCES"}],
                          [mask |-> [c \in MCCpu |-> MCCpu], flags |-> {}]>>,
            node |-> [c \in MCCpu |-> 0],
            dist |-> (0 :> (0 :> 10))]

\* Three nodes in a row: the node in the middle reaches all CPUs one level
\* earlier than the others.
Line == [default |-> <<[mask |-> [c \in MCCpu |-> {c}], flags |-> {}]>>,
         node |-> [c \in MCCpu |-> c],
         dist |-> [i \in MCCpu |-> [j \in MCCpu |->
                      CASE i = j -> 10 [] i # j /\ 1 \in {i, j} -> 20 [] OTHER -> 40]]]

MCTopologies == {Threads, Line}

Whole == {[mask |-> MCCpu, relax |-> -1]}
Split == {[mask |-> {0}, relax |-> -1], [mask |-> {1, 2}, relax |-> 0]}
MCCpusets == {Whole, Split}
=============================================================================
