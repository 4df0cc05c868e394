---------------------------- MODULE MCSchedWake -----------------------------
(* Wakeups between two alike tasks: ordinary ones, on CPUs without a common  *)
(* cache, or workers of one CPU, which also wake each other inside           *)
(* __schedule.  The other two are dead when it begins, and nobody acts on    *)
(* them.                                                                     *)
EXTENDS MCScheduler

CONSTANTS w1, w2

WakeInit ==
    \E here \in {Worker, Task \ Worker} :
        /\ state = [p \in Task |-> IF p \in here THEN "RUNNING" ELSE "DEAD"]
        /\ on_rq = [p \in Task |-> IF p \in here THEN "queued" ELSE "no"]
        /\ puts = [p \in Task |-> IF p \in here THEN 0 ELSE 1]
        /\ life = [p \in Task |-> "live"]
        /\ on_cpu = [p \in Task |-> FALSE] /\ cpu = Home
        /\ allowed = [p \in Task |-> IF p \in Worker THEN {Home[p]} ELSE CPU]
        /\ contrib = [p \in Task |-> FALSE] /\ cond = [p \in Task |-> FALSE]
        /\ active = [p \in Task |-> FALSE]
        /\ curr = [c \in CPU |-> Idle]
        /\ queue = [c \in CPU |-> {p \in here : Home[p] = c}]
        /\ nr_uninterruptible = [c \in CPU |-> 0]
        /\ need_resched = [c \in CPU |-> queue[c] # {}]
        /\ idle = [c \in CPU |-> "out"] /\ stopq = [c \in CPU |-> <<>>]
        /\ wake_list = [c \in CPU |-> {}] /\ pend = [c \in CPU |-> {}]
        /\ ipi = [c \in CPU |-> FALSE]
        /\ pc = [c \in CPU |-> "run"] /\ prev = [c \in CPU |-> Idle]
        /\ op = [c \in CPU |-> "none"] /\ arg = [c \in CPU |-> NoTask]
        /\ dest = [c \in CPU |-> c]

WakeSpec == WakeInit /\ [][Next]_vars

\* Ordinary tasks differ in nothing, and workers neither.
Alike == Permutations({t1, t2}) \cup Permutations({w1, w2})
=============================================================================
