--------------------------- MODULE MCSchedPolicy ----------------------------
(* Priorities in miniature: real-time priorities 1 and 2, nice values from   *)
(* -1 to 1, bandwidths of 1 with a limit of 1 on each of two CPUs.            *)
(*                                                                            *)
(* Two instances share a run; a behaviour is one of the first or one of the   *)
(* second.  Calls: two tasks and a child, one capable and one ordinary        *)
(* caller, a tighter limit.  Boosts: two tasks that wait for each other's     *)
(* locks while they are called upon.                                          *)
EXTENDS SchedPolicy

CONSTANTS t1, t2, t3, root, user

VARIABLE which

Normal == [policy |-> "NORMAL", static_prio |-> NICE_TO_PRIO(0), rt_priority |-> 0,
           normal_prio |-> NICE_TO_PRIO(0), prio |-> NICE_TO_PRIO(0), class |-> "fair",
           dl_bw |-> 0, reset |-> FALSE]
Fifo(n) == [Normal EXCEPT !.policy = "FIFO", !.rt_priority = n,
                          !.normal_prio = MAX_RT_PRIO - 1 - n,
                          !.prio = MAX_RT_PRIO - 1 - n, !.class = "rt"]

OneFifo == [p \in Task |-> IF p = t1 THEN Fifo(1) ELSE Normal]

A(po, pr, n, b) == [policy |-> po, prio |-> pr, nice |-> n, valid |-> Dl(po), bw |-> b,
                    reset |-> FALSE]

Mixed == {A("SETPARAM", 1, 0, 0), A("NORMAL", 0, 0, 0),
          A("FIFO", 2, 0, 0), A("DEADLINE", 0, 0, 1),
          [A("FIFO", 1, 0, 0) EXCEPT !.reset = TRUE]}

MinNice == -1
BestWorst == {-1, 1}
Tighter == {0}

NoWaits == [p \in Task |-> {}]

Asks == {A("DEADLINE", 0, 0, 1), A("FIFO", 2, 0, 0), A("NORMAL", 0, 1, 0)}
AllNormal == [p \in Task |-> Normal]
TwoWait == [p \in Task |-> {t1, t2} \ {p}]

B == INSTANCE SchedPolicy WITH
        First <- AllNormal, Attr <- Asks, Waits <- TwoWait, Forker <- {}, Mortal <- {},
        Limits <- {}

PolicyInit == \/ which = "calls" /\ Init
              \/ which = "boosts" /\ B!Init
PolicyNext == \/ which = "calls" /\ Next /\ UNCHANGED which
              \/ which = "boosts" /\ B!Next /\ UNCHANGED which

PolicySpec == PolicyInit /\ [][PolicyNext]_<<vars, which>>
=============================================================================
