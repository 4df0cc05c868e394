---------------------------- MODULE MCScheduler ----------------------------
(***************************************************************************)
(* Instances of Scheduler for TLC: two CPUs and one or two tasks.          *)
(***************************************************************************)
EXTENDS Scheduler, TLC

CONSTANTS c1, c2, t1, t2

\* The two CPUs share no cache, so wakeups between them go through wake_list.
SplitLLC == [c \in CPU |-> c]

HomeFirst == [p \in Task |-> c1]

SleepI == [p \in Task |-> {"INTERRUPTIBLE"}]
SleepU == [p \in Task |-> {"UNINTERRUPTIBLE"}]
SleepFirst == [p \in Task |-> IF p = t1 THEN {"INTERRUPTIBLE"} ELSE {}]

NoMasks == [p \in Task |-> {}]
\* Only t1 is moved about.
PinFirst == [p \in Task |-> IF p = t1 THEN {{c1}, {c2}, CPU} ELSE {}]

\* The task starts on c1 and may be sent to c2 for good.
PinAway == [p \in Task |-> {{c2}}]

\* No interrupt storm: an event already signalled is not signalled again.
NoStorm ==
    \A c \in CPU : op[c] = "none" /\ op'[c] = "w_pi" => ~cond[arg'[c]]

LiveSpec == Init /\ [][Next /\ NoStorm]_vars /\ Fairness
=============================================================================
