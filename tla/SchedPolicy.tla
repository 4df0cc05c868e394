----------------------------- MODULE SchedPolicy -----------------------------
(***************************************************************************)
(* Policies and priorities in assg4/core.c: the system calls that set the  *)
(* policy, the real-time priority or the nice value of a task, fork and    *)
(* exit, the boost of a task on whose lock another one waits, and the      *)
(* admission of deadline tasks against the bandwidth limit.                *)
(*                                                                         *)
(* A call first reads the task without a lock to check permission, then    *)
(* changes it under the locks of task_rq_lock, one action per section.     *)
(* The lock code (rtmutex.c, not here) calls rt_mutex_setprio with the     *)
(* owner's pi_lock held: waiters and the owner's priority change together. *)
(* A task that others wait for does not wait itself.                       *)
(*                                                                         *)
(* Priorities are the kernel's: smaller is better, negative is deadline,   *)
(* below MAX_RT_PRIO real-time.  Left out: load weights, affinity and      *)
(* groups (real-time runtime is not refused), other users' tasks.          *)
(***************************************************************************)
EXTENDS Integers, FiniteSets, Functions

CONSTANTS Task, NoTask,
          Boot,            \* tasks that exist initially, with their fields First
          First,
          Forker,          \* tasks that may fork
          Mortal,          \* tasks that may exit
          Caller,          \* threads that make calls
          Capable,         \* those with CAP_SYS_NICE
          Attr,            \* arguments of sched_setattr and sched_setscheduler
          Nices,           \* nice values
          Waits,           \* Waits[p]: tasks that may wait for a lock of p
          RLIMIT_NICE,     \* the best nice value the limit permits
          RLIMIT_RTPRIO,
          MAX_RT_PRIO, MIN_NICE, MAX_NICE,
          CPUs,            \* active CPUs of the root domain
          Limits,          \* values written to sched_rt_runtime_us, as a bandwidth
          BW_UNIT,         \* the bandwidth of a whole CPU
          FirstLimit,
          Width,           \* total_bw is unsigned: it wraps at Width
          MaxCall          \* bound

Fair(po) == po \in {"NORMAL", "BATCH", "IDLE"}
Rt(po) == po \in {"FIFO", "RR"}
Dl(po) == po = "DEADLINE"
Policies == {"NORMAL", "BATCH", "IDLE", "FIFO", "RR", "DEADLINE"}


VARIABLES
    task,             \* task[p]: the scheduling fields of p
    life,             \* not created, being forked, in use, dead
    parent,           \* of a task that is being forked
    blocked_on,       \* the owner of the lock that a task waits for
    wprio,            \* the priority its rt_mutex_waiter was queued with
    total_bw, bw,     \* dl_bw of the root domain; bw is -1 without a limit
    sysctl,           \* sched_rt_runtime_us
    call,             \* call[c]: place and locals of the call c is making
    handler,          \* sched_rt_handler: its place
    calls,            \* calls made, for the bound
    helped,           \* history: tasks that a capable caller has changed
    lost,             \* history: bandwidth taken, less given back, for dead tasks
    late,             \* history: a task came in while a new limit was not in force yet
    kept              \* history: a task left its policy and kept its bandwidth

piVars == <<blocked_on, wprio>>
bwVars == <<total_bw, bw, sysctl, handler>>
history == <<helped, lost, late, kept>>
vars   == <<task, life, parent, piVars, bwVars, call, calls, history>>

-----------------------------------------------------------------------------
(* Priorities                                                              *)

NICE_TO_PRIO(n) == MAX_RT_PRIO - MIN_NICE + n
task_nice(t) == t.static_prio - MAX_RT_PRIO + MIN_NICE

normal_prio(t) == IF Dl(t.policy) THEN -1
                  ELSE IF Rt(t.policy) THEN MAX_RT_PRIO - 1 - t.rt_priority
                  ELSE t.static_prio

ClassOf(pr) == IF pr < 0 THEN "dl" ELSE IF pr < MAX_RT_PRIO THEN "rt" ELSE "fair"

\* A task that leaves the deadline class forgets its bandwidth.
CheckClassChanged(t, old) ==
    IF old.class = "dl" /\ t.class # "dl" THEN [t EXCEPT !.dl_bw = 0] ELSE t

RtMutexSetprio(t, pr) ==
    CheckClassChanged([t EXCEPT !.prio = pr, !.class = ClassOf(pr)], t)

\* Real-time and deadline tasks only store the value; a boost to real-time stays.
SetUserNice(t, n) ==
    LET u == [t EXCEPT !.static_prio = NICE_TO_PRIO(n)]
    IN  IF ~Fair(t.policy) THEN u
        ELSE [u EXCEPT !.normal_prio = normal_prio(u),
                       !.prio = IF t.prio < MAX_RT_PRIO THEN @ ELSE normal_prio(u)]

SetschedulerParams(t, a) ==
    LET po == IF a.policy = "SETPARAM" THEN t.policy ELSE a.policy
        u == [t EXCEPT !.policy = po,
                       !.dl_bw = IF Dl(po) THEN a.bw ELSE @,
                       !.static_prio = IF Fair(po) THEN NICE_TO_PRIO(a.nice) ELSE @,
                       !.rt_priority = a.prio]
    IN  [u EXCEPT !.normal_prio = normal_prio(u)]

Setscheduler(t, a) ==
    LET u == SetschedulerParams(t, a)
    IN  CheckClassChanged([u EXCEPT !.prio = normal_prio(u),
                                    !.class = ClassOf(normal_prio(u))], t)

-----------------------------------------------------------------------------
(* Types, and what the constants are assumed to be                         *)

StaticPrio == NICE_TO_PRIO(MIN_NICE) .. NICE_TO_PRIO(MAX_NICE)
Prio == -1 .. NICE_TO_PRIO(MAX_NICE)

Fields == [policy : Policies, static_prio : StaticPrio, rt_priority : 0 .. MAX_RT_PRIO - 1,
           normal_prio : Prio, prio : Prio, class : {"dl", "rt", "fair"}, dl_bw : Nat,
           reset : BOOLEAN]

\* Larger priorities are refused, and the nice value is clamped.
AttrFields == [policy : Policies \cup {"SETPARAM"}, prio : 0 .. MAX_RT_PRIO - 1,
               nice : MIN_NICE .. MAX_NICE, valid : BOOLEAN, bw : Nat, reset : BOOLEAN]

CallFields == [pc : {"none", "recheck", "check", "lock", "adjust", "nice"},
               task : Task \cup {NoTask}, attr : AttrFields, policy : Policies,
               old : Policies \cup {"none"}, reset : BOOLEAN]

\* The fields of a task agree with each other, as those of INIT_TASK do.
Agree(t) == /\ Rt(t.policy) <=> t.rt_priority # 0
            /\ t.class = ClassOf(t.prio) /\ t.normal_prio = normal_prio(t)

ASSUME SchedPolicyAssumption ==
    /\ Boot \subseteq Task /\ NoTask \notin Task /\ Capable \subseteq Caller
    /\ MAX_RT_PRIO \in Nat \ {0} /\ CPUs \in Nat \ {0}
    /\ MIN_NICE \in Int /\ MAX_NICE \in Int /\ MIN_NICE <= 0 /\ 0 <= MAX_NICE
    /\ Nices \subseteq MIN_NICE .. MAX_NICE /\ Attr \subseteq AttrFields
    /\ RLIMIT_NICE \in Int /\ RLIMIT_RTPRIO \in Nat
    /\ First \in [Task -> Fields] /\ \A p \in Boot : Agree(First[p]) /\ First[p].dl_bw = 0
    /\ Width \in Nat \ {0} /\ BW_UNIT \in Nat /\ MaxCall \in Nat
    /\ Limits \subseteq -1 .. BW_UNIT /\ FirstLimit \in -1 .. BW_UNIT

\* No valid deadline task takes more than a CPU (__checkparam_dl), and the width of
\* total_bw is enough for all of them: it has 64 bits, of which a CPU takes 20.
ASSUME BandwidthAssumption ==
    /\ IsFiniteSet(Task) /\ BW_UNIT * Cardinality(Task) < Width
    /\ \A a \in Attr : a.valid => a.bw <= BW_UNIT

-----------------------------------------------------------------------------
(* Admission of deadline tasks                                             *)

\* Mutation: the new task is not counted.
OverflowNow(old, new) == bw # -1 /\ bw * CPUs < (total_bw - old) % Width

__dl_overflow(old, new) == bw # -1 /\ bw * CPUs < (total_bw - old + new) % Width

DlBw(po, a) == IF Dl(po) THEN a.bw ELSE 0

\* Mutation: a deadline task that changes its parameters counts twice.
DlTotalNoClear(t, po, a) ==
    (total_bw + DlBw(po, a) - (IF Dl(po) THEN 0 ELSE t.dl_bw)) % Width

\* dl_overflow succeeds, and the bandwidth it leaves allocated.
DlAdmits(t, po, a) ==
    \/ DlBw(po, a) = t.dl_bw
    \/ Dl(po) /\ ~__dl_overflow(IF Dl(t.policy) THEN t.dl_bw ELSE 0, a.bw)
    \/ ~Dl(po) /\ Dl(t.policy)

\* What it adds to the count.
DlTaken(t, po, a) ==
    IF DlBw(po, a) = t.dl_bw THEN 0
    ELSE DlBw(po, a) - (IF Dl(t.policy) THEN t.dl_bw ELSE 0)

DlTotal(t, po, a) == (total_bw + DlTaken(t, po, a)) % Width

-----------------------------------------------------------------------------
(* Calls                                                                   *)

NoAttr == [policy |-> "NORMAL", prio |-> 0, nice |-> 0, valid |-> FALSE, bw |-> 0,
           reset |-> FALSE]
NoCall == [pc |-> "none", task |-> NoTask, attr |-> NoAttr, policy |-> "NORMAL",
           old |-> "none", reset |-> FALSE]

Init ==
    /\ task = First /\ life = [p \in Task |-> IF p \in Boot THEN "live" ELSE "fresh"]
    /\ parent = [p \in Task |-> NoTask]
    /\ blocked_on = [p \in Task |-> NoTask] /\ wprio = [p \in Task |-> 0]
    /\ total_bw = 0 /\ bw = FirstLimit /\ sysctl = FirstLimit /\ handler = "none"
    /\ call = [c \in Caller |-> NoCall] /\ calls = 0
    /\ helped = {} /\ lost = 0 /\ late = FALSE /\ kept = FALSE

Return(c) == call' = [call EXCEPT ![c] = NoCall]

Enter(c, p, a) ==
    /\ call[c].pc = "none" /\ life[p] \in {"live", "dead"} /\ calls < MaxCall
    /\ call' = [call EXCEPT ![c] = [NoCall EXCEPT !.pc = "recheck", !.task = p, !.attr = a]]
    /\ calls' = calls + 1
    /\ UNCHANGED <<task, life, parent, piVars, bwVars, history>>

\* sched_setscheduler and sched_setparam: the nice value is the task's own.
SysSchedSetscheduler(c, p, a) ==
    Enter(c, p, [a EXCEPT !.nice = task_nice(task[p]), !.bw = 0, !.valid = FALSE])

SysSchedSetattr(c, p, a) == a.policy # "SETPARAM" /\ Enter(c, p, a)

\* The label recheck of __sched_setscheduler.
Recheck(c) ==
    LET k == call[c]
        set == k.attr.policy = "SETPARAM"
    IN  /\ k.pc = "recheck"
        /\ call' = [call EXCEPT ![c] =
                [k EXCEPT !.pc = "check",
                          !.policy = IF set THEN task[k.task].policy ELSE k.attr.policy,
                          !.old = IF set THEN task[k.task].policy ELSE "none",
                          !.reset = IF set THEN task[k.task].reset ELSE k.attr.reset]]
        /\ UNCHANGED <<task, life, parent, piVars, bwVars, calls, history>>

Valid(k) == /\ Dl(k.policy) => k.attr.valid
            /\ Rt(k.policy) <=> k.attr.prio # 0

can_nice(n) == n >= RLIMIT_NICE

\* Mutation: the limit on real-time priorities is not looked at.
PermittedNoLimit(k, t) ==
    /\ Fair(k.policy) => k.attr.nice >= task_nice(t) \/ can_nice(k.attr.nice)
    /\ ~Dl(k.policy)
    /\ t.policy = "IDLE" /\ k.policy # "IDLE" => can_nice(task_nice(t))
    /\ t.reset => k.reset

\* What a caller without CAP_SYS_NICE may do to a task of its own user.
Permitted(k, t) ==
    /\ Fair(k.policy) => k.attr.nice >= task_nice(t) \/ can_nice(k.attr.nice)
    /\ Rt(k.policy) => /\ k.policy = t.policy \/ RLIMIT_RTPRIO > 0
                       /\ k.attr.prio <= t.rt_priority \/ k.attr.prio <= RLIMIT_RTPRIO
    /\ ~Dl(k.policy)
    /\ t.policy = "IDLE" /\ k.policy # "IDLE" => can_nice(task_nice(t))
    /\ t.reset => k.reset

\* Still without a lock.
Check(c) ==
    LET k == call[c]
        ok == Valid(k) /\ (c \in Capable \/ Permitted(k, task[k.task]))
    IN  /\ k.pc = "check"
        /\ call' = [call EXCEPT ![c] = IF ok THEN [k EXCEPT !.pc = "lock"] ELSE NoCall]
        /\ UNCHANGED <<task, life, parent, piVars, bwVars, calls, history>>

\* Under the locks: what the call would change.
Changes(k, t) ==
    \/ k.policy # t.policy
    \/ Fair(k.policy) /\ k.attr.nice # task_nice(t)
    \/ Rt(k.policy) /\ k.attr.prio # t.rt_priority
    \/ Dl(k.policy)

Help(c, p) == helped' = IF c \in Capable THEN helped \cup {p} ELSE helped

SetNothing(c) ==
    LET k == call[c]
    IN  /\ k.pc = "lock" /\ ~Changes(k, task[k.task])
        /\ task' = [task EXCEPT ![k.task].reset = k.reset]
        /\ Return(c)
        /\ UNCHANGED <<life, parent, piVars, bwVars, calls, history>>

NoBandwidth(k) == Dl(k.policy) /\ sysctl # -1 /\ bw = 0

\* Mutation: the policy is not looked at again.
PolicyMovedNever(k) == FALSE

\* The policy that a call without one has read is no longer the task's.
PolicyMoved(k) == k.old # "none" /\ k.old # task[k.task].policy

SetRefused(c) ==
    LET k == call[c]
    IN  /\ k.pc = "lock" /\ Changes(k, task[k.task])
        /\ IF NoBandwidth(k) THEN Return(c)
           ELSE IF PolicyMoved(k)
                THEN call' = [call EXCEPT ![c] = [k EXCEPT !.pc = "recheck"]]
                ELSE /\ Dl(k.policy) \/ task[k.task].prio < 0
                     /\ ~DlAdmits(task[k.task], k.policy, k.attr)
                     /\ Return(c)
        /\ UNCHANGED <<task, life, parent, piVars, bwVars, calls, history>>

Waiters(p) == {w \in Task : blocked_on[w] = p}
TopWaiters(p) == {w \in Waiters(p) : \A v \in Waiters(p) : wprio[w] <= wprio[v]}

newprio(a) == IF Dl(a.policy) THEN -1 ELSE MAX_RT_PRIO - 1 - a.prio

\* rt_mutex_check_prio
Boosted(p, a) == \E w \in TopWaiters(p) : task[w].prio <= newprio(a)

\* Mutation: the boosted task takes its new priority at once, not its class.
StoreParamsPrio(t, a) ==
    LET u == SetschedulerParams(t, a) IN [u EXCEPT !.prio = u.normal_prio]

\* A boosted task only stores its parameters.
StoreParams(t, a) == SetschedulerParams(t, a)

SetAccepted(c) ==
    LET k == call[c]
        t == task[k.task]
        u == [t EXCEPT !.reset = k.reset]
    IN  /\ k.pc = "lock" /\ Changes(k, t) /\ ~NoBandwidth(k) /\ ~PolicyMoved(k)
        /\ \/ /\ Dl(k.policy) \/ t.prio < 0
              /\ DlAdmits(t, k.policy, k.attr) /\ total_bw' = DlTotal(t, k.policy, k.attr)
              /\ lost' = IF life[k.task] = "dead" THEN lost + DlTaken(t, k.policy, k.attr) ELSE lost
           \/ ~Dl(k.policy) /\ t.prio >= 0 /\ UNCHANGED <<total_bw, lost>>
        /\ Help(c, k.task)
        /\ late' = (late \/ (handler = "do" /\ Dl(k.policy)))
        /\ UNCHANGED <<life, parent, piVars, bw, sysctl, handler, calls>>
        /\ \/ /\ Boosted(k.task, k.attr)
              /\ task' = [task EXCEPT ![k.task] = StoreParams(u, k.attr)]
              /\ Return(c)
           \/ /\ ~Boosted(k.task, k.attr)
              /\ task' = [task EXCEPT ![k.task] = Setscheduler(u, k.attr)]
              /\ call' = [call EXCEPT ![c].pc = "adjust"]
        /\ kept' = (kept \/ (Dl(t.policy) /\ ~Dl(k.policy) /\ task'[k.task].dl_bw # 0))

\* nice and setpriority
SysNice(c, p, n) ==
    /\ call[c].pc = "none" /\ life[p] = "live" /\ calls < MaxCall
    /\ n # task_nice(task[p])
    /\ n > task_nice(task[p]) \/ can_nice(n) \/ c \in Capable
    /\ calls' = calls + 1
    /\ call' = [call EXCEPT ![c] = [NoCall EXCEPT !.pc = "nice", !.task = p,
                                                   !.attr = [NoAttr EXCEPT !.nice = n]]]
    /\ UNCHANGED <<task, life, parent, piVars, bwVars, history>>

NiceSet(c) ==
    LET k == call[c]
    IN  /\ k.pc = "nice"
        /\ task' = [task EXCEPT ![k.task] = SetUserNice(@, k.attr.nice)]
        /\ Help(c, k.task) /\ Return(c)
        /\ UNCHANGED <<life, parent, piVars, bwVars, calls, lost, late, kept>>

-----------------------------------------------------------------------------
(* Boosts                                                                  *)

\* The priority an owner with waiters W gets; the caller asks only for a change.
AdjustPrio(t, W, prios) ==
    LET pr == CHOOSE x \in {t.normal_prio} \cup {prios[w] : w \in W} :
                \A y \in {t.normal_prio} \cup {prios[w] : w \in W} : x <= y
    IN  IF t.prio = pr /\ pr >= 0 THEN t ELSE RtMutexSetprio(t, pr)

Block(w, p) ==
    /\ w \in Waits[p] /\ life[w] = "live" /\ life[p] = "live"
    /\ blocked_on[w] = NoTask /\ blocked_on[p] = NoTask /\ Waiters(w) = {}
    /\ blocked_on' = [blocked_on EXCEPT ![w] = p]
    /\ wprio' = [wprio EXCEPT ![w] = task[w].prio]
    /\ task' = [task EXCEPT ![p] = AdjustPrio(@, Waiters(p) \cup {w}, wprio')]
    /\ UNCHANGED <<life, parent, bwVars, call, calls, history>>

Unblock(w) ==
    LET p == blocked_on[w]
    IN  /\ p # NoTask
        /\ blocked_on' = [blocked_on EXCEPT ![w] = NoTask]
        /\ task' = [task EXCEPT ![p] = AdjustPrio(@, Waiters(p) \ {w}, wprio)]
        /\ UNCHANGED <<life, parent, wprio, bwVars, call, calls, history>>

\* rt_mutex_adjust_pi: a waiter whose priority has changed is queued anew.
AdjustPi(c) ==
    LET w == call[c].task
        p == blocked_on[w]
        moved == p # NoTask /\ (wprio[w] # task[w].prio \/ task[w].prio < 0)
    IN  /\ call[c].pc = "adjust"
        /\ Return(c)
        /\ wprio' = IF moved THEN [wprio EXCEPT ![w] = task[w].prio] ELSE wprio
        /\ task' = IF moved THEN [task EXCEPT ![p] = AdjustPrio(@, Waiters(p), wprio')]
                   ELSE task
        /\ UNCHANGED <<life, parent, blocked_on, bwVars, calls, history>>

-----------------------------------------------------------------------------
(* Fork, exit, and the limit                                               *)

\* The child starts as a copy of its parent.
DupTask(p, q) ==
    /\ p \in Forker /\ life[p] = "live" /\ life[q] = "fresh"
    /\ task' = [task EXCEPT ![q] = task[p]]
    /\ life' = [life EXCEPT ![q] = "forking"] /\ parent' = [parent EXCEPT ![q] = p]
    /\ helped' = IF p \in helped THEN helped \cup {q} ELSE helped
    /\ UNCHANGED <<piVars, bwVars, call, calls, lost, late, kept>>

\* The reset on fork.
ResetOnFork(t) ==
    IF ~t.reset THEN t
    ELSE LET u == IF Fair(t.policy)
                  THEN [t EXCEPT !.static_prio = IF task_nice(t) < 0 THEN NICE_TO_PRIO(0)
                                                 ELSE @]
                  ELSE [t EXCEPT !.policy = "NORMAL", !.static_prio = NICE_TO_PRIO(0),
                                 !.rt_priority = 0]
         IN  [u EXCEPT !.prio = u.static_prio, !.normal_prio = u.static_prio,
                       !.reset = FALSE]

SchedFork(q) ==
    LET t == ResetOnFork([task[q] EXCEPT !.dl_bw = 0,
                                         !.prio = task[parent[q]].normal_prio])
    IN  /\ life[q] = "forking"
        /\ parent' = [parent EXCEPT ![q] = NoTask]
        /\ IF t.prio < 0
           THEN /\ task' = [task EXCEPT ![q] = First[q]]
                /\ life' = [life EXCEPT ![q] = "fresh"]
                /\ helped' = helped \ {q}
           ELSE /\ task' = [task EXCEPT ![q] = [t EXCEPT !.class = ClassOf(t.prio)]]
                /\ life' = [life EXCEPT ![q] = "live"]
                /\ helped' = IF parent[q] \in helped THEN helped \cup {q} ELSE helped
        /\ UNCHANGED <<piVars, bwVars, call, calls, lost, late, kept>>

\* finish_task_switch calls task_dead of the class.
TaskDead(p) ==
    /\ p \in Mortal /\ life[p] = "live"
    /\ Waiters(p) = {} /\ blocked_on[p] = NoTask /\ \A q \in Task : parent[q] # p
    /\ life' = [life EXCEPT ![p] = "dead"]
    /\ total_bw' = IF task[p].class = "dl" THEN (total_bw - task[p].dl_bw) % Width
                   ELSE total_bw
    /\ UNCHANGED <<task, parent, piVars, bw, sysctl, handler, call, calls, history>>

\* A limit of -1 (RUNTIME_INF) counts as a whole CPU.
to_ratio(l) == IF l = -1 THEN BW_UNIT ELSE l

\* sched_rt_handler: the new value must cover what is allocated ...
DlGlobalConstraints(l) ==
    /\ handler = "none" /\ calls < MaxCall
    /\ calls' = calls + 1
    /\ to_ratio(l) >= total_bw
    /\ sysctl' = l /\ handler' = "do"
    /\ UNCHANGED <<task, life, parent, piVars, total_bw, bw, call, history>>

\* ... and is put in force after the lock was dropped.
DlDoGlobal ==
    /\ handler = "do"
    /\ bw' = sysctl /\ handler' = "none"
    /\ UNCHANGED <<task, life, parent, piVars, total_bw, sysctl, call, calls, history>>

-----------------------------------------------------------------------------
Calls(c) ==
    \/ \E p \in Task, a \in Attr : SysSchedSetscheduler(c, p, a) \/ SysSchedSetattr(c, p, a)
    \/ \E p \in Task, n \in Nices : SysNice(c, p, n)
    \/ Recheck(c) \/ Check(c) \/ SetNothing(c) \/ SetRefused(c) \/ SetAccepted(c)
    \/ NiceSet(c) \/ AdjustPi(c)

Next ==
    \/ \E c \in Caller : Calls(c)
    \/ \E w \in Task : Unblock(w) \/ SchedFork(w) \/ TaskDead(w)
    \/ \E p, q \in Task : Block(p, q) \/ DupTask(p, q)
    \/ \E l \in Limits : DlGlobalConstraints(l)
    \/ DlDoGlobal

Spec == Init /\ [][Next]_vars
-----------------------------------------------------------------------------
(* Properties                                                              *)

Live(p) == life[p] = "live"

\* Every variable has its type.
TypeOK ==
    /\ task \in [Task -> Fields] /\ life \in [Task -> {"fresh", "forking", "live", "dead"}]
    /\ parent \in [Task -> Task \cup {NoTask}] /\ blocked_on \in [Task -> Task \cup {NoTask}]
    /\ wprio \in [Task -> Prio]
    /\ total_bw \in 0 .. Width - 1 /\ bw \in -1 .. BW_UNIT /\ sysctl \in -1 .. BW_UNIT
    /\ handler \in {"none", "do"} /\ calls \in 0 .. MaxCall
    /\ call \in [Caller -> CallFields]
    /\ helped \subseteq Task /\ lost \in Int /\ late \in BOOLEAN /\ kept \in BOOLEAN

\* Only real-time tasks have a real-time priority, although sched_setparam has
\* checked its argument against a policy read without a lock.
RtPriorityKept ==
    \A p \in Task : Live(p) => (Rt(task[p].policy) <=> task[p].rt_priority # 0)

\* A task is queued in the class its priority belongs to and its normal_prio is the
\* one its policy and parameters yield, whatever interleaving of setscheduler, nice,
\* boosts (rt_mutex_setprio) and forks has brought it there.
PrioConsistent ==
    \A p \in Task : Live(p) => /\ task[p].class = ClassOf(task[p].prio)
                              /\ task[p].normal_prio = normal_prio(task[p])

\* Nobody has to help a task to these: what its limits permit, or a first task had.
RtPrioReached(pr) == pr <= RLIMIT_RTPRIO \/ \E q \in Boot : pr <= First[q].rt_priority
NiceReached(n) == \/ n >= RLIMIT_NICE \/ n >= 0
                  \/ \E q \in Boot : NICE_TO_PRIO(n) >= First[q].static_prio

\* Callers without CAP_SYS_NICE together never bring a task beyond what it had
\* initially or its limits permit (a reset on fork gives nice 0): the checks of
\* __sched_setscheduler and can_nice, made without a lock.
CallersLimited ==
    \A p \in Task \ helped : Live(p) =>
        /\ RtPrioReached(task[p].rt_priority) /\ NiceReached(task_nice(task[p]))
        /\ Dl(task[p].policy) => \E q \in Boot : Dl(First[q].policy)

\* What the deadline tasks in use hold.
Held == [p \in Task |-> IF Live(p) /\ Dl(task[p].policy) THEN task[p].dl_bw ELSE 0]

\* The allocated bandwidth is the sum over the deadline tasks in use: dl_overflow
\* "accordingly updates the currently allocated bandwidth".  What calls on tasks
\* already dead took and gave back (lost) comes on top of it; a task that leaves its
\* policy while it is boosted keeps its bandwidth, which dl_overflow then believes
\* to be counted when it comes back (kept).
BandwidthExact == ~kept => total_bw = (lost + SumFunctionOnSet(Held, Task)) % Width

\* Admitted deadline tasks never exceed the limit of the root domain (dl_overflow and
\* sched_dl_global_constraints), unless one came in between the check of a new limit
\* and its use, or the count is spoilt as above.
BandwidthBounded == bw # -1 /\ ~late /\ ~kept /\ lost = 0 => total_bw <= bw * CPUs
=============================================================================
