----------------------------- MODULE TaskMoves ------------------------------
(***************************************************************************)
(* The operations of assg4/core.c that move tasks between run queues from  *)
(* outside the wakeup path, and the ones that wait for a task: swapping    *)
(* two tasks (migrate_swap), moving one (sched_exec, migrate_task_to),     *)
(* emptying the run queue of a CPU that goes down (migrate_tasks),         *)
(* yield_to, sched_setnuma and wait_task_inactive.  What happens under     *)
(* rq->lock is one step (module Scheduler models the locks); the reads     *)
(* before a lock or before a stopper runs are steps of their own.          *)
(***************************************************************************)
EXTENDS Integers, FiniteSets

CONSTANTS
    Task, CPU, None,
    Callers,      \* tasks that call migrate_swap, migrate_task_to, sched_exec, yield_to
    Setters,      \* tasks whose affinity or preferred node is changed
    Watched,      \* the task that wait_task_inactive is called for
    MaxSwitch,    \* bound on voluntary switches of each task
    MaxCall,      \* bound on calls of any of these
    MaxDown       \* bound on CPUs going down

MovesAssumption ==
    /\ IsFiniteSet(Task) /\ None \notin CPU \cup Task
    /\ Callers \subseteq Task /\ Setters \subseteq Task /\ Watched \in Task

VARIABLES
    task,    \* cpu, wake_cpu, allowed, state, pref (numa_preferred_nid), nvcsw
    rqs,     \* queue, curr, numa (tasks queued on their preferred node), wl (wake_list)
    online, active,
    call,    \* the operation each task is in the middle of
    calls,
    going,   \* the CPU between CPU_DOWN_PREPARE and CPU_DYING
    downs,
    wait,    \* wait_task_inactive: where its caller is, and its two results
    ran      \* the watched task has run since the first result

sched == <<task, rqs>>
masks == <<online, active, going, downs>>
ops   == <<call, calls>>
watch == <<wait, ran>>
vars  == <<sched, masks, ops, watch>>

Queued(p) == p \in rqs[task[p].cpu].queue
Running(p) == rqs[task[p].cpu].curr = p
Resting(p) == call[p] = None
\* A stopper work of p's call is queued; p waits for it.
Stopping(p) == call[p] # None /\ call[p].at = "stop"

-----------------------------------------------------------------------------
(* Effects on the run queues, as functions of [task, rqs].                  *)

Now == [task |-> task, rqs |-> rqs]
Set(s) == task' = s.task /\ rqs' = s.rqs

\* Each CPU is a node of its own; a queue counts the tasks that prefer its node.
Prefers(s, p, c) == IF s.task[p].pref = c THEN 1 ELSE 0

EnqueueTask(s, p) ==
    LET c == s.task[p].cpu  rq == s.rqs[c]
    IN [s EXCEPT !.rqs[c] = [rq EXCEPT !.queue = @ \cup {p}, !.numa = @ + Prefers(s, p, c)]]

DequeueTask(s, p) ==
    LET c == s.task[p].cpu  rq == s.rqs[c]
    IN [s EXCEPT !.rqs[c] = [rq EXCEPT !.queue = @ \ {p}, !.numa = @ - Prefers(s, p, c)]]

SetTaskCpu(s, p, c) == [s EXCEPT !.task[p] = [@ EXCEPT !.cpu = c, !.wake_cpu = c]]

MoveQueued(s, p, c) == EnqueueTask(SetTaskCpu(DequeueTask(s, p), p, c), p)

\* The CPU leaves the task it runs: it blocked, or a stopper took over.
Vacate(s, C) == [s EXCEPT !.rqs = [c \in CPU |-> IF c \in C THEN [@[c] EXCEPT !.curr = None]
                                                 ELSE @[c]]]

\* How many of the tasks in P prefer the node of c.
NumaTasks(s, P, c) == Cardinality({p \in P : s.task[p].pref = c})

\* sched_ttwu_pending: the tasks on the wake list are put on the queue.
TtwuPending(s, c) ==
    LET rq == s.rqs[c]
        W == rq.wl
    IN [task |-> [p \in Task |-> IF p \in W THEN [s.task[p] EXCEPT !.state = "RUNNING"]
                                ELSE s.task[p]],
        rqs |-> [s.rqs EXCEPT ![c] = [rq EXCEPT !.wl = {}, !.queue = @ \cup W,
                                                !.numa = @ + NumaTasks(s, W, c)]]]

\* select_fallback_rq: an active CPU the task may use; when there is none its mask
\* is widened to all CPUs first.
Widen(s, p) == IF s.task[p].allowed \cap active # {} THEN s
               ELSE [s EXCEPT !.task[p].allowed = CPU]
FallbackCpus(p) == LET m == task[p].allowed \cap active IN IF m # {} THEN m ELSE active

\* __migrate_task: not to an inactive CPU, not when the task has moved already or
\* may not run there; a sleeping task is placed by its next wakeup.
MayMigrate(s, p, src, dst) ==
    /\ dst \in active /\ s.task[p].cpu = src
    /\ dst \in s.task[p].allowed /\ p \in s.rqs[src].queue

MigrateTask(s, p, src, dst) ==
    IF MayMigrate(s, p, src, dst) THEN MoveQueued(s, p, dst) ELSE s

-----------------------------------------------------------------------------
(* The rest of the scheduler, coarsely: module Scheduler has the detail.    *)

\* The second call of wait_task_inactive has not returned yet.
NotYet == -1
Between == wait.first > 0 /\ wait.second = NotYet

\* __schedule picks a task of the queue; the one that ran stays on it.
PickNext(c) ==
    /\ \E p \in rqs[c].queue \ {rqs[c].curr} :
         /\ rqs' = [rqs EXCEPT ![c].curr = p]
         /\ ran' = (ran \/ (p = Watched /\ Between))
    /\ UNCHANGED <<task, masks, ops, wait>>

\* set_current_state, on the way to blocking, or in the wait for a stopper.
Prepare(p) ==
    /\ Running(p) /\ task[p].state = "RUNNING" /\ task[p].nvcsw < MaxSwitch[p]
    /\ Resting(p) \/ Stopping(p)
    /\ task' = [task EXCEPT ![p].state = "UNINTERRUPTIBLE"]
    /\ UNCHANGED <<rqs, masks, ops, watch>>

\* __schedule takes the task off the queue: a voluntary switch.
Block(p) ==
    /\ Running(p) /\ task[p].state = "UNINTERRUPTIBLE"
    /\ LET s == Vacate(DequeueTask(Now, p), {task[p].cpu})
       IN Set([s EXCEPT !.task[p].nvcsw = @ + 1])
    /\ UNCHANGED <<masks, ops, watch>>

\* try_to_wake_up.  A task still queued only changes its state (ttwu_remote).
\* Otherwise the CPU is the one asked for, unless it is not allowed or not online;
\* the task goes on its queue or, on a remote CPU, on its wake list.  Interrupts are
\* off from the choice to the queueing, so that no CPU goes down in between.
Wake(p) ==
    /\ task[p].state = "UNINTERRUPTIBLE" /\ Resting(p)
    /\ LET ask == task[p].wake_cpu
           fits == ask \in task[p].allowed \cap online
           from == IF fits THEN Now ELSE Widen(Now, p)
           Placed(c, state) == LET s == IF task[p].cpu = c THEN from ELSE SetTaskCpu(from, p, c)
                               IN [s EXCEPT !.task[p].state = state]
       IN \/ Queued(p) /\ Set([Now EXCEPT !.task[p].state = "RUNNING"])
          \/ /\ ~Queued(p)
             /\ \E c \in IF fits THEN {ask} ELSE FallbackCpus(p) :
                  \/ Set(EnqueueTask(Placed(c, "RUNNING"), p))
                  \/ Set([Placed(c, "WAKING") EXCEPT !.rqs[c].wl = @ \cup {p}])
    /\ UNCHANGED <<masks, ops, watch>>

\* The interrupt that drains a wake list.
SchedulerIpi(c) ==
    /\ rqs[c].wl # {}
    /\ Set(TtwuPending(Now, c))
    /\ UNCHANGED <<masks, ops, watch>>

\* set_cpus_allowed_ptr for a task that is not running and not being woken (the
\* other case needs the stopper, see module Scheduler): a queued task is moved when
\* its CPU is not in the new mask.
SetCpusAllowed(p) ==
    /\ calls < MaxCall /\ calls' = calls + 1
    /\ \E m \in SUBSET CPU \ {{}, task[p].allowed} :
         /\ m \cap active # {}
         /\ task[p].cpu \in m \/ (~Running(p) /\ task[p].state # "WAKING")
         /\ LET s == [Now EXCEPT !.task[p].allowed = m]
            IN IF Queued(p) /\ task[p].cpu \notin m
               THEN \E c \in m \cap active : Set(MoveQueued(s, p, c))
               ELSE Set(s)
    /\ UNCHANGED <<masks, call, watch>>

\* sched_setnuma: the task is off the queue while its node changes.
SetNuma(p) ==
    /\ calls < MaxCall /\ calls' = calls + 1
    /\ \E n \in CPU \ {task[p].pref} :
         LET s == IF Queued(p) THEN DequeueTask(Now, p) ELSE Now
             t == [s EXCEPT !.task[p].pref = n]
         IN Set(IF Queued(p) THEN EnqueueTask(t, p) ELSE t)
    /\ UNCHANGED <<masks, call, watch>>

-----------------------------------------------------------------------------
(* Calls: what a running task reads without a lock, and what is done later. *)

Begin(p, r) ==
    /\ Running(p) /\ task[p].state = "RUNNING" /\ Resting(p) /\ calls < MaxCall
    /\ call' = [call EXCEPT ![p] = r] /\ calls' = calls + 1
Continue(p, r) == call' = [call EXCEPT ![p] = r] /\ UNCHANGED calls
Return(p) == Continue(p, None)

\* migrate_swap: both CPUs are read before anything is tested.
MigrateSwap(p) ==
    /\ \E q \in Task \ {p} :
         Begin(p, [op |-> "swap", at |-> "read", with |-> q,
                   src |-> task[p].cpu, dst |-> task[q].cpu])
    /\ UNCHANGED <<sched, masks, watch>>

\* The lockless tests, and stop_two_cpus, which refuses unless both CPUs are active.
SwapAllowed(p, q, src, dst) == dst \in task[p].allowed /\ src \in task[q].allowed

SwapTest(p) ==
    /\ ~Resting(p) /\ call[p].op = "swap" /\ call[p].at = "read" /\ Running(p)
    /\ LET a == call[p]
       IN IF a.src # a.dst /\ {a.src, a.dst} \subseteq active
             /\ SwapAllowed(p, a.with, a.src, a.dst)
          THEN Continue(p, [a EXCEPT !.at = "stop"]) ELSE Return(p)
    /\ UNCHANGED <<sched, masks, watch>>

\* __migrate_swap_task: a task that sleeps by now only gets another wake_cpu.
MigrateSwapTask(s, p, c) ==
    IF p \in s.rqs[s.task[p].cpu].queue THEN MoveQueued(s, p, c)
    ELSE [s EXCEPT !.task[p].wake_cpu = c]

\* Mutation: the stopper trusts the masks that were tested without a lock.
SameCpus(p, a) == task[p].cpu = a.src /\ task[a.with].cpu = a.dst

\* migrate_swap_stop tests all of it again, with both CPUs stopped.
StillSwappable(p, a) ==
    /\ task[p].cpu = a.src /\ task[a.with].cpu = a.dst
    /\ SwapAllowed(p, a.with, a.src, a.dst)

MigrateSwapStop(p) ==
    /\ Stopping(p) /\ call[p].op = "swap"
    /\ LET a == call[p]
           s == Vacate(Now, {a.src, a.dst})
       IN Set(IF StillSwappable(p, a)
              THEN MigrateSwapTask(MigrateSwapTask(s, p, a.dst), a.with, a.src) ELSE s)
    /\ Return(p)
    /\ UNCHANGED <<masks, watch>>

\* migrate_task_to reads the CPU of the task before it tests the target.
MigrateTaskTo(p) ==
    /\ \E c \in task[p].allowed \ {task[p].cpu} :
         Begin(p, [op |-> "move", at |-> "read", src |-> task[p].cpu, dst |-> c,
                   first |-> FALSE])
    /\ UNCHANGED <<sched, masks, watch>>

\* sched_exec finds an active CPU under pi_lock; the CPU whose stopper is asked is
\* read after the unlock.
SchedExec(p) ==
    /\ \E c \in active \ {task[p].cpu} :
         Begin(p, [op |-> "move", at |-> "read", src |-> None, dst |-> c, first |-> FALSE])
    /\ UNCHANGED <<sched, masks, watch>>

\* stop_one_cpu: a work queued while the CPU is active comes before the work that
\* takes the CPU down.
StopOneCpu(p) ==
    /\ ~Resting(p) /\ call[p].op = "move" /\ call[p].at = "read" /\ Running(p)
    /\ LET src == IF call[p].src = None THEN task[p].cpu ELSE call[p].src
       IN Continue(p, [call[p] EXCEPT !.at = "stop", !.src = src, !.first = src \in active])
    /\ UNCHANGED <<sched, masks, watch>>

\* migration_cpu_stop; a stopper that was shut down signals the work without it.
MigrationCpuStop(p) ==
    /\ Stopping(p) /\ call[p].op = "move"
    /\ LET a == call[p]
       IN Set(IF a.src \in online
              THEN MigrateTask(Vacate(TtwuPending(Now, a.src), {a.src}), p, a.src, a.dst)
              ELSE Now)
    /\ Return(p)
    /\ UNCHANGED <<masks, watch>>

\* yield_to reads the target's queue; alone on both queues there is no point.
YieldTo(p) ==
    /\ \E q \in Task \ {p} :
         Begin(p, [op |-> "yield", at |-> "read", to |-> q, p_rq |-> task[q].cpu])
    /\ UNCHANGED <<sched, masks, watch>>

Alone(c) == Cardinality(rqs[c].queue) = 1

YieldLocked(p) ==
    /\ ~Resting(p) /\ call[p].op = "yield" /\ Running(p)
    /\ LET a == call[p]
           rq == task[p].cpu
       IN \/ /\ Alone(rq) /\ Alone(a.p_rq) /\ Return(p)
             /\ UNCHANGED sched
          \/ /\ ~(Alone(rq) /\ Alone(a.p_rq)) /\ task[a.to].cpu # a.p_rq
             /\ Continue(p, [a EXCEPT !.p_rq = task[a.to].cpu])
             /\ UNCHANGED sched
          \/ /\ ~(Alone(rq) /\ Alone(a.p_rq)) /\ task[a.to].cpu = a.p_rq /\ Return(p)
             /\ IF Running(a.to) \/ task[a.to].state # "RUNNING" THEN UNCHANGED sched
                ELSE Set(Vacate(Now, {rq, a.p_rq}))
    /\ UNCHANGED <<masks, watch>>

-----------------------------------------------------------------------------
(* CPUs go down and come back.                                              *)

CpuDownPrepare(c) ==
    /\ going = None /\ downs < MaxDown /\ c \in active /\ active # {c}
    /\ active' = active \ {c} /\ going' = c /\ downs' = downs + 1
    /\ UNCHANGED <<sched, online, ops, watch>>

\* CPU_DOWN_FAILED: sched_cpu_active.
CpuDownFailed ==
    /\ going # None
    /\ active' = active \cup {going} /\ going' = None
    /\ UNCHANGED <<sched, online, downs, ops, watch>>

\* The stopper works queued on c before the one that takes it down.
WorksBefore(c) ==
    {p \in Task : /\ Stopping(p)
                  /\ \/ call[p].op = "swap" /\ c \in {call[p].src, call[p].dst}
                     \/ call[p].op = "move" /\ c = call[p].src /\ call[p].first}

\* migrate_tasks: every task that is left gets a CPU from select_fallback_rq.
MigrateTasks(s, c, dest) ==
    LET Q == {p \in s.rqs[c].queue : MayMigrate(Widen(s, p), p, c, dest[p])}
        To(d) == {p \in Q : dest[p] = d}
    IN [task |-> [p \in Task |-> IF p \in Q THEN SetTaskCpu(Widen(s, p), p, dest[p]).task[p]
                                ELSE s.task[p]],
        rqs |-> [d \in CPU |->
                   [s.rqs[d] EXCEPT
                      !.queue = (IF d = c THEN @ \ Q ELSE @) \cup To(d),
                      !.numa = (IF d = c THEN @ - NumaTasks(s, Q, c) ELSE @)
                               + NumaTasks(s, To(d), d)]]]

\* Mutation: migration_call does not drain the wake list.
CpuDyingUndrained ==
    /\ going # None /\ WorksBefore(going) = {}
    /\ online' = online \ {going}
    /\ LET s == Vacate(Now, {going})
       IN \E dest \in [s.rqs[going].queue -> active] :
            /\ \A p \in s.rqs[going].queue : dest[p] \in FallbackCpus(p)
            /\ Set(MigrateTasks(s, going, dest))
    /\ going' = None
    /\ UNCHANGED <<active, downs, ops, watch>>

\* CPU_DYING under stop_machine: the wake list is drained, then the queue.
CpuDying ==
    /\ going # None /\ WorksBefore(going) = {}
    /\ online' = online \ {going}
    /\ LET s == Vacate(TtwuPending(Now, going), {going})
       IN \E dest \in [s.rqs[going].queue -> active] :
            /\ \A p \in s.rqs[going].queue : dest[p] \in FallbackCpus(p)
            /\ Set(MigrateTasks(s, going, dest))
    /\ going' = None
    /\ UNCHANGED <<active, downs, ops, watch>>

CpuUp(c) ==
    /\ c \notin online /\ going = None
    /\ online' = online \cup {c} /\ active' = active \cup {c}
    /\ UNCHANGED <<sched, going, downs, ops, watch>>

-----------------------------------------------------------------------------
(* wait_task_inactive(Watched, TASK_UNINTERRUPTIBLE), called by a process     *)
(* outside the model, and again when it succeeded.  A result is the switch    *)
(* count with the most significant bit set (here plus one), or 0 for failure. *)

\* The run queue is read without a lock.
WaitRead ==
    /\ wait.rq = None /\ wait.second = NotYet /\ wait.first # 0
    /\ wait' = [wait EXCEPT !.rq = task[Watched].cpu]
    /\ UNCHANGED <<sched, masks, ops, ran>>

Result(r) ==
    IF wait.first = NotYet
    THEN wait' = [wait EXCEPT !.rq = None, !.first = r] /\ ran' = FALSE
    ELSE wait' = [wait EXCEPT !.rq = None, !.second = r] /\ UNCHANGED ran

\* The busy wait gives up when the state is not the expected one any more.
WaitSpin ==
    /\ wait.rq # None /\ rqs[wait.rq].curr = Watched
    /\ task[Watched].state # "UNINTERRUPTIBLE"
    /\ Result(0)
    /\ UNCHANGED <<sched, masks, ops>>

\* Mutation: a preempted task counts as inactive.
OnlyRunning == Running(Watched)

\* The closer look, with the lock.  A task that runs or is queued is tried again.
StillOnRq == Running(Watched) \/ Queued(Watched)

WaitLocked ==
    /\ wait.rq # None /\ rqs[wait.rq].curr # Watched
    /\ \/ task[Watched].state # "UNINTERRUPTIBLE" /\ Result(0)
       \/ /\ task[Watched].state = "UNINTERRUPTIBLE" /\ StillOnRq
          /\ wait' = [wait EXCEPT !.rq = None] /\ UNCHANGED ran
       \/ /\ task[Watched].state = "UNINTERRUPTIBLE" /\ ~StillOnRq
          /\ Result(task[Watched].nvcsw + 1)
    /\ UNCHANGED <<sched, masks, ops>>

-----------------------------------------------------------------------------
Init ==
    /\ \E home \in [Task -> CPU] :
         /\ task = [p \in Task |-> [cpu |-> home[p], wake_cpu |-> home[p], allowed |-> CPU,
                                    state |-> "RUNNING", pref |-> home[p], nvcsw |-> 0]]
         /\ rqs = [c \in CPU |-> LET Q == {p \in Task : home[p] = c}
                                 IN [queue |-> Q, curr |-> None, numa |-> Cardinality(Q),
                                     wl |-> {}]]
    /\ online = CPU /\ active = CPU /\ going = None /\ downs = 0
    /\ call = [p \in Task |-> None] /\ calls = 0
    /\ wait = [rq |-> None, first |-> NotYet, second |-> NotYet] /\ ran = FALSE

Next ==
    \/ \E c \in CPU : \/ PickNext(c) \/ SchedulerIpi(c) \/ CpuDownPrepare(c) \/ CpuUp(c)
    \/ \E p \in Task : Prepare(p) \/ Block(p) \/ Wake(p)
    \/ \E p \in Setters : SetCpusAllowed(p) \/ SetNuma(p)
    \/ \E p \in Callers : \/ MigrateSwap(p) \/ SwapTest(p) \/ MigrateSwapStop(p)
                          \/ MigrateTaskTo(p) \/ SchedExec(p) \/ StopOneCpu(p)
                          \/ MigrationCpuStop(p) \/ YieldTo(p) \/ YieldLocked(p)
    \/ CpuDownFailed \/ CpuDying
    \/ WaitRead \/ WaitSpin \/ WaitLocked

Spec == Init /\ [][Next]_vars

-----------------------------------------------------------------------------
(* Properties                                                               *)

\* No task is stranded on a CPU that went down or lost on the way between two: a
\* runnable task is on the queue of its own CPU and no other, a task that is being
\* woken is on the wake list of its own CPU, a CPU runs only a task of its queue, and
\* these CPUs are online (migration_call, migrate_tasks, migrate_swap_stop).
NoTaskStranded ==
    /\ \A p \in Task :
         LET c == task[p].cpu
         IN /\ task[p].state = "RUNNING" => Queued(p)
            /\ task[p].state = "WAKING" => p \in rqs[c].wl /\ ~Queued(p)
            /\ Queued(p) \/ p \in rqs[c].wl => c \in online
            /\ \A d \in CPU \ {c} : p \notin rqs[d].queue \cup rqs[d].wl
    /\ \A c \in CPU : rqs[c].curr \in rqs[c].queue \cup {None}

\* A queued task is on a CPU it may run on, although the arguments of a move or a
\* swap were read long before the stopper ran ("all of them will be re-checked with
\* proper locks held further down the line", core.c:1178).
AffinityKept == \A p \in Task : Queued(p) => task[p].cpu \in task[p].allowed

\* The promise above wait_task_inactive: when a second call returns the same positive
\* number, the task has remained unscheduled the whole time.
TwoCallsAgree == (wait.first = wait.second /\ wait.first > 0) => ~ran

\* A run queue counts exactly the tasks on it that prefer its node, whichever way
\* they came and went ("accurately track the number of NUMA tasks", core.c:4855).
NumaCountExact ==
    \A c \in CPU : rqs[c].numa = Cardinality({p \in rqs[c].queue : task[p].pref = c})

\* Both are what the functions that move tasks owe to the queues.
QueuesSound == NoTaskStranded /\ NumaCountExact
=============================================================================
