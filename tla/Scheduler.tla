------------------------------ MODULE Scheduler ------------------------------
(***************************************************************************)
(* The process scheduler of assg4/core.c: blocking, waking, switching,     *)
(* preempting, forking, exiting and migrating tasks on several CPUs.       *)
(*                                                                         *)
(* A CPU runs its current task at level pc and, with interrupts off, at    *)
(* most one operation op (a wakeup, the reschedule interrupt, a change of  *)
(* affinity, a migration).  An action is one stretch of code between two   *)
(* points where another CPU can observe or change something it uses:       *)
(* taking a lock, or an access made without one.                           *)
(*                                                                         *)
(* Locks are derived from control: rq->lock is held over several actions   *)
(* only by the CPU that is inside __schedule, p->pi_lock only by the       *)
(* operations in HoldsPi.  A section that takes and drops rq->lock within  *)
(* one action has the guard RqFree.                                        *)
(*                                                                         *)
(* Not modelled: CPU hotplug, scheduling-class internals (which queued     *)
(* task is picked and whether a peer preempts is left open), statistics.   *)
(***************************************************************************)
EXTENDS Integers, FiniteSets, Sequences, Functions

CONSTANTS Task,      \* tasks, idle and stopper threads excluded
          CPU,
          LLC,       \* LLC[c]: sd_llc_id, the last-level cache c belongs to
          Home,      \* Home[p]: the CPU p is on initially
          Boot,      \* tasks that exist initially
          Worker,    \* PF_WQ_WORKER tasks, bound to their Home
          Mortal,    \* tasks that may exit
          Sleeps,    \* Sleeps[p]: the states p sleeps in
          Masks,     \* Masks[p]: the affinity masks that callers give p
          Width,     \* nr_uninterruptible is unsigned: it wraps at Width
          Idle, Stop, NoTask

ASSUME ConstantsAssumption ==
    /\ IsFiniteSet(Task) /\ IsFiniteSet(CPU)
    /\ Home \in [Task -> CPU] /\ DOMAIN LLC = CPU
    /\ Boot \subseteq Task /\ Worker \subseteq Boot /\ Mortal \subseteq Task
    /\ Sleeps \in [Task -> SUBSET {"INTERRUPTIBLE", "UNINTERRUPTIBLE"}]
    /\ Masks \in [Task -> SUBSET SUBSET CPU] /\ Width \in Nat \ {0}
    /\ Idle \notin Task /\ Stop \notin Task /\ NoTask \notin Task
    /\ Idle # Stop /\ Idle # NoTask /\ Stop # NoTask

VARIABLES
    state, on_rq, on_cpu, cpu, allowed,   \* task_struct fields
    contrib,                \* p->sched_contributes_to_load
    cond,                   \* the condition p waits for before it sleeps
    life,                   \* not created, being forked, in use
    active,                 \* PREEMPT_ACTIVE in p's preempt count
    puts,                   \* how often the scheduler dropped p's reference
    curr, queue, nr_uninterruptible,      \* struct rq
    need_resched,           \* TIF_NEED_RESCHED of the CPU's current task
    idle,                   \* where the idle loop of the CPU is
    stopq,                  \* the stopper's works: calls of migration_cpu_stop
    wake_list, pend,        \* rq->wake_list, and the part already taken off
    ipi,                    \* a reschedule interrupt is on its way
    pc, prev,               \* __schedule: place, and its local prev
    op, arg, dest           \* the operation with interrupts off

\* The argument of migration_cpu_stop and the task that waits for it.
Request == [task : Task, dest_cpu : CPU, caller : Task]

taskVars == <<state, on_rq, on_cpu, cpu, allowed, contrib, cond, life, active,
              puts>>
rqVars   == <<curr, queue, nr_uninterruptible, need_resched, idle, stopq>>
listVars == <<wake_list, pend, ipi>>
pcVars   == <<pc, prev>>
opVars   == <<op, arg, dest>>
vars     == <<taskVars, rqVars, listVars, pcVars, opVars>>

Asleep == {"INTERRUPTIBLE", "UNINTERRUPTIBLE"}       \* TASK_NORMAL
HoldsPi == {"w_rq", "w_spin", "w_queue", "w_ipi", "m_rq", "m_enq", "a_rq",
            "f_rq", "l_rq"}
Ops == HoldsPi \cup {"none", "w_pi", "p_act", "m_pi", "a_pi", "f_pi",
                     "l_try", "l_pi"}

-----------------------------------------------------------------------------
(* Locks and helpers                                                       *)

\* No CPU is in a section of rq[q].lock that spans several actions; the
\* detour of try_to_wake_up_local drops the lock.
RqFree(q) == pc[q] \in {"switch", "finish"} => op[q] \in {"l_pi", "l_rq"}

PiFree(p) == \A c \in CPU : ~(arg[c] = p /\ op[c] \in HoldsPi)

\* Interrupts are enabled on c and no operation is under way.
IrqsOn(c) == /\ pc[c] \in {"run", "sched"}
             /\ op[c] = "none"
             /\ idle[c] # "clr"

InTask(c) == pc[c] = "run" /\ op[c] = "none" /\ curr[c] \in Task

\* The caller p waits until a stopper has served its request.
InStopOneCpu(p) ==
    \E c \in CPU : \E i \in 1 .. Len(stopq[c]) : stopq[c][i].caller = p

\* An interrupt ends the halt of the idle loop, which then polls again.
EndHalt(c) == idle' = [idle EXCEPT ![c] = IF @ = "hlt" THEN "poll" ELSE @]

Begin(c, o, p, d) == /\ op' = [op EXCEPT ![c] = o]
                     /\ arg' = [arg EXCEPT ![c] = p]
                     /\ dest' = [dest EXCEPT ![c] = d]

At(c, o) == /\ op' = [op EXCEPT ![c] = o]
            /\ UNCHANGED <<arg, dest>>

End(c) == Begin(c, "none", NoTask, c)

Polling(q) == idle[q] \in {"poll", "loop"}    \* TIF_POLLING_NRFLAG of the idle task

\* Mutation: the target is never interrupted.
ReschedCurrNoIpi(c, q) ==
    /\ need_resched' = [need_resched EXCEPT ![q] = TRUE]
    /\ UNCHANGED ipi

\* resched_curr(cpu_rq(q)) executed on c.
ReschedCurr(c, q) ==
    /\ need_resched' = [need_resched EXCEPT ![q] = TRUE]
    /\ ipi' = [ipi EXCEPT ![q] = \/ @
                                 \/ ~need_resched[q] /\ q # c /\ ~Polling(q)]

\* check_preempt_curr: a queued task always preempts idle and never the
\* stopper; among ordinary tasks the class decides.
CheckPreemptCurr(c, q) ==
    \/ curr[q] # Stop /\ ReschedCurr(c, q)
    \/ curr[q] # Idle /\ UNCHANGED <<need_resched, ipi>>

\* select_task_rq with every CPU online: whatever the class proposes, the
\* fallback keeps the choice inside cpus_allowed.
SelectTaskRq(p) == allowed[p]

-----------------------------------------------------------------------------
Init ==
    /\ state = [p \in Task |-> "RUNNING"]
    /\ on_rq = [p \in Task |-> IF p \in Boot THEN "queued" ELSE "no"]
    /\ on_cpu = [p \in Task |-> FALSE]
    /\ cpu = Home
    /\ allowed = [p \in Task |-> IF p \in Worker THEN {Home[p]} ELSE CPU]
    /\ contrib = [p \in Task |-> FALSE]
    /\ cond = [p \in Task |-> FALSE]
    /\ life = [p \in Task |-> IF p \in Boot THEN "live" ELSE "none"]
    /\ active = [p \in Task |-> FALSE] /\ puts = [p \in Task |-> 0]
    /\ curr = [c \in CPU |-> Idle]
    /\ queue = [c \in CPU |-> {p \in Boot : Home[p] = c}]
    /\ nr_uninterruptible = [c \in CPU |-> 0]
    /\ need_resched = [c \in CPU |-> \E p \in Boot : Home[p] = c]
    /\ idle = [c \in CPU |-> "out"]
    /\ stopq = [c \in CPU |-> <<>>]
    /\ wake_list = [c \in CPU |-> {}] /\ pend = [c \in CPU |-> {}]
    /\ ipi = [c \in CPU |-> FALSE]
    /\ pc = [c \in CPU |-> "run"] /\ prev = [c \in CPU |-> Idle]
    /\ op = [c \in CPU |-> "none"] /\ arg = [c \in CPU |-> NoTask]
    /\ dest = [c \in CPU |-> c]

-----------------------------------------------------------------------------
(* The running task (its code is outside the scheduler).                   *)

\* set_current_state(s), the first half of waiting for cond.
SetCurrentState(c, s) ==
    /\ InTask(c) /\ state[curr[c]] = "RUNNING" /\ s \in Sleeps[curr[c]]
    /\ state' = [state EXCEPT ![curr[c]] = s]
    /\ UNCHANGED <<on_rq, on_cpu, cpu, allowed, contrib, cond, life, active, puts>>
    /\ UNCHANGED <<rqVars, listVars, pcVars, opVars>>

\* The second half: the condition holds, the task does not sleep.
CondHolds(c) ==
    /\ InTask(c) /\ state[curr[c]] # "RUNNING" /\ cond[curr[c]]
    /\ state' = [state EXCEPT ![curr[c]] = "RUNNING"]
    /\ cond' = [cond EXCEPT ![curr[c]] = FALSE]
    /\ UNCHANGED <<on_rq, on_cpu, cpu, allowed, contrib, life, active, puts>>
    /\ UNCHANGED <<rqVars, listVars, pcVars, opVars>>

\* The second half: the condition does not hold, the task calls schedule().
schedule(c) ==
    /\ InTask(c) /\ state[curr[c]] # "RUNNING" /\ ~cond[curr[c]]
    /\ pc' = [pc EXCEPT ![c] = "sched"]
    /\ UNCHANGED <<prev, taskVars, rqVars, listVars, opVars>>

\* do_exit waits for a waker to drop pi_lock, sets TASK_DEAD and calls
\* schedule() for the last time.
DoExit(c) ==
    /\ InTask(c) /\ state[curr[c]] = "RUNNING"
    /\ curr[c] \in Mortal /\ PiFree(curr[c]) /\ ~InStopOneCpu(curr[c])
    /\ state' = [state EXCEPT ![curr[c]] = "DEAD"]
    /\ pc' = [pc EXCEPT ![c] = "sched"]
    /\ UNCHANGED <<on_rq, on_cpu, cpu, allowed, contrib, cond, life, active, puts>>
    /\ UNCHANGED <<prev, rqVars, listVars, opVars>>

\* scheduler_tick asks for a switch (the class decides when).
SchedulerTick(c) ==
    /\ IrqsOn(c) /\ pc[c] = "run" /\ curr[c] \in Task
    /\ Cardinality(queue[c]) > 1 /\ ~need_resched[c]
    /\ need_resched' = [need_resched EXCEPT ![c] = TRUE]
    /\ UNCHANGED <<curr, queue, nr_uninterruptible, idle, stopq>>
    /\ UNCHANGED <<taskVars, listVars, pcVars, opVars>>

\* preempt_schedule, preempt_schedule_irq, __cond_resched: __schedule is
\* entered with PREEMPT_ACTIVE, at any point of the task's code.
PreemptSchedule(c) ==
    /\ InTask(c) /\ need_resched[c]
    /\ active' = [active EXCEPT ![curr[c]] = TRUE]
    /\ pc' = [pc EXCEPT ![c] = "sched"]
    /\ UNCHANGED <<state, on_rq, on_cpu, cpu, allowed, contrib, cond, life, puts>>
    /\ UNCHANGED <<prev, rqVars, listVars, opVars>>

\* The stopper has nothing left to do and goes to sleep.
StopSleep(c) ==
    /\ pc[c] = "run" /\ op[c] = "none" /\ curr[c] = Stop /\ stopq[c] = <<>>
    /\ pc' = [pc EXCEPT ![c] = "sched"]
    /\ UNCHANGED <<prev, taskVars, rqVars, listVars, opVars>>

-----------------------------------------------------------------------------
(* __schedule                                                              *)

\* Mutation: PREEMPT_ACTIVE is not looked at.
BlocksPreempted(p) == p \in Task /\ state[p] # "RUNNING"

\* __schedule is called by a task that wants to leave its queue.
Blocks(p) == p \in Task /\ state[p] # "RUNNING" /\ ~active[p]

\* __schedule takes rq->lock.
ScheduleEnter(c) ==
    /\ pc[c] = "sched" /\ op[c] = "none" /\ RqFree(c)
    /\ pc' = [pc EXCEPT ![c] = "switch"]
    /\ UNCHANGED <<on_cpu, cpu, allowed, contrib, cond, life, active, puts>>
    /\ UNCHANGED <<curr, need_resched, idle, stopq, listVars, prev>>

\* The entry is a preemption, or the task is runnable.
ScheduleKeep(c) ==
    /\ ScheduleEnter(c) /\ ~Blocks(curr[c])
    /\ UNCHANGED <<state, on_rq, queue, nr_uninterruptible, opVars>>

\* signal_pending_state keeps an interruptible task runnable.
ScheduleSignal(c) ==
    /\ ScheduleEnter(c) /\ Blocks(curr[c])
    /\ state[curr[c]] = "INTERRUPTIBLE"
    /\ state' = [state EXCEPT ![curr[c]] = "RUNNING"]
    /\ UNCHANGED <<on_rq, queue, nr_uninterruptible, opVars>>

\* The task leaves its queue; a worker may wake another one of its CPU
\* (wq_worker_sleeping), by try_to_wake_up_local.
ScheduleBlock(c) ==
    LET p == curr[c] IN
    /\ ScheduleEnter(c) /\ Blocks(p)
    /\ nr_uninterruptible' = [nr_uninterruptible EXCEPT
         ![c] = IF state[p] = "UNINTERRUPTIBLE" THEN (@ + 1) % Width ELSE @]
    /\ queue' = [queue EXCEPT ![c] = @ \ {p}]
    /\ on_rq' = [on_rq EXCEPT ![p] = "no"]
    /\ UNCHANGED state
    /\ \/ UNCHANGED opVars
       \/ \E w \in Worker \ {p} : /\ p \in Worker /\ cpu[w] = c
                                  /\ Begin(c, "l_try", w, c)

ScheduleLock(c) == ScheduleKeep(c) \/ ScheduleSignal(c) \/ ScheduleBlock(c)

\* Mutation: a task that is still queued is activated again.
AlwaysActivate(p) == TRUE

\* !task_on_rq_queued(p)
MustActivate(p) == on_rq[p] # "queued"

\* try_to_wake_up_local once it has both locks.
LocalWake(c, p) ==
    /\ IF state[p] \in Asleep
       THEN /\ IF MustActivate(p)
               THEN /\ on_rq' = [on_rq EXCEPT ![p] = "queued"]
                    /\ queue' = [queue EXCEPT ![c] = @ \cup {p}]
                    /\ nr_uninterruptible' = [nr_uninterruptible EXCEPT
                         ![c] = IF state[p] = "UNINTERRUPTIBLE"
                                THEN (@ - 1) % Width ELSE @]
               ELSE UNCHANGED <<on_rq, queue, nr_uninterruptible>>
            /\ CheckPreemptCurr(c, c)
            /\ state' = [state EXCEPT ![p] = "RUNNING"]
       ELSE UNCHANGED <<state, on_rq, queue, nr_uninterruptible,
                        need_resched, ipi>>
    /\ End(c)
    /\ UNCHANGED <<on_cpu, cpu, allowed, contrib, cond, life, active, puts>>
    /\ UNCHANGED <<curr, idle, stopq, wake_list, pend, pcVars>>

\* raw_spin_trylock(&p->pi_lock) succeeds.
LocalTry(c) == op[c] = "l_try" /\ PiFree(arg[c]) /\ LocalWake(c, arg[c])

\* It fails: rq->lock is dropped first, so that the lock order is kept.
LocalDrop(c) ==
    /\ op[c] = "l_try" /\ ~PiFree(arg[c])
    /\ At(c, "l_pi")
    /\ UNCHANGED <<taskVars, rqVars, listVars, pcVars>>

LocalPi(c) ==
    /\ op[c] = "l_pi" /\ PiFree(arg[c])
    /\ At(c, "l_rq")
    /\ UNCHANGED <<taskVars, rqVars, listVars, pcVars>>

LocalRq(c) == op[c] = "l_rq" /\ LocalWake(c, arg[c])

\* Mutation: the stop class comes after the others.
PickStopLast(c) ==
    IF queue[c] # {} THEN queue[c]
    ELSE IF stopq[c] # <<>> THEN {Stop} ELSE {Idle}

\* pick_next_task: stop class, then the queued tasks, then idle.
PickNextTask(c) ==
    IF stopq[c] # <<>> THEN {Stop}
    ELSE IF queue[c] # {} THEN queue[c] ELSE {Idle}

\* The caller of __schedule takes PREEMPT_ACTIVE off its preempt count.
Resume(c) == active' = IF curr[c] \in Task
                       THEN [active EXCEPT ![curr[c]] = FALSE] ELSE active

\* context_switch up to switch_to: prepare_lock_switch sets next->on_cpu.
\* Without a switch the lock is dropped at once.
SwitchTo(c, next) ==
    /\ pc[c] = "switch" /\ op[c] = "none"
    /\ need_resched' = [need_resched EXCEPT ![c] = FALSE]
    /\ IF next = curr[c]
       THEN /\ pc' = [pc EXCEPT ![c] = "run"]
            /\ Resume(c)
            /\ UNCHANGED <<on_cpu, curr, prev>>
       ELSE /\ pc' = [pc EXCEPT ![c] = "finish"]
            /\ curr' = [curr EXCEPT ![c] = next]
            /\ prev' = [prev EXCEPT ![c] = curr[c]]
            /\ on_cpu' = IF next \in Task
                         THEN [on_cpu EXCEPT ![next] = TRUE] ELSE on_cpu
            /\ UNCHANGED active
    /\ UNCHANGED <<state, on_rq, cpu, allowed, contrib, cond, life, puts>>
    /\ UNCHANGED <<queue, nr_uninterruptible, idle, stopq, listVars, opVars>>

ContextSwitch(c) == \E next \in PickNextTask(c) : SwitchTo(c, next)

\* Mutation: the state of prev is not looked at.
IsTask(p) == p \in Task

\* prev_state == TASK_DEAD, read under rq->lock.
SwitchedFromDead(p) == p \in Task /\ state[p] = "DEAD"

\* finish_task_switch on the new stack: prev->state is read, prev->on_cpu
\* cleared and rq->lock dropped.
FinishTaskSwitch(c) ==
    LET p == prev[c] IN
    /\ pc[c] = "finish"
    /\ on_cpu' = IF p \in Task THEN [on_cpu EXCEPT ![p] = FALSE] ELSE on_cpu
    /\ Resume(c)
    /\ IF SwitchedFromDead(p)
       THEN /\ pc' = [pc EXCEPT ![c] = "put"]
            /\ UNCHANGED prev
       ELSE /\ pc' = [pc EXCEPT ![c] = "run"]
            /\ prev' = [prev EXCEPT ![c] = Idle]
    /\ UNCHANGED <<state, on_rq, cpu, allowed, contrib, cond, life, puts>>
    /\ UNCHANGED <<rqVars, listVars, opVars>>

\* finish_task_switch after the lock: drop the reference of a dead task.
PutTaskStruct(c) ==
    /\ pc[c] = "put"
    /\ puts' = [puts EXCEPT ![prev[c]] = @ + 1]
    /\ pc' = [pc EXCEPT ![c] = "run"]
    /\ prev' = [prev EXCEPT ![c] = Idle]
    /\ UNCHANGED <<state, on_rq, on_cpu, cpu, allowed, contrib, cond, life, active>>
    /\ UNCHANGED <<rqVars, listVars, opVars>>

-----------------------------------------------------------------------------
(* try_to_wake_up, from task or interrupt context                          *)

\* The waker makes the condition true and calls wake_up_process(p).
WakeUpProcess(c, p) ==
    /\ IrqsOn(c) /\ life[p] = "live" /\ puts[p] = 0
    /\ cond' = [cond EXCEPT ![p] = TRUE]
    /\ EndHalt(c)
    /\ Begin(c, "w_pi", p, c)
    /\ UNCHANGED <<state, on_rq, on_cpu, cpu, allowed, contrib, life, active, puts>>
    /\ UNCHANGED <<curr, queue, nr_uninterruptible, need_resched, stopq>>
    /\ UNCHANGED <<listVars, pcVars>>

\* Take pi_lock and look at p->state and p->on_rq.
TtwuLock(c) ==
    LET p == arg[c] IN
    /\ op[c] = "w_pi" /\ PiFree(p)
    /\ IF state[p] \in Asleep
       THEN At(c, IF on_rq[p] # "no" THEN "w_rq" ELSE "w_spin")
       ELSE End(c)
    /\ UNCHANGED <<taskVars, rqVars, listVars, pcVars>>

\* ttwu_remote: under rq->lock, a task still queued only becomes runnable.
TtwuRemote(c) ==
    LET p == arg[c] IN
    /\ op[c] = "w_rq" /\ RqFree(cpu[p]) /\ on_rq[p] # "migrating"
    /\ IF on_rq[p] = "queued"
       THEN /\ CheckPreemptCurr(c, cpu[p])
            /\ state' = [state EXCEPT ![p] = "RUNNING"]
            /\ End(c)
       ELSE /\ At(c, "w_spin")
            /\ UNCHANGED <<state, need_resched, ipi>>
    /\ UNCHANGED <<on_rq, on_cpu, cpu, allowed, contrib, cond, life, active, puts>>
    /\ UNCHANGED <<curr, queue, nr_uninterruptible, idle, stopq>>
    /\ UNCHANGED <<wake_list, pend, pcVars>>

\* Mutation: the wait is left out.
NoWait(p) == TRUE

\* while (p->on_cpu) cpu_relax();
SwitchedOut(p) == ~on_cpu[p]

\* Mutation: the state is read after it was set to TASK_WAKING.
ReadTooLate(p) == FALSE

\* task_contributes_to_load(p)
ContributesToLoad(p) == state[p] = "UNINTERRUPTIBLE"

\* Wait until the old CPU is done with p, then place it.
TtwuWaking(c) ==
    LET p == arg[c] IN
    /\ op[c] = "w_spin" /\ SwitchedOut(p)
    /\ contrib' = [contrib EXCEPT ![p] = ContributesToLoad(p)]
    /\ state' = [state EXCEPT ![p] = "WAKING"]
    /\ \E d \in SelectTaskRq(p) : cpu' = [cpu EXCEPT ![p] = d]
    /\ At(c, "w_queue")
    /\ UNCHANGED <<on_rq, on_cpu, allowed, cond, life, active, puts>>
    /\ UNCHANGED <<rqVars, listVars, pcVars>>

\* Mutation: the counter is neither unsigned nor wrapped.
SignedDecrement(n, k) == n - k

\* rq->nr_uninterruptible--, k times, on an unsigned long.
Decrement(n, k) == (n - k) % Width

\* ttwu_do_activate for every task of P on the queue of q, executed on c.
TtwuDoActivate(c, q, P) ==
    /\ nr_uninterruptible' = [nr_uninterruptible EXCEPT
                                ![q] = Decrement(@, Cardinality({p \in P : contrib[p]}))]
    /\ queue' = [queue EXCEPT ![q] = @ \cup P]
    /\ on_rq' = [p \in Task |-> IF p \in P THEN "queued" ELSE on_rq[p]]
    /\ state' = [p \in Task |-> IF p \in P THEN "RUNNING" ELSE state[p]]
    /\ CheckPreemptCurr(c, q)
    /\ UNCHANGED <<on_cpu, cpu, allowed, contrib, cond, life, active, puts>>
    /\ UNCHANGED <<curr, idle, stopq, pcVars>>

\* ttwu_queue towards a CPU that shares the cache: enqueue there directly.
TtwuQueueLocal(c) ==
    LET q == cpu[arg[c]] IN
    /\ op[c] = "w_queue" /\ LLC[c] = LLC[q] /\ RqFree(q)
    /\ TtwuDoActivate(c, q, {arg[c]})
    /\ End(c)
    /\ UNCHANGED <<wake_list, pend>>

\* ttwu_queue_remote: leave the task on the other CPU's wake_list.  Only the
\* CPU that found the list empty has to notify.
TtwuQueueRemote(c) ==
    LET q == cpu[arg[c]] IN
    /\ op[c] = "w_queue" /\ LLC[c] # LLC[q]
    /\ wake_list' = [wake_list EXCEPT ![q] = @ \cup {arg[c]}]
    /\ IF wake_list[q] = {} THEN Begin(c, "w_ipi", arg[c], q) ELSE End(c)
    /\ UNCHANGED <<pend, ipi, taskVars, rqVars, pcVars>>

\* Mutation: a polling idle loop is trusted to look at wake_list by itself.
TtwuNotifyNoFlag(c) ==
    LET q == dest[c] IN
    /\ op[c] = "w_ipi"
    /\ ipi' = [ipi EXCEPT ![q] = @ \/ ~Polling(q)]
    /\ End(c)
    /\ UNCHANGED <<taskVars, rqVars, wake_list, pend, pcVars>>

\* set_nr_if_polling(rq->idle) or smp_send_reschedule.
TtwuNotify(c) ==
    LET q == dest[c] IN
    /\ op[c] = "w_ipi"
    /\ need_resched' = [need_resched EXCEPT ![q] = @ \/ Polling(q)]
    /\ ipi' = [ipi EXCEPT ![q] = @ \/ ~Polling(q)]
    /\ End(c)
    /\ UNCHANGED <<curr, queue, nr_uninterruptible, idle, stopq>>
    /\ UNCHANGED <<taskVars, wake_list, pend, pcVars>>

-----------------------------------------------------------------------------
(* The reschedule interrupt, sched_ttwu_pending and the idle loop          *)

\* llist_del_all; the tasks taken are activated under rq->lock, then the
\* operation goes on at o.
TakeWakeList(c, o, p, d) ==
    /\ pend' = [pend EXCEPT ![c] = wake_list[c]]
    /\ wake_list' = [wake_list EXCEPT ![c] = {}]
    /\ Begin(c, IF wake_list[c] = {} THEN o ELSE "p_act", p, d)

\* scheduler_ipi.
SchedulerIpi(c) ==
    /\ IrqsOn(c) /\ ipi[c]
    /\ ipi' = [ipi EXCEPT ![c] = FALSE]
    /\ EndHalt(c)
    /\ TakeWakeList(c, "none", NoTask, c)
    /\ UNCHANGED <<curr, queue, nr_uninterruptible, need_resched, stopq>>
    /\ UNCHANGED <<taskVars, pcVars>>

\* The rest of sched_ttwu_pending.
SchedTtwuPending(c) ==
    /\ op[c] = "p_act" /\ RqFree(c)
    /\ TtwuDoActivate(c, c, pend[c])
    /\ pend' = [pend EXCEPT ![c] = {}]
    /\ At(c, IF arg[c] = NoTask THEN "none" ELSE "m_pi")
    /\ UNCHANGED wake_list

\* Steps of the idle loop: while need_resched is not set it stops polling,
\* looks once more and halts until an interrupt; "exit" is after the loop.
IdleStep(c, from, to) ==
    /\ pc[c] = "run" /\ op[c] = "none" /\ curr[c] = Idle /\ idle[c] = from
    /\ idle' = [idle EXCEPT ![c] = to]
    /\ UNCHANGED <<curr, queue, nr_uninterruptible, need_resched, stopq>>
    /\ UNCHANGED <<taskVars, pcVars>>

IdlePoll(c)  == IdleStep(c, "out", "poll") /\ UNCHANGED <<listVars, opVars>>
IdleLook(c)  == /\ IdleStep(c, "poll", IF need_resched[c] THEN "exit" ELSE "loop")
                /\ UNCHANGED <<listVars, opVars>>
IdleClear(c) == IdleStep(c, "loop", "clr") /\ UNCHANGED <<listVars, opVars>>
IdleTest(c)  == /\ IdleStep(c, "clr", IF need_resched[c] THEN "poll" ELSE "hlt")
                /\ UNCHANGED <<listVars, opVars>>

\* Polling is over: sched_ttwu_pending, then schedule_preempt_disabled.
IdleSchedule(c) ==
    /\ pc[c] = "run" /\ op[c] = "none" /\ idle[c] = "exit"
    /\ idle' = [idle EXCEPT ![c] = "out"]
    /\ pc' = [pc EXCEPT ![c] = "sched"]
    /\ TakeWakeList(c, "none", NoTask, c)
    /\ UNCHANGED <<curr, queue, nr_uninterruptible, need_resched, stopq>>
    /\ UNCHANGED <<taskVars, ipi, prev>>

-----------------------------------------------------------------------------
(* fork                                                                    *)

\* sched_fork by the current task: the child is marked running so that
\* nobody wakes it, and inherits CPU and affinity.
SchedFork(c, p) ==
    /\ InTask(c) /\ ~InStopOneCpu(curr[c]) /\ life[p] = "none"
    /\ state[curr[c]] = "RUNNING"
    /\ life' = [life EXCEPT ![p] = "forked"]
    /\ cpu' = [cpu EXCEPT ![p] = c]
    /\ allowed' = [allowed EXCEPT ![p] = allowed[curr[c]]]
    /\ Begin(c, "f_pi", p, c)
    /\ UNCHANGED <<state, on_rq, on_cpu, contrib, cond, active, puts>>
    /\ UNCHANGED <<rqVars, listVars, pcVars>>

\* wake_up_new_task: fork balancing under pi_lock ...
WakeUpNewPlace(c) ==
    /\ op[c] = "f_pi" /\ PiFree(arg[c])
    /\ \E d \in SelectTaskRq(arg[c]) : cpu' = [cpu EXCEPT ![arg[c]] = d]
    /\ At(c, "f_rq")
    /\ UNCHANGED <<state, on_rq, on_cpu, allowed, contrib, cond, life, active, puts>>
    /\ UNCHANGED <<rqVars, listVars, pcVars>>

\* ... and the activation under both locks.
WakeUpNewTask(c) ==
    LET p == arg[c] IN
    /\ op[c] = "f_rq" /\ RqFree(cpu[p])
    /\ queue' = [queue EXCEPT ![cpu[p]] = @ \cup {p}]
    /\ on_rq' = [on_rq EXCEPT ![p] = "queued"]
    /\ life' = [life EXCEPT ![p] = "live"]
    /\ CheckPreemptCurr(c, cpu[p])
    /\ End(c)
    /\ UNCHANGED <<state, on_cpu, cpu, allowed, contrib, cond, active, puts>>
    /\ UNCHANGED <<curr, nr_uninterruptible, idle, stopq>>
    /\ UNCHANGED <<wake_list, pend, pcVars>>

-----------------------------------------------------------------------------
(* Affinity and migration                                                  *)

\* sched_setaffinity by the current task; workers refuse.
SchedSetaffinity(c, p) ==
    /\ InTask(c) /\ ~InStopOneCpu(curr[c]) /\ life[p] = "live" /\ p \notin Worker /\ puts[p] = 0
    /\ Masks[p] # {}
    /\ Begin(c, "a_pi", p, c)
    /\ UNCHANGED <<taskVars, rqVars, listVars, pcVars>>

\* task_rq_lock: pi_lock first (also the first lock of __migrate_task).
LockPi(c, from, to) ==
    /\ op[c] = from /\ PiFree(arg[c])
    /\ At(c, to)
    /\ UNCHANGED <<taskVars, rqVars, listVars, pcVars>>

\* Mutation: p->cpu is set before the task is dequeued.
MoveDequeueLate(c, p, d) ==
    /\ queue' = [queue EXCEPT ![d] = @ \ {p}]
    /\ on_rq' = [on_rq EXCEPT ![p] = "migrating"]
    /\ cpu' = [cpu EXCEPT ![p] = d]
    /\ Begin(c, "m_enq", p, d)

\* The first half of move_queued_task; the second one is MoveEnqueue.
MoveDequeue(c, p, d) ==
    /\ queue' = [queue EXCEPT ![cpu[p]] = @ \ {p}]
    /\ on_rq' = [on_rq EXCEPT ![p] = "migrating"]
    /\ cpu' = [cpu EXCEPT ![p] = d]
    /\ Begin(c, "m_enq", p, d)

\* Mutation: a task that is being woken counts as blocked.
OnlyRunning(p) == on_cpu[p]

\* task_running(rq, p) || p->state == TASK_WAKING
NeedsStopper(p) == on_cpu[p] \/ state[p] = "WAKING"

\* set_cpus_allowed_ptr has both locks of the task it is called for.
AllowedLocked(c, mask) ==
    /\ op[c] = "a_rq" /\ mask \in Masks[arg[c]]
    /\ RqFree(cpu[arg[c]]) /\ on_rq[arg[c]] # "migrating"
    /\ UNCHANGED <<state, on_cpu, contrib, cond, life, active, puts>>
    /\ UNCHANGED <<curr, nr_uninterruptible, idle, wake_list, pend, pcVars>>

\* The mask is the one p has already, or holds no CPU (EINVAL).
AllowedSame(c, mask) ==
    /\ AllowedLocked(c, mask) /\ mask \in {allowed[arg[c]], {}}
    /\ End(c)
    /\ UNCHANGED <<allowed, queue, on_rq, cpu, stopq, need_resched, ipi>>

AllowedChanged(c, mask) ==
    /\ AllowedLocked(c, mask) /\ mask \notin {allowed[arg[c]], {}}
    /\ allowed' = [allowed EXCEPT ![arg[c]] = mask]

\* p may stay where it is, or is blocked: the next wakeup places it.
AllowedStay(c, mask) ==
    /\ AllowedChanged(c, mask)
    /\ \/ cpu[arg[c]] \in mask
       \/ ~NeedsStopper(arg[c]) /\ on_rq[arg[c]] # "queued"
    /\ End(c)
    /\ UNCHANGED <<queue, on_rq, cpu, stopq, need_resched, ipi>>

\* A task that is running or being woken is moved by the stopper of its CPU.
AllowedStop(c, mask) ==
    LET q == cpu[arg[c]] IN
    /\ AllowedChanged(c, mask) /\ q \notin mask /\ NeedsStopper(arg[c])
    /\ \E d \in mask : stopq' = [stopq EXCEPT ![q] =
           Append(@, [task |-> arg[c], dest_cpu |-> d, caller |-> curr[c]])]
    /\ IF curr[q] = Stop THEN UNCHANGED <<need_resched, ipi>>
       ELSE ReschedCurr(c, q)
    /\ End(c)
    /\ UNCHANGED <<queue, on_rq, cpu>>

\* A task that only waits on its queue is moved at once.
AllowedMove(c, mask) ==
    /\ AllowedChanged(c, mask) /\ cpu[arg[c]] \notin mask
    /\ ~NeedsStopper(arg[c]) /\ on_rq[arg[c]] = "queued"
    /\ \E d \in mask : MoveDequeue(c, arg[c], d)
    /\ UNCHANGED <<stopq, need_resched, ipi>>

SetCpusAllowedPtr(c, mask) ==
    \/ AllowedSame(c, mask) \/ AllowedStay(c, mask) \/ AllowedStop(c, mask)
    \/ AllowedMove(c, mask)

\* migration_cpu_stop in the stopper: pending wakeups first.
MigrationCpuStop(c) ==
    /\ pc[c] = "run" /\ op[c] = "none" /\ curr[c] = Stop /\ stopq[c] # <<>>
    /\ TakeWakeList(c, "m_pi", Head(stopq[c]).task, Head(stopq[c]).dest_cpu)
    /\ UNCHANGED <<taskVars, rqVars, ipi, pcVars>>

\* Mutation: a task that is off the queue is moved, too.
MayMigrateBlocked(c, p, d) == cpu[p] = c /\ d \in allowed[p]

\* The task is still here, may still go there, and is queued.
MayMigrate(c, p, d) == cpu[p] = c /\ d \in allowed[p] /\ on_rq[p] = "queued"

\* __migrate_task has both locks.
MigrateLocked(c) ==
    /\ op[c] = "m_rq" /\ RqFree(c)
    /\ UNCHANGED <<state, on_cpu, allowed, contrib, cond, life, active, puts>>
    /\ UNCHANGED <<curr, nr_uninterruptible, need_resched, idle>>
    /\ UNCHANGED <<listVars, pcVars>>

MigrateMove(c) ==
    /\ MigrateLocked(c) /\ MayMigrate(c, arg[c], dest[c])
    /\ MoveDequeue(c, arg[c], dest[c])
    /\ UNCHANGED stopq

\* The task has moved, or its affinity has changed again.
MigrateSkip(c) ==
    /\ MigrateLocked(c) /\ ~MayMigrate(c, arg[c], dest[c])
    /\ stopq' = [stopq EXCEPT ![c] = Tail(@)]
    /\ End(c)
    /\ UNCHANGED <<queue, on_rq, cpu>>

MigrateTask(c) == MigrateMove(c) \/ MigrateSkip(c)

\* The second half of move_queued_task, under the lock of the new queue; the
\* stopper's request is then complete.
MoveEnqueue(c) ==
    LET p == arg[c]  q == cpu[arg[c]] IN
    /\ op[c] = "m_enq" /\ RqFree(q)
    /\ on_rq' = [on_rq EXCEPT ![p] = "queued"]
    /\ queue' = [queue EXCEPT ![q] = @ \cup {p}]
    /\ CheckPreemptCurr(c, q)
    /\ stopq' = [stopq EXCEPT ![c] = IF curr[c] = Stop THEN Tail(@) ELSE @]
    /\ End(c)
    /\ UNCHANGED <<state, on_cpu, cpu, allowed, contrib, cond, life, active, puts>>
    /\ UNCHANGED <<curr, nr_uninterruptible, idle, wake_list, pend, pcVars>>

-----------------------------------------------------------------------------
SchedStep(c) == ScheduleLock(c) \/ ContextSwitch(c) \/ FinishTaskSwitch(c)
                \/ PutTaskStruct(c)

\* The operations, once begun.
OpStep(c) ==
    \/ LocalTry(c) \/ LocalDrop(c) \/ LocalPi(c) \/ LocalRq(c)
    \/ TtwuLock(c) \/ TtwuRemote(c) \/ TtwuWaking(c) \/ TtwuQueueLocal(c)
    \/ TtwuQueueRemote(c) \/ TtwuNotify(c)
    \/ SchedTtwuPending(c)
    \/ WakeUpNewPlace(c) \/ WakeUpNewTask(c)
    \/ LockPi(c, "a_pi", "a_rq") \/ LockPi(c, "m_pi", "m_rq")
    \/ MigrateTask(c) \/ MoveEnqueue(c)
    \/ \E mask \in SUBSET CPU : SetCpusAllowedPtr(c, mask)

IdleLoop(c) == IdlePoll(c) \/ IdleLook(c) \/ IdleClear(c) \/ IdleTest(c)
               \/ IdleSchedule(c)

Stopper(c) == StopSleep(c) \/ MigrationCpuStop(c)

\* What tasks, devices and users may do at any time, or never.
Environment(c) ==
    \/ \E s \in Asleep : SetCurrentState(c, s)
    \/ CondHolds(c) \/ schedule(c) \/ DoExit(c)
    \/ SchedulerTick(c)
    \/ \E p \in Task : \/ WakeUpProcess(c, p) \/ SchedFork(c, p)
                       \/ SchedSetaffinity(c, p)

Next == \E c \in CPU :
    \/ SchedStep(c) \/ OpStep(c) \/ SchedulerIpi(c) \/ PreemptSchedule(c)
    \/ IdleLoop(c) \/ Stopper(c) \/ Environment(c)

Spec == Init /\ [][Next]_vars

\* What a CPU does by itself when no operation is under way.
TaskLevel(c) ==
    SchedStep(c) \/ PreemptSchedule(c) \/ Stopper(c) \/ IdleLoop(c)

\* Spin locks are FIFO (ticket locks), so a CPU that keeps finding a lock
\* free gets it; a CPU asked to reschedule does so on its next interrupt
\* return; a pending interrupt is delivered once interrupts are on.
Fairness == \A c \in CPU : /\ SF_vars(TaskLevel(c)) /\ SF_vars(OpStep(c))
                            /\ SF_vars(SchedulerIpi(c))

FairSpec == Spec /\ Fairness

-----------------------------------------------------------------------------
(* Properties                                                              *)

TaskTypeOK ==
    /\ state \in [Task -> Asleep \cup {"RUNNING", "WAKING", "DEAD"}]
    /\ on_rq \in [Task -> {"no", "queued", "migrating"}]
    /\ on_cpu \in [Task -> BOOLEAN] /\ cpu \in [Task -> CPU]
    /\ allowed \in [Task -> SUBSET CPU]
    /\ contrib \in [Task -> BOOLEAN] /\ cond \in [Task -> BOOLEAN]
    /\ life \in [Task -> {"none", "forked", "live"}]
    /\ active \in [Task -> BOOLEAN] /\ puts \in [Task -> Nat]

RqTypeOK ==
    /\ curr \in [CPU -> Task \cup {Idle, Stop}]
    /\ queue \in [CPU -> SUBSET Task]
    /\ nr_uninterruptible \in [CPU -> 0 .. Width - 1]
    /\ need_resched \in [CPU -> BOOLEAN]
    /\ idle \in [CPU -> {"out", "poll", "loop", "clr", "hlt", "exit"}]
    /\ stopq \in [CPU -> Seq(Request)]

ListTypeOK ==
    /\ wake_list \in [CPU -> SUBSET Task] /\ pend \in [CPU -> SUBSET Task]
    /\ ipi \in [CPU -> BOOLEAN]

ControlTypeOK ==
    /\ pc \in [CPU -> {"run", "sched", "switch", "finish", "put"}]
    /\ prev \in [CPU -> Task \cup {Idle, Stop}]
    /\ op \in [CPU -> Ops]
    /\ arg \in [CPU -> Task \cup {NoTask}] /\ dest \in [CPU -> CPU]

\* Every variable has its type; in particular an operation on a task names a
\* task, and a reference that is being dropped is one of a task.
TypeOK == TaskTypeOK /\ RqTypeOK /\ ListTypeOK /\ ControlTypeOK

\* p's kernel stack is in use on c: p is current there, or c is switching
\* away from it and finish_task_switch has not cleared p->on_cpu yet.
OnStack(c, p) == curr[c] = p \/ (pc[c] = "finish" /\ prev[c] = p)

\* A task's stack is never in use on two CPUs, however wakeups, migrations
\* and context switches interleave.  This is what the wait for p->on_cpu in
\* try_to_wake_up and the order inside finish_task_switch are for.
StackExclusive ==
    \A p \in Task, c, d \in CPU : OnStack(c, p) /\ OnStack(d, p) => c = d

\* A queue holds exactly the tasks whose on_rq and cpu fields say so; hence a
\* task is on at most one queue and no runnable task is forgotten.
QueueConsistent ==
    \A p \in Task, c \in CPU :
        p \in queue[c] <=> (on_rq[p] = "queued" /\ cpu[p] = c)

\* A task that sleeps off the queue although its condition has become true
\* still has a waker under way that will wake it: no order of the waiter's
\* "set state, test condition, schedule" and the waker's "set condition, test
\* state" loses the wakeup, preemption in between included.
NoLostWakeup ==
    \A p \in Task :
        on_rq[p] = "no" /\ state[p] \in Asleep /\ cond[p] =>
            \E c \in CPU : arg[c] = p /\ op[c] \in {"w_pi", "w_rq", "w_spin"}

\* A non-empty wake_list is never left without somebody bound to look at it:
\* an interrupt on its way, a polling idle loop told to leave, an idle loop
\* that is leaving, or the waker that found the list empty.
WakeListNoticed ==
    \A q \in CPU : wake_list[q] # {} =>
        \/ ipi[q]
        \/ Polling(q) /\ need_resched[q]
        \/ idle[q] \in {"clr", "exit"} /\ need_resched[q]
        \/ \E c \in CPU : op[c] = "w_ipi" /\ dest[c] = q

\* A task that runs outside its affinity mask is on its way out: the stopper
\* of that CPU has a request for it (set_cpus_allowed_ptr has not returned).
AffinityEnforced ==
    \A c \in CPU : curr[c] \in Task /\ c \notin allowed[curr[c]] =>
        \E i \in 1 .. Len(stopq[c]) : stopq[c][i].task = curr[c]

\* The sum of all nr_uninterruptible is the number of tasks that block
\* uninterruptibly, counted until their activation: a task may be counted on
\* one CPU and uncounted on another, but never twice and never not at all.
LoadBalanced ==
    SumFunctionOnSet(nr_uninterruptible, CPU) % Width =
        Cardinality({p \in Task :
            on_rq[p] = "no" /\ \/ state[p] = "UNINTERRUPTIBLE"
                               \/ state[p] = "WAKING" /\ contrib[p]}) % Width

\* The scheduler's reference of a dead task is dropped at most once, and only
\* when no CPU uses the task's stack and no queue holds it.
DeadOnce ==
    \A p \in Task :
        /\ puts[p] <= 1
        /\ puts[p] = 1 => /\ state[p] = "DEAD" /\ on_rq[p] = "no"
                          /\ \A c \in CPU : ~OnStack(c, p)

\* The warning in set_task_cpu never triggers: a task changes its CPU only
\* when it is runnable, being woken, or was preempted before it could block.
NoBlockedMove ==
    [][\A p \in Task : cpu'[p] # cpu[p] /\ life[p] # "none" =>
           state[p] = "RUNNING" \/ state'[p] = "WAKING" \/ active[p]]_vars

\* A task being woken reaches a run queue.
WakeupCompletes ==
    \A p \in Task : state[p] = "WAKING" ~> on_rq[p] = "queued"

\* A CPU does not stay in its idle loop while its queue holds a task.
IdleLeavesForWork ==
    \A c \in CPU : (curr[c] = Idle /\ queue[c] # {}) ~> curr[c] # Idle

\* Every affinity change that needs the stopper is carried out.
MigrationCompletes ==
    \A k \in Task : InStopOneCpu(k) ~> ~InStopOneCpu(k)

-----------------------------------------------------------------------------
(* The inductive invariant behind StackExclusive and QueueConsistent       *)

\* Where operations run, and what they act on.
OpPlace ==
    \A c \in CPU :
        /\ op[c] \notin {"none", "p_act"} => arg[c] \in Task
        /\ op[c] \in {"l_try", "l_pi", "l_rq"} => pc[c] = "switch"
        /\ op[c] \notin {"none", "l_try", "l_pi", "l_rq"} =>
               pc[c] \in {"run", "sched"}
        /\ op[c] \in {"a_pi", "a_rq"} => pc[c] = "run" /\ curr[c] \in Task
        /\ op[c] = "m_enq" => pc[c] = "run"
        /\ op[c] \in {"m_pi", "m_rq"} =>
               pc[c] = "run" /\ curr[c] = Stop /\ stopq[c] # <<>>
        /\ op[c] = "p_act" /\ arg[c] # NoTask =>
               pc[c] = "run" /\ curr[c] = Stop /\ stopq[c] # <<>>
        /\ op[c] = "m_enq" /\ curr[c] = Stop => stopq[c] # <<>>
        /\ pc[c] = "put" => prev[c] \in Task
        /\ pc[c] = "finish" => prev[c] # curr[c]

\* pi_lock is exclusive, and a task is forked by one CPU.
PiExclusive ==
    \A c, d \in CPU :
        /\ op[c] \in HoldsPi /\ op[d] \in HoldsPi /\ arg[c] = arg[d] => c = d
        /\ (op[c] \in {"f_pi", "f_rq"} /\ op[d] \in {"f_pi", "f_rq"}
             /\ arg[c] = arg[d]) => c = d

\* What the operations under way may rely on.
OpTask ==
    \A c \in CPU :
        /\ op[c] = "w_rq" =>
              /\ state[arg[c]] \notin {"WAKING", "DEAD"}
              /\ (on_rq[arg[c]] = "no" => state[arg[c]] \in Asleep)
        /\ op[c] = "w_spin" => /\ state[arg[c]] \in Asleep
                               /\ on_rq[arg[c]] = "no"
        /\ op[c] = "w_queue" =>
              /\ state[arg[c]] = "WAKING" /\ on_rq[arg[c]] = "no"
              /\ \A d \in CPU : arg[c] \notin wake_list[d] \cup pend[d]
        /\ op[c] = "m_enq" => on_rq[arg[c]] = "migrating"
        /\ op[c] \in {"f_pi", "f_rq"} => life[arg[c]] = "forked"
        /\ op[c] \in {"a_pi", "a_rq"} => arg[c] \notin Worker
        /\ op[c] \in {"l_try", "l_pi", "l_rq"} =>
              arg[c] \in Worker /\ Home[arg[c]] = c

\* The tasks on a wake_list, or just taken off one, are being woken there.
Pending ==
    \A c \in CPU :
        /\ \A p \in wake_list[c] \cup pend[c] :
              state[p] = "WAKING" /\ on_rq[p] = "no" /\ cpu[p] = c
        /\ wake_list[c] \cap pend[c] = {}
        /\ pend[c] # {} => op[c] = "p_act"

\* A task that is not in use yet is nowhere; workers stay at home.
Newborn ==
    /\ \A p \in Task : life[p] # "live" =>
          on_rq[p] = "no" /\ ~on_cpu[p] /\ state[p] = "RUNNING"
    /\ \A p \in Worker : /\ life[p] = "live"
                         /\ cpu[p] = Home[p] /\ allowed[p] = {Home[p]}

\* The current task is queued unless __schedule is just taking it off.
Running ==
    \A c \in CPU : curr[c] \in Task /\ pc[c] # "switch" =>
        on_rq[curr[c]] = "queued"

\* A CPU uses only the stacks of tasks that are marked as running there.
Stacks ==
    \A c \in CPU, p \in Task : OnStack(c, p) => on_cpu[p] /\ cpu[p] = c

IInv == /\ TypeOK /\ OpPlace /\ PiExclusive /\ OpTask /\ Pending /\ Newborn
        /\ Running /\ Stacks /\ QueueConsistent
=============================================================================
