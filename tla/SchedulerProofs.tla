--------------------------- MODULE SchedulerProofs ---------------------------
(***************************************************************************)
(* Proofs about Scheduler for every set of tasks and CPUs.                 *)
(*                                                                         *)
(* First the inductive invariant IInv, and from it the types, the          *)
(* exclusive use of stacks and the consistency of the run queues: one      *)
(* lemma per action, with what the action may rely on, then one step per   *)
(* part of IInv.  Parts whose variables the action leaves alone come last, *)
(* in one step.                                                            *)
(*                                                                         *)
(* On top of IInv: no wakeup is lost, no wake_list is forgotten, a dead    *)
(* task is released once, a task that is not runnable is not moved, and    *)
(* one that runs outside its affinity mask is on its way out.  Each has    *)
(* its own invariant; a lemma shows that every action keeps it, with one   *)
(* step for each action that could disturb it and one for those that leave *)
(* its variables alone.                                                    *)
(***************************************************************************)
EXTENDS Scheduler, SumTheorems, FiniteSetTheorems, SequenceTheorems, TLAPS

\* The residue by which rq->nr_uninterruptible wraps is in its range.
LEMMA ModType ==
  ASSUME NEW n \in Int, NEW w \in Nat \ {0}
  PROVE  n % w \in 0 .. w - 1
OBVIOUS

\* Idle and stopper threads, and the absent task, are no ordinary tasks.
LEMMA Names ==
  Idle \notin Task /\ Stop \notin Task /\ NoTask \notin Task /\ Idle # Stop
BY ConstantsAssumption

\* The width of the counter is positive.
LEMMA WidthType == Width \in Nat \ {0}
BY ConstantsAssumption

\* Workers are tasks.
LEMMA WorkerType == Worker \subseteq Task
BY ConstantsAssumption

\* Incrementing and decrementing rq->nr_uninterruptible keep it in range.
LEMMA WrapType ==
  ASSUME NEW n \in 0 .. Width - 1
  PROVE  /\ (n + 1) % Width \in 0 .. Width - 1
         /\ (n - 1) % Width \in 0 .. Width - 1
<1>1. n + 1 \in Int /\ n - 1 \in Int
  BY WidthType
<1> QED
  BY <1>1, ModType, WidthType

\* The decrement by the number of woken tasks that contribute to the load.
LEMMA DecrementType ==
  ASSUME NEW n \in 0 .. Width - 1, NEW Q \in SUBSET Task
  PROVE  Decrement(n, Cardinality({p \in Q : contrib[p]})) \in 0 .. Width - 1
<1>1. IsFiniteSet(Task)
  BY ConstantsAssumption
<1>2. IsFiniteSet({p \in Q : contrib[p]})
  BY <1>1, FS_Subset
<1>3. Cardinality({p \in Q : contrib[p]}) \in Nat
  BY <1>2, FS_CardinalityType
<1> QED
  BY SMTT(45), <1>3, ModType, WidthType DEF Decrement

-----------------------------------------------------------------------------
(* Preservation, action by action                                          *)

\* Only the current task sets its state, and it is queued, so no operation
\* that relies on a sleeping task is about it.
LEMMA SetCurrentStateInv ==
  ASSUME IInv, NEW c \in CPU, NEW s \in Asleep, SetCurrentState(c, s)
  PROVE  IInv'
<1>1. /\ TypeOK /\ OpPlace /\ PiExclusive /\ OpTask /\ Pending
      /\ Newborn /\ Running /\ Stacks /\ QueueConsistent
  BY DEF IInv
<1>2. pc[c] = "run" /\ op[c] = "none" /\ curr[c] \in Task
  BY DEF SetCurrentState, InTask
<1>3. on_rq[curr[c]] = "queued"
  BY <1>1, <1>2 DEF Running
<1>4. TaskTypeOK'
  BY <1>1, <1>2, <1>3 DEF TypeOK, TaskTypeOK, Asleep, SetCurrentState
<1>5. OpTask'
  BY <1>1, <1>2, <1>3 DEF OpTask, TypeOK, ControlTypeOK, TaskTypeOK,
     ListTypeOK, Asleep, SetCurrentState, listVars, opVars
<1>6. Pending'
  BY <1>1, <1>2, <1>3 DEF Pending, TypeOK, ListTypeOK, TaskTypeOK,
     ControlTypeOK, SetCurrentState, listVars, opVars
<1>7. Newborn'
  BY <1>1, <1>2, <1>3 DEF Newborn, TypeOK, TaskTypeOK, SetCurrentState
<1>8. (RqTypeOK /\ ListTypeOK /\ ControlTypeOK /\ OpPlace /\ PiExclusive /\
       Running /\ Stacks /\ QueueConsistent)'
  BY <1>1 DEF TypeOK, RqTypeOK, SetCurrentState, rqVars, ListTypeOK, listVars,
     ControlTypeOK, pcVars, opVars, OpPlace, PiExclusive, Running, Stacks,
     OnStack, QueueConsistent
<1> QED
  BY <1>4, <1>5, <1>6, <1>7, <1>8 DEF IInv, TypeOK

\* A task that gives up sleeping is queued: it is on no wake_list.
LEMMA CondHoldsInv ==
  ASSUME IInv, NEW c \in CPU, CondHolds(c)
  PROVE  IInv'
<1>1. /\ TypeOK /\ OpPlace /\ PiExclusive /\ OpTask /\ Pending
      /\ Newborn /\ Running /\ Stacks /\ QueueConsistent
  BY DEF IInv
<1>2. pc[c] = "run" /\ op[c] = "none" /\ curr[c] \in Task
  BY DEF CondHolds, InTask
<1>3. on_rq[curr[c]] = "queued"
  BY <1>1, <1>2 DEF Running
<1>4. TaskTypeOK'
  BY <1>1, <1>2, <1>3 DEF TypeOK, TaskTypeOK, CondHolds
<1>5. OpTask'
  BY <1>1, <1>2, <1>3 DEF OpTask, TypeOK, ControlTypeOK, TaskTypeOK,
     ListTypeOK, CondHolds, listVars, opVars
<1>6. Pending'
  BY <1>1, <1>2, <1>3 DEF Pending, TypeOK, ListTypeOK, TaskTypeOK,
     ControlTypeOK, CondHolds, listVars, opVars
<1>7. Newborn'
  BY <1>1, <1>2, <1>3 DEF Newborn, TypeOK, TaskTypeOK, CondHolds
<1>8. (RqTypeOK /\ ListTypeOK /\ ControlTypeOK /\ OpPlace /\ PiExclusive /\
       Running /\ Stacks /\ QueueConsistent)'
  BY <1>1 DEF TypeOK, RqTypeOK, CondHolds, rqVars, ListTypeOK, listVars,
     ControlTypeOK, pcVars, opVars, OpPlace, PiExclusive, Running, Stacks,
     OnStack, QueueConsistent
<1> QED
  BY <1>4, <1>5, <1>6, <1>7, <1>8 DEF IInv, TypeOK

\* Entering __schedule changes the place of the CPU only.
LEMMA scheduleInv ==
  ASSUME IInv, NEW c \in CPU, schedule(c)
  PROVE  IInv'
<1>1. /\ TypeOK /\ OpPlace /\ PiExclusive /\ OpTask /\ Pending
      /\ Newborn /\ Running /\ Stacks /\ QueueConsistent
  BY DEF IInv
<1>2. pc[c] = "run" /\ op[c] = "none" /\ curr[c] \in Task
  BY DEF schedule, InTask
<1>3. on_rq[curr[c]] = "queued"
  BY <1>1, <1>2 DEF Running
<1>4. ControlTypeOK'
  BY <1>1, <1>2, <1>3 DEF TypeOK, ControlTypeOK, schedule, opVars
<1>5. OpPlace'
  BY <1>1, <1>2, <1>3, Names DEF OpPlace, TypeOK, ControlTypeOK, RqTypeOK,
     schedule, rqVars, opVars
<1>6. Running'
  BY <1>1, <1>2, <1>3, Names DEF Running, TypeOK, RqTypeOK, ControlTypeOK,
     TaskTypeOK, schedule, taskVars, rqVars
<1>7. Stacks'
  BY <1>1, <1>2, <1>3 DEF Stacks, TypeOK, RqTypeOK, ControlTypeOK, TaskTypeOK,
     schedule, taskVars, rqVars, OnStack
<1>8. (TaskTypeOK /\ RqTypeOK /\ ListTypeOK /\ PiExclusive /\ OpTask /\
       Pending /\ Newborn /\ QueueConsistent)'
  BY <1>1 DEF TypeOK, TaskTypeOK, schedule, taskVars, RqTypeOK, rqVars,
     ListTypeOK, listVars, PiExclusive, opVars, OpTask, Pending, Newborn,
     QueueConsistent
<1> QED
  BY <1>4, <1>5, <1>6, <1>7, <1>8 DEF IInv, TypeOK

\* Nobody holds pi_lock of a task that marks itself dead.
LEMMA DoExitInv ==
  ASSUME IInv, NEW c \in CPU, DoExit(c)
  PROVE  IInv'
<1>1. /\ TypeOK /\ OpPlace /\ PiExclusive /\ OpTask /\ Pending
      /\ Newborn /\ Running /\ Stacks /\ QueueConsistent
  BY DEF IInv
<1>2. pc[c] = "run" /\ op[c] = "none" /\ curr[c] \in Task
  BY DEF DoExit, InTask
<1>3. on_rq[curr[c]] = "queued"
  BY <1>1, <1>2 DEF Running
<1>4. \A d \in CPU : op[d] \in HoldsPi => arg[d] # curr[c]
  BY DEF DoExit, PiFree
<1>5. TaskTypeOK'
  BY <1>1, <1>2, <1>3, <1>4 DEF TypeOK, TaskTypeOK, DoExit
<1>6. ControlTypeOK'
  BY <1>1, <1>2, <1>3, <1>4 DEF TypeOK, ControlTypeOK, DoExit, opVars
<1>7. OpPlace'
  BY <1>1, <1>2, <1>3, <1>4, Names DEF OpPlace, TypeOK, ControlTypeOK,
     RqTypeOK, DoExit, rqVars, opVars
<1>8. OpTask'
  BY <1>1, <1>2, <1>3, <1>4 DEF OpTask, TypeOK, ControlTypeOK, TaskTypeOK,
     ListTypeOK, HoldsPi, DoExit, listVars, opVars
<1>9. Pending'
  BY <1>1, <1>2, <1>3, <1>4 DEF Pending, TypeOK, ListTypeOK, TaskTypeOK,
     ControlTypeOK, DoExit, listVars, opVars
<1>10. Newborn'
  BY <1>1, <1>2, <1>3, <1>4 DEF Newborn, TypeOK, TaskTypeOK, DoExit
<1>11. Running'
  BY <1>1, <1>2, <1>3, <1>4, Names DEF Running, TypeOK, RqTypeOK,
     ControlTypeOK, TaskTypeOK, DoExit, rqVars
<1>12. Stacks'
  BY <1>1, <1>2, <1>3, <1>4 DEF Stacks, TypeOK, RqTypeOK, ControlTypeOK,
     TaskTypeOK, DoExit, rqVars, OnStack
<1>13. (RqTypeOK /\ ListTypeOK /\ PiExclusive /\ QueueConsistent)'
  BY <1>1 DEF TypeOK, RqTypeOK, DoExit, rqVars, ListTypeOK, listVars,
     PiExclusive, opVars, QueueConsistent
<1> QED
  BY <1>5, <1>6, <1>7, <1>8, <1>9, <1>10, <1>11, <1>12, <1>13 DEF IInv, TypeOK

\* The tick only asks for a switch.
LEMMA SchedulerTickInv ==
  ASSUME IInv, NEW c \in CPU, SchedulerTick(c)
  PROVE  IInv'
<1>1. /\ TypeOK /\ OpPlace /\ PiExclusive /\ OpTask /\ Pending
      /\ Newborn /\ Running /\ Stacks /\ QueueConsistent
  BY DEF IInv
<1>2. RqTypeOK'
  BY <1>1 DEF TypeOK, RqTypeOK, SchedulerTick
<1>3. (TaskTypeOK /\ ListTypeOK /\ ControlTypeOK /\ OpPlace /\ PiExclusive /\
       OpTask /\ Pending /\ Newborn /\ Running /\ Stacks /\ QueueConsistent)'
  BY <1>1 DEF TypeOK, TaskTypeOK, SchedulerTick, taskVars, ListTypeOK,
     listVars, ControlTypeOK, pcVars, opVars, OpPlace, PiExclusive, OpTask,
     Pending, Newborn, Running, Stacks, OnStack, QueueConsistent
<1> QED
  BY <1>2, <1>3 DEF IInv, TypeOK

\* A preemption leaves the state of the task alone.
LEMMA PreemptScheduleInv ==
  ASSUME IInv, NEW c \in CPU, PreemptSchedule(c)
  PROVE  IInv'
<1>1. /\ TypeOK /\ OpPlace /\ PiExclusive /\ OpTask /\ Pending
      /\ Newborn /\ Running /\ Stacks /\ QueueConsistent
  BY DEF IInv
<1>2. pc[c] = "run" /\ op[c] = "none" /\ curr[c] \in Task
  BY DEF PreemptSchedule, InTask
<1>3. on_rq[curr[c]] = "queued"
  BY <1>1, <1>2 DEF Running
<1>4. TaskTypeOK'
  BY <1>1, <1>2, <1>3 DEF TypeOK, TaskTypeOK, PreemptSchedule
<1>5. ControlTypeOK'
  BY <1>1, <1>2, <1>3 DEF TypeOK, ControlTypeOK, PreemptSchedule, opVars
<1>6. OpPlace'
  BY <1>1, <1>2, <1>3, Names DEF OpPlace, TypeOK, ControlTypeOK, RqTypeOK,
     PreemptSchedule, rqVars, opVars
<1>7. Running'
  BY <1>1, <1>2, <1>3, Names DEF Running, TypeOK, RqTypeOK, ControlTypeOK,
     TaskTypeOK, PreemptSchedule, rqVars
<1>8. Stacks'
  BY <1>1, <1>2, <1>3 DEF Stacks, TypeOK, RqTypeOK, ControlTypeOK, TaskTypeOK,
     PreemptSchedule, rqVars, OnStack
<1>9. (RqTypeOK /\ ListTypeOK /\ PiExclusive /\ OpTask /\ Pending /\ Newborn
       /\ QueueConsistent)'
  BY <1>1 DEF TypeOK, RqTypeOK, PreemptSchedule, rqVars, ListTypeOK, listVars,
     PiExclusive, opVars, OpTask, Pending, Newborn, QueueConsistent
<1> QED
  BY <1>4, <1>5, <1>6, <1>7, <1>8, <1>9 DEF IInv, TypeOK

\* The stopper goes to sleep.
LEMMA StopSleepInv ==
  ASSUME IInv, NEW c \in CPU, StopSleep(c)
  PROVE  IInv'
<1>1. /\ TypeOK /\ OpPlace /\ PiExclusive /\ OpTask /\ Pending
      /\ Newborn /\ Running /\ Stacks /\ QueueConsistent
  BY DEF IInv
<1>2. ControlTypeOK'
  BY <1>1 DEF TypeOK, ControlTypeOK, StopSleep, opVars
<1>3. OpPlace'
  BY <1>1, Names DEF OpPlace, TypeOK, ControlTypeOK, RqTypeOK, StopSleep,
     rqVars, opVars
<1>4. Running'
  BY <1>1, Names DEF Running, TypeOK, RqTypeOK, ControlTypeOK, TaskTypeOK,
     StopSleep, taskVars, rqVars
<1>5. Stacks'
  BY <1>1 DEF Stacks, TypeOK, RqTypeOK, ControlTypeOK, TaskTypeOK, StopSleep,
     taskVars, rqVars, OnStack
<1>6. (TaskTypeOK /\ RqTypeOK /\ ListTypeOK /\ PiExclusive /\ OpTask /\
       Pending /\ Newborn /\ QueueConsistent)'
  BY <1>1 DEF TypeOK, TaskTypeOK, StopSleep, taskVars, RqTypeOK, rqVars,
     ListTypeOK, listVars, PiExclusive, opVars, OpTask, Pending, Newborn,
     QueueConsistent
<1> QED
  BY <1>2, <1>3, <1>4, <1>5, <1>6 DEF IInv, TypeOK

\* __schedule without a task that blocks.
LEMMA ScheduleKeepInv ==
  ASSUME IInv, NEW c \in CPU, ScheduleKeep(c)
  PROVE  IInv'
<1>1. /\ TypeOK /\ OpPlace /\ PiExclusive /\ OpTask /\ Pending
      /\ Newborn /\ Running /\ Stacks /\ QueueConsistent
  BY DEF IInv
<1>2. op[c] = "none" /\ pc[c] = "sched"
  BY DEF ScheduleKeep, ScheduleEnter
<1>3. ControlTypeOK'
  BY <1>1, <1>2 DEF TypeOK, ControlTypeOK, ScheduleKeep, ScheduleEnter, opVars
<1>4. OpPlace'
  BY <1>1, <1>2, Names DEF OpPlace, TypeOK, ControlTypeOK, RqTypeOK,
     ScheduleKeep, ScheduleEnter, opVars
<1>5. Running'
  BY <1>1, <1>2, Names DEF Running, TypeOK, RqTypeOK, ControlTypeOK,
     TaskTypeOK, ScheduleKeep, ScheduleEnter
<1>6. Stacks'
  BY <1>1, <1>2 DEF Stacks, TypeOK, RqTypeOK, ControlTypeOK, TaskTypeOK,
     ScheduleKeep, ScheduleEnter, OnStack
<1>7. (TaskTypeOK /\ RqTypeOK /\ ListTypeOK /\ PiExclusive /\ OpTask /\
       Pending /\ Newborn /\ QueueConsistent)'
  BY <1>1 DEF TypeOK, TaskTypeOK, ScheduleKeep, ScheduleEnter, RqTypeOK,
     ListTypeOK, listVars, PiExclusive, opVars, OpTask, Pending, Newborn,
     QueueConsistent
<1> QED
  BY <1>3, <1>4, <1>5, <1>6, <1>7 DEF IInv, TypeOK

\* A signal makes a task runnable that is still queued.
LEMMA ScheduleSignalInv ==
  ASSUME IInv, NEW c \in CPU, ScheduleSignal(c)
  PROVE  IInv'
<1>1. /\ TypeOK /\ OpPlace /\ PiExclusive /\ OpTask /\ Pending
      /\ Newborn /\ Running /\ Stacks /\ QueueConsistent
  BY DEF IInv
<1>2. op[c] = "none" /\ pc[c] = "sched"
  BY DEF ScheduleSignal, ScheduleEnter
<1>3. pend[c] = {}
  BY <1>1, <1>2 DEF Pending
<1>4. curr[c] \in Task
  BY DEF ScheduleSignal, Blocks
<1>5. on_rq[curr[c]] = "queued"
  BY <1>1, <1>2, <1>4 DEF Running
<1>6. TaskTypeOK'
  BY <1>1, <1>2, <1>3, <1>4, <1>5 DEF TypeOK, TaskTypeOK, ScheduleSignal,
     ScheduleEnter
<1>7. ControlTypeOK'
  BY <1>1, <1>2, <1>3, <1>4, <1>5 DEF TypeOK, ControlTypeOK, ScheduleSignal,
     ScheduleEnter, opVars
<1>8. OpPlace'
  BY <1>1, <1>2, <1>3, <1>4, <1>5, Names DEF OpPlace, TypeOK, ControlTypeOK,
     RqTypeOK, ScheduleSignal, ScheduleEnter, opVars
<1>9. OpTask'
  BY <1>1, <1>2, <1>3, <1>4, <1>5 DEF OpTask, TypeOK, ControlTypeOK,
     TaskTypeOK, ListTypeOK, ScheduleSignal, ScheduleEnter, listVars, opVars
<1>10. Pending'
  BY <1>1, <1>2, <1>3, <1>4, <1>5 DEF Pending, TypeOK, ListTypeOK, TaskTypeOK,
     ControlTypeOK, ScheduleSignal, ScheduleEnter, listVars, opVars
<1>11. Newborn'
  BY <1>1, <1>2, <1>3, <1>4, <1>5 DEF Newborn, TypeOK, TaskTypeOK,
     ScheduleSignal, ScheduleEnter
<1>12. Running'
  BY <1>1, <1>2, <1>3, <1>4, <1>5, Names DEF Running, TypeOK, RqTypeOK,
     ControlTypeOK, TaskTypeOK, ScheduleSignal, ScheduleEnter
<1>13. Stacks'
  BY <1>1, <1>2, <1>3, <1>4, <1>5 DEF Stacks, TypeOK, RqTypeOK, ControlTypeOK,
     TaskTypeOK, ScheduleSignal, ScheduleEnter, OnStack
<1>14. (RqTypeOK /\ ListTypeOK /\ PiExclusive /\ QueueConsistent)'
  BY <1>1 DEF TypeOK, RqTypeOK, ScheduleSignal, ScheduleEnter, ListTypeOK,
     listVars, PiExclusive, opVars, QueueConsistent
<1> QED
  BY <1>6, <1>7, <1>8, <1>9, <1>10, <1>11, <1>12, <1>13, <1>14 DEF IInv,
     TypeOK

\* The task taken off the queue runs on this CPU and on no other one, and a
\* wakeup that already holds its pi_lock finds it asleep.
LEMMA ScheduleBlockInv ==
  ASSUME IInv, NEW c \in CPU, ScheduleBlock(c)
  PROVE  IInv'
<1>1. /\ TypeOK /\ OpPlace /\ PiExclusive /\ OpTask /\ Pending
      /\ Newborn /\ Running /\ Stacks /\ QueueConsistent
  BY DEF IInv
<1>2. op[c] = "none" /\ pc[c] = "sched"
  BY DEF ScheduleBlock, ScheduleEnter
<1>3. pend[c] = {}
  BY <1>1, <1>2 DEF Pending
<1>4. curr[c] \in Task
  BY DEF ScheduleBlock, Blocks
<1>5. on_rq[curr[c]] = "queued"
  BY <1>1, <1>2, <1>4 DEF Running
<1>6. \A d \in CPU : curr[d] = curr[c] => d = c
  BY <1>1, <1>4 DEF Stacks, OnStack
<1>7. cpu[curr[c]] = c
  BY <1>1, <1>4 DEF Stacks, OnStack
<1>8. state[curr[c]] # "RUNNING"
  BY DEF ScheduleBlock, Blocks
<1>9. \A w \in Worker : w \in Task /\ Home[w] = cpu[w]
  BY <1>1, WorkerType DEF Newborn
<1>10. TaskTypeOK'
  BY <1>1, <1>2, <1>3, <1>4, <1>5, <1>6, <1>7, <1>8, <1>9 DEF TypeOK,
     TaskTypeOK, ScheduleBlock, ScheduleEnter
<1>11. RqTypeOK'
  <2>1. nr_uninterruptible[c] \in 0 .. Width - 1
    BY <1>1 DEF TypeOK, RqTypeOK
  <2>2. (nr_uninterruptible[c] + 1) % Width \in 0 .. Width - 1
    BY <2>1, WrapType
  <2>3. nr_uninterruptible' \in [CPU -> 0 .. Width - 1]
    BY <1>1, <2>2 DEF TypeOK, RqTypeOK, ScheduleBlock
  <2>4. queue' \in [CPU -> SUBSET Task]
    BY <1>1 DEF TypeOK, RqTypeOK, ScheduleBlock
  <2>5. UNCHANGED <<curr, need_resched, idle, stopq>>
    BY DEF ScheduleBlock, ScheduleEnter
  <2> QED
    BY <1>1, <2>1, <2>2, <2>3, <2>4, <2>5 DEF TypeOK, RqTypeOK
<1>12. ControlTypeOK'
  BY <1>1, <1>2, <1>3, <1>4, <1>5, <1>6, <1>7, <1>8, <1>9 DEF TypeOK,
     ControlTypeOK, Ops, HoldsPi, ScheduleBlock, ScheduleEnter, Begin, opVars
<1>13. OpPlace'
  BY <1>1, <1>2, <1>3, <1>4, <1>5, <1>6, <1>7, <1>8, <1>9, Names DEF OpPlace,
     TypeOK, ControlTypeOK, RqTypeOK, ScheduleBlock, ScheduleEnter, Begin,
     opVars
<1>14. PiExclusive'
  BY <1>1, <1>2, <1>3, <1>4, <1>5, <1>6, <1>7, <1>8, <1>9 DEF PiExclusive,
     TypeOK, ControlTypeOK, HoldsPi, ScheduleBlock, ScheduleEnter, Begin,
     opVars
<1>15. OpTask'
  BY <1>1, <1>2, <1>3, <1>4, <1>5, <1>6, <1>7, <1>8, <1>9 DEF OpTask, TypeOK,
     ControlTypeOK, TaskTypeOK, ListTypeOK, Asleep, ScheduleBlock,
     ScheduleEnter, Begin, listVars, opVars
<1>16. Pending'
  BY <1>1, <1>2, <1>3, <1>4, <1>5, <1>6, <1>7, <1>8, <1>9 DEF Pending, TypeOK,
     ListTypeOK, TaskTypeOK, ControlTypeOK, ScheduleBlock, ScheduleEnter,
     Begin, listVars, opVars
<1>17. Newborn'
  BY <1>1, <1>2, <1>3, <1>4, <1>5, <1>6, <1>7, <1>8, <1>9 DEF Newborn, TypeOK,
     TaskTypeOK, ScheduleBlock, ScheduleEnter
<1>18. Running'
  BY <1>1, <1>2, <1>3, <1>4, <1>5, <1>6, <1>7, <1>8, <1>9, Names DEF Running,
     TypeOK, RqTypeOK, ControlTypeOK, TaskTypeOK, ScheduleBlock, ScheduleEnter
<1>19. Stacks'
  BY <1>1, <1>2, <1>3, <1>4, <1>5, <1>6, <1>7, <1>8, <1>9 DEF Stacks, TypeOK,
     RqTypeOK, ControlTypeOK, TaskTypeOK, ScheduleBlock, ScheduleEnter,
     OnStack
<1>20. QueueConsistent'
  BY <1>1, <1>2, <1>3, <1>4, <1>5, <1>6, <1>7, <1>8, <1>9 DEF QueueConsistent,
     TypeOK, RqTypeOK, TaskTypeOK, ScheduleBlock, ScheduleEnter
<1>21. (ListTypeOK)'
  BY <1>1 DEF TypeOK, ListTypeOK, ScheduleBlock, ScheduleEnter, listVars
<1> QED
  BY <1>10, <1>11, <1>12, <1>13, <1>14, <1>15, <1>16, <1>17, <1>18, <1>19,
     <1>20, <1>21 DEF IInv, TypeOK

\* try_to_wake_up_local, when nobody else holds pi_lock of the worker: the
\* worker stays at home, so the queue it enters is the one of its cpu.
LEMMA LocalWakeInv ==
  ASSUME IInv, NEW c \in CPU, op[c] \in {"l_try", "l_rq"}, \A d \in CPU \ {c}
         : op[d] \in HoldsPi => arg[d] # arg[c], LocalWake(c, arg[c])
  PROVE  IInv'
<1>1. /\ TypeOK /\ OpPlace /\ PiExclusive /\ OpTask /\ Pending
      /\ Newborn /\ Running /\ Stacks /\ QueueConsistent
  BY DEF IInv
<1>2. op[c] \in {"l_try", "l_pi", "l_rq"}
  OBVIOUS
<1>3. arg[c] \in Task
  BY <1>1, <1>2 DEF OpPlace
<1>4. arg[c] \in Worker /\ Home[arg[c]] = c
  BY <1>1, <1>2 DEF OpTask
<1>5. cpu[arg[c]] = c /\ life[arg[c]] = "live"
  BY <1>1, <1>4 DEF Newborn
<1>6. pend[c] = {}
  BY <1>1, <1>2 DEF Pending
<1>7. pc[c] = "switch"
  BY <1>1, <1>2 DEF OpPlace
<1>8. TaskTypeOK'
  BY <1>1, <1>2, <1>3, <1>4, <1>5, <1>6, <1>7 DEF TypeOK, TaskTypeOK,
     LocalWake, MustActivate
<1>9. RqTypeOK'
  <2>1. nr_uninterruptible[c] \in 0 .. Width - 1
    BY <1>1 DEF TypeOK, RqTypeOK
  <2>2. (nr_uninterruptible[c] - 1) % Width \in 0 .. Width - 1
    BY <2>1, WrapType
  <2>3. nr_uninterruptible' \in [CPU -> 0 .. Width - 1]
    BY <1>1, <2>2 DEF TypeOK, RqTypeOK, LocalWake
  <2>4. queue' = queue \/ queue' = [queue EXCEPT ![c] = @ \cup {arg[c]}]
    BY DEF LocalWake
  <2>5. queue[c] \cup {arg[c]} \in SUBSET Task
    BY <1>1, <1>3 DEF TypeOK, RqTypeOK
  <2>6. queue' \in [CPU -> SUBSET Task]
    BY <1>1, <2>4, <2>5 DEF TypeOK, RqTypeOK
  <2>7. need_resched' \in [CPU -> BOOLEAN]
    BY <1>1 DEF TypeOK, RqTypeOK, LocalWake, CheckPreemptCurr, ReschedCurr
  <2>8. UNCHANGED <<curr, idle, stopq>>
    BY DEF LocalWake
  <2> QED
    BY <1>1, <2>1, <2>2, <2>3, <2>4, <2>5, <2>6, <2>7, <2>8 DEF TypeOK,
       RqTypeOK
<1>10. ListTypeOK'
  BY <1>1, <1>2, <1>3, <1>4, <1>5, <1>6, <1>7 DEF TypeOK, ListTypeOK,
     LocalWake, MustActivate, CheckPreemptCurr, ReschedCurr
<1>11. ControlTypeOK'
  BY <1>1, <1>2, <1>3, <1>4, <1>5, <1>6, <1>7 DEF TypeOK, ControlTypeOK, Ops,
     HoldsPi, LocalWake, MustActivate, End, Begin, pcVars
<1>12. OpPlace'
  BY <1>1, <1>2, <1>3, <1>4, <1>5, <1>6, <1>7, Names DEF OpPlace, TypeOK,
     ControlTypeOK, RqTypeOK, LocalWake, MustActivate, End, Begin, pcVars
<1>13. PiExclusive'
  BY <1>1, <1>2, <1>3, <1>4, <1>5, <1>6, <1>7 DEF PiExclusive, TypeOK,
     ControlTypeOK, HoldsPi, LocalWake, MustActivate, End, Begin
<1>14. OpTask'
  <2>1. op'[c] = "none" /\ \A d \in CPU \ {c} : op'[d] = op[d] /\ arg'[d] =
        arg[d]
    BY <1>1 DEF TypeOK, ControlTypeOK, LocalWake, Begin, End
  <2>2. \A p \in Task \ {arg[c]} : state'[p] = state[p] /\ on_rq'[p] =
        on_rq[p]
    BY <1>1 DEF TypeOK, TaskTypeOK, LocalWake, MustActivate
  <2>3. UNCHANGED <<wake_list, pend, life>>
    BY DEF LocalWake, MustActivate
  <2>4. \A d \in CPU : op[d] \notin {"none", "p_act"} => arg[d] \in Task
    BY <1>1 DEF OpPlace
  <2> QED
    BY <1>1, <1>2, <2>1, <2>2, <2>3, <2>4 DEF OpTask, HoldsPi
<1>15. Pending'
  BY <1>1, <1>2, <1>3, <1>4, <1>5, <1>6, <1>7 DEF Pending, TypeOK, ListTypeOK,
     TaskTypeOK, ControlTypeOK, Asleep, LocalWake, MustActivate, End, Begin
<1>16. Newborn'
  BY <1>1, <1>2, <1>3, <1>4, <1>5, <1>6, <1>7 DEF Newborn, TypeOK, TaskTypeOK,
     LocalWake, MustActivate
<1>17. Running'
  BY <1>1, <1>2, <1>3, <1>4, <1>5, <1>6, <1>7, Names DEF Running, TypeOK,
     RqTypeOK, ControlTypeOK, TaskTypeOK, LocalWake, MustActivate, pcVars
<1>18. QueueConsistent'
  <2>1. \A d \in CPU \ {c} : queue'[d] = queue[d]
    BY <1>1 DEF TypeOK, RqTypeOK, LocalWake
  <2>2. \A p \in Task \ {arg[c]} : (p \in queue'[c] <=> p \in queue[c]) /\
        on_rq'[p] = on_rq[p]
    BY <1>1 DEF TypeOK, RqTypeOK, TaskTypeOK, LocalWake
  <2>3. arg[c] \in queue'[c] <=> on_rq'[arg[c]] = "queued"
    BY <1>1, <1>3, <1>5 DEF TypeOK, RqTypeOK, TaskTypeOK, LocalWake,
       MustActivate, QueueConsistent
  <2>4. UNCHANGED cpu
    BY DEF LocalWake
  <2> QED
    BY <1>1, <1>5, <2>1, <2>2, <2>3, <2>4 DEF QueueConsistent
<1>19. (Stacks)'
  BY <1>1 DEF Stacks, LocalWake, pcVars, OnStack
<1> QED
  BY <1>8, <1>9, <1>10, <1>11, <1>12, <1>13, <1>14, <1>15, <1>16, <1>17,
     <1>18, <1>19 DEF IInv, TypeOK

\* try_to_wake_up_local drops rq->lock.
LEMMA LocalDropInv ==
  ASSUME IInv, NEW c \in CPU, LocalDrop(c)
  PROVE  IInv'
<1>1. /\ TypeOK /\ OpPlace /\ PiExclusive /\ OpTask /\ Pending
      /\ Newborn /\ Running /\ Stacks /\ QueueConsistent
  BY DEF IInv
<1>2. op[c] = "l_try"
  BY DEF LocalDrop
<1>3. pend[c] = {}
  BY <1>1, <1>2 DEF Pending
<1>4. ControlTypeOK'
  BY <1>1, <1>2, <1>3 DEF TypeOK, ControlTypeOK, Ops, HoldsPi, LocalDrop, At,
     pcVars
<1>5. OpPlace'
  BY <1>1, <1>2, <1>3, Names DEF OpPlace, TypeOK, ControlTypeOK, RqTypeOK,
     LocalDrop, At, rqVars, pcVars
<1>6. PiExclusive'
  BY <1>1, <1>2, <1>3 DEF PiExclusive, TypeOK, ControlTypeOK, HoldsPi,
     LocalDrop, At
<1>7. OpTask'
  BY <1>1, <1>2, <1>3 DEF OpTask, TypeOK, ControlTypeOK, TaskTypeOK,
     ListTypeOK, LocalDrop, At, taskVars, listVars
<1>8. Pending'
  BY <1>1, <1>2, <1>3 DEF Pending, TypeOK, ListTypeOK, TaskTypeOK,
     ControlTypeOK, LocalDrop, At, taskVars, listVars
<1>9. (TaskTypeOK /\ RqTypeOK /\ ListTypeOK /\ Newborn /\ Running /\ Stacks /\
       QueueConsistent)'
  BY <1>1 DEF TypeOK, TaskTypeOK, LocalDrop, taskVars, RqTypeOK, rqVars,
     ListTypeOK, listVars, Newborn, Running, pcVars, Stacks, OnStack,
     QueueConsistent
<1> QED
  BY <1>4, <1>5, <1>6, <1>7, <1>8, <1>9 DEF IInv, TypeOK

\* try_to_wake_up_local gets pi_lock.
LEMMA LocalPiInv ==
  ASSUME IInv, NEW c \in CPU, LocalPi(c)
  PROVE  IInv'
<1>1. /\ TypeOK /\ OpPlace /\ PiExclusive /\ OpTask /\ Pending
      /\ Newborn /\ Running /\ Stacks /\ QueueConsistent
  BY DEF IInv
<1>2. op[c] = "l_pi"
  BY DEF LocalPi
<1>3. pend[c] = {}
  BY <1>1, <1>2 DEF Pending
<1>4. \A d \in CPU : op[d] \in HoldsPi => arg[d] # arg[c]
  BY DEF LocalPi, PiFree
<1>5. ControlTypeOK'
  BY <1>1, <1>2, <1>3, <1>4 DEF TypeOK, ControlTypeOK, Ops, HoldsPi, LocalPi,
     At, pcVars
<1>6. OpPlace'
  BY <1>1, <1>2, <1>3, <1>4, Names DEF OpPlace, TypeOK, ControlTypeOK,
     RqTypeOK, LocalPi, At, rqVars, pcVars
<1>7. PiExclusive'
  BY <1>1, <1>2, <1>3, <1>4 DEF PiExclusive, TypeOK, ControlTypeOK, HoldsPi,
     LocalPi, At
<1>8. OpTask'
  BY <1>1, <1>2, <1>3, <1>4 DEF OpTask, TypeOK, ControlTypeOK, TaskTypeOK,
     ListTypeOK, LocalPi, At, taskVars, listVars
<1>9. Pending'
  BY <1>1, <1>2, <1>3, <1>4 DEF Pending, TypeOK, ListTypeOK, TaskTypeOK,
     ControlTypeOK, LocalPi, At, taskVars, listVars
<1>10. (TaskTypeOK /\ RqTypeOK /\ ListTypeOK /\ Newborn /\ Running /\ Stacks
       /\ QueueConsistent)'
  BY <1>1 DEF TypeOK, TaskTypeOK, LocalPi, taskVars, RqTypeOK, rqVars,
     ListTypeOK, listVars, Newborn, Running, pcVars, Stacks, OnStack,
     QueueConsistent
<1> QED
  BY <1>5, <1>6, <1>7, <1>8, <1>9, <1>10 DEF IInv, TypeOK

\* The task that is picked is queued on this CPU, so its stack becomes one of
\* a task that has this cpu.
LEMMA SwitchToInv ==
  ASSUME IInv, NEW c \in CPU, NEW next \in PickNextTask(c), SwitchTo(c, next)
  PROVE  IInv'
<1>1. /\ TypeOK /\ OpPlace /\ PiExclusive /\ OpTask /\ Pending
      /\ Newborn /\ Running /\ Stacks /\ QueueConsistent
  BY DEF IInv
<1>2. op[c] = "none" /\ pc[c] = "switch"
  BY DEF SwitchTo
<1>3. next \in Task \cup {Idle, Stop} /\ (next \in Task => next \in queue[c])
  BY <1>1, Names DEF PickNextTask, TypeOK, RqTypeOK
<1>4. next \in Task => on_rq[next] = "queued" /\ cpu[next] = c
  BY <1>1, <1>3 DEF QueueConsistent
<1>5. TaskTypeOK'
  BY <1>1, <1>2, <1>3, <1>4 DEF TypeOK, TaskTypeOK, SwitchTo, Resume
<1>6. RqTypeOK'
  BY <1>1, <1>2, <1>3, <1>4 DEF TypeOK, RqTypeOK, SwitchTo, Resume
<1>7. ControlTypeOK'
  <2>1. pc' \in [CPU -> {"run", "sched", "switch", "finish", "put"}]
    BY <1>1 DEF TypeOK, ControlTypeOK, SwitchTo
  <2>2. prev' = prev \/ prev' = [prev EXCEPT ![c] = curr[c]]
    BY DEF SwitchTo
  <2>3. curr[c] \in Task \cup {Idle, Stop}
    BY <1>1 DEF TypeOK, RqTypeOK
  <2>4. prev' \in [CPU -> Task \cup {Idle, Stop}]
    BY <1>1, <2>2, <2>3 DEF TypeOK, ControlTypeOK
  <2>5. UNCHANGED <<op, arg, dest>>
    BY DEF SwitchTo, opVars
  <2> QED
    BY <1>1, <2>1, <2>2, <2>3, <2>4, <2>5 DEF TypeOK, ControlTypeOK
<1>8. OpPlace'
  BY <1>1, <1>2, <1>3, <1>4, Names DEF OpPlace, TypeOK, ControlTypeOK,
     RqTypeOK, SwitchTo, Resume, opVars
<1>9. Newborn'
  BY <1>1, <1>2, <1>3, <1>4 DEF Newborn, TypeOK, TaskTypeOK, SwitchTo
<1>10. Running'
  <2>1. \A d \in CPU \ {c} : curr'[d] = curr[d] /\ pc'[d] = pc[d]
    BY <1>1 DEF TypeOK, RqTypeOK, ControlTypeOK, SwitchTo
  <2>2. curr'[c] = next
    BY <1>1 DEF TypeOK, RqTypeOK, SwitchTo
  <2>3. UNCHANGED on_rq
    BY DEF SwitchTo
  <2> QED
    BY <1>1, <1>4, <2>1, <2>2, <2>3 DEF Running
<1>11. Stacks'
  BY <1>1, <1>2, <1>3, <1>4, Names DEF Stacks, TypeOK, RqTypeOK,
     ControlTypeOK, TaskTypeOK, OnStack, SwitchTo, Resume
<1>12. (ListTypeOK /\ PiExclusive /\ OpTask /\ Pending /\ QueueConsistent)'
  BY <1>1 DEF TypeOK, ListTypeOK, SwitchTo, listVars, PiExclusive, opVars,
     OpTask, Pending, QueueConsistent
<1> QED
  BY <1>5, <1>6, <1>7, <1>8, <1>9, <1>10, <1>11, <1>12 DEF IInv, TypeOK

\* on_cpu is cleared for a task whose stack is used by no other CPU.
LEMMA FinishTaskSwitchInv ==
  ASSUME IInv, NEW c \in CPU, FinishTaskSwitch(c)
  PROVE  IInv'
<1>1. /\ TypeOK /\ OpPlace /\ PiExclusive /\ OpTask /\ Pending
      /\ Newborn /\ Running /\ Stacks /\ QueueConsistent
  BY DEF IInv
<1>2. pc[c] = "finish"
  BY DEF FinishTaskSwitch
<1>3. op[c] = "none" /\ prev[c] # curr[c]
  BY <1>1, <1>2 DEF OpPlace, TypeOK, ControlTypeOK, Ops, HoldsPi
<1>4. \A d \in CPU : prev[c] \in Task /\ OnStack(d, prev[c]) => d = c
  BY <1>1, <1>2 DEF Stacks, OnStack
<1>5. TaskTypeOK'
  BY <1>1, <1>2, <1>3, <1>4 DEF TypeOK, TaskTypeOK, FinishTaskSwitch, Resume,
     SwitchedFromDead
<1>6. ControlTypeOK'
  BY <1>1, <1>2, <1>3, <1>4 DEF TypeOK, ControlTypeOK, FinishTaskSwitch,
     SwitchedFromDead, opVars
<1>7. OpPlace'
  BY <1>1, <1>2, <1>3, <1>4, Names DEF OpPlace, TypeOK, ControlTypeOK,
     RqTypeOK, FinishTaskSwitch, Resume, SwitchedFromDead, rqVars, opVars
<1>8. Newborn'
  BY <1>1, <1>2, <1>3, <1>4 DEF Newborn, TypeOK, TaskTypeOK, FinishTaskSwitch,
     SwitchedFromDead
<1>9. Running'
  BY <1>1, <1>2, <1>3, <1>4, Names DEF Running, TypeOK, RqTypeOK,
     ControlTypeOK, TaskTypeOK, FinishTaskSwitch, Resume, SwitchedFromDead,
     rqVars
<1>10. Stacks'
  BY <1>1, <1>2, <1>3, <1>4 DEF Stacks, TypeOK, RqTypeOK, ControlTypeOK,
     TaskTypeOK, OnStack, FinishTaskSwitch, Resume, SwitchedFromDead, rqVars
<1>11. (RqTypeOK /\ ListTypeOK /\ PiExclusive /\ OpTask /\ Pending /\
       QueueConsistent)'
  BY <1>1 DEF TypeOK, RqTypeOK, FinishTaskSwitch, rqVars, ListTypeOK,
     listVars, PiExclusive, opVars, OpTask, Pending, QueueConsistent
<1> QED
  BY <1>5, <1>6, <1>7, <1>8, <1>9, <1>10, <1>11 DEF IInv, TypeOK

\* The last reference is dropped.
LEMMA PutTaskStructInv ==
  ASSUME IInv, NEW c \in CPU, PutTaskStruct(c)
  PROVE  IInv'
<1>1. /\ TypeOK /\ OpPlace /\ PiExclusive /\ OpTask /\ Pending
      /\ Newborn /\ Running /\ Stacks /\ QueueConsistent
  BY DEF IInv
<1>2. pc[c] = "put"
  BY DEF PutTaskStruct
<1>3. op[c] = "none" /\ prev[c] \in Task
  BY <1>1, <1>2 DEF OpPlace, TypeOK, ControlTypeOK, Ops, HoldsPi
<1>4. TaskTypeOK'
  BY <1>1, <1>2, <1>3 DEF TypeOK, TaskTypeOK, PutTaskStruct
<1>5. ControlTypeOK'
  BY <1>1, <1>2, <1>3 DEF TypeOK, ControlTypeOK, PutTaskStruct, opVars
<1>6. OpPlace'
  BY <1>1, <1>2, <1>3, Names DEF OpPlace, TypeOK, ControlTypeOK, RqTypeOK,
     PutTaskStruct, rqVars, opVars
<1>7. Running'
  BY <1>1, <1>2, <1>3, Names DEF Running, TypeOK, RqTypeOK, ControlTypeOK,
     TaskTypeOK, PutTaskStruct, rqVars
<1>8. Stacks'
  BY <1>1, <1>2, <1>3 DEF Stacks, TypeOK, RqTypeOK, ControlTypeOK, TaskTypeOK,
     OnStack, PutTaskStruct, rqVars
<1>9. (RqTypeOK /\ ListTypeOK /\ PiExclusive /\ OpTask /\ Pending /\ Newborn
       /\ QueueConsistent)'
  BY <1>1 DEF TypeOK, RqTypeOK, PutTaskStruct, rqVars, ListTypeOK, listVars,
     PiExclusive, opVars, OpTask, Pending, Newborn, QueueConsistent
<1> QED
  BY <1>4, <1>5, <1>6, <1>7, <1>8, <1>9 DEF IInv, TypeOK

\* A wakeup begins without a lock.
LEMMA WakeUpProcessInv ==
  ASSUME IInv, NEW c \in CPU, NEW p \in Task, WakeUpProcess(c, p)
  PROVE  IInv'
<1>1. /\ TypeOK /\ OpPlace /\ PiExclusive /\ OpTask /\ Pending
      /\ Newborn /\ Running /\ Stacks /\ QueueConsistent
  BY DEF IInv
<1>2. op[c] = "none" /\ pc[c] \in {"run", "sched"}
  BY DEF WakeUpProcess, IrqsOn
<1>3. pend[c] = {}
  BY <1>1, <1>2 DEF Pending
<1>4. TaskTypeOK'
  BY <1>1, <1>2, <1>3 DEF TypeOK, TaskTypeOK, WakeUpProcess
<1>5. RqTypeOK'
  BY <1>1, <1>2, <1>3 DEF TypeOK, RqTypeOK, WakeUpProcess, EndHalt
<1>6. ControlTypeOK'
  BY <1>1, <1>2, <1>3 DEF TypeOK, ControlTypeOK, Ops, HoldsPi, WakeUpProcess,
     Begin, pcVars
<1>7. OpPlace'
  BY <1>1, <1>2, <1>3, Names DEF OpPlace, TypeOK, ControlTypeOK, RqTypeOK,
     WakeUpProcess, Begin, pcVars
<1>8. PiExclusive'
  BY <1>1, <1>2, <1>3 DEF PiExclusive, TypeOK, ControlTypeOK, HoldsPi,
     WakeUpProcess, Begin
<1>9. OpTask'
  BY <1>1, <1>2, <1>3 DEF OpTask, TypeOK, ControlTypeOK, TaskTypeOK,
     ListTypeOK, WakeUpProcess, Begin, listVars
<1>10. Pending'
  BY <1>1, <1>2, <1>3 DEF Pending, TypeOK, ListTypeOK, TaskTypeOK,
     ControlTypeOK, WakeUpProcess, Begin, listVars
<1>11. (ListTypeOK /\ Newborn /\ Running /\ Stacks /\ QueueConsistent)'
  BY <1>1 DEF TypeOK, ListTypeOK, WakeUpProcess, listVars, Newborn, Running,
     pcVars, Stacks, OnStack, QueueConsistent
<1> QED
  BY <1>4, <1>5, <1>6, <1>7, <1>8, <1>9, <1>10, <1>11 DEF IInv, TypeOK

\* try_to_wake_up gets pi_lock: whoever had it is gone.
LEMMA TtwuLockInv ==
  ASSUME IInv, NEW c \in CPU, TtwuLock(c)
  PROVE  IInv'
<1>1. /\ TypeOK /\ OpPlace /\ PiExclusive /\ OpTask /\ Pending
      /\ Newborn /\ Running /\ Stacks /\ QueueConsistent
  BY DEF IInv
<1>2. op[c] = "w_pi"
  BY DEF TtwuLock
<1>3. arg[c] \in Task
  BY <1>1, <1>2 DEF OpPlace
<1>4. pend[c] = {}
  BY <1>1, <1>2 DEF Pending
<1>5. \A d \in CPU : op[d] \in HoldsPi => arg[d] # arg[c]
  BY DEF TtwuLock, PiFree
<1>6. ControlTypeOK'
  BY <1>1, <1>2, <1>3, <1>4, <1>5 DEF TypeOK, ControlTypeOK, Ops, HoldsPi,
     TtwuLock, At, End, Begin, pcVars
<1>7. OpPlace'
  BY <1>1, <1>2, <1>3, <1>4, <1>5, Names DEF OpPlace, TypeOK, ControlTypeOK,
     RqTypeOK, TtwuLock, At, End, Begin, rqVars, pcVars
<1>8. PiExclusive'
  BY <1>1, <1>2, <1>3, <1>4, <1>5 DEF PiExclusive, TypeOK, ControlTypeOK,
     HoldsPi, TtwuLock, At, End, Begin
<1>9. OpTask'
  BY <1>1, <1>2, <1>3, <1>4, <1>5 DEF OpTask, TypeOK, ControlTypeOK,
     TaskTypeOK, ListTypeOK, Asleep, TtwuLock, At, End, Begin, taskVars,
     listVars
<1>10. Pending'
  <2>1. op'[c] # "p_act" /\ \A d \in CPU \ {c} : op'[d] = op[d]
    BY <1>1 DEF TypeOK, ControlTypeOK, TtwuLock, Begin, End, At
  <2>2. UNCHANGED <<state, on_rq, cpu, wake_list, pend>>
    BY DEF TtwuLock, taskVars, listVars
  <2> QED
    BY <1>1, <1>4, <2>1, <2>2 DEF Pending
<1>11. (TaskTypeOK /\ RqTypeOK /\ ListTypeOK /\ Newborn /\ Running /\ Stacks
       /\ QueueConsistent)'
  BY <1>1 DEF TypeOK, TaskTypeOK, TtwuLock, taskVars, RqTypeOK, rqVars,
     ListTypeOK, listVars, Newborn, Running, pcVars, Stacks, OnStack,
     QueueConsistent
<1> QED
  BY <1>6, <1>7, <1>8, <1>9, <1>10, <1>11 DEF IInv, TypeOK

\* ttwu_remote: with both locks, a queued task becomes runnable; one that has
\* left its queue meanwhile is asleep.
LEMMA TtwuRemoteInv ==
  ASSUME IInv, NEW c \in CPU, TtwuRemote(c)
  PROVE  IInv'
<1>1. /\ TypeOK /\ OpPlace /\ PiExclusive /\ OpTask /\ Pending
      /\ Newborn /\ Running /\ Stacks /\ QueueConsistent
  BY DEF IInv
<1>2. op[c] = "w_rq"
  BY DEF TtwuRemote
<1>3. arg[c] \in Task
  BY <1>1, <1>2 DEF OpPlace
<1>4. pend[c] = {}
  BY <1>1, <1>2 DEF Pending
<1>5. cpu[arg[c]] \in CPU
  BY <1>1, <1>3 DEF TypeOK, TaskTypeOK
<1>6. \A d \in CPU : d # c /\ op[d] \in HoldsPi => arg[d] # arg[c]
  BY <1>1, <1>2 DEF PiExclusive, HoldsPi
<1>7. TaskTypeOK'
  BY <1>1, <1>2, <1>3, <1>4, <1>5, <1>6 DEF TypeOK, TaskTypeOK, TtwuRemote
<1>8. RqTypeOK'
  BY <1>1, <1>2, <1>3, <1>4, <1>5, <1>6 DEF TypeOK, RqTypeOK, TtwuRemote,
     CheckPreemptCurr, ReschedCurr
<1>9. ListTypeOK'
  BY <1>1, <1>2, <1>3, <1>4, <1>5, <1>6 DEF TypeOK, ListTypeOK, TtwuRemote,
     CheckPreemptCurr, ReschedCurr
<1>10. ControlTypeOK'
  BY <1>1, <1>2, <1>3, <1>4, <1>5, <1>6 DEF TypeOK, ControlTypeOK, Ops,
     HoldsPi, TtwuRemote, At, End, Begin, pcVars
<1>11. OpPlace'
  BY <1>1, <1>2, <1>3, <1>4, <1>5, <1>6, Names DEF OpPlace, TypeOK,
     ControlTypeOK, RqTypeOK, TtwuRemote, At, End, Begin, pcVars
<1>12. PiExclusive'
  BY <1>1, <1>2, <1>3, <1>4, <1>5, <1>6 DEF PiExclusive, TypeOK,
     ControlTypeOK, HoldsPi, TtwuRemote, At, End, Begin
<1>13. OpTask'
  <2>1. op'[c] \in {"none", "w_spin"} /\ \A d \in CPU \ {c} : op'[d] = op[d]
        /\ arg'[d] = arg[d]
    BY <1>1 DEF TypeOK, ControlTypeOK, TtwuRemote, Begin, End, At
  <2>2. \A p \in Task \ {arg[c]} : state'[p] = state[p] /\ on_rq'[p] =
        on_rq[p]
    BY <1>1 DEF TypeOK, TaskTypeOK, TtwuRemote
  <2>3. UNCHANGED <<wake_list, pend, life>>
    BY DEF TtwuRemote
  <2>4. \A d \in CPU : op[d] \notin {"none", "p_act"} => arg[d] \in Task
    BY <1>1 DEF OpPlace
  <2>5. op'[c] = "w_spin" => arg'[c] = arg[c] /\ state'[arg[c]] =
        state[arg[c]] /\ on_rq'[arg[c]] = "no"
    BY <1>1, <1>2, <1>3 DEF TypeOK, ControlTypeOK, TaskTypeOK, TtwuRemote,
       Begin, End, At
  <2>6. state[arg[c]] \notin {"WAKING", "DEAD"} /\ (on_rq[arg[c]] = "no" =>
        state[arg[c]] \in Asleep)
    BY <1>1, <1>2 DEF OpTask
  <2>7. op'[c] = "w_spin" => on_rq[arg[c]] = "no"
    BY <1>1, <1>2, <1>3 DEF TypeOK, ControlTypeOK, TaskTypeOK, TtwuRemote,
       Begin, End, At
  <2> QED
    BY <1>1, <1>6, <2>1, <2>2, <2>3, <2>4, <2>5, <2>6, <2>7 DEF OpTask,
       HoldsPi
<1>14. Pending'
  <2>1. op'[c] # "p_act" /\ \A d \in CPU \ {c} : op'[d] = op[d]
    BY <1>1 DEF TypeOK, ControlTypeOK, TtwuRemote, Begin, End, At
  <2>2. UNCHANGED <<on_rq, cpu, wake_list, pend>>
    BY DEF TtwuRemote
  <2>3. \A p \in Task : on_rq[p] = "no" => state'[p] = state[p]
    BY <1>1 DEF TypeOK, TaskTypeOK, TtwuRemote
  <2>4. \A d \in CPU : wake_list[d] \cup pend[d] \subseteq Task
    BY <1>1 DEF TypeOK, ListTypeOK
  <2> QED
    BY <1>1, <1>4, <2>1, <2>2, <2>3, <2>4 DEF Pending
<1>15. Newborn'
  BY <1>1, <1>2, <1>3, <1>4, <1>5, <1>6 DEF Newborn, TypeOK, TaskTypeOK,
     TtwuRemote
<1>16. (Running /\ Stacks /\ QueueConsistent)'
  BY <1>1 DEF Running, TtwuRemote, pcVars, Stacks, OnStack, QueueConsistent
<1> QED
  BY <1>7, <1>8, <1>9, <1>10, <1>11, <1>12, <1>13, <1>14, <1>15, <1>16 DEF
     IInv, TypeOK

\* on_cpu is clear, so no CPU uses the stack of the task that is placed.
LEMMA TtwuWakingInv ==
  ASSUME IInv, NEW c \in CPU, TtwuWaking(c)
  PROVE  IInv'
<1>1. /\ TypeOK /\ OpPlace /\ PiExclusive /\ OpTask /\ Pending
      /\ Newborn /\ Running /\ Stacks /\ QueueConsistent
  BY DEF IInv
<1>2. op[c] = "w_spin"
  BY DEF TtwuWaking
<1>3. arg[c] \in Task
  BY <1>1, <1>2 DEF OpPlace
<1>4. pend[c] = {}
  BY <1>1, <1>2 DEF Pending
<1>5. \A d \in CPU : d # c /\ op[d] \in HoldsPi => arg[d] # arg[c]
  BY <1>1, <1>2 DEF PiExclusive, HoldsPi
<1>6. on_rq[arg[c]] = "no" /\ state[arg[c]] \in Asleep
  BY <1>1, <1>2 DEF OpTask
<1>7. \A d \in CPU : arg[c] \notin wake_list[d] \cup pend[d]
  BY <1>1, <1>6 DEF Pending, Asleep
<1>8. life[arg[c]] = "live"
  BY <1>1, <1>3, <1>6 DEF Newborn, Asleep
<1>9. \A w \in Worker : w \in Task /\ allowed[w] = {Home[w]}
  BY <1>1, WorkerType DEF Newborn
<1>10. TaskTypeOK'
  BY <1>1, <1>2, <1>3, <1>4, <1>5, <1>6, <1>7, <1>8, <1>9 DEF TypeOK,
     TaskTypeOK, TtwuWaking, SelectTaskRq, ContributesToLoad, SwitchedOut
<1>11. ControlTypeOK'
  BY <1>1, <1>2, <1>3, <1>4, <1>5, <1>6, <1>7, <1>8, <1>9 DEF TypeOK,
     ControlTypeOK, Ops, HoldsPi, TtwuWaking, SelectTaskRq, At, SwitchedOut,
     pcVars
<1>12. OpPlace'
  BY <1>1, <1>2, <1>3, <1>4, <1>5, <1>6, <1>7, <1>8, <1>9, Names DEF OpPlace,
     TypeOK, ControlTypeOK, RqTypeOK, TtwuWaking, SelectTaskRq, At,
     SwitchedOut, rqVars, pcVars
<1>13. PiExclusive'
  BY <1>1, <1>2, <1>3, <1>4, <1>5, <1>6, <1>7, <1>8, <1>9 DEF PiExclusive,
     TypeOK, ControlTypeOK, HoldsPi, TtwuWaking, SelectTaskRq, At, SwitchedOut
<1>14. OpTask'
  BY <1>1, <1>2, <1>3, <1>4, <1>5, <1>6, <1>7, <1>8, <1>9 DEF OpTask, TypeOK,
     ControlTypeOK, TaskTypeOK, ListTypeOK, HoldsPi, TtwuWaking, SelectTaskRq,
     At, ContributesToLoad, SwitchedOut, listVars
<1>15. Pending'
  BY <1>1, <1>2, <1>3, <1>4, <1>5, <1>6, <1>7, <1>8, <1>9 DEF Pending, TypeOK,
     ListTypeOK, TaskTypeOK, ControlTypeOK, TtwuWaking, SelectTaskRq, At,
     ContributesToLoad, SwitchedOut, listVars
<1>16. Newborn'
  BY <1>1, <1>2, <1>3, <1>4, <1>5, <1>6, <1>7, <1>8, <1>9 DEF Newborn, TypeOK,
     TaskTypeOK, TtwuWaking, SelectTaskRq, ContributesToLoad, SwitchedOut
<1>17. Stacks'
  BY <1>1, <1>2, <1>3, <1>4, <1>5, <1>6, <1>7, <1>8, <1>9 DEF Stacks, TypeOK,
     RqTypeOK, ControlTypeOK, TaskTypeOK, OnStack, TtwuWaking, SelectTaskRq,
     SwitchedOut, rqVars, pcVars
<1>18. QueueConsistent'
  BY <1>1, <1>2, <1>3, <1>4, <1>5, <1>6, <1>7, <1>8, <1>9 DEF QueueConsistent,
     TypeOK, RqTypeOK, TaskTypeOK, TtwuWaking, SelectTaskRq, SwitchedOut,
     rqVars
<1>19. (RqTypeOK /\ ListTypeOK /\ Running)'
  BY <1>1 DEF TypeOK, RqTypeOK, TtwuWaking, rqVars, ListTypeOK, listVars,
     Running, pcVars
<1> QED
  BY <1>10, <1>11, <1>12, <1>13, <1>14, <1>15, <1>16, <1>17, <1>18, <1>19 DEF
     IInv, TypeOK

\* The task being woken is on no wake_list and enters the queue of its cpu.
LEMMA TtwuQueueLocalInv ==
  ASSUME IInv, NEW c \in CPU, TtwuQueueLocal(c)
  PROVE  IInv'
<1>1. /\ TypeOK /\ OpPlace /\ PiExclusive /\ OpTask /\ Pending
      /\ Newborn /\ Running /\ Stacks /\ QueueConsistent
  BY DEF IInv
<1>2. op[c] = "w_queue"
  BY DEF TtwuQueueLocal
<1>3. arg[c] \in Task
  BY <1>1, <1>2 DEF OpPlace
<1>4. pend[c] = {}
  BY <1>1, <1>2 DEF Pending
<1>5. cpu[arg[c]] \in CPU
  BY <1>1, <1>3 DEF TypeOK, TaskTypeOK
<1>6. \A d \in CPU : d # c /\ op[d] \in HoldsPi => arg[d] # arg[c]
  BY <1>1, <1>2 DEF PiExclusive, HoldsPi
<1>7. on_rq[arg[c]] = "no" /\ state[arg[c]] = "WAKING" /\ \A d \in CPU :
       arg[c] \notin wake_list[d] \cup pend[d]
  BY <1>1, <1>2 DEF OpTask
<1>8. life[arg[c]] = "live"
  BY <1>1, <1>3, <1>7 DEF Newborn
<1>9. TaskTypeOK'
  BY <1>1, <1>2, <1>3, <1>4, <1>5, <1>6, <1>7, <1>8 DEF TypeOK, TaskTypeOK,
     TtwuQueueLocal, TtwuDoActivate
<1>10. RqTypeOK'
  BY <1>1, <1>2, <1>3, <1>4, <1>5, <1>6, <1>7, <1>8, DecrementType DEF TypeOK,
     RqTypeOK, TtwuQueueLocal, TtwuDoActivate, CheckPreemptCurr, ReschedCurr
<1>11. ListTypeOK'
  BY <1>1, <1>2, <1>3, <1>4, <1>5, <1>6, <1>7, <1>8 DEF TypeOK, ListTypeOK,
     TtwuQueueLocal, TtwuDoActivate, CheckPreemptCurr, ReschedCurr
<1>12. ControlTypeOK'
  BY <1>1, <1>2, <1>3, <1>4, <1>5, <1>6, <1>7, <1>8 DEF TypeOK, ControlTypeOK,
     Ops, HoldsPi, TtwuQueueLocal, TtwuDoActivate, End, Begin, pcVars
<1>13. OpPlace'
  BY <1>1, <1>2, <1>3, <1>4, <1>5, <1>6, <1>7, <1>8, Names DEF OpPlace,
     TypeOK, ControlTypeOK, RqTypeOK, TtwuQueueLocal, TtwuDoActivate, End,
     Begin, pcVars
<1>14. PiExclusive'
  BY <1>1, <1>2, <1>3, <1>4, <1>5, <1>6, <1>7, <1>8 DEF PiExclusive, TypeOK,
     ControlTypeOK, HoldsPi, TtwuQueueLocal, TtwuDoActivate, End, Begin
<1>15. OpTask'
  <2>1. op'[c] = "none" /\ \A d \in CPU \ {c} : op'[d] = op[d] /\ arg'[d] =
        arg[d]
    BY <1>1 DEF TypeOK, ControlTypeOK, TtwuQueueLocal, Begin, End
  <2>2. \A p \in Task \ {arg[c]} : state'[p] = state[p] /\ on_rq'[p] =
        on_rq[p]
    BY <1>1 DEF TypeOK, TaskTypeOK, TtwuQueueLocal, TtwuDoActivate
  <2>3. UNCHANGED <<wake_list, pend, life>>
    BY DEF TtwuQueueLocal, TtwuDoActivate
  <2>4. \A d \in CPU : op[d] \notin {"none", "p_act"} => arg[d] \in Task
    BY <1>1 DEF OpPlace
  <2> QED
    BY <1>1, <1>6, <2>1, <2>2, <2>3, <2>4 DEF OpTask, HoldsPi
<1>16. Pending'
  BY <1>1, <1>2, <1>3, <1>4, <1>5, <1>6, <1>7, <1>8 DEF Pending, TypeOK,
     ListTypeOK, TaskTypeOK, ControlTypeOK, TtwuQueueLocal, TtwuDoActivate,
     End, Begin
<1>17. Newborn'
  BY <1>1, <1>2, <1>3, <1>4, <1>5, <1>6, <1>7, <1>8 DEF Newborn, TypeOK,
     TaskTypeOK, TtwuQueueLocal, TtwuDoActivate
<1>18. Running'
  BY <1>1, <1>2, <1>3, <1>4, <1>5, <1>6, <1>7, <1>8, Names DEF Running,
     TypeOK, RqTypeOK, ControlTypeOK, TaskTypeOK, TtwuQueueLocal,
     TtwuDoActivate, pcVars
<1>19. QueueConsistent'
  BY <1>1, <1>2, <1>3, <1>4, <1>5, <1>6, <1>7, <1>8 DEF QueueConsistent,
     TypeOK, RqTypeOK, TaskTypeOK, TtwuQueueLocal, TtwuDoActivate
<1>20. (Stacks)'
  BY <1>1 DEF Stacks, TtwuQueueLocal, TtwuDoActivate, pcVars, OnStack
<1> QED
  BY <1>9, <1>10, <1>11, <1>12, <1>13, <1>14, <1>15, <1>16, <1>17, <1>18,
     <1>19, <1>20 DEF IInv, TypeOK

\* The task being woken enters one wake_list.
LEMMA TtwuQueueRemoteInv ==
  ASSUME IInv, NEW c \in CPU, TtwuQueueRemote(c)
  PROVE  IInv'
<1>1. /\ TypeOK /\ OpPlace /\ PiExclusive /\ OpTask /\ Pending
      /\ Newborn /\ Running /\ Stacks /\ QueueConsistent
  BY DEF IInv
<1>2. op[c] = "w_queue"
  BY DEF TtwuQueueRemote
<1>3. arg[c] \in Task
  BY <1>1, <1>2 DEF OpPlace
<1>4. pend[c] = {}
  BY <1>1, <1>2 DEF Pending
<1>5. cpu[arg[c]] \in CPU
  BY <1>1, <1>3 DEF TypeOK, TaskTypeOK
<1>6. \A d \in CPU : d # c /\ op[d] \in HoldsPi => arg[d] # arg[c]
  BY <1>1, <1>2 DEF PiExclusive, HoldsPi
<1>7. on_rq[arg[c]] = "no" /\ state[arg[c]] = "WAKING" /\ \A d \in CPU :
       arg[c] \notin wake_list[d] \cup pend[d]
  BY <1>1, <1>2 DEF OpTask
<1>8. ListTypeOK'
  BY <1>1, <1>2, <1>3, <1>4, <1>5, <1>6, <1>7 DEF TypeOK, ListTypeOK,
     TtwuQueueRemote
<1>9. ControlTypeOK'
  BY <1>1, <1>2, <1>3, <1>4, <1>5, <1>6, <1>7 DEF TypeOK, ControlTypeOK, Ops,
     HoldsPi, TtwuQueueRemote, End, Begin, pcVars
<1>10. OpPlace'
  BY <1>1, <1>2, <1>3, <1>4, <1>5, <1>6, <1>7, Names DEF OpPlace, TypeOK,
     ControlTypeOK, RqTypeOK, TtwuQueueRemote, End, Begin, rqVars, pcVars
<1>11. PiExclusive'
  BY <1>1, <1>2, <1>3, <1>4, <1>5, <1>6, <1>7 DEF PiExclusive, TypeOK,
     ControlTypeOK, HoldsPi, TtwuQueueRemote, End, Begin
<1>12. OpTask'
  <2>1. op'[c] \in {"none", "w_ipi"} /\ \A d \in CPU \ {c} : op'[d] = op[d] /\
        arg'[d] = arg[d]
    BY <1>1 DEF TypeOK, ControlTypeOK, TtwuQueueRemote, Begin, End
  <2>2. \A d \in CPU : wake_list'[d] \subseteq wake_list[d] \cup {arg[c]}
    BY <1>1, <1>5 DEF TypeOK, ListTypeOK, TtwuQueueRemote
  <2>3. UNCHANGED <<state, on_rq, pend, life>>
    BY DEF TtwuQueueRemote, taskVars
  <2> QED
    BY <1>1, <1>6, <2>1, <2>2, <2>3 DEF OpTask, HoldsPi
<1>13. Pending'
  BY <1>1, <1>2, <1>3, <1>4, <1>5, <1>6, <1>7 DEF Pending, TypeOK, ListTypeOK,
     TaskTypeOK, ControlTypeOK, TtwuQueueRemote, End, Begin, taskVars
<1>14. (TaskTypeOK /\ RqTypeOK /\ Newborn /\ Running /\ Stacks /\
       QueueConsistent)'
  BY <1>1 DEF TypeOK, TaskTypeOK, TtwuQueueRemote, taskVars, RqTypeOK, rqVars,
     Newborn, Running, pcVars, Stacks, OnStack, QueueConsistent
<1> QED
  BY <1>8, <1>9, <1>10, <1>11, <1>12, <1>13, <1>14 DEF IInv, TypeOK

\* The notification changes flags only.
LEMMA TtwuNotifyInv ==
  ASSUME IInv, NEW c \in CPU, TtwuNotify(c)
  PROVE  IInv'
<1>1. /\ TypeOK /\ OpPlace /\ PiExclusive /\ OpTask /\ Pending
      /\ Newborn /\ Running /\ Stacks /\ QueueConsistent
  BY DEF IInv
<1>2. op[c] = "w_ipi"
  BY DEF TtwuNotify
<1>3. pend[c] = {}
  BY <1>1, <1>2 DEF Pending
<1>4. RqTypeOK'
  BY <1>1, <1>2, <1>3 DEF TypeOK, RqTypeOK, TtwuNotify, Polling
<1>5. ListTypeOK'
  BY <1>1, <1>2, <1>3 DEF TypeOK, ListTypeOK, TtwuNotify
<1>6. ControlTypeOK'
  BY <1>1, <1>2, <1>3 DEF TypeOK, ControlTypeOK, Ops, HoldsPi, TtwuNotify,
     End, Begin, pcVars
<1>7. OpPlace'
  BY <1>1, <1>2, <1>3, Names DEF OpPlace, TypeOK, ControlTypeOK, RqTypeOK,
     TtwuNotify, End, Begin, pcVars
<1>8. PiExclusive'
  BY <1>1, <1>2, <1>3 DEF PiExclusive, TypeOK, ControlTypeOK, HoldsPi,
     TtwuNotify, End, Begin
<1>9. OpTask'
  BY <1>1, <1>2, <1>3 DEF OpTask, TypeOK, ControlTypeOK, TaskTypeOK,
     ListTypeOK, TtwuNotify, End, Begin, taskVars
<1>10. Pending'
  BY <1>1, <1>2, <1>3 DEF Pending, TypeOK, ListTypeOK, TaskTypeOK,
     ControlTypeOK, TtwuNotify, End, Begin, taskVars
<1>11. (TaskTypeOK /\ Newborn /\ Running /\ Stacks /\ QueueConsistent)'
  BY <1>1 DEF TypeOK, TaskTypeOK, TtwuNotify, taskVars, Newborn, Running,
     pcVars, Stacks, OnStack, QueueConsistent
<1> QED
  BY <1>4, <1>5, <1>6, <1>7, <1>8, <1>9, <1>10, <1>11 DEF IInv, TypeOK

\* The interrupt takes over the whole wake_list.
LEMMA SchedulerIpiInv ==
  ASSUME IInv, NEW c \in CPU, SchedulerIpi(c)
  PROVE  IInv'
<1>1. /\ TypeOK /\ OpPlace /\ PiExclusive /\ OpTask /\ Pending
      /\ Newborn /\ Running /\ Stacks /\ QueueConsistent
  BY DEF IInv
<1>2. op[c] = "none" /\ pc[c] \in {"run", "sched"}
  BY DEF SchedulerIpi, IrqsOn
<1>3. pend[c] = {}
  BY <1>1, <1>2 DEF Pending
<1>4. RqTypeOK'
  BY <1>1, <1>2, <1>3 DEF TypeOK, RqTypeOK, SchedulerIpi, EndHalt,
     TakeWakeList
<1>5. ListTypeOK'
  BY <1>1, <1>2, <1>3 DEF TypeOK, ListTypeOK, SchedulerIpi, TakeWakeList
<1>6. ControlTypeOK'
  BY <1>1, <1>2, <1>3 DEF TypeOK, ControlTypeOK, Ops, HoldsPi, SchedulerIpi,
     TakeWakeList, Begin, pcVars
<1>7. OpPlace'
  BY <1>1, <1>2, <1>3, Names DEF OpPlace, TypeOK, ControlTypeOK, RqTypeOK,
     SchedulerIpi, TakeWakeList, Begin, pcVars
<1>8. PiExclusive'
  BY <1>1, <1>2, <1>3 DEF PiExclusive, TypeOK, ControlTypeOK, HoldsPi,
     SchedulerIpi, TakeWakeList, Begin
<1>9. OpTask'
  BY <1>1, <1>2, <1>3 DEF OpTask, TypeOK, ControlTypeOK, TaskTypeOK,
     ListTypeOK, SchedulerIpi, TakeWakeList, Begin, taskVars
<1>10. Pending'
  BY <1>1, <1>2, <1>3 DEF Pending, TypeOK, ListTypeOK, TaskTypeOK,
     ControlTypeOK, SchedulerIpi, TakeWakeList, Begin, taskVars
<1>11. (TaskTypeOK /\ Newborn /\ Running /\ Stacks /\ QueueConsistent)'
  BY <1>1 DEF TypeOK, TaskTypeOK, SchedulerIpi, taskVars, Newborn, Running,
     pcVars, Stacks, OnStack, QueueConsistent
<1> QED
  BY <1>4, <1>5, <1>6, <1>7, <1>8, <1>9, <1>10, <1>11 DEF IInv, TypeOK

\* The tasks taken off a wake_list are being woken on this CPU, and no
\* operation that holds a pi_lock is about one of them.
LEMMA SchedTtwuPendingInv ==
  ASSUME IInv, NEW c \in CPU, SchedTtwuPending(c)
  PROVE  IInv'
<1>1. /\ TypeOK /\ OpPlace /\ PiExclusive /\ OpTask /\ Pending
      /\ Newborn /\ Running /\ Stacks /\ QueueConsistent
  BY DEF IInv
<1>2. op[c] = "p_act"
  BY DEF SchedTtwuPending
<1>3. \A p \in pend[c] : p \in Task /\ state[p] = "WAKING" /\ on_rq[p] = "no"
       /\ cpu[p] = c
  BY <1>1 DEF Pending, TypeOK, ListTypeOK
<1>4. \A p \in pend[c] : life[p] = "live"
  BY <1>1, <1>3 DEF Newborn
<1>5. \A d \in CPU : op[d] = "w_queue" => arg[d] \notin pend[c]
  BY <1>1 DEF OpTask
<1>6. TaskTypeOK'
  BY <1>1, <1>2, <1>3, <1>4, <1>5 DEF TypeOK, TaskTypeOK, SchedTtwuPending,
     TtwuDoActivate
<1>7. RqTypeOK'
  BY <1>1, <1>2, <1>3, <1>4, <1>5, DecrementType DEF TypeOK, RqTypeOK,
     SchedTtwuPending, TtwuDoActivate, CheckPreemptCurr, ReschedCurr
<1>8. ListTypeOK'
  BY <1>1, <1>2, <1>3, <1>4, <1>5 DEF TypeOK, ListTypeOK, SchedTtwuPending,
     TtwuDoActivate, CheckPreemptCurr, ReschedCurr
<1>9. ControlTypeOK'
  BY <1>1, <1>2, <1>3, <1>4, <1>5 DEF TypeOK, ControlTypeOK, Ops, HoldsPi,
     SchedTtwuPending, TtwuDoActivate, At, pcVars
<1>10. OpPlace'
  BY <1>1, <1>2, <1>3, <1>4, <1>5, Names DEF OpPlace, TypeOK, ControlTypeOK,
     RqTypeOK, SchedTtwuPending, TtwuDoActivate, At, pcVars
<1>11. PiExclusive'
  BY <1>1, <1>2, <1>3, <1>4, <1>5 DEF PiExclusive, TypeOK, ControlTypeOK,
     HoldsPi, SchedTtwuPending, TtwuDoActivate, At
<1>12. OpTask'
  <2>1. op'[c] \in {"none", "m_pi"} /\ arg' = arg /\ \A d \in CPU \ {c} :
        op'[d] = op[d]
    BY <1>1 DEF TypeOK, ControlTypeOK, SchedTtwuPending, At
  <2>2. \A p \in Task \ pend[c] : state'[p] = state[p] /\ on_rq'[p] = on_rq[p]
    BY <1>1 DEF TypeOK, TaskTypeOK, SchedTtwuPending, TtwuDoActivate
  <2>3. \A d \in CPU : wake_list'[d] = wake_list[d] /\ pend'[d] \subseteq
        pend[d]
    BY <1>1 DEF TypeOK, ListTypeOK, SchedTtwuPending, TtwuDoActivate
  <2>4. UNCHANGED life
    BY DEF SchedTtwuPending, TtwuDoActivate
  <2>5. \A d \in CPU : op[d] \notin {"none", "p_act"} => arg[d] \in Task
    BY <1>1 DEF OpPlace
  <2>6. \A d \in CPU : op[d] \in {"w_rq", "w_spin", "w_queue", "m_enq"} =>
        arg[d] \notin pend[c]
    BY <1>1, <1>3 DEF OpTask, Asleep
  <2> QED
    BY <1>1, <2>1, <2>2, <2>3, <2>4, <2>5, <2>6 DEF OpTask
<1>13. Pending'
  BY <1>1, <1>2, <1>3, <1>4, <1>5 DEF Pending, TypeOK, ListTypeOK, TaskTypeOK,
     ControlTypeOK, SchedTtwuPending, TtwuDoActivate, At
<1>14. Newborn'
  BY <1>1, <1>2, <1>3, <1>4, <1>5 DEF Newborn, TypeOK, TaskTypeOK,
     SchedTtwuPending, TtwuDoActivate
<1>15. Running'
  BY <1>1, <1>2, <1>3, <1>4, <1>5, Names DEF Running, TypeOK, RqTypeOK,
     ControlTypeOK, TaskTypeOK, SchedTtwuPending, TtwuDoActivate, pcVars
<1>16. QueueConsistent'
  BY <1>1, <1>2, <1>3, <1>4, <1>5 DEF QueueConsistent, TypeOK, RqTypeOK,
     TaskTypeOK, SchedTtwuPending, TtwuDoActivate
<1>17. (Stacks)'
  BY <1>1 DEF Stacks, SchedTtwuPending, TtwuDoActivate, pcVars, OnStack
<1> QED
  BY <1>6, <1>7, <1>8, <1>9, <1>10, <1>11, <1>12, <1>13, <1>14, <1>15, <1>16,
     <1>17 DEF IInv, TypeOK

\* The steps of the idle loop.
LEMMA IdleStepInv ==
  ASSUME IInv, NEW c \in CPU, NEW from, NEW to \in {"poll", "exit", "loop",
         "clr", "hlt"}, UNCHANGED <<listVars, opVars>>, IdleStep(c, from, to)
  PROVE  IInv'
<1>1. /\ TypeOK /\ OpPlace /\ PiExclusive /\ OpTask /\ Pending
      /\ Newborn /\ Running /\ Stacks /\ QueueConsistent
  BY DEF IInv
<1>2. RqTypeOK'
  BY <1>1 DEF TypeOK, RqTypeOK, IdleStep
<1>3. (TaskTypeOK /\ ListTypeOK /\ ControlTypeOK /\ OpPlace /\ PiExclusive /\
       OpTask /\ Pending /\ Newborn /\ Running /\ Stacks /\ QueueConsistent)'
  BY <1>1 DEF TypeOK, TaskTypeOK, IdleStep, taskVars, ListTypeOK, listVars,
     ControlTypeOK, pcVars, opVars, OpPlace, PiExclusive, OpTask, Pending,
     Newborn, Running, Stacks, OnStack, QueueConsistent
<1> QED
  BY <1>2, <1>3 DEF IInv, TypeOK

\* The idle loop takes over the wake_list before it calls __schedule.
LEMMA IdleScheduleInv ==
  ASSUME IInv, NEW c \in CPU, IdleSchedule(c)
  PROVE  IInv'
<1>1. /\ TypeOK /\ OpPlace /\ PiExclusive /\ OpTask /\ Pending
      /\ Newborn /\ Running /\ Stacks /\ QueueConsistent
  BY DEF IInv
<1>2. op[c] = "none" /\ pc[c] = "run"
  BY DEF IdleSchedule
<1>3. pend[c] = {}
  BY <1>1, <1>2 DEF Pending
<1>4. RqTypeOK'
  BY <1>1, <1>2, <1>3 DEF TypeOK, RqTypeOK, IdleSchedule, TakeWakeList
<1>5. ListTypeOK'
  BY <1>1, <1>2, <1>3 DEF TypeOK, ListTypeOK, IdleSchedule, TakeWakeList
<1>6. ControlTypeOK'
  BY <1>1, <1>2, <1>3 DEF TypeOK, ControlTypeOK, Ops, HoldsPi, IdleSchedule,
     TakeWakeList, Begin
<1>7. OpPlace'
  BY <1>1, <1>2, <1>3, Names DEF OpPlace, TypeOK, ControlTypeOK, RqTypeOK,
     IdleSchedule, TakeWakeList, Begin
<1>8. PiExclusive'
  BY <1>1, <1>2, <1>3 DEF PiExclusive, TypeOK, ControlTypeOK, HoldsPi,
     IdleSchedule, TakeWakeList, Begin
<1>9. OpTask'
  BY <1>1, <1>2, <1>3 DEF OpTask, TypeOK, ControlTypeOK, TaskTypeOK,
     ListTypeOK, IdleSchedule, TakeWakeList, Begin, taskVars
<1>10. Pending'
  BY <1>1, <1>2, <1>3 DEF Pending, TypeOK, ListTypeOK, TaskTypeOK,
     ControlTypeOK, IdleSchedule, TakeWakeList, Begin, taskVars
<1>11. Running'
  BY <1>1, <1>2, <1>3, Names DEF Running, TypeOK, RqTypeOK, ControlTypeOK,
     TaskTypeOK, IdleSchedule, TakeWakeList, taskVars
<1>12. Stacks'
  BY <1>1, <1>2, <1>3 DEF Stacks, TypeOK, RqTypeOK, ControlTypeOK, TaskTypeOK,
     IdleSchedule, TakeWakeList, taskVars, OnStack
<1>13. (TaskTypeOK /\ Newborn /\ QueueConsistent)'
  BY <1>1 DEF TypeOK, TaskTypeOK, IdleSchedule, taskVars, Newborn,
     QueueConsistent
<1> QED
  BY <1>4, <1>5, <1>6, <1>7, <1>8, <1>9, <1>10, <1>11, <1>12, <1>13 DEF IInv,
     TypeOK

\* A task that does not exist yet is on no queue and no stack.
LEMMA SchedForkInv ==
  ASSUME IInv, NEW c \in CPU, NEW p \in Task, SchedFork(c, p)
  PROVE  IInv'
<1>1. /\ TypeOK /\ OpPlace /\ PiExclusive /\ OpTask /\ Pending
      /\ Newborn /\ Running /\ Stacks /\ QueueConsistent
  BY DEF IInv
<1>2. op[c] = "none" /\ pc[c] = "run" /\ curr[c] \in Task /\ life[p] = "none"
  BY DEF SchedFork, InTask
<1>3. pend[c] = {}
  BY <1>1, <1>2 DEF Pending
<1>4. on_rq[p] = "no" /\ state[p] = "RUNNING" /\ ~on_cpu[p]
  BY <1>1, <1>2 DEF Newborn
<1>5. \A w \in Worker : w \in Task /\ w # p
  BY <1>1, <1>2, WorkerType DEF Newborn
<1>6. \A d \in CPU : op[d] \in {"f_pi", "f_rq"} => arg[d] # p
  BY <1>1, <1>2 DEF OpTask
<1>7. TaskTypeOK'
  BY <1>1, <1>2, <1>3, <1>4, <1>5, <1>6 DEF TypeOK, TaskTypeOK, SchedFork
<1>8. ControlTypeOK'
  BY <1>1, <1>2, <1>3, <1>4, <1>5, <1>6 DEF TypeOK, ControlTypeOK, Ops,
     HoldsPi, SchedFork, Begin, pcVars
<1>9. OpPlace'
  BY <1>1, <1>2, <1>3, <1>4, <1>5, <1>6, Names DEF OpPlace, TypeOK,
     ControlTypeOK, RqTypeOK, SchedFork, Begin, rqVars, pcVars
<1>10. PiExclusive'
  BY <1>1, <1>2, <1>3, <1>4, <1>5, <1>6 DEF PiExclusive, TypeOK,
     ControlTypeOK, HoldsPi, SchedFork, Begin
<1>11. OpTask'
  BY <1>1, <1>2, <1>3, <1>4, <1>5, <1>6 DEF OpTask, TypeOK, ControlTypeOK,
     TaskTypeOK, ListTypeOK, SchedFork, Begin, listVars
<1>12. Pending'
  BY <1>1, <1>2, <1>3, <1>4, <1>5, <1>6 DEF Pending, TypeOK, ListTypeOK,
     TaskTypeOK, ControlTypeOK, SchedFork, Begin, listVars
<1>13. Newborn'
  BY <1>1, <1>2, <1>3, <1>4, <1>5, <1>6 DEF Newborn, TypeOK, TaskTypeOK,
     SchedFork
<1>14. Stacks'
  BY <1>1, <1>2, <1>3, <1>4, <1>5, <1>6 DEF Stacks, TypeOK, RqTypeOK,
     ControlTypeOK, TaskTypeOK, OnStack, SchedFork, rqVars, pcVars
<1>15. QueueConsistent'
  BY <1>1, <1>2, <1>3, <1>4, <1>5, <1>6 DEF QueueConsistent, TypeOK, RqTypeOK,
     TaskTypeOK, SchedFork, rqVars
<1>16. (RqTypeOK /\ ListTypeOK /\ Running)'
  BY <1>1 DEF TypeOK, RqTypeOK, SchedFork, rqVars, ListTypeOK, listVars,
     Running, pcVars
<1> QED
  BY <1>7, <1>8, <1>9, <1>10, <1>11, <1>12, <1>13, <1>14, <1>15, <1>16 DEF
     IInv, TypeOK

\* A new task is placed before anybody else can see it.
LEMMA WakeUpNewPlaceInv ==
  ASSUME IInv, NEW c \in CPU, WakeUpNewPlace(c)
  PROVE  IInv'
<1>1. /\ TypeOK /\ OpPlace /\ PiExclusive /\ OpTask /\ Pending
      /\ Newborn /\ Running /\ Stacks /\ QueueConsistent
  BY DEF IInv
<1>2. op[c] = "f_pi"
  BY DEF WakeUpNewPlace
<1>3. arg[c] \in Task
  BY <1>1, <1>2 DEF OpPlace
<1>4. pend[c] = {}
  BY <1>1, <1>2 DEF Pending
<1>5. \A d \in CPU : op[d] \in HoldsPi => arg[d] # arg[c]
  BY DEF WakeUpNewPlace, PiFree
<1>6. life[arg[c]] = "forked"
  BY <1>1, <1>2 DEF OpTask
<1>7. on_rq[arg[c]] = "no" /\ state[arg[c]] = "RUNNING" /\ ~on_cpu[arg[c]]
  BY <1>1, <1>3, <1>6 DEF Newborn
<1>8. \A w \in Worker : w \in Task /\ w # arg[c]
  BY <1>1, <1>6, WorkerType DEF Newborn
<1>9. TaskTypeOK'
  BY <1>1, <1>2, <1>3, <1>4, <1>5, <1>6, <1>7, <1>8 DEF TypeOK, TaskTypeOK,
     WakeUpNewPlace, SelectTaskRq
<1>10. ControlTypeOK'
  BY <1>1, <1>2, <1>3, <1>4, <1>5, <1>6, <1>7, <1>8 DEF TypeOK, ControlTypeOK,
     Ops, HoldsPi, WakeUpNewPlace, SelectTaskRq, At, pcVars
<1>11. OpPlace'
  BY <1>1, <1>2, <1>3, <1>4, <1>5, <1>6, <1>7, <1>8, Names DEF OpPlace,
     TypeOK, ControlTypeOK, RqTypeOK, WakeUpNewPlace, SelectTaskRq, At,
     rqVars, pcVars
<1>12. PiExclusive'
  BY <1>1, <1>2, <1>3, <1>4, <1>5, <1>6, <1>7, <1>8 DEF PiExclusive, TypeOK,
     ControlTypeOK, HoldsPi, WakeUpNewPlace, SelectTaskRq, At
<1>13. OpTask'
  BY <1>1, <1>2, <1>3, <1>4, <1>5, <1>6, <1>7, <1>8 DEF OpTask, TypeOK,
     ControlTypeOK, TaskTypeOK, ListTypeOK, WakeUpNewPlace, SelectTaskRq, At,
     listVars
<1>14. Pending'
  BY <1>1, <1>2, <1>3, <1>4, <1>5, <1>6, <1>7, <1>8 DEF Pending, TypeOK,
     ListTypeOK, TaskTypeOK, ControlTypeOK, WakeUpNewPlace, SelectTaskRq, At,
     listVars
<1>15. Newborn'
  BY <1>1, <1>2, <1>3, <1>4, <1>5, <1>6, <1>7, <1>8 DEF Newborn, TypeOK,
     TaskTypeOK, WakeUpNewPlace, SelectTaskRq
<1>16. Stacks'
  BY <1>1, <1>2, <1>3, <1>4, <1>5, <1>6, <1>7, <1>8 DEF Stacks, TypeOK,
     RqTypeOK, ControlTypeOK, TaskTypeOK, OnStack, WakeUpNewPlace,
     SelectTaskRq, rqVars, pcVars
<1>17. QueueConsistent'
  BY <1>1, <1>2, <1>3, <1>4, <1>5, <1>6, <1>7, <1>8 DEF QueueConsistent,
     TypeOK, RqTypeOK, TaskTypeOK, WakeUpNewPlace, SelectTaskRq, rqVars
<1>18. (RqTypeOK /\ ListTypeOK /\ Running)'
  BY <1>1 DEF TypeOK, RqTypeOK, WakeUpNewPlace, rqVars, ListTypeOK, listVars,
     Running, pcVars
<1> QED
  BY <1>9, <1>10, <1>11, <1>12, <1>13, <1>14, <1>15, <1>16, <1>17, <1>18 DEF
     IInv, TypeOK

\* A new task enters the queue of its cpu.
LEMMA WakeUpNewTaskInv ==
  ASSUME IInv, NEW c \in CPU, WakeUpNewTask(c)
  PROVE  IInv'
<1>1. /\ TypeOK /\ OpPlace /\ PiExclusive /\ OpTask /\ Pending
      /\ Newborn /\ Running /\ Stacks /\ QueueConsistent
  BY DEF IInv
<1>2. op[c] = "f_rq"
  BY DEF WakeUpNewTask
<1>3. arg[c] \in Task
  BY <1>1, <1>2 DEF OpPlace
<1>4. pend[c] = {}
  BY <1>1, <1>2 DEF Pending
<1>5. cpu[arg[c]] \in CPU
  BY <1>1, <1>3 DEF TypeOK, TaskTypeOK
<1>6. \A d \in CPU : d # c /\ op[d] \in HoldsPi => arg[d] # arg[c]
  BY <1>1, <1>2 DEF PiExclusive, HoldsPi
<1>7. life[arg[c]] = "forked"
  BY <1>1, <1>2 DEF OpTask
<1>8. on_rq[arg[c]] = "no" /\ state[arg[c]] = "RUNNING"
  BY <1>1, <1>3, <1>7 DEF Newborn
<1>9. \A d \in CPU : d # c /\ op[d] \in {"f_pi", "f_rq"} => arg[d] # arg[c]
  BY <1>1, <1>2 DEF PiExclusive
<1>10. TaskTypeOK'
  BY <1>1, <1>2, <1>3, <1>4, <1>5, <1>6, <1>7, <1>8, <1>9 DEF TypeOK,
     TaskTypeOK, WakeUpNewTask
<1>11. RqTypeOK'
  BY <1>1, <1>2, <1>3, <1>4, <1>5, <1>6, <1>7, <1>8, <1>9 DEF TypeOK,
     RqTypeOK, WakeUpNewTask, CheckPreemptCurr, ReschedCurr
<1>12. ListTypeOK'
  BY <1>1, <1>2, <1>3, <1>4, <1>5, <1>6, <1>7, <1>8, <1>9 DEF TypeOK,
     ListTypeOK, WakeUpNewTask, CheckPreemptCurr, ReschedCurr
<1>13. ControlTypeOK'
  BY <1>1, <1>2, <1>3, <1>4, <1>5, <1>6, <1>7, <1>8, <1>9 DEF TypeOK,
     ControlTypeOK, Ops, HoldsPi, WakeUpNewTask, End, Begin, pcVars
<1>14. OpPlace'
  BY <1>1, <1>2, <1>3, <1>4, <1>5, <1>6, <1>7, <1>8, <1>9, Names DEF OpPlace,
     TypeOK, ControlTypeOK, RqTypeOK, WakeUpNewTask, End, Begin, pcVars
<1>15. PiExclusive'
  BY <1>1, <1>2, <1>3, <1>4, <1>5, <1>6, <1>7, <1>8, <1>9 DEF PiExclusive,
     TypeOK, ControlTypeOK, HoldsPi, WakeUpNewTask, End, Begin
<1>16. OpTask'
  BY <1>1, <1>2, <1>3, <1>4, <1>5, <1>6, <1>7, <1>8, <1>9 DEF OpTask, TypeOK,
     ControlTypeOK, TaskTypeOK, ListTypeOK, HoldsPi, WakeUpNewTask, End, Begin
<1>17. Pending'
  BY <1>1, <1>2, <1>3, <1>4, <1>5, <1>6, <1>7, <1>8, <1>9 DEF Pending, TypeOK,
     ListTypeOK, TaskTypeOK, ControlTypeOK, WakeUpNewTask, End, Begin
<1>18. Newborn'
  BY <1>1, <1>2, <1>3, <1>4, <1>5, <1>6, <1>7, <1>8, <1>9 DEF Newborn, TypeOK,
     TaskTypeOK, WakeUpNewTask
<1>19. Running'
  BY <1>1, <1>2, <1>3, <1>4, <1>5, <1>6, <1>7, <1>8, <1>9, Names DEF Running,
     TypeOK, RqTypeOK, ControlTypeOK, TaskTypeOK, WakeUpNewTask, pcVars
<1>20. QueueConsistent'
  BY <1>1, <1>2, <1>3, <1>4, <1>5, <1>6, <1>7, <1>8, <1>9 DEF QueueConsistent,
     TypeOK, RqTypeOK, TaskTypeOK, WakeUpNewTask
<1>21. (Stacks)'
  BY <1>1 DEF Stacks, WakeUpNewTask, pcVars, OnStack
<1> QED
  BY <1>10, <1>11, <1>12, <1>13, <1>14, <1>15, <1>16, <1>17, <1>18, <1>19,
     <1>20, <1>21 DEF IInv, TypeOK

\* A change of affinity begins without a lock.
LEMMA SchedSetaffinityInv ==
  ASSUME IInv, NEW c \in CPU, NEW p \in Task, SchedSetaffinity(c, p)
  PROVE  IInv'
<1>1. /\ TypeOK /\ OpPlace /\ PiExclusive /\ OpTask /\ Pending
      /\ Newborn /\ Running /\ Stacks /\ QueueConsistent
  BY DEF IInv
<1>2. op[c] = "none" /\ pc[c] = "run" /\ curr[c] \in Task /\ p \notin Worker
  BY DEF SchedSetaffinity, InTask
<1>3. pend[c] = {}
  BY <1>1, <1>2 DEF Pending
<1>4. ControlTypeOK'
  BY <1>1, <1>2, <1>3 DEF TypeOK, ControlTypeOK, Ops, HoldsPi,
     SchedSetaffinity, Begin, pcVars
<1>5. OpPlace'
  BY <1>1, <1>2, <1>3, Names DEF OpPlace, TypeOK, ControlTypeOK, RqTypeOK,
     SchedSetaffinity, Begin, rqVars, pcVars
<1>6. PiExclusive'
  BY <1>1, <1>2, <1>3 DEF PiExclusive, TypeOK, ControlTypeOK, HoldsPi,
     SchedSetaffinity, Begin
<1>7. OpTask'
  BY <1>1, <1>2, <1>3 DEF OpTask, TypeOK, ControlTypeOK, TaskTypeOK,
     ListTypeOK, SchedSetaffinity, Begin, taskVars, listVars
<1>8. Pending'
  BY <1>1, <1>2, <1>3 DEF Pending, TypeOK, ListTypeOK, TaskTypeOK,
     ControlTypeOK, SchedSetaffinity, Begin, taskVars, listVars
<1>9. (TaskTypeOK /\ RqTypeOK /\ ListTypeOK /\ Newborn /\ Running /\ Stacks /\
       QueueConsistent)'
  BY <1>1 DEF TypeOK, TaskTypeOK, SchedSetaffinity, taskVars, RqTypeOK,
     rqVars, ListTypeOK, listVars, Newborn, Running, pcVars, Stacks, OnStack,
     QueueConsistent
<1> QED
  BY <1>4, <1>5, <1>6, <1>7, <1>8, <1>9 DEF IInv, TypeOK

\* task_rq_lock gets pi_lock: whoever had it is gone.
LEMMA LockPiInv ==
  ASSUME IInv, NEW c \in CPU, NEW from, NEW to, <<from, to>> \in {<<"a_pi",
         "a_rq">>, <<"m_pi", "m_rq">>}, LockPi(c, from, to)
  PROVE  IInv'
<1>1. /\ TypeOK /\ OpPlace /\ PiExclusive /\ OpTask /\ Pending
      /\ Newborn /\ Running /\ Stacks /\ QueueConsistent
  BY DEF IInv
<1>2. op[c] \in {"a_pi", "m_pi"} /\ op[c] = from /\ to = IF from = "a_pi" THEN
       "a_rq" ELSE "m_rq"
  BY DEF LockPi
<1>3. pend[c] = {}
  BY <1>1, <1>2 DEF Pending
<1>4. \A d \in CPU : op[d] \in HoldsPi => arg[d] # arg[c]
  BY DEF LockPi, PiFree
<1>5. ControlTypeOK'
  BY <1>1, <1>2, <1>3, <1>4 DEF TypeOK, ControlTypeOK, Ops, HoldsPi, LockPi,
     At, pcVars
<1>6. OpPlace'
  BY <1>1, <1>2, <1>3, <1>4, Names DEF OpPlace, TypeOK, ControlTypeOK,
     RqTypeOK, LockPi, At, rqVars, pcVars
<1>7. PiExclusive'
  BY <1>1, <1>2, <1>3, <1>4 DEF PiExclusive, TypeOK, ControlTypeOK, HoldsPi,
     LockPi, At
<1>8. OpTask'
  BY <1>1, <1>2, <1>3, <1>4 DEF OpTask, TypeOK, ControlTypeOK, TaskTypeOK,
     ListTypeOK, LockPi, At, taskVars, listVars
<1>9. Pending'
  BY <1>1, <1>2, <1>3, <1>4 DEF Pending, TypeOK, ListTypeOK, TaskTypeOK,
     ControlTypeOK, LockPi, At, taskVars, listVars
<1>10. (TaskTypeOK /\ RqTypeOK /\ ListTypeOK /\ Newborn /\ Running /\ Stacks
       /\ QueueConsistent)'
  BY <1>1 DEF TypeOK, TaskTypeOK, LockPi, taskVars, RqTypeOK, rqVars,
     ListTypeOK, listVars, Newborn, Running, pcVars, Stacks, OnStack,
     QueueConsistent
<1> QED
  BY <1>5, <1>6, <1>7, <1>8, <1>9, <1>10 DEF IInv, TypeOK

\* A change of affinity that changes nothing.
LEMMA AllowedSameInv ==
  ASSUME IInv, NEW c \in CPU, NEW mask \in SUBSET CPU, AllowedSame(c, mask)
  PROVE  IInv'
<1>1. /\ TypeOK /\ OpPlace /\ PiExclusive /\ OpTask /\ Pending
      /\ Newborn /\ Running /\ Stacks /\ QueueConsistent
  BY DEF IInv
<1>2. op[c] = "a_rq"
  BY DEF AllowedSame, AllowedChanged, AllowedLocked
<1>3. arg[c] \in Task
  BY <1>1, <1>2 DEF OpPlace
<1>4. pend[c] = {}
  BY <1>1, <1>2 DEF Pending
<1>5. cpu[arg[c]] \in CPU
  BY <1>1, <1>3 DEF TypeOK, TaskTypeOK
<1>6. pc[c] = "run" /\ curr[c] \in Task /\ arg[c] \notin Worker
  BY <1>1, <1>2 DEF OpPlace, OpTask
<1>7. ControlTypeOK'
  BY <1>1, <1>2, <1>3, <1>4, <1>5, <1>6 DEF TypeOK, ControlTypeOK, Ops,
     HoldsPi, AllowedSame, AllowedLocked, End, Begin, pcVars
<1>8. OpPlace'
  BY <1>1, <1>2, <1>3, <1>4, <1>5, <1>6, Names DEF OpPlace, TypeOK,
     ControlTypeOK, RqTypeOK, AllowedSame, AllowedLocked, End, Begin, pcVars
<1>9. PiExclusive'
  BY <1>1, <1>2, <1>3, <1>4, <1>5, <1>6 DEF PiExclusive, TypeOK,
     ControlTypeOK, HoldsPi, AllowedSame, AllowedLocked, End, Begin
<1>10. OpTask'
  BY <1>1, <1>2, <1>3, <1>4, <1>5, <1>6 DEF OpTask, TypeOK, ControlTypeOK,
     TaskTypeOK, ListTypeOK, AllowedSame, AllowedLocked, End, Begin
<1>11. Pending'
  BY <1>1, <1>2, <1>3, <1>4, <1>5, <1>6 DEF Pending, TypeOK, ListTypeOK,
     TaskTypeOK, ControlTypeOK, AllowedSame, AllowedLocked, End, Begin
<1>12. (TaskTypeOK /\ RqTypeOK /\ ListTypeOK /\ Newborn /\ Running /\ Stacks
       /\ QueueConsistent)'
  BY <1>1 DEF TypeOK, TaskTypeOK, AllowedSame, AllowedLocked, RqTypeOK,
     ListTypeOK, Newborn, Running, pcVars, Stacks, OnStack, QueueConsistent
<1> QED
  BY <1>7, <1>8, <1>9, <1>10, <1>11, <1>12 DEF IInv, TypeOK

\* A change of affinity that moves nothing.
LEMMA AllowedStayInv ==
  ASSUME IInv, NEW c \in CPU, NEW mask \in SUBSET CPU, AllowedStay(c, mask)
  PROVE  IInv'
<1>1. /\ TypeOK /\ OpPlace /\ PiExclusive /\ OpTask /\ Pending
      /\ Newborn /\ Running /\ Stacks /\ QueueConsistent
  BY DEF IInv
<1>2. op[c] = "a_rq"
  BY DEF AllowedStay, AllowedChanged, AllowedLocked
<1>3. arg[c] \in Task
  BY <1>1, <1>2 DEF OpPlace
<1>4. pend[c] = {}
  BY <1>1, <1>2 DEF Pending
<1>5. cpu[arg[c]] \in CPU
  BY <1>1, <1>3 DEF TypeOK, TaskTypeOK
<1>6. pc[c] = "run" /\ curr[c] \in Task /\ arg[c] \notin Worker
  BY <1>1, <1>2 DEF OpPlace, OpTask
<1>7. TaskTypeOK'
  BY <1>1, <1>2, <1>3, <1>4, <1>5, <1>6 DEF TypeOK, TaskTypeOK, AllowedStay,
     AllowedChanged, AllowedLocked
<1>8. ControlTypeOK'
  BY <1>1, <1>2, <1>3, <1>4, <1>5, <1>6 DEF TypeOK, ControlTypeOK, Ops,
     HoldsPi, AllowedStay, AllowedChanged, AllowedLocked, End, Begin, pcVars
<1>9. OpPlace'
  BY <1>1, <1>2, <1>3, <1>4, <1>5, <1>6, Names DEF OpPlace, TypeOK,
     ControlTypeOK, RqTypeOK, AllowedStay, AllowedChanged, AllowedLocked, End,
     Begin, pcVars
<1>10. PiExclusive'
  BY <1>1, <1>2, <1>3, <1>4, <1>5, <1>6 DEF PiExclusive, TypeOK,
     ControlTypeOK, HoldsPi, AllowedStay, AllowedChanged, AllowedLocked, End,
     Begin
<1>11. OpTask'
  BY <1>1, <1>2, <1>3, <1>4, <1>5, <1>6 DEF OpTask, TypeOK, ControlTypeOK,
     TaskTypeOK, ListTypeOK, AllowedStay, AllowedChanged, AllowedLocked, End,
     Begin
<1>12. Pending'
  BY <1>1, <1>2, <1>3, <1>4, <1>5, <1>6 DEF Pending, TypeOK, ListTypeOK,
     TaskTypeOK, ControlTypeOK, AllowedStay, AllowedChanged, AllowedLocked,
     End, Begin
<1>13. Newborn'
  BY <1>1, <1>2, <1>3, <1>4, <1>5, <1>6 DEF Newborn, TypeOK, TaskTypeOK,
     AllowedStay, AllowedChanged, AllowedLocked
<1>14. (RqTypeOK /\ ListTypeOK /\ Running /\ Stacks /\ QueueConsistent)'
  BY <1>1 DEF TypeOK, RqTypeOK, AllowedStay, AllowedChanged, AllowedLocked,
     ListTypeOK, Running, pcVars, Stacks, OnStack, QueueConsistent
<1> QED
  BY <1>7, <1>8, <1>9, <1>10, <1>11, <1>12, <1>13, <1>14 DEF IInv, TypeOK

\* A request for the stopper changes no task.
LEMMA AllowedStopInv ==
  ASSUME IInv, NEW c \in CPU, NEW mask \in SUBSET CPU, AllowedStop(c, mask)
  PROVE  IInv'
<1>1. /\ TypeOK /\ OpPlace /\ PiExclusive /\ OpTask /\ Pending
      /\ Newborn /\ Running /\ Stacks /\ QueueConsistent
  BY DEF IInv
<1>2. op[c] = "a_rq"
  BY DEF AllowedStop, AllowedChanged, AllowedLocked
<1>3. arg[c] \in Task
  BY <1>1, <1>2 DEF OpPlace
<1>4. pend[c] = {}
  BY <1>1, <1>2 DEF Pending
<1>5. cpu[arg[c]] \in CPU
  BY <1>1, <1>3 DEF TypeOK, TaskTypeOK
<1>6. pc[c] = "run" /\ curr[c] \in Task /\ arg[c] \notin Worker
  BY <1>1, <1>2 DEF OpPlace, OpTask
<1>7. PICK d \in mask : stopq' = [stopq EXCEPT ![cpu[arg[c]]] = Append(@,
       [task |-> arg[c], dest_cpu |-> d, caller |-> curr[c]])]
  BY DEF AllowedStop
<1>8. [task |-> arg[c], dest_cpu |-> d, caller |-> curr[c]] \in Request
  BY <1>3, <1>6 DEF Request
<1>9. stopq \in [CPU -> Seq(Request)]
  BY <1>1 DEF TypeOK, RqTypeOK
<1>10. stopq[cpu[arg[c]]] \in Seq(Request)
  BY <1>5, <1>9
<1>11. \A r \in Request : Append(stopq[cpu[arg[c]]], r) \in Seq(Request) /\
       Append(stopq[cpu[arg[c]]], r) # <<>>
  BY <1>10
<1>12. stopq' \in [CPU -> Seq(Request)]
  BY <1>7, <1>9, <1>11, <1>8
<1>13. \A k \in CPU : stopq[k] # <<>> => stopq'[k] # <<>>
  BY <1>7, <1>9, <1>11, <1>8
<1>14. TaskTypeOK'
  BY <1>1, <1>2, <1>3, <1>4, <1>5, <1>6, <1>7, <1>8, <1>9, <1>10, <1>11,
     <1>12, <1>13 DEF TypeOK, TaskTypeOK, AllowedStop, AllowedChanged,
     AllowedLocked
<1>15. RqTypeOK'
  <2>1. need_resched' \in [CPU -> BOOLEAN]
    BY <1>1 DEF TypeOK, RqTypeOK, AllowedStop, ReschedCurr
  <2>2. UNCHANGED <<curr, queue, nr_uninterruptible, idle>>
    BY DEF AllowedStop, AllowedChanged, AllowedLocked
  <2> QED
    BY <1>1, <1>12, <2>1, <2>2 DEF TypeOK, RqTypeOK
<1>16. ListTypeOK'
  BY ZenonT(45), <1>1, <1>2, <1>3, <1>4, <1>5, <1>6, <1>7, <1>8, <1>9, <1>10, <1>11,
     <1>12, <1>13 DEF TypeOK, ListTypeOK, AllowedStop, AllowedChanged,
     AllowedLocked, ReschedCurr
<1>17. ControlTypeOK'
  BY <1>1, <1>2, <1>3, <1>4, <1>5, <1>6, <1>7, <1>8, <1>9, <1>10, <1>11,
     <1>12, <1>13 DEF TypeOK, ControlTypeOK, Ops, HoldsPi, AllowedStop,
     AllowedChanged, AllowedLocked, End, Begin, pcVars
<1>18. OpPlace'
  <2>1. op'[c] = "none" /\ \A d1 \in CPU \ {c} : op'[d1] = op[d1] /\ arg'[d1]
        = arg[d1]
    BY <1>1 DEF TypeOK, ControlTypeOK, AllowedStop, End, Begin
  <2>2. UNCHANGED <<pc, curr, prev>>
    BY DEF AllowedStop, AllowedChanged, AllowedLocked, pcVars
  <2> QED
    BY <1>1, <1>6, <1>13, <2>1, <2>2 DEF OpPlace
<1>19. PiExclusive'
  BY <1>1, <1>2, <1>3, <1>4, <1>5, <1>6, <1>7, <1>8, <1>9, <1>10, <1>11,
     <1>12, <1>13 DEF PiExclusive, TypeOK, ControlTypeOK, HoldsPi,
     AllowedStop, AllowedChanged, AllowedLocked, End, Begin
<1>20. OpTask'
  BY <1>1, <1>2, <1>3, <1>4, <1>5, <1>6, <1>7, <1>8, <1>9, <1>10, <1>11,
     <1>12, <1>13 DEF OpTask, TypeOK, ControlTypeOK, TaskTypeOK, ListTypeOK,
     AllowedStop, AllowedChanged, AllowedLocked, End, Begin
<1>21. Pending'
  BY <1>1, <1>2, <1>3, <1>4, <1>5, <1>6, <1>7, <1>8, <1>9, <1>10, <1>11,
     <1>12, <1>13 DEF Pending, TypeOK, ListTypeOK, TaskTypeOK, ControlTypeOK,
     AllowedStop, AllowedChanged, AllowedLocked, End, Begin
<1>22. Newborn'
  BY <1>1, <1>2, <1>3, <1>4, <1>5, <1>6, <1>7, <1>8, <1>9, <1>10, <1>11,
     <1>12, <1>13 DEF Newborn, TypeOK, TaskTypeOK, AllowedStop,
     AllowedChanged, AllowedLocked
<1>23. (Running /\ Stacks /\ QueueConsistent)'
  BY <1>1 DEF Running, AllowedStop, AllowedChanged, AllowedLocked, pcVars,
     Stacks, OnStack, QueueConsistent
<1> QED
  BY <1>14, <1>15, <1>16, <1>17, <1>18, <1>19, <1>20, <1>21, <1>22, <1>23 DEF
     IInv, TypeOK

\* The task is queued and no CPU uses its stack, so it may change its cpu.
LEMMA AllowedMoveInv ==
  ASSUME IInv, NEW c \in CPU, NEW mask \in SUBSET CPU, AllowedMove(c, mask)
  PROVE  IInv'
<1>1. /\ TypeOK /\ OpPlace /\ PiExclusive /\ OpTask /\ Pending
      /\ Newborn /\ Running /\ Stacks /\ QueueConsistent
  BY DEF IInv
<1>2. op[c] = "a_rq"
  BY DEF AllowedMove, AllowedChanged, AllowedLocked
<1>3. arg[c] \in Task
  BY <1>1, <1>2 DEF OpPlace
<1>4. pend[c] = {}
  BY <1>1, <1>2 DEF Pending
<1>5. cpu[arg[c]] \in CPU
  BY <1>1, <1>3 DEF TypeOK, TaskTypeOK
<1>6. pc[c] = "run" /\ curr[c] \in Task /\ arg[c] \notin Worker
  BY <1>1, <1>2 DEF OpPlace, OpTask
<1>7. \A d \in CPU : d # c /\ op[d] \in HoldsPi => arg[d] # arg[c]
  BY <1>1, <1>2 DEF PiExclusive, HoldsPi
<1>8. on_rq[arg[c]] = "queued" /\ ~on_cpu[arg[c]]
  BY DEF AllowedMove, NeedsStopper
<1>9. life[arg[c]] = "live"
  BY <1>1, <1>3, <1>8 DEF Newborn
<1>10. \A d \in CPU : ~OnStack(d, arg[c])
  BY <1>1, <1>3, <1>8 DEF Stacks
<1>11. TaskTypeOK'
  BY <1>1, <1>2, <1>3, <1>4, <1>5, <1>6, <1>7, <1>8, <1>9, <1>10 DEF TypeOK,
     TaskTypeOK, AllowedMove, AllowedChanged, AllowedLocked, MoveDequeue
<1>12. RqTypeOK'
  BY <1>1, <1>2, <1>3, <1>4, <1>5, <1>6, <1>7, <1>8, <1>9, <1>10 DEF TypeOK,
     RqTypeOK, AllowedMove, AllowedChanged, AllowedLocked, MoveDequeue
<1>13. ControlTypeOK'
  BY <1>1, <1>2, <1>3, <1>4, <1>5, <1>6, <1>7, <1>8, <1>9, <1>10 DEF TypeOK,
     ControlTypeOK, Ops, HoldsPi, AllowedMove, AllowedChanged, AllowedLocked,
     MoveDequeue, Begin, pcVars
<1>14. OpPlace'
  BY <1>1, <1>2, <1>3, <1>4, <1>5, <1>6, <1>7, <1>8, <1>9, <1>10, Names DEF
     OpPlace, TypeOK, ControlTypeOK, RqTypeOK, AllowedMove, AllowedChanged,
     AllowedLocked, MoveDequeue, Begin, pcVars
<1>15. PiExclusive'
  BY <1>1, <1>2, <1>3, <1>4, <1>5, <1>6, <1>7, <1>8, <1>9, <1>10 DEF
     PiExclusive, TypeOK, ControlTypeOK, HoldsPi, AllowedMove, AllowedChanged,
     AllowedLocked, MoveDequeue, Begin
<1>16. OpTask'
  BY <1>1, <1>2, <1>3, <1>4, <1>5, <1>6, <1>7, <1>8, <1>9, <1>10 DEF OpTask,
     TypeOK, ControlTypeOK, TaskTypeOK, ListTypeOK, HoldsPi, AllowedMove,
     AllowedChanged, AllowedLocked, MoveDequeue, Begin
<1>17. Pending'
  BY <1>1, <1>2, <1>3, <1>4, <1>5, <1>6, <1>7, <1>8, <1>9, <1>10 DEF Pending,
     TypeOK, ListTypeOK, TaskTypeOK, ControlTypeOK, AllowedMove,
     AllowedChanged, AllowedLocked, MoveDequeue, Begin
<1>18. Newborn'
  BY <1>1, <1>2, <1>3, <1>4, <1>5, <1>6, <1>7, <1>8, <1>9, <1>10 DEF Newborn,
     TypeOK, TaskTypeOK, AllowedMove, AllowedChanged, AllowedLocked,
     MoveDequeue
<1>19. Running'
  BY <1>1, <1>2, <1>3, <1>4, <1>5, <1>6, <1>7, <1>8, <1>9, <1>10, Names DEF
     Running, TypeOK, RqTypeOK, ControlTypeOK, TaskTypeOK, OnStack,
     AllowedMove, AllowedChanged, AllowedLocked, MoveDequeue, pcVars
<1>20. Stacks'
  BY SMTT(45), <1>1, <1>2, <1>3, <1>4, <1>5, <1>6, <1>7, <1>8, <1>9, <1>10 DEF Stacks,
     TypeOK, RqTypeOK, ControlTypeOK, TaskTypeOK, OnStack, AllowedMove,
     AllowedChanged, AllowedLocked, MoveDequeue, pcVars
<1>21. QueueConsistent'
  BY SMTT(45), <1>1, <1>2, <1>3, <1>4, <1>5, <1>6, <1>7, <1>8, <1>9, <1>10 DEF
     QueueConsistent, TypeOK, RqTypeOK, TaskTypeOK, AllowedMove,
     AllowedChanged, AllowedLocked, MoveDequeue
<1>22. (ListTypeOK)'
  BY <1>1 DEF TypeOK, ListTypeOK, AllowedMove, AllowedChanged, AllowedLocked,
     MoveDequeue
<1> QED
  BY <1>11, <1>12, <1>13, <1>14, <1>15, <1>16, <1>17, <1>18, <1>19, <1>20,
     <1>21, <1>22 DEF IInv, TypeOK

\* The stopper takes over the wake_list and the first request.
LEMMA MigrationCpuStopInv ==
  ASSUME IInv, NEW c \in CPU, MigrationCpuStop(c)
  PROVE  IInv'
<1>1. /\ TypeOK /\ OpPlace /\ PiExclusive /\ OpTask /\ Pending
      /\ Newborn /\ Running /\ Stacks /\ QueueConsistent
  BY DEF IInv
<1>2. op[c] = "none" /\ pc[c] = "run" /\ curr[c] = Stop /\ stopq[c] # <<>>
  BY DEF MigrationCpuStop
<1>3. pend[c] = {}
  BY <1>1, <1>2 DEF Pending
<1>4. Head(stopq[c]) \in Request
  BY <1>1, <1>2 DEF TypeOK, RqTypeOK
<1>5. Head(stopq[c]).task \in Task /\ Head(stopq[c]).dest_cpu \in CPU
  BY <1>4 DEF Request
<1>6. ListTypeOK'
  BY <1>1, <1>2, <1>3, <1>4, <1>5 DEF TypeOK, ListTypeOK, MigrationCpuStop,
     TakeWakeList
<1>7. ControlTypeOK'
  BY <1>1, <1>2, <1>3, <1>4, <1>5 DEF TypeOK, ControlTypeOK, Ops, HoldsPi,
     MigrationCpuStop, TakeWakeList, Begin, pcVars
<1>8. OpPlace'
  BY <1>1, <1>2, <1>3, <1>4, <1>5, Names DEF OpPlace, TypeOK, ControlTypeOK,
     RqTypeOK, MigrationCpuStop, TakeWakeList, Begin, rqVars, pcVars
<1>9. PiExclusive'
  BY <1>1, <1>2, <1>3, <1>4, <1>5 DEF PiExclusive, TypeOK, ControlTypeOK,
     HoldsPi, MigrationCpuStop, TakeWakeList, Begin
<1>10. OpTask'
  BY <1>1, <1>2, <1>3, <1>4, <1>5 DEF OpTask, TypeOK, ControlTypeOK,
     TaskTypeOK, ListTypeOK, MigrationCpuStop, TakeWakeList, Begin, taskVars
<1>11. Pending'
  BY <1>1, <1>2, <1>3, <1>4, <1>5 DEF Pending, TypeOK, ListTypeOK, TaskTypeOK,
     ControlTypeOK, MigrationCpuStop, TakeWakeList, Begin, taskVars
<1>12. (TaskTypeOK /\ RqTypeOK /\ Newborn /\ Running /\ Stacks /\
       QueueConsistent)'
  BY <1>1 DEF TypeOK, TaskTypeOK, MigrationCpuStop, taskVars, RqTypeOK,
     rqVars, Newborn, Running, pcVars, Stacks, OnStack, QueueConsistent
<1> QED
  BY <1>6, <1>7, <1>8, <1>9, <1>10, <1>11, <1>12 DEF IInv, TypeOK

\* The stopper runs on the CPU of the task, so the task does not.
LEMMA MigrateMoveInv ==
  ASSUME IInv, NEW c \in CPU, MigrateMove(c)
  PROVE  IInv'
<1>1. /\ TypeOK /\ OpPlace /\ PiExclusive /\ OpTask /\ Pending
      /\ Newborn /\ Running /\ Stacks /\ QueueConsistent
  BY DEF IInv
<1>2. op[c] = "m_rq"
  BY DEF MigrateMove, MigrateLocked
<1>3. arg[c] \in Task
  BY <1>1, <1>2 DEF OpPlace
<1>4. pend[c] = {}
  BY <1>1, <1>2 DEF Pending
<1>5. pc[c] = "run" /\ curr[c] = Stop /\ stopq[c] # <<>>
  BY <1>1, <1>2 DEF OpPlace
<1>6. \A d \in CPU : d # c /\ op[d] \in HoldsPi => arg[d] # arg[c]
  BY <1>1, <1>2 DEF PiExclusive, HoldsPi
<1>7. cpu[arg[c]] = c /\ dest[c] \in allowed[arg[c]] /\ on_rq[arg[c]] =
       "queued"
  BY DEF MigrateMove, MayMigrate
<1>8. \A d \in CPU : ~OnStack(d, arg[c])
  BY <1>1, <1>3, <1>5, <1>7, Names DEF Stacks, OnStack
<1>9. life[arg[c]] = "live"
  BY <1>1, <1>3, <1>7 DEF Newborn
<1>10. \A w \in Worker : w \in Task /\ allowed[w] = {Home[w]}
  BY <1>1, WorkerType DEF Newborn
<1>11. TaskTypeOK'
  BY <1>1, <1>2, <1>3, <1>4, <1>5, <1>6, <1>7, <1>8, <1>9, <1>10 DEF TypeOK,
     TaskTypeOK, MigrateMove, MigrateLocked, MoveDequeue
<1>12. RqTypeOK'
  BY <1>1, <1>2, <1>3, <1>4, <1>5, <1>6, <1>7, <1>8, <1>9, <1>10 DEF TypeOK,
     RqTypeOK, MigrateMove, MigrateLocked, MoveDequeue
<1>13. ControlTypeOK'
  BY <1>1, <1>2, <1>3, <1>4, <1>5, <1>6, <1>7, <1>8, <1>9, <1>10 DEF TypeOK,
     ControlTypeOK, Ops, HoldsPi, MigrateMove, MigrateLocked, MoveDequeue,
     Begin, pcVars
<1>14. OpPlace'
  BY <1>1, <1>2, <1>3, <1>4, <1>5, <1>6, <1>7, <1>8, <1>9, <1>10, Names DEF
     OpPlace, TypeOK, ControlTypeOK, RqTypeOK, MigrateMove, MigrateLocked,
     MoveDequeue, Begin, pcVars
<1>15. PiExclusive'
  BY <1>1, <1>2, <1>3, <1>4, <1>5, <1>6, <1>7, <1>8, <1>9, <1>10 DEF
     PiExclusive, TypeOK, ControlTypeOK, HoldsPi, MigrateMove, MigrateLocked,
     MoveDequeue, Begin
<1>16. OpTask'
  BY <1>1, <1>2, <1>3, <1>4, <1>5, <1>6, <1>7, <1>8, <1>9, <1>10 DEF OpTask,
     TypeOK, ControlTypeOK, TaskTypeOK, ListTypeOK, HoldsPi, MigrateMove,
     MigrateLocked, MoveDequeue, Begin, listVars
<1>17. Pending'
  BY <1>1, <1>2, <1>3, <1>4, <1>5, <1>6, <1>7, <1>8, <1>9, <1>10 DEF Pending,
     TypeOK, ListTypeOK, TaskTypeOK, ControlTypeOK, MigrateMove,
     MigrateLocked, MoveDequeue, Begin, listVars
<1>18. Newborn'
  BY <1>1, <1>2, <1>3, <1>4, <1>5, <1>6, <1>7, <1>8, <1>9, <1>10 DEF Newborn,
     TypeOK, TaskTypeOK, MigrateMove, MigrateLocked, MoveDequeue
<1>19. Running'
  BY <1>1, <1>2, <1>3, <1>4, <1>5, <1>6, <1>7, <1>8, <1>9, <1>10, Names DEF
     Running, TypeOK, RqTypeOK, ControlTypeOK, TaskTypeOK, OnStack,
     MigrateMove, MigrateLocked, MoveDequeue, pcVars
<1>20. Stacks'
  BY <1>1, <1>2, <1>3, <1>4, <1>5, <1>6, <1>7, <1>8, <1>9, <1>10 DEF Stacks,
     TypeOK, RqTypeOK, ControlTypeOK, TaskTypeOK, OnStack, MigrateMove,
     MigrateLocked, MoveDequeue, pcVars
<1>21. QueueConsistent'
  BY <1>1, <1>2, <1>3, <1>4, <1>5, <1>6, <1>7, <1>8, <1>9, <1>10 DEF
     QueueConsistent, TypeOK, RqTypeOK, TaskTypeOK, MigrateMove,
     MigrateLocked, MoveDequeue
<1>22. (ListTypeOK)'
  BY <1>1 DEF TypeOK, ListTypeOK, MigrateMove, MigrateLocked, MoveDequeue,
     listVars
<1> QED
  BY <1>11, <1>12, <1>13, <1>14, <1>15, <1>16, <1>17, <1>18, <1>19, <1>20,
     <1>21, <1>22 DEF IInv, TypeOK

\* A request that came too late is dropped.
LEMMA MigrateSkipInv ==
  ASSUME IInv, NEW c \in CPU, MigrateSkip(c)
  PROVE  IInv'
<1>1. /\ TypeOK /\ OpPlace /\ PiExclusive /\ OpTask /\ Pending
      /\ Newborn /\ Running /\ Stacks /\ QueueConsistent
  BY DEF IInv
<1>2. op[c] = "m_rq"
  BY DEF MigrateSkip, MigrateLocked
<1>3. arg[c] \in Task
  BY <1>1, <1>2 DEF OpPlace
<1>4. pend[c] = {}
  BY <1>1, <1>2 DEF Pending
<1>5. pc[c] = "run" /\ curr[c] = Stop /\ stopq[c] # <<>>
  BY <1>1, <1>2 DEF OpPlace
<1>6. Tail(stopq[c]) \in Seq(Request)
  BY <1>1, <1>5 DEF TypeOK, RqTypeOK
<1>7. RqTypeOK'
  BY <1>1, <1>2, <1>3, <1>4, <1>5, <1>6 DEF TypeOK, RqTypeOK, MigrateSkip,
     MigrateLocked
<1>8. ControlTypeOK'
  BY <1>1, <1>2, <1>3, <1>4, <1>5, <1>6 DEF TypeOK, ControlTypeOK, Ops,
     HoldsPi, MigrateSkip, MigrateLocked, End, Begin, pcVars
<1>9. OpPlace'
  BY <1>1, <1>2, <1>3, <1>4, <1>5, <1>6, Names DEF OpPlace, TypeOK,
     ControlTypeOK, RqTypeOK, MigrateSkip, MigrateLocked, End, Begin, pcVars
<1>10. PiExclusive'
  BY <1>1, <1>2, <1>3, <1>4, <1>5, <1>6 DEF PiExclusive, TypeOK,
     ControlTypeOK, HoldsPi, MigrateSkip, MigrateLocked, End, Begin
<1>11. OpTask'
  BY <1>1, <1>2, <1>3, <1>4, <1>5, <1>6 DEF OpTask, TypeOK, ControlTypeOK,
     TaskTypeOK, ListTypeOK, MigrateSkip, MigrateLocked, End, Begin, listVars
<1>12. Pending'
  BY <1>1, <1>2, <1>3, <1>4, <1>5, <1>6 DEF Pending, TypeOK, ListTypeOK,
     TaskTypeOK, ControlTypeOK, MigrateSkip, MigrateLocked, End, Begin,
     listVars
<1>13. (TaskTypeOK /\ ListTypeOK /\ Newborn /\ Running /\ Stacks /\
       QueueConsistent)'
  BY <1>1 DEF TypeOK, TaskTypeOK, MigrateSkip, MigrateLocked, ListTypeOK,
     listVars, Newborn, Running, pcVars, Stacks, OnStack, QueueConsistent
<1> QED
  BY <1>7, <1>8, <1>9, <1>10, <1>11, <1>12, <1>13 DEF IInv, TypeOK

\* A migrating task enters the queue of its new cpu.
LEMMA MoveEnqueueInv ==
  ASSUME IInv, NEW c \in CPU, MoveEnqueue(c)
  PROVE  IInv'
<1>1. /\ TypeOK /\ OpPlace /\ PiExclusive /\ OpTask /\ Pending
      /\ Newborn /\ Running /\ Stacks /\ QueueConsistent
  BY DEF IInv
<1>2. op[c] = "m_enq"
  BY DEF MoveEnqueue
<1>3. arg[c] \in Task
  BY <1>1, <1>2 DEF OpPlace
<1>4. pend[c] = {}
  BY <1>1, <1>2 DEF Pending
<1>5. cpu[arg[c]] \in CPU
  BY <1>1, <1>3 DEF TypeOK, TaskTypeOK
<1>6. \A d \in CPU : d # c /\ op[d] \in HoldsPi => arg[d] # arg[c]
  BY <1>1, <1>2 DEF PiExclusive, HoldsPi
<1>7. on_rq[arg[c]] = "migrating" /\ pc[c] = "run" /\ (curr[c] = Stop =>
       stopq[c] # <<>>)
  BY <1>1, <1>2 DEF OpTask, OpPlace
<1>8. life[arg[c]] = "live"
  BY <1>1, <1>3, <1>7 DEF Newborn
<1>9. curr[c] = Stop => Tail(stopq[c]) \in Seq(Request)
  BY <1>1, <1>7 DEF TypeOK, RqTypeOK
<1>10. TaskTypeOK'
  BY <1>1, <1>2, <1>3, <1>4, <1>5, <1>6, <1>7, <1>8, <1>9 DEF TypeOK,
     TaskTypeOK, MoveEnqueue
<1>11. RqTypeOK'
  BY <1>1, <1>2, <1>3, <1>4, <1>5, <1>6, <1>7, <1>8, <1>9 DEF TypeOK,
     RqTypeOK, MoveEnqueue, CheckPreemptCurr, ReschedCurr
<1>12. ListTypeOK'
  BY <1>1, <1>2, <1>3, <1>4, <1>5, <1>6, <1>7, <1>8, <1>9 DEF TypeOK,
     ListTypeOK, MoveEnqueue, CheckPreemptCurr, ReschedCurr
<1>13. ControlTypeOK'
  BY <1>1, <1>2, <1>3, <1>4, <1>5, <1>6, <1>7, <1>8, <1>9 DEF TypeOK,
     ControlTypeOK, Ops, HoldsPi, MoveEnqueue, End, Begin, pcVars
<1>14. OpPlace'
  BY <1>1, <1>2, <1>3, <1>4, <1>5, <1>6, <1>7, <1>8, <1>9, Names DEF OpPlace,
     TypeOK, ControlTypeOK, RqTypeOK, MoveEnqueue, End, Begin, pcVars
<1>15. PiExclusive'
  BY <1>1, <1>2, <1>3, <1>4, <1>5, <1>6, <1>7, <1>8, <1>9 DEF PiExclusive,
     TypeOK, ControlTypeOK, HoldsPi, MoveEnqueue, End, Begin
<1>16. OpTask'
  BY <1>1, <1>2, <1>3, <1>4, <1>5, <1>6, <1>7, <1>8, <1>9 DEF OpTask, TypeOK,
     ControlTypeOK, TaskTypeOK, ListTypeOK, HoldsPi, MoveEnqueue, End, Begin
<1>17. Pending'
  BY <1>1, <1>2, <1>3, <1>4, <1>5, <1>6, <1>7, <1>8, <1>9 DEF Pending, TypeOK,
     ListTypeOK, TaskTypeOK, ControlTypeOK, MoveEnqueue, End, Begin
<1>18. Newborn'
  BY <1>1, <1>2, <1>3, <1>4, <1>5, <1>6, <1>7, <1>8, <1>9 DEF Newborn, TypeOK,
     TaskTypeOK, MoveEnqueue
<1>19. Running'
  BY <1>1, <1>2, <1>3, <1>4, <1>5, <1>6, <1>7, <1>8, <1>9, Names DEF Running,
     TypeOK, RqTypeOK, ControlTypeOK, TaskTypeOK, MoveEnqueue, pcVars
<1>20. QueueConsistent'
  BY <1>1, <1>2, <1>3, <1>4, <1>5, <1>6, <1>7, <1>8, <1>9 DEF QueueConsistent,
     TypeOK, RqTypeOK, TaskTypeOK, MoveEnqueue
<1>21. (Stacks)'
  BY <1>1 DEF Stacks, MoveEnqueue, pcVars, OnStack
<1> QED
  BY <1>10, <1>11, <1>12, <1>13, <1>14, <1>15, <1>16, <1>17, <1>18, <1>19,
     <1>20, <1>21 DEF IInv, TypeOK

-----------------------------------------------------------------------------
(* The whole specification                                                 *)

\* IInv holds initially.
LEMMA InitInv == Init => IInv
<1> SUFFICES ASSUME Init PROVE IInv
  OBVIOUS
<1>1. TaskTypeOK
  <2>1. Home \in [Task -> CPU] /\ Worker \subseteq Task
    BY ConstantsAssumption
  <2>2. [p \in Task |-> IF p \in Worker THEN {Home[p]} ELSE CPU]
          \in [Task -> SUBSET CPU]
    BY <2>1
  <2> QED
    BY <2>1, <2>2 DEF Init, TaskTypeOK, Asleep
<1>2. RqTypeOK
  <2>1. \A c \in CPU : {p \in Boot : Home[p] = c} \in SUBSET Task
    BY ConstantsAssumption
  <2>2. 0 \in 0 .. Width - 1
    BY WidthType
  <2>3. <<>> \in Seq(Request)
    OBVIOUS
  <2> QED
    BY <2>1, <2>2, <2>3 DEF Init, RqTypeOK
<1>3. ListTypeOK /\ ControlTypeOK
  BY DEF Init, ListTypeOK, ControlTypeOK, Ops
<1>4. OpPlace
  BY Names DEF Init, OpPlace
<1>5. PiExclusive /\ OpTask
  BY DEF Init, PiExclusive, OpTask, HoldsPi
<1>6. Pending
  BY DEF Init, Pending
<1>7. Newborn
  BY ConstantsAssumption DEF Init, Newborn
<1>8. Running /\ Stacks
  BY Names DEF Init, Running, Stacks, OnStack
<1>9. QueueConsistent
  BY ConstantsAssumption DEF Init, QueueConsistent
<1> QED
  BY <1>1, <1>2, <1>3, <1>4, <1>5, <1>6, <1>7, <1>8, <1>9 DEF IInv, TypeOK

\* Every step, and every stuttering step, preserves IInv.
LEMMA NextInv == IInv /\ [Next]_vars => IInv'
<1> SUFFICES ASSUME IInv, [Next]_vars PROVE IInv'
  OBVIOUS
<1>1. CASE UNCHANGED vars
  <2>1. UNCHANGED <<state, on_rq, on_cpu, cpu, allowed, contrib, cond, life,
                    active, puts, curr, queue, nr_uninterruptible,
                    need_resched, idle, stopq, wake_list, pend, ipi, pc, prev,
                    op, arg, dest>>
    BY <1>1 DEF vars, taskVars, rqVars, listVars, pcVars, opVars
  <2>2. TypeOK'
    BY <2>1 DEF IInv, TypeOK, TaskTypeOK, RqTypeOK, ListTypeOK, ControlTypeOK
  <2>3. (OpPlace /\ PiExclusive /\ OpTask /\ Pending)'
    BY <2>1 DEF IInv, OpPlace, PiExclusive, OpTask, Pending
  <2>4. (Newborn /\ Running /\ Stacks /\ QueueConsistent)'
    BY <2>1 DEF IInv, Newborn, Running, Stacks, OnStack, QueueConsistent
  <2> QED
    BY <2>2, <2>3, <2>4 DEF IInv
<1>2. ASSUME NEW c \in CPU, SchedStep(c)
      PROVE  IInv'
  <2>1. CASE ScheduleLock(c)
    BY <2>1, ScheduleKeepInv, ScheduleSignalInv, ScheduleBlockInv
       DEF ScheduleLock
  <2>2. CASE ContextSwitch(c)
    BY <2>2, SwitchToInv DEF ContextSwitch
  <2> QED
    BY <1>2, <2>1, <2>2, FinishTaskSwitchInv, PutTaskStructInv DEF SchedStep
<1>3. ASSUME NEW c \in CPU, LocalTry(c)
      PROVE  IInv'
  BY <1>3, LocalWakeInv DEF LocalTry, PiFree
<1>4. ASSUME NEW c \in CPU, LocalRq(c)
      PROVE  IInv'
  <2>1. op[c] = "l_rq" /\ PiExclusive
    BY <1>4 DEF LocalRq, IInv
  <2>2. \A d \in CPU \ {c} : op[d] \in HoldsPi => arg[d] # arg[c]
    BY <2>1 DEF PiExclusive, HoldsPi
  <2> QED
    BY <1>4, <2>1, <2>2, LocalWakeInv DEF LocalRq
<1>5. ASSUME NEW c \in CPU, NEW mask \in SUBSET CPU, SetCpusAllowedPtr(c, mask)
      PROVE  IInv'
  BY <1>5, AllowedSameInv, AllowedStayInv, AllowedStopInv, AllowedMoveInv
     DEF SetCpusAllowedPtr
<1>6. ASSUME NEW c \in CPU, OpStep(c)
      PROVE  IInv'
  <2>1. CASE LockPi(c, "a_pi", "a_rq") \/ LockPi(c, "m_pi", "m_rq")
    BY <2>1, LockPiInv
  <2>2. CASE MigrateTask(c)
    BY <2>2, MigrateMoveInv, MigrateSkipInv DEF MigrateTask
  <2>3. CASE \/ LocalTry(c) \/ LocalDrop(c) \/ LocalPi(c) \/ LocalRq(c)
             \/ \E mask \in SUBSET CPU : SetCpusAllowedPtr(c, mask)
    BY <2>3, <1>3, <1>4, <1>5, LocalDropInv, LocalPiInv
  <2>4. CASE \/ TtwuLock(c) \/ TtwuRemote(c) \/ TtwuWaking(c)
             \/ TtwuQueueLocal(c) \/ TtwuQueueRemote(c) \/ TtwuNotify(c)
    BY <2>4, TtwuLockInv, TtwuRemoteInv, TtwuWakingInv, TtwuQueueLocalInv,
       TtwuQueueRemoteInv, TtwuNotifyInv
  <2>5. CASE \/ SchedTtwuPending(c) \/ WakeUpNewPlace(c) \/ WakeUpNewTask(c)
             \/ MoveEnqueue(c)
    BY <2>5, SchedTtwuPendingInv, WakeUpNewPlaceInv, WakeUpNewTaskInv,
       MoveEnqueueInv
  <2> QED
    BY <1>6, <2>1, <2>2, <2>3, <2>4, <2>5 DEF OpStep
<1>7. ASSUME NEW c \in CPU, IdleLoop(c)
      PROVE  IInv'
  <2>1. CASE IdlePoll(c) \/ IdleLook(c) \/ IdleClear(c) \/ IdleTest(c)
    BY <2>1, IdleStepInv DEF IdlePoll, IdleLook, IdleClear, IdleTest
  <2> QED
    BY <1>7, <2>1, IdleScheduleInv DEF IdleLoop
<1>8. ASSUME NEW c \in CPU, Stopper(c)
      PROVE  IInv'
  BY <1>8, StopSleepInv, MigrationCpuStopInv DEF Stopper
<1>9. ASSUME NEW c \in CPU, Environment(c)
      PROVE  IInv'
  BY <1>9, SetCurrentStateInv, CondHoldsInv, scheduleInv, DoExitInv,
     SchedulerTickInv, WakeUpProcessInv, SchedForkInv, SchedSetaffinityInv
     DEF Environment
<1> QED
  BY <1>1, <1>2, <1>6, <1>7, <1>8, <1>9, SchedulerIpiInv, PreemptScheduleInv
     DEF Next

\* The inductive invariant holds in every reachable state of the scheduler.
THEOREM Invariance == Spec => []IInv
BY InitInv, NextInv, PTL DEF Spec

\* Every field of task_struct and struct rq, and every local of the operations
\* under way, keeps its type; nr_uninterruptible stays below its width.
THEOREM TypeCorrect == Spec => []TypeOK
<1>1. IInv => TypeOK
  BY DEF IInv
<1> QED
  BY <1>1, Invariance, PTL

\* No task's stack is ever in use on two CPUs, for any number of tasks and
\* CPUs: the wait for p->on_cpu in try_to_wake_up suffices.
THEOREM StackSafety == Spec => []StackExclusive
<1>1. IInv => StackExclusive
  BY DEF IInv, Stacks, StackExclusive
<1> QED
  BY <1>1, Invariance, PTL

\* on_rq, cpu and the run queues agree in every reachable state: no task is on
\* two queues and none is lost, whatever locks are dropped in between.
THEOREM QueueSafety == Spec => []QueueConsistent
<1>1. IInv => QueueConsistent
  BY DEF IInv
<1> QED
  BY <1>1, Invariance, PTL


-----------------------------------------------------------------------------
(* Actions                                                                 *)

\* The steps of one CPU, without the grouping of Next.
Acts(c) ==
    \/ ScheduleKeep(c) \/ ScheduleSignal(c) \/ ScheduleBlock(c)
    \/ \E next \in PickNextTask(c) : SwitchTo(c, next)
    \/ FinishTaskSwitch(c) \/ PutTaskStruct(c)
    \/ /\ LocalWake(c, arg[c]) /\ op[c] \in {"l_try", "l_rq"}
       /\ op[c] = "l_try" => PiFree(arg[c])
    \/ LocalDrop(c) \/ LocalPi(c)
    \/ TtwuLock(c) \/ TtwuRemote(c) \/ TtwuWaking(c) \/ TtwuQueueLocal(c)
    \/ TtwuQueueRemote(c) \/ TtwuNotify(c) \/ SchedTtwuPending(c)
    \/ WakeUpNewPlace(c) \/ WakeUpNewTask(c)
    \/ LockPi(c, "a_pi", "a_rq") \/ LockPi(c, "m_pi", "m_rq")
    \/ MigrateMove(c) \/ MigrateSkip(c) \/ MoveEnqueue(c)
    \/ \E mask \in SUBSET CPU : \/ AllowedSame(c, mask) \/ AllowedStay(c, mask)
                                \/ AllowedStop(c, mask) \/ AllowedMove(c, mask)
    \/ SchedulerIpi(c) \/ PreemptSchedule(c)
    \/ IdlePoll(c) \/ IdleLook(c) \/ IdleClear(c) \/ IdleTest(c) \/ IdleSchedule(c)
    \/ StopSleep(c) \/ MigrationCpuStop(c)
    \/ \E s \in Asleep : SetCurrentState(c, s)
    \/ CondHolds(c) \/ schedule(c) \/ DoExit(c) \/ SchedulerTick(c)
    \/ \E p \in Task : \/ WakeUpProcess(c, p) \/ SchedFork(c, p)
                       \/ SchedSetaffinity(c, p)

LEMMA Steps == Next => \E c \in CPU : Acts(c)
<1> SUFFICES ASSUME NEW c \in CPU,
                    \/ SchedStep(c) \/ OpStep(c) \/ SchedulerIpi(c) \/ PreemptSchedule(c)
                    \/ IdleLoop(c) \/ Stopper(c) \/ Environment(c)
             PROVE  Acts(c)
  BY DEF Next
<1>1. CASE SchedStep(c)
  BY <1>1 DEF Acts, SchedStep, ScheduleLock, ContextSwitch
<1>2. CASE OpStep(c)
  BY <1>2 DEF Acts, OpStep, LocalTry, LocalRq, MigrateTask, SetCpusAllowedPtr
<1>3. CASE IdleLoop(c) \/ Stopper(c) \/ Environment(c)
  BY <1>3 DEF Acts, IdleLoop, Stopper, Environment
<1> QED
  BY <1>1, <1>2, <1>3 DEF Acts

\* An action of c leaves the control of the other CPUs alone.
Others(c) ==
    \A d \in CPU \ {c} :
        /\ op'[d] = op[d] /\ arg'[d] = arg[d] /\ dest'[d] = dest[d]
        /\ pc'[d] = pc[d] /\ prev'[d] = prev[d] /\ curr'[d] = curr[d]
        /\ idle'[d] = idle[d] /\ pend'[d] = pend[d]

LEMMA OthersKept ==
  ASSUME TypeOK, NEW c \in CPU, Acts(c)
  PROVE  Others(c)
<1>0. /\ op \in [CPU -> Ops] /\ arg \in [CPU -> Task \cup {NoTask}] /\ dest \in [CPU -> CPU]
      /\ pc \in [CPU -> {"run", "sched", "switch", "finish", "put"}]
      /\ prev \in [CPU -> Task \cup {Idle, Stop}] /\ curr \in [CPU -> Task \cup {Idle, Stop}]
      /\ idle \in [CPU -> {"out", "poll", "loop", "clr", "hlt", "exit"}]
      /\ pend \in [CPU -> SUBSET Task]
  BY DEF TypeOK, RqTypeOK, ListTypeOK, ControlTypeOK
<1>1. ASSUME ScheduleKeep(c) \/ ScheduleSignal(c)
      PROVE  Others(c)
  BY <1>1, <1>0 DEF Others, ScheduleKeep, ScheduleEnter, listVars, opVars,
     ScheduleSignal
<1>2. ASSUME ScheduleBlock(c)
      PROVE  Others(c)
  BY <1>2, <1>0 DEF Others, ScheduleBlock, ScheduleEnter, listVars, opVars, Begin
<1>3. ASSUME NEW next \in PickNextTask(c), SwitchTo(c, next)
      PROVE  Others(c)
  BY <1>3, <1>0 DEF Others, SwitchTo, Resume, listVars, opVars
<1>4. ASSUME FinishTaskSwitch(c) \/ PutTaskStruct(c)
      PROVE  Others(c)
  BY <1>4, <1>0 DEF Others, FinishTaskSwitch, Resume, rqVars, listVars, opVars,
     PutTaskStruct
<1>5. ASSUME LocalWake(c, arg[c])
      PROVE  Others(c)
  BY <1>5, <1>0 DEF Others, LocalWake, CheckPreemptCurr, ReschedCurr, End, Begin, pcVars
<1>6. ASSUME LocalDrop(c) \/ LocalPi(c)
      PROVE  Others(c)
  BY <1>6, <1>0 DEF Others, LocalDrop, At, taskVars, rqVars, listVars, pcVars, LocalPi
<1>7. ASSUME TtwuLock(c)
      PROVE  Others(c)
  BY <1>7, <1>0 DEF Others, TtwuLock, At, End, Begin, taskVars, rqVars, listVars, pcVars
<1>8. ASSUME TtwuRemote(c)
      PROVE  Others(c)
  BY <1>8, <1>0 DEF Others, TtwuRemote, CheckPreemptCurr, ReschedCurr, At, End, Begin,
     pcVars
<1>9. ASSUME TtwuWaking(c) \/ WakeUpNewPlace(c)
      PROVE  Others(c)
  BY <1>9, <1>0 DEF Others, TtwuWaking, At, rqVars, listVars, pcVars, WakeUpNewPlace
<1>10. ASSUME TtwuQueueLocal(c)
      PROVE  Others(c)
  BY <1>10, <1>0 DEF Others, TtwuQueueLocal, TtwuDoActivate, CheckPreemptCurr,
     ReschedCurr, End, Begin, pcVars
<1>11. ASSUME TtwuQueueRemote(c) \/ TtwuNotify(c)
      PROVE  Others(c)
  BY <1>11, <1>0 DEF Others, TtwuQueueRemote, End, Begin, taskVars, rqVars, pcVars,
     TtwuNotify
<1>12. ASSUME SchedTtwuPending(c)
      PROVE  Others(c)
  BY <1>12, <1>0 DEF Others, SchedTtwuPending, TtwuDoActivate, CheckPreemptCurr,
     ReschedCurr, At, pcVars
<1>13. ASSUME WakeUpNewTask(c)
      PROVE  Others(c)
  BY <1>13, <1>0 DEF Others, WakeUpNewTask, CheckPreemptCurr, ReschedCurr, End, Begin,
     pcVars
<1>14. ASSUME NEW from, NEW to, LockPi(c, from, to)
      PROVE  Others(c)
  BY <1>14, <1>0 DEF Others, LockPi, At, taskVars, rqVars, listVars, pcVars
<1>15. ASSUME MigrateMove(c) \/ MigrateSkip(c)
      PROVE  Others(c)
  BY <1>15, <1>0 DEF Others, MigrateMove, MigrateLocked, MoveDequeue, Begin, listVars,
     pcVars, MigrateSkip, End
<1>16. ASSUME MoveEnqueue(c)
      PROVE  Others(c)
  BY <1>16, <1>0 DEF Others, MoveEnqueue, CheckPreemptCurr, ReschedCurr, End, Begin,
     pcVars
<1>17. ASSUME NEW mask \in SUBSET CPU, AllowedSame(c, mask) \/ AllowedStay(c, mask)
      PROVE  Others(c)
  BY <1>17, <1>0 DEF Others, AllowedSame, AllowedLocked, End, Begin, pcVars,
     AllowedStay, AllowedChanged
<1>18. ASSUME NEW mask \in SUBSET CPU, AllowedStop(c, mask)
      PROVE  Others(c)
  BY <1>18, <1>0 DEF Others, AllowedStop, AllowedChanged, AllowedLocked, ReschedCurr,
     End, Begin, pcVars
<1>19. ASSUME NEW mask \in SUBSET CPU, AllowedMove(c, mask)
      PROVE  Others(c)
  BY <1>19, <1>0 DEF Others, AllowedMove, AllowedChanged, AllowedLocked, MoveDequeue,
     Begin, pcVars
<1>20. ASSUME SchedulerIpi(c)
      PROVE  Others(c)
  BY <1>20, <1>0 DEF Others, SchedulerIpi, EndHalt, TakeWakeList, Begin, taskVars,
     pcVars
<1>21. ASSUME NEW from, NEW to, UNCHANGED <<listVars, opVars>>, IdleStep(c, from, to)
      PROVE  Others(c)
  BY <1>21, <1>0 DEF Others, IdleStep, taskVars, pcVars, listVars, opVars
<1>22. ASSUME IdleSchedule(c) \/ MigrationCpuStop(c)
      PROVE  Others(c)
  BY <1>22, <1>0 DEF Others, IdleSchedule, TakeWakeList, Begin, taskVars,
     MigrationCpuStop, rqVars, pcVars
<1>23. ASSUME PreemptSchedule(c) \/ StopSleep(c) \/ schedule(c) \/ DoExit(c)
      PROVE  Others(c)
  BY <1>23, <1>0 DEF Others, PreemptSchedule, rqVars, listVars, opVars, StopSleep,
     taskVars, schedule, InTask, DoExit
<1>24. ASSUME NEW s \in Asleep, SetCurrentState(c, s)
      PROVE  Others(c)
  BY <1>24, <1>0 DEF Others, SetCurrentState, InTask, rqVars, listVars, pcVars, opVars
<1>25. ASSUME CondHolds(c) \/ SchedulerTick(c)
      PROVE  Others(c)
  BY <1>25, <1>0 DEF Others, CondHolds, InTask, rqVars, listVars, pcVars, opVars,
     SchedulerTick, taskVars
<1>26. ASSUME NEW p \in Task, WakeUpProcess(c, p)
      PROVE  Others(c)
  BY <1>26, <1>0 DEF Others, WakeUpProcess, IrqsOn, EndHalt, Begin, listVars, pcVars
<1>27. ASSUME NEW p \in Task, SchedFork(c, p) \/ SchedSetaffinity(c, p)
      PROVE  Others(c)
  BY <1>27, <1>0 DEF Others, SchedFork, InTask, Begin, rqVars, listVars, pcVars,
     SchedSetaffinity, taskVars
<1> QED
  BY <1>1, <1>2, <1>3, <1>4, <1>5, <1>6, <1>7, <1>8, <1>9, <1>10, <1>11, <1>12, <1>13,
     <1>14, <1>15, <1>16, <1>17, <1>18, <1>19, <1>20, <1>21, <1>22, <1>23, <1>24, <1>25,
     <1>26, <1>27 DEF Acts, IdlePoll, IdleLook, IdleClear, IdleTest

-----------------------------------------------------------------------------
(* wake_list and the idle loop                                             *)

\* The idle loop is left before anything else runs on its CPU.
IdlePlace == \A c \in CPU : idle[c] # "out" => curr[c] = Idle /\ pc[c] = "run"

LEMMA IdlePlaceKept ==
  ASSUME TypeOK, IdlePlace, NEW c \in CPU, Acts(c)
  PROVE  IdlePlace'
<1>0. /\ Others(c) /\ idle \in [CPU -> {"out", "poll", "loop", "clr", "hlt", "exit"}]
      /\ curr \in [CPU -> Task \cup {Idle, Stop}]
      /\ pc \in [CPU -> {"run", "sched", "switch", "finish", "put"}]
  BY OthersKept DEF TypeOK, RqTypeOK, ControlTypeOK
<1> SUFFICES ASSUME idle'[c] # "out" PROVE curr'[c] = Idle /\ pc'[c] = "run"
  BY <1>0 DEF Others, IdlePlace
<1>1. CASE idle'[c] = idle[c] /\ pc'[c] = pc[c] /\ curr'[c] = curr[c]
  BY <1>1 DEF IdlePlace
\* EndHalt does not enter the idle loop.
<1>2. ASSUME SchedulerIpi(c) \/ \E p \in Task : WakeUpProcess(c, p)
      PROVE  curr'[c] = Idle /\ pc'[c] = "run"
  <2>1. idle[c] # "out" /\ pc'[c] = pc[c] /\ curr'[c] = curr[c]
    BY <1>0, <1>2 DEF SchedulerIpi, WakeUpProcess, EndHalt, pcVars
  <2> QED
    BY <2>1 DEF IdlePlace
<1>3. ASSUME NEW from, NEW to, IdleStep(c, from, to)
      PROVE  curr'[c] = Idle /\ pc'[c] = "run"
  BY <1>3 DEF IdleStep, pcVars
\* __schedule is entered from the idle loop in IdleSchedule only.
<1>4. ASSUME \/ IdleSchedule(c) \/ PreemptSchedule(c) \/ StopSleep(c) \/ schedule(c)
             \/ DoExit(c)
      PROVE  FALSE
  BY <1>0, <1>4, Names DEF IdlePlace, IdleSchedule, PreemptSchedule, StopSleep, schedule,
     DoExit, InTask, rqVars
<1>5. ASSUME \/ ScheduleKeep(c) \/ ScheduleSignal(c) \/ ScheduleBlock(c)
             \/ (\E next \in PickNextTask(c) : SwitchTo(c, next))
             \/ FinishTaskSwitch(c) \/ PutTaskStruct(c)
      PROVE  FALSE
  BY <1>0, <1>5 DEF IdlePlace, ScheduleKeep, ScheduleSignal, ScheduleBlock, ScheduleEnter,
     SwitchTo, FinishTaskSwitch, PutTaskStruct, rqVars
<1>6. ASSUME UNCHANGED <<idle, curr, pc>> PROVE curr'[c] = Idle /\ pc'[c] = "run"
  BY <1>1, <1>6
<1>7. ASSUME \/ LocalWake(c, arg[c]) \/ LocalDrop(c) \/ LocalPi(c) \/ TtwuLock(c)
             \/ TtwuRemote(c) \/ TtwuWaking(c) \/ TtwuQueueLocal(c) \/ TtwuQueueRemote(c)
             \/ TtwuNotify(c) \/ SchedTtwuPending(c)
      PROVE  UNCHANGED <<idle, curr, pc>>
  BY <1>7 DEF LocalWake, LocalDrop, LocalPi, TtwuLock, TtwuRemote, TtwuWaking,
     TtwuQueueLocal, TtwuQueueRemote, TtwuNotify, SchedTtwuPending, TtwuDoActivate,
     rqVars, pcVars
<1>8. ASSUME \/ WakeUpNewPlace(c) \/ WakeUpNewTask(c) \/ LockPi(c, "a_pi", "a_rq")
             \/ LockPi(c, "m_pi", "m_rq") \/ MigrateMove(c) \/ MigrateSkip(c)
             \/ MoveEnqueue(c) \/ (\E mask \in SUBSET CPU : AllowedLocked(c, mask))
             \/ MigrationCpuStop(c)
      PROVE  UNCHANGED <<idle, curr, pc>>
  BY <1>8 DEF WakeUpNewPlace, WakeUpNewTask, LockPi, MigrateMove, MigrateSkip,
     MigrateLocked, MoveEnqueue, AllowedLocked, MigrationCpuStop, rqVars, pcVars
<1>9. ASSUME \/ (\E s \in Asleep : SetCurrentState(c, s)) \/ CondHolds(c)
             \/ SchedulerTick(c) \/ \E p \in Task : SchedFork(c, p) \/ SchedSetaffinity(c, p)
      PROVE  UNCHANGED <<idle, curr, pc>>
  BY <1>9 DEF SetCurrentState, CondHolds, SchedulerTick, SchedFork, SchedSetaffinity,
     rqVars, pcVars
<1>10. ASSUME NEW mask \in SUBSET CPU, \/ AllowedSame(c, mask) \/ AllowedStay(c, mask)
                                       \/ AllowedStop(c, mask) \/ AllowedMove(c, mask)
       PROVE  AllowedLocked(c, mask)
  BY <1>10 DEF AllowedSame, AllowedStay, AllowedStop, AllowedMove, AllowedChanged
<1> QED
  BY <1>2, <1>3, <1>4, <1>5, <1>6, <1>7, <1>8, <1>9, <1>10
     DEF Acts, IdlePoll, IdleLook, IdleClear, IdleTest

\* What c does leaves every other waker that has found wake_list empty in its place.
LEMMA NotifiersStay ==
  ASSUME NEW c \in CPU, Others(c), NEW d \in CPU \ {c}, NEW q \in CPU,
         op[d] = "w_ipi", dest[d] = q
  PROVE  op'[d] = "w_ipi" /\ dest'[d] = q
BY DEF Others

\* A list that is not touched stays noticed as long as requests to look at it are only
\* added, and c is no waker that still has to notify.
LEMMA NoticeKept ==
  ASSUME WakeListNoticed, NEW c \in CPU, Others(c), UNCHANGED wake_list,
         op[c] # "w_ipi", UNCHANGED idle,
         \A q \in CPU : ipi[q] => ipi'[q],
         \A q \in CPU : need_resched[q] => need_resched'[q] \/ idle[q] = "out"
  PROVE  WakeListNoticed'
<1> SUFFICES ASSUME NEW q \in CPU, wake_list[q] # {}
             PROVE  \/ ipi'[q]
                    \/ Polling(q)' /\ need_resched'[q]
                    \/ idle'[q] \in {"clr", "exit"} /\ need_resched'[q]
                    \/ \E d \in CPU : op'[d] = "w_ipi" /\ dest'[d] = q
  BY DEF WakeListNoticed
<1>1. Polling(q)' = Polling(q)
  BY DEF Polling
<1>2. CASE \E d \in CPU : op[d] = "w_ipi" /\ dest[d] = q
  BY <1>2, NotifiersStay
<1>3. Polling(q) => idle[q] # "out"
  BY DEF Polling
<1> QED
  BY <1>1, <1>2, <1>3 DEF WakeListNoticed

\* check_preempt_curr and resched_curr only add requests.
LEMMA PreemptAdds ==
  ASSUME TypeOK, NEW c, NEW q \in CPU,
         \/ CheckPreemptCurr(c, q) \/ ReschedCurr(c, q) \/ UNCHANGED <<need_resched, ipi>>
  PROVE  \A d \in CPU : /\ ipi[d] => ipi'[d]
                        /\ need_resched[d] => need_resched'[d]
<1>1. need_resched \in [CPU -> BOOLEAN] /\ ipi \in [CPU -> BOOLEAN]
  BY DEF TypeOK, RqTypeOK, ListTypeOK
<1>2. ASSUME ReschedCurr(c, q)
      PROVE  \A d \in CPU : (ipi[d] => ipi'[d]) /\ (need_resched[d] => need_resched'[d])
  BY <1>1, <1>2 DEF ReschedCurr
<1> QED
  BY <1>2 DEF CheckPreemptCurr

LEMMA WakeListNoticedKept ==
  ASSUME IInv, IdlePlace, WakeListNoticed, NEW c \in CPU, Acts(c)
  PROVE  WakeListNoticed'
<1>0. /\ TypeOK /\ OpPlace /\ Others(c)
      /\ wake_list \in [CPU -> SUBSET Task] /\ op \in [CPU -> Ops] /\ dest \in [CPU -> CPU]
      /\ idle \in [CPU -> {"out", "poll", "loop", "clr", "hlt", "exit"}]
      /\ need_resched \in [CPU -> BOOLEAN] /\ ipi \in [CPU -> BOOLEAN]
  BY OthersKept DEF IInv, TypeOK, RqTypeOK, ListTypeOK, ControlTypeOK
\* The lists, the flags and the idle loops are left alone.
<1>1. ASSUME UNCHANGED <<wake_list, ipi, need_resched, idle>>, op[c] # "w_ipi"
      PROVE  WakeListNoticed'
  BY <1>0, <1>1, NoticeKept
<1>2. ASSUME \/ ScheduleKeep(c) \/ ScheduleSignal(c) \/ ScheduleBlock(c)
             \/ FinishTaskSwitch(c) \/ PutTaskStruct(c) \/ PreemptSchedule(c)
             \/ StopSleep(c) \/ schedule(c) \/ DoExit(c) \/ CondHolds(c)
             \/ (\E s \in Asleep : SetCurrentState(c, s))
             \/ (\E p \in Task : SchedFork(c, p) \/ SchedSetaffinity(c, p))
      PROVE  UNCHANGED <<wake_list, ipi, need_resched, idle>> /\ op[c] # "w_ipi"
  <2>1. UNCHANGED <<wake_list, ipi, need_resched, idle>>
    BY <1>2 DEF ScheduleKeep, ScheduleSignal, ScheduleBlock, ScheduleEnter,
       FinishTaskSwitch, PutTaskStruct, PreemptSchedule, StopSleep, schedule, DoExit,
       CondHolds, SetCurrentState, SchedFork, SchedSetaffinity, rqVars, listVars
  <2>2. op[c] = "none" \/ pc[c] \in {"finish", "put"}
    BY <1>2 DEF ScheduleKeep, ScheduleSignal, ScheduleBlock, ScheduleEnter,
       FinishTaskSwitch, PutTaskStruct, PreemptSchedule, StopSleep, schedule, DoExit,
       CondHolds, SetCurrentState, SchedFork, SchedSetaffinity, InTask
  <2> QED
    BY <1>0, <2>1, <2>2 DEF OpPlace
<1>3. ASSUME \/ LocalDrop(c) \/ LocalPi(c) \/ TtwuLock(c) \/ TtwuWaking(c)
             \/ WakeUpNewPlace(c) \/ LockPi(c, "a_pi", "a_rq") \/ LockPi(c, "m_pi", "m_rq")
             \/ MigrateMove(c) \/ MigrateSkip(c)
      PROVE  UNCHANGED <<wake_list, ipi, need_resched, idle>> /\ op[c] # "w_ipi"
  BY <1>3 DEF LocalDrop, LocalPi, TtwuLock, TtwuWaking, WakeUpNewPlace, LockPi,
     MigrateMove, MigrateSkip, MigrateLocked, rqVars, listVars
\* check_preempt_curr and resched_curr.
<1>4. ASSUME NEW q \in CPU, UNCHANGED <<wake_list, idle>>, op[c] # "w_ipi",
             \/ CheckPreemptCurr(c, q) \/ ReschedCurr(c, q) \/ UNCHANGED <<need_resched, ipi>>
      PROVE  WakeListNoticed'
  BY <1>0, <1>4, PreemptAdds, NoticeKept
<1>5. ASSUME LocalWake(c, arg[c]), op[c] \in {"l_try", "l_rq"}
      PROVE  WakeListNoticed'
  BY <1>4, <1>5 DEF LocalWake
<1>6. ASSUME TtwuRemote(c) PROVE WakeListNoticed'
  <2>1. cpu[arg[c]] \in CPU
    BY <1>0, <1>6 DEF TtwuRemote, OpPlace, TypeOK, TaskTypeOK
  <2> QED
    BY <1>4, <1>6, <2>1 DEF TtwuRemote
<1>7. ASSUME TtwuQueueLocal(c) \/ WakeUpNewTask(c) \/ MoveEnqueue(c)
      PROVE  WakeListNoticed'
  <2>1. cpu[arg[c]] \in CPU
    BY <1>0, <1>7 DEF TtwuQueueLocal, WakeUpNewTask, MoveEnqueue, OpPlace, TypeOK, TaskTypeOK
  <2> QED
    BY <1>4, <1>7, <2>1 DEF TtwuQueueLocal, TtwuDoActivate, WakeUpNewTask, MoveEnqueue
<1>8. ASSUME SchedTtwuPending(c) PROVE WakeListNoticed'
  BY <1>4, <1>8 DEF SchedTtwuPending, TtwuDoActivate
<1>9. ASSUME NEW mask \in SUBSET CPU, \/ AllowedSame(c, mask) \/ AllowedStay(c, mask)
                                      \/ AllowedStop(c, mask) \/ AllowedMove(c, mask)
      PROVE  WakeListNoticed'
  <2>1. op[c] = "a_rq" /\ UNCHANGED <<wake_list, idle>>
    BY <1>9 DEF AllowedSame, AllowedStay, AllowedStop, AllowedMove, AllowedChanged,
       AllowedLocked
  <2>2. cpu[arg[c]] \in CPU
    BY <1>0, <2>1 DEF OpPlace, TypeOK, TaskTypeOK
  <2>3. ReschedCurr(c, cpu[arg[c]]) \/ UNCHANGED <<need_resched, ipi>>
    BY <1>9 DEF AllowedSame, AllowedStay, AllowedStop, AllowedMove
  <2> QED
    BY <1>4, <2>1, <2>2, <2>3
<1>10. ASSUME SchedulerTick(c) PROVE WakeListNoticed'
  BY <1>0, <1>10, NoticeKept DEF SchedulerTick, IrqsOn, listVars
\* A context switch clears the flag; the CPU is not in its idle loop then.
<1>11. ASSUME NEW next \in PickNextTask(c), SwitchTo(c, next) PROVE WakeListNoticed'
  <2>1. idle[c] = "out" /\ op[c] # "w_ipi" /\ UNCHANGED <<wake_list, ipi, idle>>
    BY <1>0, <1>11 DEF SwitchTo, IdlePlace, listVars
  <2>2. \A q \in CPU : need_resched[q] => need_resched'[q] \/ idle[q] = "out"
    BY <1>0, <1>11, <2>1 DEF SwitchTo
  <2> QED
    BY <1>0, <2>1, <2>2, NoticeKept
\* An interrupt of a halted CPU: its idle loop polls again.
<1>12. ASSUME NEW p \in Task, WakeUpProcess(c, p) PROVE WakeListNoticed'
  <2>1. op[c] = "none" /\ UNCHANGED <<wake_list, ipi, need_resched>>
    BY <1>12 DEF WakeUpProcess, IrqsOn, listVars
  <2>2. \A q \in CPU : idle'[q] = idle[q] \/ (idle[q] = "hlt" /\ idle'[q] = "poll")
    BY <1>0, <1>12 DEF WakeUpProcess, EndHalt
  <2>3. ASSUME NEW q \in CPU, NEW d \in CPU, op[d] = "w_ipi", dest[d] = q
        PROVE  op'[d] = "w_ipi" /\ dest'[d] = q
    BY <1>0, <2>1, <2>3, NotifiersStay
  <2> QED
    BY <2>1, <2>2, <2>3 DEF WakeListNoticed, Polling
\* The idle loop looks at the flag before it stops polling and after.
<1>13. ASSUME NEW from, NEW to, IdleStep(c, from, to), UNCHANGED <<listVars, opVars>>,
              \/ from = "out" /\ to = "poll"
              \/ from = "poll" /\ to = IF need_resched[c] THEN "exit" ELSE "loop"
              \/ from = "loop" /\ to = "clr"
              \/ from = "clr" /\ to = IF need_resched[c] THEN "poll" ELSE "hlt"
      PROVE  WakeListNoticed'
  <2>1. UNCHANGED <<wake_list, ipi, need_resched, op, dest>>
    BY <1>13 DEF IdleStep, listVars, opVars
  <2>2. idle' = [idle EXCEPT ![c] = to] /\ idle[c] = from
    BY <1>13 DEF IdleStep
  <2> QED
    BY <1>0, <1>13, <2>1, <2>2 DEF WakeListNoticed, Polling
\* The list is taken off.
<1>14. ASSUME SchedulerIpi(c) \/ IdleSchedule(c) \/ MigrationCpuStop(c)
       PROVE  WakeListNoticed'
  <2>1. /\ wake_list' = [wake_list EXCEPT ![c] = {}] /\ op[c] # "w_ipi"
        /\ need_resched' = need_resched
        /\ \A q \in CPU \ {c} : ipi'[q] = ipi[q]
    BY <1>0, <1>14 DEF SchedulerIpi, IrqsOn, IdleSchedule, MigrationCpuStop, TakeWakeList,
       rqVars
  <2>2. ASSUME NEW q \in CPU, NEW d \in CPU, op[d] = "w_ipi", dest[d] = q
        PROVE  op'[d] = "w_ipi" /\ dest'[d] = q
    BY <1>0, <2>1, <2>2, NotifiersStay
  <2> QED
    BY <1>0, <2>1, <2>2 DEF WakeListNoticed, Polling, Others
\* The waker that finds the list empty notifies; one that does not relies on another.
<1>15. ASSUME TtwuQueueRemote(c) PROVE WakeListNoticed'
  <2> DEFINE q == cpu[arg[c]]
  <2>1. /\ op[c] = "w_queue" /\ wake_list' = [wake_list EXCEPT ![q] = @ \cup {arg[c]}]
        /\ UNCHANGED <<ipi, need_resched, idle>>
        /\ wake_list[q] = {} => op'[c] = "w_ipi" /\ dest'[c] = q
    BY <1>0, <1>15 DEF TtwuQueueRemote, Begin, rqVars
  <2>2. ASSUME NEW r \in CPU, NEW d \in CPU, op[d] = "w_ipi", dest[d] = r
        PROVE  op'[d] = "w_ipi" /\ dest'[d] = r
    BY <1>0, <2>1, <2>2, NotifiersStay
  <2> HIDE DEF q
  <2> QED
    BY <1>0, <2>1, <2>2 DEF WakeListNoticed, Polling
<1>16. ASSUME TtwuNotify(c) PROVE WakeListNoticed'
  <2> DEFINE q == dest[c]
  <2>1. /\ need_resched' = [need_resched EXCEPT ![q] = @ \/ Polling(q)]
        /\ ipi' = [ipi EXCEPT ![q] = @ \/ ~Polling(q)]
        /\ UNCHANGED <<wake_list, idle>>
    BY <1>16 DEF TtwuNotify
  <2>2. ASSUME NEW r \in CPU \ {q}, NEW d \in CPU, op[d] = "w_ipi", dest[d] = r
        PROVE  op'[d] = "w_ipi" /\ dest'[d] = r
    BY <1>0, <2>2, NotifiersStay
  <2>3. q \in CPU /\ (ipi'[q] \/ (Polling(q) /\ need_resched'[q]))
    BY <1>0, <2>1
  <2>4. \A r \in CPU \ {q} : ipi'[r] = ipi[r] /\ need_resched'[r] = need_resched[r]
    BY <1>0, <2>1
  <2> HIDE DEF q
  <2> QED
    BY <2>1, <2>2, <2>3, <2>4 DEF WakeListNoticed, Polling
<1> QED
  BY <1>1, <1>2, <1>3, <1>5, <1>6, <1>7, <1>8, <1>9, <1>10, <1>11, <1>12, <1>13, <1>14,
     <1>15, <1>16 DEF Acts, IdlePoll, IdleLook, IdleClear, IdleTest

\* A wake_list that is not empty is never forgotten: the waker that skips the interrupt
\* because the idle loop polls, or because another waker was first, is right to do so.
THEOREM WakeListSafety == Spec => []WakeListNoticed
<1>1. Init => IdlePlace /\ WakeListNoticed
  BY DEF Init, IdlePlace, WakeListNoticed
<1>2. IInv /\ IdlePlace /\ WakeListNoticed /\ [Next]_vars => IdlePlace' /\ WakeListNoticed'
  <2> SUFFICES ASSUME IInv, IdlePlace, WakeListNoticed, [Next]_vars
               PROVE  IdlePlace' /\ WakeListNoticed'
    OBVIOUS
  <2>1. CASE UNCHANGED vars
    BY <2>1 DEF IdlePlace, WakeListNoticed, Polling, vars, rqVars, listVars, pcVars, opVars
  <2>2. CASE Next
    BY <2>2, Steps, IdlePlaceKept, WakeListNoticedKept DEF IInv
  <2> QED
    BY <2>1, <2>2
<1> QED
  BY <1>1, <1>2, Invariance, PTL DEF Spec

-----------------------------------------------------------------------------
(* No wakeup is lost                                                       *)

\* A waker of p that has yet to look at its state or to act on it.
Waking == {"w_pi", "w_rq", "w_spin"}
WakerOf(p) == \E c \in CPU : arg[c] = p /\ op[c] \in Waking

\* The condition of p has become true while p sleeps off the queue, or is in __schedule
\* and about to leave it: it blocks, and was not preempted.
Leaving(c, p) == curr[c] = p /\ pc[c] = "sched" /\ ~active[p]
Due(p) == /\ cond[p] /\ state[p] \in Asleep
          /\ on_rq[p] = "no" \/ \E c \in CPU : Leaving(c, p)

WakerKnown == \A p \in Task : Due(p) => WakerOf(p)

\* c does not wake, and nothing becomes due.
LEMMA NothingDue ==
  ASSUME WakerKnown, NEW c \in CPU, Others(c), op[c] \notin Waking,
         \A p \in Task : Due(p)' => Due(p)
  PROVE  WakerKnown'
<1> SUFFICES ASSUME NEW p \in Task, Due(p)' PROVE WakerOf(p)'
  BY DEF WakerKnown
<1>1. PICK d \in CPU : arg[d] = p /\ op[d] \in Waking
  BY DEF WakerKnown, WakerOf
<1>2. arg'[d] = p /\ op'[d] \in Waking
  BY <1>1 DEF Others
<1> QED
  BY <1>2 DEF WakerOf

\* c wakes p, and stays with it or makes it runnable; nothing else becomes due.
LEMMA WakerMoves ==
  ASSUME WakerKnown, NEW c \in CPU, Others(c), NEW p \in Task, arg[c] = p,
         \A q \in Task \ {p} : Due(q)' => Due(q),
         ~Due(p)' \/ (op'[c] \in Waking /\ arg'[c] = p)
  PROVE  WakerKnown'
<1> SUFFICES ASSUME NEW q \in Task, Due(q)' PROVE WakerOf(q)'
  BY DEF WakerKnown
<1>1. CASE q = p
  BY <1>1 DEF WakerOf
<1>2. CASE q # p
  <2>1. PICK d \in CPU : arg[d] = q /\ op[d] \in Waking
    BY <1>2 DEF WakerKnown, WakerOf
  <2>2. arg'[d] = q /\ op'[d] \in Waking
    BY <1>2, <2>1 DEF Others
  <2> QED
    BY <2>2 DEF WakerOf
<1> QED
  BY <1>1, <1>2

LEMMA WakerKnownKept ==
  ASSUME IInv, IdlePlace, WakerKnown, NEW c \in CPU, Acts(c)
  PROVE  WakerKnown'
<1>0. /\ OpPlace /\ OpTask /\ Pending /\ Newborn /\ Running /\ Stacks /\ Others(c)
      /\ state \in [Task -> Asleep \cup {"RUNNING", "WAKING", "DEAD"}]
      /\ on_rq \in [Task -> {"no", "queued", "migrating"}] /\ cond \in [Task -> BOOLEAN]
      /\ active \in [Task -> BOOLEAN] /\ curr \in [CPU -> Task \cup {Idle, Stop}]
      /\ pc \in [CPU -> {"run", "sched", "switch", "finish", "put"}]
      /\ op \in [CPU -> Ops] /\ arg \in [CPU -> Task \cup {NoTask}]
  BY OthersKept DEF IInv, TypeOK, TaskTypeOK, RqTypeOK, ControlTypeOK
<1>1. \A d \in CPU : curr[d] \in Task /\ curr[c] = curr[d] => c = d
  BY <1>0 DEF Stacks, OnStack
<1>2. ASSUME UNCHANGED <<cond, state, on_rq, curr, pc, active>>
      PROVE  \A p \in Task : Due(p)' => Due(p)
  BY <1>2 DEF Due, Leaving
\* Actions that concern neither conditions nor states nor queues.
<1>3. ASSUME \/ LocalDrop(c) \/ LocalPi(c) \/ TtwuQueueRemote(c) \/ TtwuNotify(c)
             \/ LockPi(c, "a_pi", "a_rq") \/ LockPi(c, "m_pi", "m_rq") \/ WakeUpNewPlace(c)
             \/ MigrateSkip(c) \/ SchedulerIpi(c) \/ MigrationCpuStop(c) \/ SchedulerTick(c)
      PROVE  WakerKnown'
  <2>1. op[c] \notin Waking
    BY <1>3 DEF LocalDrop, LocalPi, TtwuQueueRemote, TtwuNotify, LockPi, WakeUpNewPlace,
       MigrateSkip, MigrateLocked, SchedulerIpi, MigrationCpuStop, SchedulerTick, IrqsOn,
       Waking
  <2>2. UNCHANGED <<cond, state, on_rq, curr, pc, active>>
    BY <1>3 DEF LocalDrop, LocalPi, TtwuQueueRemote, TtwuNotify, LockPi, WakeUpNewPlace,
       MigrateSkip, MigrateLocked, SchedulerIpi, MigrationCpuStop, SchedulerTick, taskVars,
       rqVars, pcVars
  <2> QED
    BY <1>0, <1>2, <2>1, <2>2, NothingDue
<1>4. ASSUME \/ IdlePoll(c) \/ IdleLook(c) \/ IdleClear(c) \/ IdleTest(c)
             \/ (\E p \in Task : SchedFork(c, p) \/ SchedSetaffinity(c, p))
      PROVE  WakerKnown'
  <2>1. op[c] \notin Waking
    BY <1>4 DEF IdlePoll, IdleLook, IdleClear, IdleTest, IdleStep, SchedFork,
       SchedSetaffinity, InTask, Waking
  <2>2. UNCHANGED <<cond, state, on_rq, curr, pc, active>>
    BY <1>4 DEF IdlePoll, IdleLook, IdleClear, IdleTest, IdleStep, SchedFork,
       SchedSetaffinity, taskVars, rqVars, pcVars
  <2> QED
    BY <1>0, <1>2, <2>1, <2>2, NothingDue
<1>5. ASSUME NEW mask \in SUBSET CPU,
             \/ AllowedSame(c, mask) \/ AllowedStay(c, mask) \/ AllowedStop(c, mask)
      PROVE  WakerKnown'
  <2>1. op[c] \notin Waking /\ UNCHANGED <<cond, state, on_rq, curr, pc, active>>
    BY <1>5 DEF AllowedSame, AllowedStay, AllowedStop, AllowedChanged, AllowedLocked,
       Waking, pcVars
  <2> QED
    BY <1>0, <1>2, <2>1, NothingDue
\* Actions that put a task on a queue, or take it from one queue to another.
<1>6. ASSUME op[c] \notin Waking, UNCHANGED <<cond, curr, pc, active>>,
             \A p \in Task : state'[p] \in Asleep => state'[p] = state[p],
             \A p \in Task : on_rq'[p] = "no" => on_rq[p] = "no"
      PROVE  WakerKnown'
  <2>1. \A p \in Task : Due(p)' => Due(p)
    BY <1>0, <1>6 DEF Due, Leaving
  <2> QED
    BY <1>0, <1>6, <2>1, NothingDue
<1>7. ASSUME LocalWake(c, arg[c]), op[c] \in {"l_try", "l_rq"} PROVE WakerKnown'
  BY <1>0, <1>6, <1>7 DEF LocalWake, Asleep, Waking, pcVars
<1>8. ASSUME TtwuQueueLocal(c) \/ SchedTtwuPending(c) PROVE WakerKnown'
  <2>1. /\ op[c] \notin Waking /\ UNCHANGED <<cond, curr, pc, active>>
        /\ \A p \in Task : state'[p] \in {state[p], "RUNNING"} /\ on_rq'[p] \in {on_rq[p], "queued"}
    BY <1>8 DEF TtwuQueueLocal, SchedTtwuPending, TtwuDoActivate, Waking, pcVars
  <2> QED
    BY <1>6, <2>1 DEF Asleep
<1>9. ASSUME WakeUpNewTask(c) \/ MigrateMove(c) \/ MoveEnqueue(c) PROVE WakerKnown'
  <2>1. /\ op[c] \notin Waking /\ UNCHANGED <<cond, curr, pc, active, state>>
        /\ \A p \in Task : on_rq'[p] \in {on_rq[p], "queued", "migrating"}
    BY <1>0, <1>9 DEF WakeUpNewTask, MigrateMove, MigrateLocked, MoveDequeue, MoveEnqueue,
       Waking, pcVars
  <2> QED
    BY <1>6, <2>1
<1>10. ASSUME NEW mask \in SUBSET CPU, AllowedMove(c, mask) PROVE WakerKnown'
  <2>1. /\ op[c] \notin Waking /\ UNCHANGED <<cond, curr, pc, active, state>>
        /\ \A p \in Task : on_rq'[p] \in {on_rq[p], "queued", "migrating"}
    BY <1>0, <1>10 DEF AllowedMove, AllowedChanged, AllowedLocked, MoveDequeue, Waking, pcVars
  <2> QED
    BY <1>6, <2>1
\* The running task: it is queued, and not in __schedule.
<1>11. ASSUME NEW s \in Asleep, SetCurrentState(c, s) PROVE WakerKnown'
  <2>1. /\ pc[c] = "run" /\ op[c] = "none" /\ curr[c] \in Task
        /\ state' = [state EXCEPT ![curr[c]] = s]
        /\ UNCHANGED <<cond, on_rq, curr, pc, active>>
    BY <1>11 DEF SetCurrentState, InTask, rqVars, pcVars
  <2>2. on_rq[curr[c]] = "queued"
    BY <1>0, <2>1 DEF Running
  <2>3. \A p \in Task : Due(p)' => Due(p)
    BY <1>0, <1>1, <2>1, <2>2 DEF Due, Leaving
  <2> QED
    BY <1>0, <2>1, <2>3, NothingDue DEF Waking
<1>12. ASSUME CondHolds(c) PROVE WakerKnown'
  <2>1. /\ op[c] = "none" /\ curr[c] \in Task /\ state' = [state EXCEPT ![curr[c]] = "RUNNING"]
        /\ cond' = [cond EXCEPT ![curr[c]] = FALSE] /\ UNCHANGED <<on_rq, curr, pc, active>>
    BY <1>12 DEF CondHolds, InTask, rqVars, pcVars
  <2>2. \A p \in Task : Due(p)' => Due(p)
    BY <1>0, <2>1 DEF Due, Leaving
  <2> QED
    BY <1>0, <2>1, <2>2, NothingDue DEF Waking
\* It tests its condition between setting its state and entering __schedule.
<1>13. ASSUME schedule(c) PROVE WakerKnown'
  <2>1. /\ op[c] = "none" /\ ~cond[curr[c]] /\ pc' = [pc EXCEPT ![c] = "sched"]
        /\ UNCHANGED <<cond, state, on_rq, curr, active>>
    BY <1>13 DEF schedule, InTask, taskVars, rqVars
  <2>2. \A p \in Task : Due(p)' => Due(p)
    BY <1>0, <2>1 DEF Due, Leaving
  <2> QED
    BY <1>0, <2>1, <2>2, NothingDue DEF Waking
<1>14. ASSUME DoExit(c) PROVE WakerKnown'
  <2>1. /\ op[c] = "none" /\ curr[c] \in Task /\ state' = [state EXCEPT ![curr[c]] = "DEAD"]
        /\ pc' = [pc EXCEPT ![c] = "sched"] /\ UNCHANGED <<cond, on_rq, curr, active>>
    BY <1>14 DEF DoExit, InTask, rqVars
  <2>2. \A p \in Task : Due(p)' => Due(p)
    BY <1>0, <2>1 DEF Due, Leaving, Asleep
  <2> QED
    BY <1>0, <2>1, <2>2, NothingDue DEF Waking
\* A preempted task does not block, whatever its state.
<1>15. ASSUME PreemptSchedule(c) PROVE WakerKnown'
  <2>1. /\ op[c] = "none" /\ curr[c] \in Task /\ active' = [active EXCEPT ![curr[c]] = TRUE]
        /\ pc' = [pc EXCEPT ![c] = "sched"] /\ UNCHANGED <<cond, state, on_rq, curr>>
    BY <1>15 DEF PreemptSchedule, InTask, rqVars
  <2>2. \A p \in Task : Due(p)' => Due(p)
    BY <1>0, <2>1 DEF Due, Leaving
  <2> QED
    BY <1>0, <2>1, <2>2, NothingDue DEF Waking
<1>16. ASSUME StopSleep(c) \/ IdleSchedule(c) PROVE WakerKnown'
  <2>1. /\ op[c] = "none" /\ curr[c] \notin Task /\ pc' = [pc EXCEPT ![c] = "sched"]
        /\ UNCHANGED <<cond, state, on_rq, curr, active>>
    BY <1>16, Names DEF StopSleep, IdleSchedule, IdlePlace, taskVars, rqVars
  <2>2. \A p \in Task : Due(p)' => Due(p)
    BY <1>0, <2>1 DEF Due, Leaving
  <2> QED
    BY <1>0, <2>1, <2>2, NothingDue DEF Waking
\* __schedule.
<1>17. ASSUME ScheduleKeep(c) \/ ScheduleSignal(c) \/ ScheduleBlock(c) PROVE WakerKnown'
  <2>1. op[c] = "none" /\ pc' = [pc EXCEPT ![c] = "switch"] /\ UNCHANGED <<cond, curr, active>>
    BY <1>17 DEF ScheduleKeep, ScheduleSignal, ScheduleBlock, ScheduleEnter
  <2>2. CASE ScheduleKeep(c) \/ ScheduleSignal(c)
    <3>1. /\ UNCHANGED on_rq
          /\ \A p \in Task : state'[p] \in {state[p], "RUNNING"}
      BY <1>0, <2>2 DEF ScheduleKeep, ScheduleSignal
    <3>2. \A p \in Task : Due(p)' => Due(p)
      BY <1>0, <2>1, <3>1 DEF Due, Leaving, Asleep
    <3> QED
      BY <1>0, <2>1, <3>2, NothingDue DEF Waking
  <2>3. CASE ScheduleBlock(c)
    <3>1. /\ curr[c] \in Task /\ Leaving(c, curr[c]) /\ UNCHANGED state
          /\ \A p \in Task \ {curr[c]} : on_rq'[p] = on_rq[p]
      BY <1>0, <2>3 DEF ScheduleBlock, ScheduleEnter, Blocks, Leaving
    <3>2. \A p \in Task : Due(p)' => Due(p)
      BY <1>0, <2>1, <3>1 DEF Due, Leaving
    <3> QED
      BY <1>0, <2>1, <3>2, NothingDue DEF Waking
  <2> QED
    BY <1>17, <2>2, <2>3
<1>18. ASSUME pc[c] \in {"switch", "finish", "put"}, pc'[c] # "sched",
              op[c] \notin Waking, UNCHANGED <<cond, state, on_rq>>,
              \A p \in Task : p # curr[c] => active'[p] = active[p]
       PROVE  WakerKnown'
  <2>1. \A d \in CPU, p \in Task : Leaving(d, p)' => Leaving(d, p)
    BY <1>0, <1>1, <1>18 DEF Leaving, Others
  <2>2. \A p \in Task : Due(p)' => Due(p)
    BY <1>18, <2>1 DEF Due
  <2> QED
    BY <1>0, <1>18, <2>2, NothingDue
<1>19. ASSUME NEW next \in PickNextTask(c), SwitchTo(c, next) PROVE WakerKnown'
  <2>1. /\ pc[c] = "switch" /\ op[c] = "none" /\ pc'[c] # "sched" /\ UNCHANGED <<cond, state, on_rq>>
        /\ \A p \in Task : p # curr[c] => active'[p] = active[p]
    BY <1>0, <1>19 DEF SwitchTo, Resume
  <2> QED
    BY <1>18, <2>1 DEF Waking
<1>20. ASSUME FinishTaskSwitch(c) \/ PutTaskStruct(c) PROVE WakerKnown'
  <2>1. /\ pc[c] \in {"finish", "put"} /\ pc'[c] # "sched" /\ UNCHANGED <<cond, state, on_rq>>
        /\ \A p \in Task : p # curr[c] => active'[p] = active[p]
    BY <1>0, <1>20 DEF FinishTaskSwitch, PutTaskStruct, Resume
  <2>2. op[c] \notin Waking
    BY <1>0, <2>1 DEF OpPlace, Waking
  <2> QED
    BY <1>18, <2>1, <2>2
\* Wakers.
<1>21. ASSUME NEW p \in Task, WakeUpProcess(c, p) PROVE WakerKnown'
  <2>1. /\ op[c] = "none" /\ cond' = [cond EXCEPT ![p] = TRUE]
        /\ op'[c] = "w_pi" /\ arg'[c] = p /\ UNCHANGED <<state, on_rq, curr, pc, active>>
    BY <1>0, <1>21 DEF WakeUpProcess, IrqsOn, Begin, pcVars
  <2>2. \A q \in Task \ {p} : Due(q)' => Due(q)
    BY <1>0, <2>1 DEF Due, Leaving
  <2>3. ASSUME NEW q \in Task, Due(q)' PROVE WakerOf(q)'
    <3>1. CASE q = p
      BY <2>1, <3>1 DEF WakerOf, Waking
    <3>2. CASE q # p
      <4>1. PICK d \in CPU : arg[d] = q /\ op[d] \in Waking
        BY <2>2, <2>3, <3>2 DEF WakerKnown, WakerOf
      <4>2. arg'[d] = q /\ op'[d] \in Waking
        BY <1>0, <2>1, <4>1 DEF Others, Waking
      <4> QED
        BY <4>2 DEF WakerOf
    <3> QED
      BY <3>1, <3>2
  <2> QED
    BY <2>3 DEF WakerKnown
<1>22. ASSUME TtwuLock(c) \/ TtwuRemote(c) \/ TtwuWaking(c) PROVE WakerKnown'
  <2>1. PICK p \in Task : arg[c] = p
    BY <1>0, <1>22 DEF TtwuLock, TtwuRemote, TtwuWaking, OpPlace
  <2>2. /\ UNCHANGED <<cond, on_rq, curr, pc, active>>
        /\ \A q \in Task \ {p} : state'[q] = state[q]
    BY <1>0, <1>22, <2>1 DEF TtwuLock, TtwuRemote, TtwuWaking, taskVars, rqVars, pcVars
  <2>3. \A q \in Task \ {p} : Due(q)' => Due(q)
    BY <2>2 DEF Due, Leaving
  <2>4. state'[p] \notin Asleep \/ (op'[c] \in Waking /\ arg'[c] = p)
    BY <1>0, <1>22, <2>1 DEF TtwuLock, TtwuRemote, TtwuWaking, At, taskVars, Asleep, Waking
  <2> QED
    BY <1>0, <2>1, <2>3, <2>4, WakerMoves DEF Due
<1> QED
  BY <1>3, <1>4, <1>5, <1>7, <1>8, <1>9, <1>10, <1>11, <1>12, <1>13, <1>14, <1>15, <1>16,
     <1>17, <1>19, <1>20, <1>21, <1>22 DEF Acts

\* No order of the waiter's "set state, test condition, schedule" and the waker's "set
\* condition, test state" loses a wakeup, for any number of waiters and wakers.
THEOREM WakeupSafety == Spec => []NoLostWakeup
<1>1. Init => IdlePlace /\ WakerKnown
  BY DEF Init, IdlePlace, WakerKnown, Due
<1>2. IInv /\ IdlePlace /\ WakerKnown /\ [Next]_vars => IdlePlace' /\ WakerKnown'
  <2> SUFFICES ASSUME IInv, IdlePlace, WakerKnown, [Next]_vars
               PROVE  IdlePlace' /\ WakerKnown'
    OBVIOUS
  <2>1. CASE UNCHANGED vars
    BY <2>1 DEF IdlePlace, WakerKnown, Due, Leaving, WakerOf, vars, taskVars, rqVars,
       pcVars, opVars
  <2>2. CASE Next
    BY <2>2, Steps, IdlePlaceKept, WakerKnownKept DEF IInv
  <2> QED
    BY <2>1, <2>2
<1>3. WakerKnown => NoLostWakeup
  BY DEF WakerKnown, Due, WakerOf, Waking, NoLostWakeup
<1> QED
  BY <1>1, <1>2, <1>3, Invariance, PTL DEF Spec

-----------------------------------------------------------------------------
(* Only runnable tasks are moved                                           *)

\* A task that is on a queue or between two, and not runnable, was preempted or has
\* not left its CPU since it set its state.
OnItsCpu(p) == \E c \in CPU : curr[c] = p /\ pc[c] \in {"run", "put", "sched"}
Preempted ==
    \A p \in Task : on_rq[p] # "no" /\ state[p] # "RUNNING" /\ ~active[p] => OnItsCpu(p)

LEMMA PreemptedKept ==
  ASSUME IInv, Preempted, NEW c \in CPU, Acts(c)
  PROVE  Preempted'
<1>0. /\ OpPlace /\ OpTask /\ Newborn /\ Others(c)
      /\ state \in [Task -> Asleep \cup {"RUNNING", "WAKING", "DEAD"}]
      /\ on_rq \in [Task -> {"no", "queued", "migrating"}]
      /\ active \in [Task -> BOOLEAN] /\ curr \in [CPU -> Task \cup {Idle, Stop}]
      /\ pc \in [CPU -> {"run", "sched", "switch", "finish", "put"}]
  BY OthersKept DEF IInv, TypeOK, TaskTypeOK, RqTypeOK, ControlTypeOK
\* A task that enters a queue is runnable.
<1>1. ASSUME UNCHANGED <<curr, pc, active>>,
             \A p \in Task : \/ state'[p] = "RUNNING" \/ on_rq'[p] = "no"
                             \/ state'[p] = state[p] /\ on_rq[p] # "no"
      PROVE  Preempted'
  BY <1>1 DEF Preempted, OnItsCpu
<1>2. ASSUME UNCHANGED <<curr, pc, active, state, on_rq>> PROVE Preempted'
  BY <1>2 DEF Preempted, OnItsCpu
<1>3. ASSUME \/ LocalDrop(c) \/ LocalPi(c) \/ TtwuLock(c) \/ TtwuQueueRemote(c)
             \/ TtwuNotify(c) \/ LockPi(c, "a_pi", "a_rq") \/ LockPi(c, "m_pi", "m_rq")
             \/ WakeUpNewPlace(c) \/ MigrateSkip(c) \/ SchedulerIpi(c)
             \/ MigrationCpuStop(c) \/ SchedulerTick(c)
      PROVE  UNCHANGED <<curr, pc, active, state, on_rq>>
  BY <1>3 DEF LocalDrop, LocalPi, TtwuLock, TtwuQueueRemote, TtwuNotify, LockPi,
     WakeUpNewPlace, MigrateSkip, MigrateLocked, SchedulerIpi, MigrationCpuStop,
     SchedulerTick, taskVars, rqVars, pcVars
<1>4. ASSUME \/ IdlePoll(c) \/ IdleLook(c) \/ IdleClear(c) \/ IdleTest(c)
             \/ (\E p \in Task : \/ WakeUpProcess(c, p) \/ SchedFork(c, p)
                                 \/ SchedSetaffinity(c, p))
             \/ \E mask \in SUBSET CPU : \/ AllowedSame(c, mask) \/ AllowedStay(c, mask)
                                         \/ AllowedStop(c, mask)
      PROVE  UNCHANGED <<curr, pc, active, state, on_rq>>
  BY <1>4 DEF IdlePoll, IdleLook, IdleClear, IdleTest, IdleStep, WakeUpProcess, SchedFork,
     SchedSetaffinity, AllowedSame, AllowedStay, AllowedStop, AllowedChanged, AllowedLocked,
     taskVars, rqVars, pcVars
<1>5. ASSUME LocalWake(c, arg[c]) PROVE Preempted'
  <2>1. \A p \in Task : state'[p] = "RUNNING" \/ (state'[p] = state[p] /\ on_rq'[p] = on_rq[p])
    BY <1>0, <1>5 DEF LocalWake
  <2> QED
    BY <1>1, <1>5, <2>1 DEF LocalWake, pcVars
<1>6. ASSUME TtwuRemote(c) \/ TtwuWaking(c) PROVE Preempted'
  <2>1. \A p \in Task : \/ state'[p] = "RUNNING" \/ state'[p] = state[p]
                        \/ on_rq[p] = "no"
    BY <1>0, <1>6 DEF TtwuRemote, TtwuWaking, OpTask
  <2> QED
    BY <1>1, <1>6, <2>1 DEF TtwuRemote, TtwuWaking, rqVars, pcVars
<1>7. ASSUME TtwuQueueLocal(c) \/ SchedTtwuPending(c) PROVE Preempted'
  <2>1. \A p \in Task : state'[p] = "RUNNING" \/ (state'[p] = state[p] /\ on_rq'[p] = on_rq[p])
    BY <1>7 DEF TtwuQueueLocal, SchedTtwuPending, TtwuDoActivate
  <2>2. UNCHANGED <<curr, pc, active>>
    BY <1>7 DEF TtwuQueueLocal, SchedTtwuPending, TtwuDoActivate, pcVars
  <2> QED
    BY <1>1, <2>1, <2>2
<1>8. ASSUME WakeUpNewTask(c) PROVE Preempted'
  <2>1. arg[c] \in Task /\ state[arg[c]] = "RUNNING"
    BY <1>0, <1>8 DEF WakeUpNewTask, OpPlace, OpTask, Newborn
  <2> QED
    BY <1>0, <1>1, <1>8, <2>1 DEF WakeUpNewTask, pcVars
<1>9. ASSUME MigrateMove(c) \/ MoveEnqueue(c) PROVE Preempted'
  <2>1. \A p \in Task : state'[p] = state[p] /\ (on_rq[p] = "no" => on_rq'[p] = "no")
    BY <1>0, <1>9 DEF MigrateMove, MigrateLocked, MayMigrate, MoveDequeue, MoveEnqueue, OpTask
  <2>2. UNCHANGED <<curr, pc, active>>
    BY <1>9 DEF MigrateMove, MigrateLocked, MoveEnqueue, pcVars
  <2> QED
    BY <1>1, <2>1, <2>2
<1>10. ASSUME NEW mask \in SUBSET CPU, AllowedMove(c, mask) PROVE Preempted'
  <2>1. \A p \in Task : state'[p] = state[p] /\ (on_rq[p] = "no" => on_rq'[p] = "no")
    BY <1>0, <1>10 DEF AllowedMove, AllowedChanged, AllowedLocked, MoveDequeue
  <2>2. UNCHANGED <<curr, pc, active>>
    BY <1>10 DEF AllowedMove, AllowedChanged, AllowedLocked, pcVars
  <2> QED
    BY <1>1, <2>1, <2>2
<1>11. ASSUME CondHolds(c) PROVE Preempted'
  BY <1>0, <1>1, <1>11 DEF CondHolds, rqVars, pcVars
\* The running task sets its state, or enters __schedule.
<1>12. ASSUME NEW s \in Asleep, SetCurrentState(c, s) PROVE Preempted'
  <2>1. /\ pc[c] = "run" /\ state' = [state EXCEPT ![curr[c]] = s]
        /\ UNCHANGED <<on_rq, curr, pc, active>>
    BY <1>12 DEF SetCurrentState, InTask, rqVars, pcVars
  <2> QED
    BY <1>0, <2>1 DEF Preempted, OnItsCpu
<1>13. ASSUME \/ schedule(c) \/ DoExit(c) \/ PreemptSchedule(c) \/ StopSleep(c)
              \/ IdleSchedule(c)
       PROVE  Preempted'
  <2>1. pc[c] = "run" /\ pc' = [pc EXCEPT ![c] = "sched"] /\ UNCHANGED <<on_rq, curr>>
    BY <1>13 DEF schedule, DoExit, PreemptSchedule, StopSleep, IdleSchedule, InTask,
       taskVars, rqVars
  <2>2. \A p \in Task : OnItsCpu(p) => OnItsCpu(p)'
    BY <1>0, <2>1 DEF OnItsCpu
  <2>3. OnItsCpu(curr[c]) /\ \A p \in Task : curr[c] = p => OnItsCpu(p)'
    BY <1>0, <2>1 DEF OnItsCpu
  <2>4. \A p \in Task : curr[c] # p => state'[p] = state[p] /\ active'[p] = active[p]
    BY <1>0, <1>13 DEF schedule, DoExit, PreemptSchedule, StopSleep, IdleSchedule, taskVars
  <2> QED
    BY <2>1, <2>2, <2>3, <2>4 DEF Preempted
\* __schedule takes a task that blocks off the queue, unless it was preempted.
<1>14. ASSUME ScheduleKeep(c) \/ ScheduleSignal(c) \/ ScheduleBlock(c) PROVE Preempted'
  <2>1. pc' = [pc EXCEPT ![c] = "switch"] /\ UNCHANGED <<curr, active>>
    BY <1>14 DEF ScheduleKeep, ScheduleSignal, ScheduleBlock, ScheduleEnter
  <2>2. \A p \in Task : curr[c] # p => state'[p] = state[p] /\ on_rq'[p] = on_rq[p]
    BY <1>0, <1>14 DEF ScheduleKeep, ScheduleSignal, ScheduleBlock
  <2>3. \A p \in Task : curr[c] # p /\ OnItsCpu(p) => OnItsCpu(p)'
    BY <1>0, <2>1 DEF OnItsCpu
  <2>4. ASSUME NEW p \in Task, curr[c] = p
        PROVE  on_rq'[p] = "no" \/ state'[p] = "RUNNING" \/ active'[p]
    BY <1>0, <1>14, <2>4 DEF ScheduleKeep, ScheduleSignal, ScheduleBlock, ScheduleEnter,
       Blocks
  <2> QED
    BY <2>1, <2>2, <2>3, <2>4 DEF Preempted
<1>15. ASSUME pc[c] \in {"switch", "finish", "put"}, UNCHANGED <<state, on_rq>>,
              \A p \in Task : \/ active'[p] = active[p]
                              \/ curr[c] = p /\ curr'[c] = p /\ pc'[c] \in {"run", "put"},
              pc[c] = "put" => curr'[c] = curr[c] /\ pc'[c] = "run"
       PROVE  Preempted'
  <2>1. \A p \in Task : OnItsCpu(p) => OnItsCpu(p)'
    BY <1>0, <1>15 DEF OnItsCpu, Others
  <2>2. \A p \in Task : active'[p] # active[p] => OnItsCpu(p)'
    BY <1>15 DEF OnItsCpu
  <2> QED
    BY <1>15, <2>1, <2>2 DEF Preempted
<1>16. ASSUME NEW next \in PickNextTask(c), SwitchTo(c, next) PROVE Preempted'
  <2>1. /\ pc[c] = "switch" /\ UNCHANGED <<state, on_rq>>
        /\ \A p \in Task : \/ active'[p] = active[p]
                           \/ curr[c] = p /\ curr'[c] = p /\ pc'[c] \in {"run", "put"}
    BY <1>0, <1>16 DEF SwitchTo, Resume
  <2> QED
    BY <1>15, <2>1
<1>17. ASSUME FinishTaskSwitch(c) \/ PutTaskStruct(c) PROVE Preempted'
  <2>1. /\ pc[c] \in {"finish", "put"} /\ UNCHANGED <<state, on_rq>>
        /\ pc[c] = "put" => curr'[c] = curr[c] /\ pc'[c] = "run"
        /\ \A p \in Task : \/ active'[p] = active[p]
                           \/ curr[c] = p /\ curr'[c] = p /\ pc'[c] \in {"run", "put"}
    BY <1>0, <1>17 DEF FinishTaskSwitch, PutTaskStruct, Resume, rqVars
  <2> QED
    BY <1>15, <2>1
<1> QED
  BY <1>2, <1>3, <1>4, <1>5, <1>6, <1>7, <1>8, <1>9, <1>10, <1>11, <1>12, <1>13, <1>14,
     <1>16, <1>17 DEF Acts

\* The actions that set p->cpu.
LEMMA CpuChanges ==
  ASSUME NEW c \in CPU, Acts(c)
  PROVE  \/ UNCHANGED cpu
         \/ TtwuWaking(c) \/ WakeUpNewPlace(c) \/ MigrateMove(c)
         \/ \E mask \in SUBSET CPU : AllowedMove(c, mask)
         \/ \E p \in Task : SchedFork(c, p)
<1>1. ASSUME \/ ScheduleKeep(c) \/ ScheduleSignal(c) \/ ScheduleBlock(c)
             \/ (\E next \in PickNextTask(c) : SwitchTo(c, next))
             \/ FinishTaskSwitch(c) \/ PutTaskStruct(c)
             \/ LocalWake(c, arg[c]) \/ LocalDrop(c) \/ LocalPi(c)
      PROVE  UNCHANGED cpu
  BY <1>1 DEF ScheduleKeep, ScheduleSignal, ScheduleBlock, ScheduleEnter, SwitchTo,
     FinishTaskSwitch, PutTaskStruct, LocalWake, LocalDrop, LocalPi, taskVars
<1>2. ASSUME \/ TtwuLock(c) \/ TtwuRemote(c) \/ TtwuQueueLocal(c) \/ TtwuQueueRemote(c)
             \/ TtwuNotify(c) \/ SchedTtwuPending(c) \/ WakeUpNewTask(c)
             \/ LockPi(c, "a_pi", "a_rq") \/ LockPi(c, "m_pi", "m_rq") \/ MigrateSkip(c)
             \/ MoveEnqueue(c)
             \/ \E mask \in SUBSET CPU : \/ AllowedSame(c, mask) \/ AllowedStay(c, mask)
                                         \/ AllowedStop(c, mask)
      PROVE  UNCHANGED cpu
  BY <1>2 DEF TtwuLock, TtwuRemote, TtwuQueueLocal, TtwuQueueRemote, TtwuNotify,
     SchedTtwuPending, TtwuDoActivate, WakeUpNewTask, LockPi, MigrateSkip, MoveEnqueue,
     AllowedSame, AllowedStay, AllowedStop, taskVars
<1>3. ASSUME \/ SchedulerIpi(c) \/ PreemptSchedule(c) \/ IdlePoll(c) \/ IdleLook(c)
             \/ IdleClear(c) \/ IdleTest(c) \/ IdleSchedule(c) \/ StopSleep(c)
             \/ MigrationCpuStop(c) \/ (\E s \in Asleep : SetCurrentState(c, s))
             \/ CondHolds(c) \/ schedule(c) \/ DoExit(c) \/ SchedulerTick(c)
             \/ \E p \in Task : WakeUpProcess(c, p) \/ SchedSetaffinity(c, p)
      PROVE  UNCHANGED cpu
  BY <1>3 DEF SchedulerIpi, PreemptSchedule, IdlePoll, IdleLook, IdleClear, IdleTest,
     IdleStep, IdleSchedule, StopSleep, MigrationCpuStop, SetCurrentState, CondHolds,
     schedule, DoExit, SchedulerTick, WakeUpProcess, SchedSetaffinity, taskVars
<1> QED
  BY <1>1, <1>2, <1>3 DEF Acts

LEMMA MovesRunnable ==
  ASSUME IInv, Preempted, NEW c \in CPU, Acts(c), NEW p \in Task, cpu'[p] # cpu[p],
         life[p] # "none"
  PROVE  state[p] = "RUNNING" \/ state'[p] = "WAKING" \/ active[p]
<1>0. /\ OpPlace /\ OpTask /\ Newborn /\ Stacks /\ cpu \in [Task -> CPU]
      /\ state \in [Task -> Asleep \cup {"RUNNING", "WAKING", "DEAD"}]
  BY DEF IInv, TypeOK, TaskTypeOK
\* A task that moves is not on a CPU, so it is on no CPU's way into __schedule.
<1>1. ASSUME ~OnItsCpu(p), on_rq[p] # "no" PROVE state[p] = "RUNNING" \/ active[p]
  BY <1>1 DEF Preempted
<1>2. CASE TtwuWaking(c)
  BY <1>0, <1>2 DEF TtwuWaking
<1>3. CASE WakeUpNewPlace(c)
  BY <1>0, <1>3 DEF WakeUpNewPlace, OpTask, Newborn
<1>4. CASE MigrateMove(c)
  <2>1. p = arg[c] /\ cpu[p] = c /\ on_rq[p] = "queued" /\ curr[c] = Stop
    BY <1>0, <1>4 DEF MigrateMove, MigrateLocked, MoveDequeue, MayMigrate, OpPlace
  <2>2. ~OnItsCpu(p)
    BY <1>0, <2>1, Names DEF OnItsCpu, Stacks, OnStack
  <2> QED
    BY <1>1, <2>1, <2>2
<1>5. ASSUME NEW mask \in SUBSET CPU, AllowedMove(c, mask)
      PROVE  state[p] = "RUNNING" \/ active[p]
  <2>1. p = arg[c] /\ ~on_cpu[p] /\ on_rq[p] = "queued"
    BY <1>0, <1>5 DEF AllowedMove, MoveDequeue, NeedsStopper
  <2>2. ~OnItsCpu(p)
    BY <1>0, <2>1 DEF OnItsCpu, Stacks, OnStack
  <2> QED
    BY <1>1, <2>1, <2>2
<1>6. ASSUME NEW q \in Task, SchedFork(c, q) PROVE FALSE
  BY <1>0, <1>6 DEF SchedFork
<1> QED
  BY <1>2, <1>3, <1>4, <1>5, <1>6, CpuChanges

\* The warning in set_task_cpu never triggers: whatever the interleaving of sleepers,
\* preemptions, wakeups and affinity changes, a task that is moved is runnable, being
\* woken, or was preempted before it could block.
THEOREM MoveSafety == Spec => NoBlockedMove
<1>1. Init => Preempted
  BY DEF Init, Preempted
<1>2. IInv /\ Preempted /\ [Next]_vars => Preempted'
  <2> SUFFICES ASSUME IInv, Preempted, [Next]_vars PROVE Preempted'
    OBVIOUS
  <2>1. CASE UNCHANGED vars
    BY <2>1 DEF Preempted, OnItsCpu, vars, taskVars, rqVars, pcVars
  <2>2. CASE Next
    BY <2>2, Steps, PreemptedKept
  <2> QED
    BY <2>1, <2>2
<1>3. IInv /\ Preempted /\ [Next]_vars
        => [\A p \in Task : cpu'[p] # cpu[p] /\ life[p] # "none" =>
                state[p] = "RUNNING" \/ state'[p] = "WAKING" \/ active[p]]_vars
  BY Steps, MovesRunnable
<1> QED
  BY <1>1, <1>2, <1>3, Invariance, PTL DEF Spec, NoBlockedMove

-----------------------------------------------------------------------------
(* A dead task is released once                                            *)

IsDead(p) == state[p] = "DEAD"

\* PREEMPT_ACTIVE is off while a task runs.
RunsInactive ==
    \A c \in CPU : curr[c] \in Task /\ pc[c] \in {"run", "put"} => ~active[curr[c]]

\* A dead task is current in its last call of schedule() only, and leaves the queue there.
DeadLeaves ==
    /\ \A c \in CPU : curr[c] \in Task /\ IsDead(curr[c]) =>
          /\ pc[c] \in {"sched", "switch"} /\ ~active[curr[c]]
          /\ pc[c] = "switch" => on_rq[curr[c]] = "no"
    /\ \A c \in CPU : pc[c] = "finish" /\ prev[c] \in Task /\ IsDead(prev[c]) =>
          on_rq[prev[c]] = "no"
    /\ \A p \in Task : IsDead(p) /\ on_rq[p] # "no" =>
          \E c \in CPU : curr[c] = p /\ pc[c] = "sched"

\* One CPU at most is about to drop its reference, and nobody has done so before.
DeadPut ==
    /\ \A c \in CPU : pc[c] = "put" =>
          /\ IsDead(prev[c]) /\ on_rq[prev[c]] = "no"
          /\ ~on_cpu[prev[c]] /\ puts[prev[c]] = 0
    /\ \A c, d \in CPU : pc[c] = "put" /\ pc[d] = "put" /\ prev[c] = prev[d] => c = d
    /\ \A p \in Task : /\ puts[p] <= 1
                       /\ puts[p] = 1 => IsDead(p) /\ on_rq[p] = "no" /\ ~on_cpu[p]

DeadInv == RunsInactive /\ DeadLeaves /\ DeadPut

LEMMA DeadInvKept ==
  ASSUME IInv, IdlePlace, DeadInv, NEW c \in CPU, Acts(c)
  PROVE  DeadInv'
<1>0. /\ OpPlace /\ OpTask /\ Pending /\ Newborn /\ Running /\ Stacks /\ QueueConsistent
      /\ Others(c) /\ RunsInactive /\ DeadLeaves /\ DeadPut
      /\ state \in [Task -> Asleep \cup {"RUNNING", "WAKING", "DEAD"}]
      /\ on_rq \in [Task -> {"no", "queued", "migrating"}] /\ on_cpu \in [Task -> BOOLEAN]
      /\ active \in [Task -> BOOLEAN] /\ puts \in [Task -> Nat]
      /\ curr \in [CPU -> Task \cup {Idle, Stop}] /\ prev \in [CPU -> Task \cup {Idle, Stop}]
      /\ pc \in [CPU -> {"run", "sched", "switch", "finish", "put"}]
      /\ queue \in [CPU -> SUBSET Task] /\ pend \in [CPU -> SUBSET Task]
  BY OthersKept DEF IInv, TypeOK, TaskTypeOK, RqTypeOK, ListTypeOK, ControlTypeOK, DeadInv
\* Nobody but its CPU sees a dead task on a queue.
<1>1. ASSUME NEW p \in Task, IsDead(p), on_rq[p] # "no"
      PROVE  on_rq[p] = "queued" /\ on_cpu[p] /\ curr[cpu[p]] = p /\ pc[cpu[p]] = "sched"
  BY <1>0, <1>1 DEF DeadLeaves, Running, Stacks, OnStack
<1>2. \A d \in CPU : curr[d] \in Task /\ curr[c] = curr[d] => c = d
  BY <1>0 DEF Stacks, OnStack
\* Actions that leave dead tasks and the control alone.
<1>3. ASSUME UNCHANGED <<on_cpu, active, puts, curr, pc, prev>>,
             \A p \in Task : /\ IsDead(p)' = IsDead(p)
                             /\ IsDead(p) => on_rq'[p] = on_rq[p]
      PROVE  DeadInv'
  <2>1. RunsInactive'
    BY <1>0, <1>3 DEF RunsInactive
  <2>2. DeadLeaves'
    BY <1>0, <1>3 DEF DeadLeaves
  <2>3. DeadPut'
    BY <1>0, <1>3 DEF DeadPut, OpPlace
  <2> QED
    BY <2>1, <2>2, <2>3 DEF DeadInv
<1>4. ASSUME \/ LocalDrop(c) \/ LocalPi(c) \/ TtwuLock(c) \/ TtwuQueueRemote(c)
             \/ TtwuNotify(c) \/ LockPi(c, "a_pi", "a_rq") \/ LockPi(c, "m_pi", "m_rq")
             \/ WakeUpNewPlace(c) \/ MigrateSkip(c) \/ SchedulerIpi(c)
             \/ MigrationCpuStop(c) \/ SchedulerTick(c)
      PROVE  DeadInv'
  <2>1. UNCHANGED <<on_cpu, active, puts, curr, pc, prev, state, on_rq>>
    BY <1>4 DEF LocalDrop, LocalPi, TtwuLock, TtwuQueueRemote, TtwuNotify, LockPi,
       WakeUpNewPlace, MigrateSkip, MigrateLocked, SchedulerIpi, MigrationCpuStop,
       SchedulerTick, taskVars, rqVars, pcVars
  <2> QED
    BY <1>3, <2>1 DEF IsDead
<1>5. ASSUME \/ IdlePoll(c) \/ IdleLook(c) \/ IdleClear(c) \/ IdleTest(c)
             \/ (\E p \in Task : \/ WakeUpProcess(c, p) \/ SchedFork(c, p)
                                 \/ SchedSetaffinity(c, p))
             \/ \E mask \in SUBSET CPU : \/ AllowedSame(c, mask) \/ AllowedStay(c, mask)
                                         \/ AllowedStop(c, mask)
      PROVE  DeadInv'
  <2>1. UNCHANGED <<on_cpu, active, puts, curr, pc, prev, state, on_rq>>
    BY <1>5 DEF IdlePoll, IdleLook, IdleClear, IdleTest, IdleStep, WakeUpProcess, SchedFork,
       SchedSetaffinity, AllowedSame, AllowedStay, AllowedStop, AllowedChanged,
       AllowedLocked, taskVars, rqVars, pcVars
  <2> QED
    BY <1>3, <2>1 DEF IsDead
\* Wakeups find the task asleep or being woken, never dead.
<1>6. ASSUME UNCHANGED <<on_cpu, active, puts, curr, pc, prev>>,
             \A p \in Task : \/ state'[p] = state[p] /\ on_rq'[p] = on_rq[p]
                             \/ state[p] # "DEAD" /\ state'[p] # "DEAD"
      PROVE  DeadInv'
  BY <1>3, <1>6 DEF IsDead
<1>7. ASSUME LocalWake(c, arg[c]) PROVE DeadInv'
  <2>1. \A p \in Task : \/ state'[p] = state[p] /\ on_rq'[p] = on_rq[p]
                        \/ state[p] # "DEAD" /\ state'[p] # "DEAD"
    BY <1>0, <1>7 DEF LocalWake, Asleep
  <2> QED
    BY <1>6, <1>7, <2>1 DEF LocalWake, pcVars
<1>8. ASSUME TtwuRemote(c) \/ TtwuWaking(c) PROVE DeadInv'
  <2>1. \A p \in Task : \/ state'[p] = state[p] /\ on_rq'[p] = on_rq[p]
                        \/ state[p] # "DEAD" /\ state'[p] # "DEAD"
    BY <1>0, <1>8 DEF TtwuRemote, TtwuWaking, OpTask, Asleep
  <2>2. UNCHANGED <<on_cpu, active, puts, curr, pc, prev>>
    BY <1>8 DEF TtwuRemote, TtwuWaking, rqVars, pcVars
  <2> QED
    BY <1>6, <2>1, <2>2
<1>9. ASSUME TtwuQueueLocal(c) \/ SchedTtwuPending(c) PROVE DeadInv'
  <2>1. \A p \in Task : \/ state'[p] = state[p] /\ on_rq'[p] = on_rq[p]
                        \/ state[p] = "WAKING" /\ state'[p] = "RUNNING"
    BY <1>0, <1>9 DEF TtwuQueueLocal, SchedTtwuPending, TtwuDoActivate, OpTask, Pending
  <2>2. UNCHANGED <<on_cpu, active, puts, curr, pc, prev>>
    BY <1>9 DEF TtwuQueueLocal, SchedTtwuPending, TtwuDoActivate, pcVars
  <2> QED
    BY <1>6, <2>1, <2>2
<1>10. ASSUME WakeUpNewTask(c) \/ MigrateMove(c) \/ MoveEnqueue(c) PROVE DeadInv'
  <2>1. UNCHANGED <<on_cpu, active, puts, curr, pc, prev, state>>
    BY <1>10 DEF WakeUpNewTask, MigrateMove, MigrateLocked, MoveEnqueue, pcVars
  <2>2. PICK p \in Task : arg[c] = p
    BY <1>0, <1>10 DEF WakeUpNewTask, MigrateMove, MigrateLocked, MoveEnqueue, OpPlace
  <2>3. \A q \in Task \ {p} : on_rq'[q] = on_rq[q]
    BY <1>0, <1>10, <2>2 DEF WakeUpNewTask, MigrateMove, MoveDequeue, MoveEnqueue
  <2>4. CASE WakeUpNewTask(c)
    <3>1. state[p] = "RUNNING"
      BY <1>0, <2>2, <2>4 DEF WakeUpNewTask, OpTask, Newborn
    <3> QED
      BY <1>6, <2>1, <2>3, <3>1
  <2>5. CASE MigrateMove(c)
    <3>1. on_rq[p] = "queued" /\ cpu[p] = c /\ curr[c] = Stop
      BY <1>0, <2>2, <2>5 DEF MigrateMove, MigrateLocked, MayMigrate, OpPlace
    <3>2. ~IsDead(p)
      BY <1>1, <3>1, Names
    <3> QED
      BY <1>6, <2>1, <2>3, <3>2 DEF IsDead
  <2>6. CASE MoveEnqueue(c)
    <3>1. ~IsDead(p)
      BY <1>0, <1>1, <2>2, <2>6 DEF MoveEnqueue, OpTask
    <3> QED
      BY <1>6, <2>1, <2>3, <3>1 DEF IsDead
  <2> QED
    BY <1>10, <2>4, <2>5, <2>6
<1>11. ASSUME NEW mask \in SUBSET CPU, AllowedMove(c, mask) PROVE DeadInv'
  <2>1. UNCHANGED <<on_cpu, active, puts, curr, pc, prev, state>>
    BY <1>11 DEF AllowedMove, AllowedChanged, AllowedLocked, pcVars
  <2>2. PICK p \in Task : arg[c] = p
    BY <1>0, <1>11 DEF AllowedMove, AllowedChanged, AllowedLocked, OpPlace
  <2>3. /\ on_rq[p] = "queued" /\ ~on_cpu[p]
        /\ \A q \in Task \ {p} : on_rq'[q] = on_rq[q]
    BY <1>0, <1>11, <2>2 DEF AllowedMove, NeedsStopper, MoveDequeue
  <2>4. ~IsDead(p)
    BY <1>1, <2>3
  <2> QED
    BY <1>6, <2>1, <2>3, <2>4 DEF IsDead
\* A task that runs is not dead.
<1>12. ASSUME CondHolds(c) \/ \E s \in Asleep : SetCurrentState(c, s) PROVE DeadInv'
  <2>1. pc[c] = "run" /\ curr[c] \in Task /\ UNCHANGED <<on_cpu, active, puts, curr, pc, prev, on_rq>>
    BY <1>12 DEF CondHolds, SetCurrentState, InTask, rqVars, pcVars
  <2>2. state[curr[c]] # "DEAD"
    BY <1>0, <2>1 DEF DeadLeaves, IsDead
  <2>3. \A p \in Task : \/ state'[p] = state[p]
                        \/ p = curr[c] /\ state'[p] \in Asleep \cup {"RUNNING"}
    BY <1>0, <1>12 DEF CondHolds, SetCurrentState
  <2> QED
    BY <1>6, <2>1, <2>2, <2>3 DEF Asleep
\* It enters __schedule.
<1>13. ASSUME pc[c] = "run", pc' = [pc EXCEPT ![c] = "sched"],
              UNCHANGED <<state, on_rq, on_cpu, puts, curr, prev>>,
              \A p \in Task : p # curr[c] => active'[p] = active[p]
       PROVE  DeadInv'
  <2>1. curr[c] \in Task => ~IsDead(curr[c])
    BY <1>0, <1>13 DEF DeadLeaves
  <2>2. RunsInactive'
    BY <1>0, <1>2, <1>13 DEF RunsInactive
  <2>3. DeadLeaves'
    BY <1>0, <1>2, <1>13, <2>1 DEF DeadLeaves, IsDead
  <2>4. DeadPut'
    BY <1>0, <1>13 DEF DeadPut, IsDead
  <2> QED
    BY <2>2, <2>3, <2>4 DEF DeadInv
<1>14. ASSUME schedule(c) \/ PreemptSchedule(c) \/ StopSleep(c) \/ IdleSchedule(c)
       PROVE  DeadInv'
  <2>1. /\ pc[c] = "run" /\ pc' = [pc EXCEPT ![c] = "sched"]
        /\ UNCHANGED <<state, on_rq, on_cpu, puts, curr, prev>>
    BY <1>14 DEF schedule, PreemptSchedule, StopSleep, IdleSchedule, InTask, taskVars, rqVars
  <2>2. \A p \in Task : p # curr[c] => active'[p] = active[p]
    BY <1>0, <1>14 DEF schedule, PreemptSchedule, StopSleep, IdleSchedule, taskVars
  <2> QED
    BY <1>13, <2>1, <2>2
<1>15. ASSUME DoExit(c) PROVE DeadInv'
  <2>1. PICK p \in Task : curr[c] = p
    BY <1>15 DEF DoExit, InTask
  <2>2. /\ pc[c] = "run" /\ state[p] = "RUNNING" /\ state' = [state EXCEPT ![p] = "DEAD"]
        /\ pc' = [pc EXCEPT ![c] = "sched"]
        /\ UNCHANGED <<on_rq, on_cpu, active, puts, curr, prev>>
    BY <1>15, <2>1 DEF DoExit, InTask, rqVars
  <2>3. ~active[p] /\ ~IsDead(p) /\ \A q \in Task : IsDead(q)' = (IsDead(q) \/ q = p)
    BY <1>0, <2>1, <2>2 DEF RunsInactive, IsDead
  <2>4. RunsInactive'
    BY <1>0, <2>2 DEF RunsInactive
  <2>5. \A d \in CPU : pc[d] = "finish" => prev[d] # p
    BY <1>0, <2>1, <2>2 DEF Stacks, OnStack
  <2>6. DeadLeaves'
    <3>1. \A d \in CPU : (curr[d] \in Task /\ IsDead(curr[d]) =>
             /\ pc[d] \in {"sched", "switch"} /\ ~active[curr[d]]
             /\ pc[d] = "switch" => on_rq[curr[d]] = "no")'
      BY <1>0, <1>2, <2>1, <2>2, <2>3 DEF DeadLeaves
    <3>2. \A d \in CPU : (pc[d] = "finish" /\ prev[d] \in Task /\ IsDead(prev[d]) =>
             on_rq[prev[d]] = "no")'
      BY <1>0, <2>2, <2>3, <2>5 DEF DeadLeaves
    <3>3. \A q \in Task : (IsDead(q) /\ on_rq[q] # "no" =>
             \E d \in CPU : curr[d] = q /\ pc[d] = "sched")'
      BY <1>0, <2>1, <2>2, <2>3 DEF DeadLeaves
    <3> QED
      BY <3>1, <3>2, <3>3 DEF DeadLeaves
  <2>7. DeadPut'
    <3>1. \A d \in CPU : (pc[d] = "put" => /\ IsDead(prev[d]) /\ on_rq[prev[d]] = "no"
                                           /\ ~on_cpu[prev[d]] /\ puts[prev[d]] = 0)'
      BY <1>0, <2>2 DEF DeadPut, OpPlace, IsDead
    <3>2. \A d, e \in CPU : (pc[d] = "put" /\ pc[e] = "put" /\ prev[d] = prev[e] => d = e)'
      BY <1>0, <2>2 DEF DeadPut
    <3>3. \A q \in Task : /\ puts'[q] <= 1
                          /\ puts'[q] = 1 => IsDead(q)' /\ on_rq'[q] = "no" /\ ~on_cpu'[q]
      BY <1>0, <2>2 DEF DeadPut, IsDead
    <3> QED
      BY <3>1, <3>2, <3>3 DEF DeadPut
  <2> QED
    BY <2>4, <2>6, <2>7 DEF DeadInv
\* __schedule: a dead task is not preempted, so it leaves the queue.
<1>16. ASSUME ScheduleKeep(c) \/ ScheduleSignal(c) \/ ScheduleBlock(c) PROVE DeadInv'
  <2>1. /\ pc[c] = "sched" /\ pc' = [pc EXCEPT ![c] = "switch"]
        /\ UNCHANGED <<on_cpu, active, puts, curr, prev>>
    BY <1>16 DEF ScheduleKeep, ScheduleSignal, ScheduleBlock, ScheduleEnter
  <2>2. \A p \in Task : /\ IsDead(p)' = IsDead(p)
                        /\ IsDead(p) => on_rq'[p] = IF p = curr[c] THEN "no" ELSE on_rq[p]
                        /\ on_rq[p] = "no" => on_rq'[p] = "no"
    BY <1>0, <1>16 DEF ScheduleKeep, ScheduleSignal, ScheduleBlock, Blocks, DeadLeaves, IsDead
  <2>3. RunsInactive'
    BY <1>0, <2>1 DEF RunsInactive
  <2>4. DeadLeaves'
    BY <1>0, <1>2, <2>1, <2>2 DEF DeadLeaves
  <2>5. DeadPut'
    BY <1>0, <2>1, <2>2 DEF DeadPut, OpPlace
  <2> QED
    BY <2>3, <2>4, <2>5 DEF DeadInv
\* The task that is picked is queued here, so it is not dead.
<1>17. ASSUME NEW next \in PickNextTask(c), SwitchTo(c, next) PROVE DeadInv'
  <2>1. pc[c] = "switch" /\ UNCHANGED <<state, on_rq, puts>>
    BY <1>17 DEF SwitchTo
  <2>2. ASSUME next \in Task PROVE ~IsDead(next)
    <3>1. on_rq[next] = "queued" /\ cpu[next] = c
      BY <1>0, <1>17, <2>2, Names DEF PickNextTask, QueueConsistent
    <3> QED
      BY <1>1, <2>1, <2>2, <3>1
  <2>3. CASE next = curr[c]
    <3>1. /\ pc' = [pc EXCEPT ![c] = "run"] /\ UNCHANGED <<on_cpu, curr, prev>>
          /\ \A p \in Task : active'[p] => active[p] /\ p # curr[c]
      BY <1>0, <1>17, <2>3 DEF SwitchTo, Resume
    <3>2. RunsInactive'
      BY <1>0, <2>1, <3>1 DEF RunsInactive
    <3>3. DeadLeaves'
      <4>1. \A d \in CPU : (curr[d] \in Task /\ IsDead(curr[d]) =>
               /\ pc[d] \in {"sched", "switch"} /\ ~active[curr[d]]
               /\ pc[d] = "switch" => on_rq[curr[d]] = "no")'
        BY <1>0, <2>1, <2>2, <2>3, <3>1 DEF DeadLeaves, IsDead
      <4>2. \A d \in CPU : (pc[d] = "finish" /\ prev[d] \in Task /\ IsDead(prev[d]) =>
               on_rq[prev[d]] = "no")'
        BY <1>0, <2>1, <3>1 DEF DeadLeaves, IsDead
      <4>3. \A q \in Task : (IsDead(q) /\ on_rq[q] # "no" =>
               \E d \in CPU : curr[d] = q /\ pc[d] = "sched")'
        BY <1>0, <2>1, <3>1 DEF DeadLeaves, IsDead
      <4> QED
        BY <4>1, <4>2, <4>3 DEF DeadLeaves
    <3>4. DeadPut'
      BY <1>0, <2>1, <3>1 DEF DeadPut, IsDead
    <3> QED
      BY <3>2, <3>3, <3>4 DEF DeadInv
  <2>4. CASE next # curr[c]
    <3>1. /\ pc' = [pc EXCEPT ![c] = "finish"] /\ curr' = [curr EXCEPT ![c] = next]
          /\ prev' = [prev EXCEPT ![c] = curr[c]] /\ UNCHANGED active
          /\ on_cpu' = IF next \in Task THEN [on_cpu EXCEPT ![next] = TRUE] ELSE on_cpu
      BY <1>17, <2>4 DEF SwitchTo
    <3>2. RunsInactive'
      BY <1>0, <2>1, <3>1 DEF RunsInactive
    <3>3. DeadLeaves'
      BY <1>0, <2>1, <2>2, <3>1 DEF DeadLeaves, IsDead
    <3>4. \A p \in Task : IsDead(p) => on_cpu'[p] = on_cpu[p]
      BY <1>0, <2>2, <3>1
    <3>5. DeadPut'
      <4>1. \A d \in CPU : (pc[d] = "put" => /\ IsDead(prev[d]) /\ on_rq[prev[d]] = "no"
                                             /\ ~on_cpu[prev[d]] /\ puts[prev[d]] = 0)'
        BY ZenonT(45), <1>0, <2>1, <3>1, <3>4 DEF DeadPut, IsDead, OpPlace
      <4>2. \A d, e \in CPU : (pc[d] = "put" /\ pc[e] = "put" /\ prev[d] = prev[e] => d = e)'
        BY <1>0, <2>1, <3>1 DEF DeadPut
      <4>3. \A q \in Task : /\ puts'[q] <= 1
                            /\ puts'[q] = 1 => IsDead(q)' /\ on_rq'[q] = "no" /\ ~on_cpu'[q]
        BY <1>0, <2>1, <3>1, <3>4 DEF DeadPut, IsDead
      <4> QED
        BY <4>1, <4>2, <4>3 DEF DeadPut
    <3> QED
      BY <3>2, <3>3, <3>5 DEF DeadInv
  <2> QED
    BY <2>3, <2>4
\* finish_task_switch: no other CPU has, or had, this task to release.
<1>18. ASSUME FinishTaskSwitch(c) PROVE DeadInv'
  <2>1. /\ pc[c] = "finish" /\ UNCHANGED <<state, on_rq, puts, curr>>
        /\ \A p \in Task : active'[p] => active[p] /\ p # curr[c]
        /\ \A p \in Task : on_cpu'[p] => on_cpu[p] /\ p # prev[c]
    BY <1>0, <1>18 DEF FinishTaskSwitch, Resume, rqVars
  <2>2. curr[c] \in Task => ~IsDead(curr[c])
    BY <1>0, <2>1 DEF DeadLeaves
  <2>3. prev[c] \in Task => on_cpu[prev[c]]
    BY <1>0, <2>1 DEF Stacks, OnStack
  <2>4. pc' = [pc EXCEPT ![c] = IF prev[c] \in Task /\ IsDead(prev[c]) THEN "put" ELSE "run"]
    BY <1>18 DEF FinishTaskSwitch, SwitchedFromDead, IsDead
  <2>5. prev[c] \in Task /\ IsDead(prev[c]) => prev' = prev
    BY <1>18 DEF FinishTaskSwitch, SwitchedFromDead, IsDead
  <2>6. RunsInactive'
    BY <1>0, <2>1, <2>4 DEF RunsInactive
  <2>7. DeadLeaves'
    <3>1. \A d \in CPU : (curr[d] \in Task /\ IsDead(curr[d]) =>
             /\ pc[d] \in {"sched", "switch"} /\ ~active[curr[d]]
             /\ pc[d] = "switch" => on_rq[curr[d]] = "no")'
      BY <1>0, <2>1, <2>2, <2>4 DEF DeadLeaves, IsDead
    <3>2. \A d \in CPU : (pc[d] = "finish" /\ prev[d] \in Task /\ IsDead(prev[d]) =>
             on_rq[prev[d]] = "no")'
      BY <1>0, <2>1, <2>4 DEF DeadLeaves, IsDead, Others
    <3>3. \A q \in Task : (IsDead(q) /\ on_rq[q] # "no" =>
             \E d \in CPU : curr[d] = q /\ pc[d] = "sched")'
      BY <1>0, <2>1, <2>4 DEF DeadLeaves, IsDead
    <3> QED
      BY <3>1, <3>2, <3>3 DEF DeadLeaves
  <2>8. DeadPut'
    <3>1. \A p \in Task : /\ puts'[p] <= 1
                          /\ puts'[p] = 1 => IsDead(p)' /\ on_rq'[p] = "no" /\ ~on_cpu'[p]
      BY <1>0, <2>1 DEF DeadPut, IsDead
    <3>2. \A d \in CPU \ {c} : pc'[d] = "put" =>
             /\ prev'[d] = prev[d] /\ prev[d] \in Task /\ IsDead(prev[d]) /\ on_rq'[prev[d]] = "no"
             /\ ~on_cpu[prev[d]] /\ ~on_cpu'[prev[d]] /\ puts'[prev[d]] = 0
      BY <1>0, <2>1, <2>4 DEF DeadPut, IsDead, Others, OpPlace
    <3>3. pc'[c] = "put" =>
             /\ prev'[c] = prev[c] /\ prev[c] \in Task /\ IsDead(prev[c]) /\ on_rq'[prev[c]] = "no"
             /\ ~on_cpu'[prev[c]] /\ puts'[prev[c]] = 0
      BY SMTT(45), <1>0, <2>1, <2>3, <2>4, <2>5 DEF DeadPut, DeadLeaves, IsDead
    <3>4. \A d \in CPU : (pc[d] = "put" => /\ IsDead(prev[d]) /\ on_rq[prev[d]] = "no"
                                           /\ ~on_cpu[prev[d]] /\ puts[prev[d]] = 0)'
      BY <2>1, <3>2, <3>3 DEF IsDead
    <3>5. \A d, e \in CPU : (pc[d] = "put" /\ pc[e] = "put" /\ prev[d] = prev[e] => d = e)'
      BY <1>0, <2>3, <2>4, <3>2, <3>3 DEF DeadPut, Others
    <3> QED
      BY <3>1, <3>4, <3>5 DEF DeadPut
  <2> QED
    BY <2>6, <2>7, <2>8 DEF DeadInv
<1>19. ASSUME PutTaskStruct(c) PROVE DeadInv'
  <2>1. PICK p \in Task : prev[c] = p
    BY <1>0, <1>19 DEF PutTaskStruct, OpPlace
  <2>2. /\ pc[c] = "put" /\ pc' = [pc EXCEPT ![c] = "run"]
        /\ prev' = [prev EXCEPT ![c] = Idle] /\ puts' = [puts EXCEPT ![p] = @ + 1]
        /\ UNCHANGED <<state, on_rq, on_cpu, active, curr>>
    BY <1>19, <2>1 DEF PutTaskStruct, rqVars
  <2>3. IsDead(p) /\ on_rq[p] = "no" /\ ~on_cpu[p] /\ puts[p] = 0
    BY <1>0, <2>1, <2>2 DEF DeadPut
  <2>4. RunsInactive'
    BY <1>0, <2>2 DEF RunsInactive
  <2>5. DeadLeaves'
    BY <1>0, <2>2 DEF DeadLeaves, IsDead
  <2>6. DeadPut'
    BY <1>0, <2>1, <2>2, <2>3 DEF DeadPut, IsDead, OpPlace
  <2> QED
    BY <2>4, <2>5, <2>6 DEF DeadInv
<1> QED
  BY <1>4, <1>5, <1>7, <1>8, <1>9, <1>10, <1>11, <1>12, <1>14, <1>15, <1>16, <1>17, <1>18,
     <1>19 DEF Acts

\* The scheduler's reference of a dead task is dropped at most once, by a CPU that is off
\* its stack, when no queue holds it: TASK_DEAD is read under rq->lock for this.
THEOREM DeadSafety == Spec => []DeadOnce
<1>1. Init => IdlePlace /\ DeadInv
  BY DEF Init, IdlePlace, DeadInv, RunsInactive, DeadLeaves, DeadPut, IsDead
<1>2. IInv /\ IdlePlace /\ DeadInv /\ [Next]_vars => IdlePlace' /\ DeadInv'
  <2> SUFFICES ASSUME IInv, IdlePlace, DeadInv, [Next]_vars PROVE IdlePlace' /\ DeadInv'
    OBVIOUS
  <2>1. CASE UNCHANGED vars
    BY <2>1 DEF IdlePlace, DeadInv, RunsInactive, DeadLeaves, DeadPut, IsDead, vars,
       taskVars, rqVars, pcVars
  <2>2. CASE Next
    BY <2>2, Steps, IdlePlaceKept, DeadInvKept DEF IInv
  <2> QED
    BY <2>1, <2>2
<1>3. IInv /\ DeadInv => DeadOnce
  BY DEF IInv, DeadInv, DeadPut, IsDead, DeadOnce, Stacks
<1> QED
  BY <1>1, <1>2, <1>3, Invariance, PTL DEF Spec

-----------------------------------------------------------------------------
(* Affinity                                                                *)

\* Where an operation is about to put a task, the task may be.
Placed ==
    \A c \in CPU : op[c] \in {"w_queue", "f_rq", "m_enq"} => cpu[arg[c]] \in allowed[arg[c]]

\* The stopper of c works on the first request of its queue.
Serving(c) == \/ op[c] \in {"m_pi", "m_rq"} \/ (op[c] = "p_act" /\ arg[c] # NoTask)
              \/ (op[c] = "m_enq" /\ curr[c] = Stop)

Serves ==
    \A c \in CPU : Serving(c) =>
        /\ arg[c] = Head(stopq[c]).task
        /\ op[c] # "m_enq" => dest[c] = Head(stopq[c]).dest_cpu

\* The stopper of c has a request, the k-th or a later one, that it will carry out.
Requested(c, p, k) ==
    \E i \in k .. Len(stopq[c]) :
        stopq[c][i].task = p /\ stopq[c][i].dest_cpu \in allowed[p]

Holds(c, p) == p \in queue[c] \/ p \in pend[c] \/ curr[c] = p

\* A task that is somewhere it may not be will be moved; the request that the stopper
\* works on does not count for a task that was put on wake_list since.
Misplaced ==
    \A c \in CPU, p \in Task : cpu[p] = c /\ c \notin allowed[p] =>
        /\ Holds(c, p) => Requested(c, p, 1)
        /\ p \in wake_list[c] => Requested(c, p, IF Serving(c) THEN 2 ELSE 1)

\* Who changes an affinity mask.
LEMMA MaskChanges ==
  ASSUME NEW c \in CPU, Acts(c)
  PROVE  \/ UNCHANGED allowed
         \/ \E mask \in SUBSET CPU : \/ AllowedStay(c, mask) \/ AllowedStop(c, mask)
                                     \/ AllowedMove(c, mask)
         \/ \E p \in Task : SchedFork(c, p)
<1>1. ASSUME \/ ScheduleKeep(c) \/ ScheduleSignal(c) \/ ScheduleBlock(c)
             \/ (\E next \in PickNextTask(c) : SwitchTo(c, next))
             \/ FinishTaskSwitch(c) \/ PutTaskStruct(c)
             \/ LocalWake(c, arg[c]) \/ LocalDrop(c) \/ LocalPi(c)
      PROVE  UNCHANGED allowed
  BY <1>1 DEF ScheduleKeep, ScheduleSignal, ScheduleBlock, ScheduleEnter, SwitchTo,
     FinishTaskSwitch, PutTaskStruct, LocalWake, LocalDrop, LocalPi, taskVars
<1>2. ASSUME \/ TtwuLock(c) \/ TtwuRemote(c) \/ TtwuWaking(c) \/ TtwuQueueLocal(c)
             \/ TtwuQueueRemote(c) \/ TtwuNotify(c) \/ SchedTtwuPending(c)
             \/ WakeUpNewPlace(c) \/ WakeUpNewTask(c)
             \/ LockPi(c, "a_pi", "a_rq") \/ LockPi(c, "m_pi", "m_rq") \/ MigrateMove(c)
             \/ MigrateSkip(c) \/ MoveEnqueue(c) \/ \E mask \in SUBSET CPU : AllowedSame(c, mask)
      PROVE  UNCHANGED allowed
  BY <1>2 DEF TtwuLock, TtwuRemote, TtwuWaking, TtwuQueueLocal, TtwuQueueRemote, TtwuNotify,
     SchedTtwuPending, TtwuDoActivate, WakeUpNewPlace, WakeUpNewTask, LockPi, MigrateMove,
     MigrateSkip, MigrateLocked, MoveEnqueue, AllowedSame, taskVars
<1>3. ASSUME \/ SchedulerIpi(c) \/ PreemptSchedule(c) \/ IdlePoll(c) \/ IdleLook(c)
             \/ IdleClear(c) \/ IdleTest(c) \/ IdleSchedule(c) \/ StopSleep(c)
             \/ MigrationCpuStop(c) \/ (\E s \in Asleep : SetCurrentState(c, s))
             \/ CondHolds(c) \/ schedule(c) \/ DoExit(c) \/ SchedulerTick(c)
             \/ \E p \in Task : WakeUpProcess(c, p) \/ SchedSetaffinity(c, p)
      PROVE  UNCHANGED allowed
  BY <1>3 DEF SchedulerIpi, PreemptSchedule, IdlePoll, IdleLook, IdleClear, IdleTest,
     IdleStep, IdleSchedule, StopSleep, MigrationCpuStop, SetCurrentState, CondHolds,
     schedule, DoExit, SchedulerTick, WakeUpProcess, SchedSetaffinity, taskVars
<1> QED
  BY <1>1, <1>2, <1>3 DEF Acts

\* Who changes the stopper's requests: set_cpus_allowed_ptr adds one, the stopper
\* removes the first of its own.
LEMMA RequestChanges ==
  ASSUME NEW c \in CPU, Acts(c)
  PROVE  \/ UNCHANGED stopq \/ MigrateSkip(c) \/ MoveEnqueue(c)
         \/ \E mask \in SUBSET CPU : AllowedStop(c, mask)
<1>1. ASSUME \/ ScheduleKeep(c) \/ ScheduleSignal(c) \/ ScheduleBlock(c)
             \/ (\E next \in PickNextTask(c) : SwitchTo(c, next))
             \/ FinishTaskSwitch(c) \/ PutTaskStruct(c)
             \/ LocalWake(c, arg[c]) \/ LocalDrop(c) \/ LocalPi(c)
      PROVE  UNCHANGED stopq
  BY <1>1 DEF ScheduleKeep, ScheduleSignal, ScheduleBlock, ScheduleEnter, SwitchTo,
     FinishTaskSwitch, PutTaskStruct, LocalWake, LocalDrop, LocalPi, rqVars
<1>2. ASSUME \/ TtwuLock(c) \/ TtwuRemote(c) \/ TtwuWaking(c) \/ TtwuQueueLocal(c)
             \/ TtwuQueueRemote(c) \/ TtwuNotify(c) \/ SchedTtwuPending(c)
             \/ WakeUpNewPlace(c) \/ WakeUpNewTask(c)
             \/ LockPi(c, "a_pi", "a_rq") \/ LockPi(c, "m_pi", "m_rq") \/ MigrateMove(c)
             \/ \E mask \in SUBSET CPU : \/ AllowedSame(c, mask) \/ AllowedStay(c, mask)
                                         \/ AllowedMove(c, mask)
      PROVE  UNCHANGED stopq
  BY <1>2 DEF TtwuLock, TtwuRemote, TtwuWaking, TtwuQueueLocal, TtwuQueueRemote, TtwuNotify,
     SchedTtwuPending, TtwuDoActivate, WakeUpNewPlace, WakeUpNewTask, LockPi, MigrateMove,
     AllowedSame, AllowedStay, AllowedMove, rqVars
<1>3. ASSUME \/ SchedulerIpi(c) \/ PreemptSchedule(c) \/ IdlePoll(c) \/ IdleLook(c)
             \/ IdleClear(c) \/ IdleTest(c) \/ IdleSchedule(c) \/ StopSleep(c)
             \/ MigrationCpuStop(c) \/ (\E s \in Asleep : SetCurrentState(c, s))
             \/ CondHolds(c) \/ schedule(c) \/ DoExit(c) \/ SchedulerTick(c)
             \/ \E p \in Task : \/ WakeUpProcess(c, p) \/ SchedFork(c, p)
                                \/ SchedSetaffinity(c, p)
      PROVE  UNCHANGED stopq
  BY <1>3 DEF SchedulerIpi, PreemptSchedule, IdlePoll, IdleLook, IdleClear, IdleTest,
     IdleStep, IdleSchedule, StopSleep, MigrationCpuStop, SetCurrentState, CondHolds,
     schedule, DoExit, SchedulerTick, WakeUpProcess, SchedFork, SchedSetaffinity, rqVars
<1> QED
  BY <1>1, <1>2, <1>3 DEF Acts

\* Who is about to put a task somewhere, or works for the stopper, after a step.
LEMMA Arrivals ==
  ASSUME TypeOK, OpPlace, NEW c \in CPU, Acts(c),
         op'[c] \in {"w_queue", "f_rq", "m_enq", "m_pi", "m_rq", "p_act"}
  PROVE  \/ TtwuWaking(c) \/ WakeUpNewPlace(c) \/ MigrateMove(c) \/ MigrationCpuStop(c)
         \/ SchedTtwuPending(c) \/ LockPi(c, "m_pi", "m_rq")
         \/ SchedulerIpi(c) \/ IdleSchedule(c)
         \/ \E mask \in SUBSET CPU : AllowedMove(c, mask)
<1> DEFINE P == {"w_queue", "f_rq", "m_enq", "m_pi", "m_rq", "p_act"}
<1>0. op \in [CPU -> Ops] /\ NoTask \notin Task
  BY Names DEF TypeOK, ControlTypeOK
<1>1. ASSUME \/ ScheduleKeep(c) \/ ScheduleSignal(c) \/ ScheduleBlock(c)
             \/ (\E next \in PickNextTask(c) : SwitchTo(c, next))
             \/ FinishTaskSwitch(c) \/ PutTaskStruct(c)
             \/ LocalWake(c, arg[c]) \/ LocalDrop(c) \/ LocalPi(c)
      PROVE  op'[c] \notin P
  BY SMTT(45), <1>0, <1>1 DEF ScheduleKeep, ScheduleSignal, ScheduleBlock, ScheduleEnter, SwitchTo,
     FinishTaskSwitch, PutTaskStruct, LocalWake, LocalDrop, LocalPi, opVars, OpPlace, Begin,
     At, End
<1>2. ASSUME \/ TtwuLock(c) \/ TtwuRemote(c) \/ TtwuQueueLocal(c)
             \/ TtwuQueueRemote(c) \/ TtwuNotify(c) \/ WakeUpNewTask(c)
             \/ LockPi(c, "a_pi", "a_rq") \/ MigrateSkip(c) \/ MoveEnqueue(c)
             \/ \E mask \in SUBSET CPU : \/ AllowedSame(c, mask) \/ AllowedStay(c, mask)
                                         \/ AllowedStop(c, mask)
      PROVE  op'[c] \notin P
  BY <1>0, <1>2 DEF TtwuLock, TtwuRemote, TtwuQueueLocal, TtwuQueueRemote, TtwuNotify,
     WakeUpNewTask, LockPi, MigrateSkip, MoveEnqueue, AllowedSame, AllowedStay, AllowedStop,
     Begin, At, End
<1>3. ASSUME \/ PreemptSchedule(c) \/ IdlePoll(c) \/ IdleLook(c)
             \/ IdleClear(c) \/ IdleTest(c) \/ StopSleep(c)
             \/ (\E s \in Asleep : SetCurrentState(c, s))
             \/ CondHolds(c) \/ schedule(c) \/ DoExit(c) \/ SchedulerTick(c)
             \/ \E p \in Task : \/ WakeUpProcess(c, p) \/ SchedFork(c, p)
                                \/ SchedSetaffinity(c, p)
      PROVE  op'[c] \notin P
  BY <1>0, <1>3 DEF PreemptSchedule, IdlePoll, IdleLook, IdleClear, IdleTest,
     IdleStep, StopSleep, SetCurrentState, CondHolds, schedule, DoExit, SchedulerTick,
     WakeUpProcess, SchedFork, SchedSetaffinity, opVars, InTask, IrqsOn, Begin
<1> QED
  BY <1>1, <1>2, <1>3 DEF Acts

LEMMA PlacedKept ==
  ASSUME IInv, Placed, NEW c \in CPU, Acts(c)
  PROVE  Placed'
<1>0. /\ OpPlace /\ OpTask /\ PiExclusive /\ Newborn /\ Others(c)
      /\ op \in [CPU -> Ops] /\ arg \in [CPU -> Task \cup {NoTask}] /\ dest \in [CPU -> CPU]
      /\ cpu \in [Task -> CPU] /\ allowed \in [Task -> SUBSET CPU]
  BY OthersKept DEF IInv, TypeOK, TaskTypeOK, ControlTypeOK
\* The task that c acts on.
<1>1. op'[c] \in {"w_queue", "f_rq", "m_enq"} => (cpu[arg[c]] \in allowed[arg[c]])'
  <2> SUFFICES ASSUME op'[c] \in {"w_queue", "f_rq", "m_enq"}
               PROVE  cpu'[arg'[c]] \in allowed'[arg'[c]]
    OBVIOUS
  <2>1. CASE TtwuWaking(c) \/ WakeUpNewPlace(c)
    <3>1. arg[c] \in Task /\ arg' = arg
      BY <1>0, <2>1 DEF TtwuWaking, WakeUpNewPlace, At, OpPlace
    <3> QED
      BY <1>0, <2>1, <3>1 DEF TtwuWaking, WakeUpNewPlace, SelectTaskRq
  <2>2. CASE MigrateMove(c)
    <3>1. arg[c] \in Task /\ arg'[c] = arg[c] /\ allowed' = allowed
      BY <1>0, <2>2 DEF MigrateMove, MigrateLocked, MoveDequeue, Begin, OpPlace
    <3> QED
      BY <1>0, <2>2, <3>1 DEF MigrateMove, MoveDequeue, MayMigrate
  <2>3. CASE \E mask \in SUBSET CPU : AllowedMove(c, mask)
    <3>1. PICK mask \in SUBSET CPU : AllowedMove(c, mask)
      BY <2>3
    <3>2. arg[c] \in Task /\ arg'[c] = arg[c]
      BY <1>0, <3>1 DEF AllowedMove, AllowedChanged, AllowedLocked, MoveDequeue, Begin, OpPlace
    <3> QED
      BY <1>0, <3>1, <3>2 DEF AllowedMove, AllowedChanged, MoveDequeue
  <2>4. CASE \/ MigrationCpuStop(c) \/ SchedTtwuPending(c) \/ LockPi(c, "m_pi", "m_rq")
             \/ SchedulerIpi(c) \/ IdleSchedule(c)
    BY <1>0, <2>4 DEF MigrationCpuStop, SchedTtwuPending, LockPi, SchedulerIpi, IdleSchedule,
       TakeWakeList, Begin, At
  <2> QED
    BY <2>1, <2>2, <2>3, <2>4, Arrivals DEF IInv
\* The others: its pi_lock is theirs.
<1>2. ASSUME NEW d \in CPU \ {c}, op'[d] \in {"w_queue", "f_rq", "m_enq"}
      PROVE  (cpu[arg[d]] \in allowed[arg[d]])'
  <2>1. PICK p \in Task : arg[d] = p
    BY <1>0, <1>2 DEF OpPlace, Others
  <2>2. /\ op[d] \in HoldsPi /\ arg'[d] = p /\ cpu[p] \in allowed[p]
        /\ op[c] \in HoldsPi => arg[c] # p
    BY <1>0, <1>2, <2>1 DEF Others, PiExclusive, HoldsPi, Placed
  <2>3. ASSUME NEW q \in Task, SchedFork(c, q) PROVE q # p
    BY <1>0, <1>2, <2>1, <2>2, <2>3 DEF SchedFork, OpTask, Newborn, Others
  <2>4. cpu'[p] = cpu[p]
    <3>1. CASE TtwuWaking(c) \/ WakeUpNewPlace(c)
      BY <1>0, <2>1, <2>2, <3>1 DEF TtwuWaking, WakeUpNewPlace, PiFree, HoldsPi
    <3>2. CASE MigrateMove(c) \/ \E mask \in SUBSET CPU : AllowedMove(c, mask)
      BY <1>0, <2>2, <3>2 DEF MigrateMove, MigrateLocked, AllowedMove, AllowedChanged,
         AllowedLocked, MoveDequeue, HoldsPi
    <3>3. CASE \E q \in Task : SchedFork(c, q)
      BY <1>0, <2>3, <3>3 DEF SchedFork
    <3> QED
      BY <3>1, <3>2, <3>3, CpuChanges
  <2>5. allowed'[p] = allowed[p]
    <3>1. CASE \E mask \in SUBSET CPU : \/ AllowedStay(c, mask) \/ AllowedStop(c, mask)
                                        \/ AllowedMove(c, mask)
      BY <1>0, <2>2, <3>1 DEF AllowedStay, AllowedStop, AllowedMove, AllowedChanged,
         AllowedLocked, HoldsPi
    <3>2. CASE \E q \in Task : SchedFork(c, q)
      BY <1>0, <2>3, <3>2 DEF SchedFork
    <3> QED
      BY <3>1, <3>2, MaskChanges
  <2> QED
    BY <2>2, <2>4, <2>5
<1> QED
  BY <1>1, <1>2 DEF Placed

LEMMA ServesKept ==
  ASSUME IInv, Serves, NEW c \in CPU, Acts(c)
  PROVE  Serves'
<1>0. /\ OpPlace /\ Others(c) /\ NoTask \notin Task /\ Stop \notin Task
      /\ op \in [CPU -> Ops] /\ arg \in [CPU -> Task \cup {NoTask}] /\ dest \in [CPU -> CPU]
      /\ curr \in [CPU -> Task \cup {Idle, Stop}] /\ stopq \in [CPU -> Seq(Request)]
  BY OthersKept, Names DEF IInv, TypeOK, RqTypeOK, ControlTypeOK
<1>1. \A d \in CPU : Serving(d) => stopq[d] # <<>>
  BY <1>0 DEF OpPlace, Serving
\* Requests are added at the end, and c alone removes its first one.
<1>2. \A d \in CPU \ {c} : stopq[d] # <<>> => Head(stopq'[d]) = Head(stopq[d])
  <2>1. CASE MigrateSkip(c) \/ MoveEnqueue(c)
    BY <1>0, <2>1 DEF MigrateSkip, MoveEnqueue
  <2>2. CASE \E mask \in SUBSET CPU : AllowedStop(c, mask)
    <3>1. PICK mask \in SUBSET CPU : AllowedStop(c, mask)
      BY <2>2
    <3>2. PICK r : stopq' = [stopq EXCEPT ![cpu[arg[c]]] = Append(@, r)]
      BY <3>1 DEF AllowedStop
    <3>3. \A d \in CPU : stopq[d] # <<>> => Head(Append(stopq[d], r)) = Head(stopq[d])
      <4> SUFFICES ASSUME NEW d \in CPU, stopq[d] # <<>>
                   PROVE  Head(Append(stopq[d], r)) = Head(stopq[d])
        OBVIOUS
      <4>1. stopq[d] \in Seq(Request)
        BY <1>0
      <4> QED
        BY <4>1
    <3> QED
      BY <1>0, <3>2, <3>3
  <2> QED
    BY <2>1, <2>2, RequestChanges
<1>3. ASSUME NEW d \in CPU \ {c}, Serving(d)'
      PROVE  (arg[d] = Head(stopq[d]).task
              /\ (op[d] # "m_enq" => dest[d] = Head(stopq[d]).dest_cpu))'
  <2>1. /\ op'[d] = op[d] /\ arg'[d] = arg[d] /\ dest'[d] = dest[d] /\ curr'[d] = curr[d]
    BY <1>0 DEF Others
  <2>2. Serving(d)
    BY <1>3, <2>1 DEF Serving
  <2>3. Head(stopq'[d]) = Head(stopq[d])
    BY <1>1, <1>2, <2>2
  <2> QED
    BY <2>1, <2>2, <2>3 DEF Serves
<1>4. ASSUME Serving(c)'
      PROVE  (arg[c] = Head(stopq[c]).task
              /\ (op[c] # "m_enq" => dest[c] = Head(stopq[c]).dest_cpu))'
  <2>1. op'[c] \in {"w_queue", "f_rq", "m_enq", "m_pi", "m_rq", "p_act"}
    BY <1>4 DEF Serving
  <2>2. CASE MigrationCpuStop(c)
    BY <1>0, <2>2 DEF MigrationCpuStop, TakeWakeList, Begin, rqVars
  <2>3. CASE SchedTtwuPending(c) \/ LockPi(c, "m_pi", "m_rq")
    <3>1. /\ arg' = arg /\ dest' = dest /\ stopq' = stopq /\ curr' = curr
          /\ op[c] \in {"m_pi", "p_act"} /\ op'[c] # "m_enq" 
      BY <1>0, <2>3 DEF SchedTtwuPending, TtwuDoActivate, LockPi, At, rqVars
    <3>2. Serving(c)
      BY <1>0, <1>4, <2>3, <3>1 DEF Serving, SchedTtwuPending, LockPi, At
    <3> QED
      BY <3>1, <3>2 DEF Serves
  <2>4. CASE MigrateMove(c)
    <3>1. op[c] = "m_rq" /\ op'[c] = "m_enq" /\ arg'[c] = arg[c] /\ stopq' = stopq
      BY <1>0, <2>4 DEF MigrateMove, MigrateLocked, MoveDequeue, Begin
    <3> QED
      BY <3>1 DEF Serves, Serving
  <2>5. CASE \/ TtwuWaking(c) \/ WakeUpNewPlace(c) \/ SchedulerIpi(c) \/ IdleSchedule(c)
             \/ \E mask \in SUBSET CPU : AllowedMove(c, mask)
    <3>1. ~Serving(c)'
      BY <1>0, <2>5 DEF Serving, TtwuWaking, WakeUpNewPlace, SchedulerIpi, IdleSchedule,
         TakeWakeList, AllowedMove, AllowedChanged, AllowedLocked, MoveDequeue, Begin, At, OpPlace
    <3> QED
      BY <1>4, <3>1
  <2> QED
    BY <2>1, <2>2, <2>3, <2>4, <2>5, Arrivals DEF IInv
<1> QED
  BY <1>3, <1>4 DEF Serves

\* What happens to a request when others are added behind it, and when the first one goes.
LEMMA RequestStays ==
  ASSUME NEW d \in CPU, NEW p, stopq[d] \in Seq(Request), allowed'[p] = allowed[p]
  PROVE  /\ Requested(d, p, 2) => Requested(d, p, 1)
         /\ stopq'[d] = stopq[d] =>
               \A k \in {1, 2} : Requested(d, p, k) => Requested(d, p, k)'
         /\ \A r : stopq'[d] = Append(stopq[d], r) =>
               \A k \in {1, 2} : Requested(d, p, k) => Requested(d, p, k)'
         /\ stopq'[d] = Tail(stopq[d]) => (Requested(d, p, 2) => Requested(d, p, 1)')
<1>1. Requested(d, p, 2) => Requested(d, p, 1)
  BY DEF Requested
<1>2. stopq'[d] = stopq[d] => \A k \in {1, 2} : Requested(d, p, k) => Requested(d, p, k)'
  BY DEF Requested
<1>3. ASSUME NEW r, stopq'[d] = Append(stopq[d], r), NEW k \in {1, 2}, Requested(d, p, k)
      PROVE  Requested(d, p, k)'
  <2>1. PICK i \in k .. Len(stopq[d]) :
           stopq[d][i].task = p /\ stopq[d][i].dest_cpu \in allowed[p]
    BY <1>3 DEF Requested
  <2>2. i \in k .. Len(Append(stopq[d], r)) /\ Append(stopq[d], r)[i] = stopq[d][i]
    BY <2>1
  <2> QED
    BY <1>3, <2>1, <2>2 DEF Requested
<1>4. ASSUME stopq'[d] = Tail(stopq[d]), Requested(d, p, 2)
      PROVE  Requested(d, p, 1)'
  <2>1. PICK i \in 2 .. Len(stopq[d]) :
           stopq[d][i].task = p /\ stopq[d][i].dest_cpu \in allowed[p]
    BY <1>4 DEF Requested
  <2>2. i - 1 \in 1 .. Len(Tail(stopq[d])) /\ Tail(stopq[d])[i - 1] = stopq[d][i]
    BY <2>1
  <2> QED
    BY <1>4, <2>1, <2>2 DEF Requested
<1> QED
  BY <1>1, <1>2, <1>3, <1>4

\* A task that the stopper does not work on has its request behind the first one.
LEMMA RequestBehind ==
  ASSUME NEW d \in CPU, NEW p, stopq[d] \in Seq(Request), Requested(d, p, 1),
         Head(stopq[d]).task = p => Head(stopq[d]).dest_cpu \notin allowed[p]
  PROVE  Requested(d, p, 2)
<1>1. PICK i \in 1 .. Len(stopq[d]) :
         stopq[d][i].task = p /\ stopq[d][i].dest_cpu \in allowed[p]
  BY DEF Requested
<1>2. i # 1
  BY <1>1
<1> QED
  BY <1>1, <1>2 DEF Requested

\* The stopper of a CPU begins to work on a request in migration_cpu_stop only.
LEMMA ServingBegins ==
  ASSUME IInv, NEW c \in CPU, Acts(c), NEW d \in CPU, Serving(d)'
  PROVE  Serving(d) \/ (d = c /\ MigrationCpuStop(c))
<1>0. /\ OpPlace /\ Others(c) /\ NoTask \notin Task /\ Stop \notin Task
      /\ op \in [CPU -> Ops] /\ arg \in [CPU -> Task \cup {NoTask}] /\ dest \in [CPU -> CPU]
      /\ curr \in [CPU -> Task \cup {Idle, Stop}]
  BY OthersKept, Names DEF IInv, TypeOK, RqTypeOK, ControlTypeOK
<1>1. CASE d # c
  BY <1>0, <1>1 DEF Others, Serving
<1>2. CASE d = c
  <2>1. op'[c] \in {"w_queue", "f_rq", "m_enq", "m_pi", "m_rq", "p_act"}
    BY <1>2 DEF Serving
  <2>2. CASE SchedTtwuPending(c) \/ LockPi(c, "m_pi", "m_rq")
    BY <1>0, <1>2, <2>2 DEF Serving, SchedTtwuPending, LockPi, At
  <2>3. CASE MigrateMove(c)
    BY <1>2, <2>3 DEF MigrateMove, MigrateLocked, Serving
  <2>4. CASE \/ TtwuWaking(c) \/ WakeUpNewPlace(c) \/ SchedulerIpi(c) \/ IdleSchedule(c)
             \/ \E mask \in SUBSET CPU : AllowedMove(c, mask)
    BY <1>0, <1>2, <2>4 DEF Serving, TtwuWaking, WakeUpNewPlace, SchedulerIpi, IdleSchedule,
       TakeWakeList, AllowedMove, AllowedChanged, AllowedLocked, MoveDequeue, Begin, At, OpPlace
  <2> QED
    BY <1>2, <2>1, <2>2, <2>3, <2>4, Arrivals DEF IInv
<1> QED
  BY <1>1, <1>2

LEMMA MisplacedKept ==
  ASSUME IInv, Placed, Serves, Misplaced, NEW c \in CPU, Acts(c)
  PROVE  Misplaced'
<1>0. /\ OpPlace /\ OpTask /\ Pending /\ Newborn /\ Stacks /\ QueueConsistent /\ Others(c)
      /\ NoTask \notin Task /\ Stop \notin Task /\ Idle \notin Task
      /\ state \in [Task -> Asleep \cup {"RUNNING", "WAKING", "DEAD"}]
      /\ on_rq \in [Task -> {"no", "queued", "migrating"}]
      /\ cpu \in [Task -> CPU] /\ allowed \in [Task -> SUBSET CPU]
      /\ curr \in [CPU -> Task \cup {Idle, Stop}] /\ stopq \in [CPU -> Seq(Request)]
      /\ queue \in [CPU -> SUBSET Task] /\ pend \in [CPU -> SUBSET Task]
      /\ wake_list \in [CPU -> SUBSET Task]
      /\ op \in [CPU -> Ops] /\ arg \in [CPU -> Task \cup {NoTask}] /\ dest \in [CPU -> CPU]
  BY OthersKept, Names DEF IInv, TypeOK, TaskTypeOK, RqTypeOK, ListTypeOK, ControlTypeOK
\* A task nobody holds.
<1>1. ASSUME NEW p \in Task, on_rq[p] # "queued", state[p] # "WAKING", ~on_cpu[p], NEW d \in CPU
      PROVE  ~Holds(d, p) /\ p \notin wake_list[d]
  BY <1>0, <1>1 DEF Holds, QueueConsistent, Pending, Stacks, OnStack
\* Requests and masks stay: every task was where it is, or is nowhere, or may be there.
<1>2. ASSUME UNCHANGED stopq,
             \A d \in CPU, p \in Task : cpu'[p] = d /\ d \notin allowed'[p] =>
                \/ /\ cpu[p] = d /\ allowed'[p] = allowed[p]
                   /\ Holds(d, p)' => Holds(d, p) \/ p \in wake_list[d]
                   /\ p \in wake_list'[d] => p \in wake_list[d] /\ ~(d = c /\ MigrationCpuStop(c))
                \/ ~Holds(d, p)' /\ p \notin wake_list'[d]
      PROVE  Misplaced'
  <2> SUFFICES ASSUME NEW d \in CPU, NEW p \in Task, cpu'[p] = d, d \notin allowed'[p],
                      Holds(d, p)' \/ p \in wake_list'[d]
               PROVE  /\ Holds(d, p)' => Requested(d, p, 1)'
                      /\ p \in wake_list'[d] =>
                            IF Serving(d)' THEN Requested(d, p, 2)' ELSE Requested(d, p, 1)'
    BY DEF Misplaced
  <2>1. /\ cpu[p] = d /\ allowed'[p] = allowed[p] /\ d \notin allowed[p]
        /\ Holds(d, p)' => Holds(d, p) \/ p \in wake_list[d]
        /\ p \in wake_list'[d] => p \in wake_list[d] /\ ~(d = c /\ MigrationCpuStop(c))
    BY <1>2
  <2>2. /\ Holds(d, p) => Requested(d, p, 1)
        /\ p \in wake_list[d] => IF Serving(d) THEN Requested(d, p, 2) ELSE Requested(d, p, 1)
    BY <2>1 DEF Misplaced
  <2>3. /\ Requested(d, p, 2) => Requested(d, p, 1)
        /\ Requested(d, p, 1) => Requested(d, p, 1)'
        /\ Requested(d, p, 2) => Requested(d, p, 2)'
    BY <1>0, <1>2, <2>1, RequestStays
  <2>4. p \in wake_list'[d] /\ Serving(d)' => Serving(d)
    BY <2>1, ServingBegins
  <2> QED
    BY <2>1, <2>2, <2>3, <2>4
\* Actions that leave tasks where they are.
<1>3. ASSUME UNCHANGED <<stopq, cpu, allowed, curr, wake_list, pend>>, ~MigrationCpuStop(c),
             \A d \in CPU : queue'[d] \subseteq queue[d]
      PROVE  Misplaced'
  BY <1>2, <1>3 DEF Holds
<1>4. ASSUME \/ ScheduleKeep(c) \/ ScheduleSignal(c) \/ FinishTaskSwitch(c) \/ PutTaskStruct(c)
             \/ LocalDrop(c) \/ LocalPi(c) \/ TtwuLock(c) \/ TtwuRemote(c) \/ TtwuNotify(c)
             \/ LockPi(c, "a_pi", "a_rq") \/ LockPi(c, "m_pi", "m_rq")
             \/ \E mask \in SUBSET CPU : AllowedSame(c, mask)
      PROVE  Misplaced'
  <2>1. UNCHANGED <<stopq, cpu, allowed, curr, wake_list, pend, queue>>
    BY <1>4 DEF ScheduleKeep, ScheduleSignal, ScheduleEnter, FinishTaskSwitch, PutTaskStruct,
       LocalDrop, LocalPi, TtwuLock, TtwuRemote, TtwuNotify, LockPi, AllowedSame,
       AllowedLocked, taskVars, rqVars, listVars
  <2>2. ~MigrationCpuStop(c)
    BY <1>0, <1>4 DEF ScheduleKeep, ScheduleSignal, ScheduleEnter, FinishTaskSwitch,
       PutTaskStruct, LocalDrop, LocalPi, TtwuLock, TtwuRemote, TtwuNotify, LockPi,
       AllowedSame, AllowedLocked, MigrationCpuStop
  <2> QED
    BY <1>3, <2>1, <2>2
<1>5. ASSUME \/ PreemptSchedule(c) \/ IdlePoll(c) \/ IdleLook(c)
             \/ IdleClear(c) \/ IdleTest(c) \/ StopSleep(c)
             \/ (\E s \in Asleep : SetCurrentState(c, s))
             \/ CondHolds(c) \/ schedule(c) \/ DoExit(c) \/ SchedulerTick(c)
             \/ \E p \in Task : WakeUpProcess(c, p) \/ SchedSetaffinity(c, p)
      PROVE  Misplaced'
  <2>1. UNCHANGED <<stopq, cpu, allowed, curr, wake_list, pend, queue>>
    BY <1>5 DEF PreemptSchedule, IdlePoll, IdleLook, IdleClear, IdleTest, IdleStep, StopSleep,
       SetCurrentState, CondHolds, schedule, DoExit, SchedulerTick, WakeUpProcess,
       SchedSetaffinity, taskVars, rqVars, listVars
  <2>2. ~MigrationCpuStop(c)
    BY <1>0, <1>5, Names DEF PreemptSchedule, IdlePoll, IdleLook, IdleClear, IdleTest, IdleStep,
       StopSleep, SetCurrentState, CondHolds, schedule, DoExit, SchedulerTick, WakeUpProcess,
       SchedSetaffinity, InTask, MigrationCpuStop, TakeWakeList, Begin
  <2> QED
    BY <1>3, <2>1, <2>2
<1>6. ASSUME ScheduleBlock(c) PROVE Misplaced'
  <2>1. /\ UNCHANGED <<stopq, cpu, allowed, curr, wake_list, pend>>
        /\ \A d \in CPU : queue'[d] \subseteq queue[d]
    BY <1>0, <1>6 DEF ScheduleBlock, ScheduleEnter, listVars
  <2>2. ~MigrationCpuStop(c)
    BY <1>6 DEF ScheduleBlock, ScheduleEnter, MigrationCpuStop
  <2> QED
    BY <1>3, <2>1, <2>2
\* The task that is picked was on the queue.
<1>7. ASSUME NEW next \in PickNextTask(c), SwitchTo(c, next) PROVE Misplaced'
  <2>1. /\ UNCHANGED <<stopq, cpu, allowed, wake_list, pend, queue>>
        /\ \A d \in CPU : \/ curr'[d] = curr[d]
                          \/ d = c /\ curr'[c] = next
    BY <1>0, <1>7 DEF SwitchTo, listVars
  <2>2. next \in Task => next \in queue[c]
    BY <1>0, <1>7 DEF PickNextTask
  <2>3. ~MigrationCpuStop(c)
    BY <1>7 DEF SwitchTo, MigrationCpuStop
  <2>4. \A d \in CPU, p \in Task : Holds(d, p)' => Holds(d, p)
    BY <2>1, <2>2 DEF Holds
  <2> QED
    BY <1>2, <2>1, <2>3, <2>4
\* The task that is put somewhere may be there.
<1>8. ASSUME TtwuWaking(c) \/ WakeUpNewPlace(c) \/ MigrateMove(c)
             \/ (\E mask \in SUBSET CPU : AllowedMove(c, mask))
      PROVE  Misplaced'
  <2>1. PICK p \in Task : arg[c] = p
    BY <1>0, <1>8 DEF TtwuWaking, WakeUpNewPlace, MigrateMove, MigrateLocked, AllowedMove,
       AllowedChanged, AllowedLocked, OpPlace
  <2>2. op'[c] \in {"w_queue", "f_rq", "m_enq"} /\ arg'[c] = p
    BY <1>0, <1>8, <2>1 DEF TtwuWaking, WakeUpNewPlace, MigrateMove, AllowedMove, MoveDequeue,
       Begin, At
  <2>3. cpu'[p] \in allowed'[p]
    BY <2>2, PlacedKept DEF Placed
  <2>4. /\ UNCHANGED <<stopq, curr, wake_list, pend>>
        /\ \A q \in Task \ {p} : cpu'[q] = cpu[q] /\ allowed'[q] = allowed[q]
        /\ \A d \in CPU : queue'[d] \subseteq queue[d]
    <3>1. CASE TtwuWaking(c) \/ WakeUpNewPlace(c)
      BY <1>0, <2>1, <3>1 DEF TtwuWaking, WakeUpNewPlace, rqVars, listVars
    <3>2. CASE MigrateMove(c)
      BY <1>0, <2>1, <3>2 DEF MigrateMove, MigrateLocked, MoveDequeue, listVars
    <3>3. CASE \E mask \in SUBSET CPU : AllowedMove(c, mask)
      BY <1>0, <2>1, <3>3 DEF AllowedMove, AllowedChanged, AllowedLocked, MoveDequeue
    <3> QED
      BY <1>8, <3>1, <3>2, <3>3
  <2>5. ~MigrationCpuStop(c)
    BY <1>8 DEF TtwuWaking, WakeUpNewPlace, MigrateMove, MigrateLocked, AllowedMove,
       AllowedChanged, AllowedLocked, MigrationCpuStop
  <2>6. \A d \in CPU, q \in Task : Holds(d, q)' => Holds(d, q)
    BY <2>4 DEF Holds
  <2> QED
    BY <1>2, <2>3, <2>4, <2>5, <2>6
\* The task that is activated, or put on a wake_list, may be there.
<1>9. ASSUME TtwuQueueLocal(c) \/ TtwuQueueRemote(c) \/ WakeUpNewTask(c) \/ LocalWake(c, arg[c]),
             op[c] \in {"w_queue", "f_rq", "l_try", "l_rq"}
      PROVE  Misplaced'
  <2>1. PICK p \in Task : arg[c] = p
    BY <1>0, <1>9 DEF OpPlace
  <2>2. cpu[p] \in allowed[p]
    BY <1>0, <1>9, <2>1 DEF Placed, OpTask, Newborn
  <2>3. /\ UNCHANGED <<stopq, cpu, allowed, curr, pend>>
        /\ \A d \in CPU : \A q \in queue'[d] : q \in queue[d] \/ q = p
        /\ \A d \in CPU : \A q \in wake_list'[d] : q \in wake_list[d] \/ q = p
    <3>1. CASE TtwuQueueLocal(c)
      BY <1>0, <2>1, <3>1 DEF TtwuQueueLocal, TtwuDoActivate
    <3>2. CASE TtwuQueueRemote(c)
      BY <1>0, <2>1, <3>2 DEF TtwuQueueRemote, taskVars, rqVars
    <3>3. CASE WakeUpNewTask(c)
      BY <1>0, <2>1, <3>3 DEF WakeUpNewTask
    <3>4. CASE LocalWake(c, arg[c])
      <4>1. UNCHANGED <<stopq, cpu, allowed, curr, pend, wake_list>>
        BY <3>4 DEF LocalWake
      <4>2. queue' = queue \/ queue' = [queue EXCEPT ![c] = @ \cup {p}]
        BY <2>1, <3>4 DEF LocalWake
      <4>3. \A d \in CPU : \A q \in queue'[d] : q \in queue[d] \/ q = p
        <5>1. CASE queue' = queue
          BY <5>1
        <5>2. CASE queue' = [queue EXCEPT ![c] = @ \cup {p}]
          BY <1>0, <5>2
        <5> QED
          BY <4>2, <5>1, <5>2
      <4> QED
        BY <4>1, <4>3
    <3> QED
      BY <1>9, <3>1, <3>2, <3>3, <3>4
  <2>4. ~MigrationCpuStop(c)
    BY <1>9 DEF MigrationCpuStop
  <2>5. \A d \in CPU, q \in Task \ {p} : Holds(d, q)' => Holds(d, q)
    BY <2>3 DEF Holds
  <2> QED
    BY <1>2, <2>2, <2>3, <2>4, <2>5
\* sched_ttwu_pending moves tasks from wake_list to the queue.
<1>10. ASSUME SchedulerIpi(c) \/ IdleSchedule(c) \/ MigrationCpuStop(c) PROVE Misplaced'
  <2>1. /\ UNCHANGED <<stopq, cpu, allowed, curr, queue>>
        /\ wake_list'[c] = {} /\ pend'[c] = wake_list[c]
        /\ \A d \in CPU \ {c} : wake_list'[d] = wake_list[d] /\ pend'[d] = pend[d]
    BY <1>0, <1>10 DEF SchedulerIpi, IdleSchedule, MigrationCpuStop, TakeWakeList, taskVars, rqVars
  <2>2. \A d \in CPU, q \in Task : Holds(d, q)' => Holds(d, q) \/ q \in wake_list[d]
    BY <2>1 DEF Holds
  <2>3. \A d \in CPU : \A q \in wake_list'[d] : q \in wake_list[d] /\ d # c
    BY <2>1
  <2> QED
    BY <1>2, <2>1, <2>2, <2>3
<1>11. ASSUME SchedTtwuPending(c) PROVE Misplaced'
  <2>1. /\ UNCHANGED <<stopq, cpu, allowed, curr, wake_list>> /\ op[c] = "p_act"
        /\ \A d \in CPU : \A q \in Task : Holds(d, q)' => Holds(d, q)
    BY <1>0, <1>11 DEF SchedTtwuPending, TtwuDoActivate, Holds
  <2>2. ~MigrationCpuStop(c)
    BY <2>1 DEF MigrationCpuStop
  <2> QED
    BY <1>2, <2>1, <2>2
\* A new task is nowhere yet.
<1>12. ASSUME NEW p \in Task, SchedFork(c, p) PROVE Misplaced'
  <2>1. /\ UNCHANGED <<stopq, curr, wake_list, pend, queue>> /\ curr[c] \in Task
        /\ \A q \in Task \ {p} : cpu'[q] = cpu[q] /\ allowed'[q] = allowed[q]
    BY <1>0, <1>12 DEF SchedFork, InTask, rqVars, listVars
  <2>2. on_rq[p] # "queued" /\ state[p] # "WAKING" /\ ~on_cpu[p]
    BY <1>0, <1>12 DEF SchedFork, Newborn
  <2>3. \A d \in CPU : ~Holds(d, p)' /\ p \notin wake_list'[d]
    BY <1>1, <2>1, <2>2 DEF Holds
  <2>4. ~MigrationCpuStop(c)
    BY <1>0, <2>1 DEF MigrationCpuStop
  <2>5. \A d \in CPU, q \in Task : Holds(d, q)' => Holds(d, q)
    BY <2>1 DEF Holds
  <2> QED
    BY <1>2, <2>1, <2>3, <2>4, <2>5
\* A new mask that its task may keep its CPU under, or a task that is nowhere.
<1>13. ASSUME NEW mask \in SUBSET CPU, AllowedStay(c, mask) PROVE Misplaced'
  <2>1. PICK p \in Task : arg[c] = p
    BY <1>0, <1>13 DEF AllowedStay, AllowedChanged, AllowedLocked, OpPlace
  <2>2. /\ UNCHANGED <<stopq, cpu, curr, wake_list, pend, queue>> /\ op[c] = "a_rq"
        /\ allowed' = [allowed EXCEPT ![p] = mask]
        /\ cpu[p] \in mask \/ (on_rq[p] # "queued" /\ state[p] # "WAKING" /\ ~on_cpu[p])
    BY <1>13, <2>1 DEF AllowedStay, AllowedChanged, AllowedLocked, NeedsStopper
  <2>3. \A d \in CPU : \A q \in Task : Holds(d, q)' => Holds(d, q)
    BY <2>2 DEF Holds
  <2>4. ~MigrationCpuStop(c)
    BY <2>2 DEF MigrationCpuStop
  <2>5. cpu[p] \notin mask => \A d \in CPU : ~Holds(d, p) /\ p \notin wake_list[d]
    BY <1>1, <2>2
  <2> QED
    BY <1>0, <1>2, <2>2, <2>3, <2>4, <2>5
\* A new request is the last one.
<1>14. ASSUME NEW mask \in SUBSET CPU, AllowedStop(c, mask) PROVE Misplaced'
  <2>1. PICK p \in Task : arg[c] = p
    BY <1>0, <1>14 DEF AllowedStop, AllowedChanged, AllowedLocked, OpPlace
  <2>2. PICK dd \in mask : stopq' = [stopq EXCEPT ![cpu[p]] =
                 Append(@, [task |-> p, dest_cpu |-> dd, caller |-> curr[c]])]
    BY <1>14, <2>1 DEF AllowedStop
  <2> DEFINE r == [task |-> p, dest_cpu |-> dd, caller |-> curr[c]]
  <2>3. /\ UNCHANGED <<cpu, curr, wake_list, pend, queue>> /\ op[c] = "a_rq"
        /\ allowed' = [allowed EXCEPT ![p] = mask]
    BY <1>14, <2>1 DEF AllowedStop, AllowedChanged, AllowedLocked
  <2>4. /\ r.task = p /\ r.dest_cpu = dd
        /\ \A d \in CPU : stopq'[d] = IF d = cpu[p] THEN Append(stopq[d], r) ELSE stopq[d]
    BY <1>0, <2>2
  <2> HIDE DEF r
  <2>5. ~MigrationCpuStop(c)
    BY <2>3 DEF MigrationCpuStop
  <2> SUFFICES ASSUME NEW d \in CPU, NEW q \in Task, cpu'[q] = d, d \notin allowed'[q]
               PROVE  /\ Holds(d, q)' => Requested(d, q, 1)'
                      /\ q \in wake_list'[d] =>
                            IF Serving(d)' THEN Requested(d, q, 2)' ELSE Requested(d, q, 1)'
    BY DEF Misplaced
  <2>6. CASE q = p
    <3>1. stopq'[d] = Append(stopq[d], r) /\ stopq[d] \in Seq(Request) /\ allowed'[q] = mask
      BY <1>0, <2>3, <2>4, <2>6
    <3>2. /\ Len(stopq'[d]) = Len(stopq[d]) + 1 /\ Len(stopq[d]) \in Nat
          /\ stopq'[d][Len(stopq[d]) + 1] = r
      BY <3>1
    <3>3. Requested(d, q, 1)'
      BY <2>4, <2>6, <3>1, <3>2 DEF Requested
    <3>4. Serving(d)' => Len(stopq[d]) > 0
      <4>1. Serving(d)' => Serving(d)
        BY <2>5, ServingBegins
      <4>2. Serving(d) => stopq[d] # <<>>
        BY <1>0 DEF Serving, OpPlace
      <4> QED
        BY <3>1, <4>1, <4>2
    <3>5. Serving(d)' => Requested(d, q, 2)'
      BY <2>4, <2>6, <3>1, <3>2, <3>4 DEF Requested
    <3> QED
      BY <3>3, <3>5
  <2>7. CASE q # p
    <3>1. /\ cpu[q] = d /\ allowed'[q] = allowed[q] /\ d \notin allowed[q]
          /\ stopq[d] \in Seq(Request)
          /\ stopq'[d] = Append(stopq[d], r) \/ stopq'[d] = stopq[d]
      BY <1>0, <2>3, <2>4, <2>7
    <3>2. /\ Holds(d, q)' => Requested(d, q, 1)
          /\ q \in wake_list'[d] => IF Serving(d) THEN Requested(d, q, 2) ELSE Requested(d, q, 1)
      BY <2>3, <3>1 DEF Misplaced, Holds
    <3>3. /\ Requested(d, q, 2) => Requested(d, q, 1)
          /\ Requested(d, q, 1) => Requested(d, q, 1)'
          /\ Requested(d, q, 2) => Requested(d, q, 2)'
      BY <3>1, RequestStays
    <3>4. Serving(d)' => Serving(d)
      BY <2>5, ServingBegins
    <3> QED
      BY <3>2, <3>3, <3>4
  <2> QED
    BY <2>6, <2>7
\* The first request goes: its task has moved, or it was superseded.
<1>15. ASSUME UNCHANGED <<cpu, allowed, curr, wake_list, pend>>, Serving(c), ~Serving(c)',
              stopq' = [stopq EXCEPT ![c] = Tail(@)],
              \A d \in CPU, q \in Task :
                 cpu[q] = d /\ d \notin allowed[q] /\ q \in queue'[d] => q \in queue[d],
              \A q \in Task : cpu[q] = c /\ c \notin allowed[q] /\ Holds(c, q)
                 /\ Head(stopq[c]).task = q => Head(stopq[c]).dest_cpu \notin allowed[q]
       PROVE  Misplaced'
  <2> SUFFICES ASSUME NEW d \in CPU, NEW q \in Task, cpu'[q] = d, d \notin allowed'[q]
               PROVE  /\ Holds(d, q)' => Requested(d, q, 1)'
                      /\ q \in wake_list'[d] =>
                            IF Serving(d)' THEN Requested(d, q, 2)' ELSE Requested(d, q, 1)'
    BY DEF Misplaced
  <2>1. /\ cpu[q] = d /\ allowed'[q] = allowed[q] /\ d \notin allowed[q]
        /\ stopq[d] \in Seq(Request)
        /\ Holds(d, q)' => Holds(d, q)
    BY <1>0, <1>15 DEF Holds
  <2>2. /\ Holds(d, q)' => Requested(d, q, 1)
        /\ q \in wake_list'[d] => IF Serving(d) THEN Requested(d, q, 2) ELSE Requested(d, q, 1)
    BY <1>15, <2>1 DEF Misplaced
  <2>3. CASE d = c
    <3>1. stopq'[d] = Tail(stopq[d])
      BY <1>0, <1>15, <2>3
    <3>2. Requested(d, q, 2) => Requested(d, q, 1)'
      BY <2>1, <3>1, RequestStays
    <3>3. Holds(d, q)' => Requested(d, q, 2)
      BY <1>15, <2>1, <2>2, <2>3, RequestBehind
    <3> QED
      BY <1>15, <2>2, <2>3, <3>2, <3>3
  <2>4. CASE d # c
    <3>1. stopq'[d] = stopq[d]
      BY <1>0, <1>15, <2>4
    <3>2. /\ Requested(d, q, 1) => Requested(d, q, 1)'
          /\ Requested(d, q, 2) => Requested(d, q, 2)'
          /\ Requested(d, q, 2) => Requested(d, q, 1)
      BY <2>1, <3>1, RequestStays
    <3>3. Serving(d)' => Serving(d)
      BY <2>4, ServingBegins
    <3> QED
      BY <2>2, <3>2, <3>3
  <2> QED
    BY <2>3, <2>4
<1>16. ASSUME MigrateSkip(c) PROVE Misplaced'
  <2>1. /\ UNCHANGED <<cpu, allowed, curr, wake_list, pend, queue>> /\ op[c] = "m_rq"
        /\ stopq' = [stopq EXCEPT ![c] = Tail(@)] /\ op'[c] = "none"
        /\ ~MayMigrate(c, arg[c], dest[c])
    BY <1>0, <1>16 DEF MigrateSkip, MigrateLocked, End, Begin, listVars
  <2>2. Serving(c) /\ ~Serving(c)'
    BY <2>1 DEF Serving
  <2>3. arg[c] = Head(stopq[c]).task /\ dest[c] = Head(stopq[c]).dest_cpu
    BY <2>1, <2>2 DEF Serves
  <2>4. curr[c] = Stop /\ pend[c] = {}
    BY <1>0, <2>1 DEF OpPlace, Pending
  <2>5. \A q \in Task : Holds(c, q) => on_rq[q] = "queued"
    BY <1>0, <2>4 DEF Holds, QueueConsistent
  <2> QED
    BY <1>15, <2>1, <2>2, <2>3, <2>5 DEF MayMigrate
<1>17. ASSUME MoveEnqueue(c) PROVE Misplaced'
  <2>1. PICK p \in Task : arg[c] = p
    BY <1>0, <1>17 DEF MoveEnqueue, OpPlace
  <2>2. /\ UNCHANGED <<cpu, allowed, curr, wake_list, pend>> /\ op[c] = "m_enq"
        /\ op'[c] = "none" /\ cpu[p] \in allowed[p]
        /\ \A d \in CPU : \A q \in queue'[d] : q \in queue[d] \/ q = p
    BY <1>0, <1>17, <2>1 DEF MoveEnqueue, End, Begin, Placed
  <2>3. CASE curr[c] = Stop
    <3>1. Serving(c) /\ ~Serving(c)'
      BY <2>2, <2>3 DEF Serving
    <3>2. Head(stopq[c]).task = p
      BY <2>1, <3>1 DEF Serves
    <3>3. stopq' = [stopq EXCEPT ![c] = Tail(@)]
      BY <1>17, <2>3 DEF MoveEnqueue
    <3> QED
      BY <1>15, <2>2, <3>1, <3>2, <3>3
  <2>4. CASE curr[c] # Stop
    <3>1. UNCHANGED stopq
      BY <1>0, <1>17, <2>4 DEF MoveEnqueue
    <3>2. ~MigrationCpuStop(c)
      BY <2>2 DEF MigrationCpuStop
    <3>3. \A d \in CPU, q \in Task \ {p} : Holds(d, q)' => Holds(d, q)
      BY <2>2 DEF Holds
    <3> QED
      BY <1>2, <2>2, <3>1, <3>2, <3>3
  <2> QED
    BY <2>3, <2>4
<1> QED
  BY <1>4, <1>5, <1>6, <1>7, <1>8, <1>9, <1>10, <1>11, <1>12, <1>13, <1>14, <1>16, <1>17
     DEF Acts, TtwuQueueLocal, TtwuQueueRemote, WakeUpNewTask

\* A task that runs outside its affinity mask is on its way out, whatever wakeups, context
\* switches, forks, exits and further changes of affinity happen before the stopper runs.
THEOREM AffinitySafety == Spec => []AffinityEnforced
<1>1. Init => Placed /\ Serves /\ Misplaced
  BY ConstantsAssumption DEF Init, Placed, Serves, Serving, Misplaced
<1>2. IInv /\ Placed /\ Serves /\ Misplaced /\ [Next]_vars => Placed' /\ Serves' /\ Misplaced'
  <2> SUFFICES ASSUME IInv, Placed, Serves, Misplaced, [Next]_vars
               PROVE  Placed' /\ Serves' /\ Misplaced'
    OBVIOUS
  <2>1. CASE UNCHANGED vars
    BY <2>1 DEF Placed, Serves, Serving, Misplaced, Holds, Requested, vars, taskVars, rqVars,
       listVars, opVars
  <2>2. CASE Next
    BY <2>2, Steps, PlacedKept, ServesKept, MisplacedKept
  <2> QED
    BY <2>1, <2>2
<1>3. IInv /\ Misplaced => AffinityEnforced
  <2> SUFFICES ASSUME IInv, Misplaced, NEW c \in CPU, curr[c] \in Task, c \notin allowed[curr[c]]
               PROVE  \E i \in 1 .. Len(stopq[c]) : stopq[c][i].task = curr[c]
    BY DEF AffinityEnforced
  <2>1. cpu[curr[c]] = c
    BY DEF IInv, Stacks, OnStack
  <2> QED
    BY <2>1 DEF Misplaced, Holds, Requested
<1> QED
  BY <1>1, <1>2, <1>3, Invariance, PTL DEF Spec
-----------------------------------------------------------------------------
(* The load is counted exactly                                             *)

\* p is counted: it blocks uninterruptibly, or did until it was woken.
Counts(p) == on_rq[p] = "no" /\ \/ state[p] = "UNINTERRUPTIBLE"
                                \/ state[p] = "WAKING" /\ contrib[p]
Loaded == {p \in Task : Counts(p)}

\* A task that is being woken is on no queue, and one between two queues has a CPU that
\* carries it: nobody else wakes it meanwhile.
Woken == \A p \in Task : state[p] = "WAKING" => on_rq[p] = "no"
Carried == \A p \in Task : on_rq[p] = "migrating" => \E c \in CPU : op[c] = "m_enq" /\ arg[c] = p

LoadInv == Woken /\ Carried /\ LoadBalanced

\* A step that moves the counter of q, and the number of counted tasks, by d.
Shift(q, d) ==
  /\ nr_uninterruptible' = [nr_uninterruptible EXCEPT ![q] = (nr_uninterruptible[q] + d) % Width]
  /\ Cardinality(Loaded') = Cardinality(Loaded) + d

LEMMA LoadedType ==
  /\ IsFiniteSet(Loaded) /\ Cardinality(Loaded) \in Nat
  /\ LoadBalanced <=> SumFunctionOnSet(nr_uninterruptible, CPU) % Width = Cardinality(Loaded) % Width
<1>1. IsFiniteSet(Loaded)
  BY ConstantsAssumption, FS_Subset DEF Loaded
<1>2. Cardinality(Loaded) \in Nat
  BY <1>1, FS_CardinalityType
<1> QED
  BY <1>1, <1>2 DEF Loaded, Counts, LoadBalanced

\* A counter that is moved by d in its width moves the sum so.
LEMMA SumMoves ==
  ASSUME NEW f \in [CPU -> 0 .. Width - 1], NEW g, NEW q \in CPU, NEW d \in Int,
         g = [f EXCEPT ![q] = (f[q] + d) % Width]
  PROVE  SumFunctionOnSet(g, CPU) % Width = (SumFunctionOnSet(f, CPU) + d) % Width
<1>1. f[q] \in Int /\ f[q] + d \in Int /\ Width \in Nat \ {0} /\ IsFiniteSet(CPU)
  BY WidthType, ConstantsAssumption
<1>2. PICK m \in Int : m = (f[q] + d) % Width
  BY <1>1, ModType
<1>3. \A c \in CPU : f[c] \in Int /\ g[c] \in Int /\ (c # q => g[c] = f[c])
  BY <1>1, <1>2
<1>4. g[q] = m
  BY <1>2
<1> SumFunctionOnSet(f, CPU) \in Int
  BY <1>1, <1>3, SumType
<1>5. PICK s \in Int : s = SumFunctionOnSet(f, CPU)
  OBVIOUS
<1>6. SumFunctionOnSet(g, CPU) = s - f[q] + m
  <2>1. SumFunctionOnSet(g, CPU) = SumFunctionOnSet(f, CPU) - f[q] + g[q]
    BY ONLY <1>1, <1>3, SumChange, q \in CPU
  <2> QED
    BY <1>4, <1>5, <2>1
<1>7. PICK a \in Int, b \in Int : a = f[q] + d /\ b = s - f[q]
  BY <1>1, <1>5
<1>8. ((a % Width) + b) % Width = (a + b) % Width
  BY <1>1, <1>7, ModEarly
<1>9. (a % Width) + b = s - f[q] + m /\ a + b = s + d
  BY <1>1, <1>2, <1>5, <1>7
<1> QED
  BY <1>5, <1>6, <1>8, <1>9

LEMMA LoadMoves ==
  ASSUME TypeOK, LoadBalanced, NEW q \in CPU, NEW d \in Int, Shift(q, d)
  PROVE  LoadBalanced'
<1>1. nr_uninterruptible \in [CPU -> 0 .. Width - 1] /\ Width \in Nat \ {0}
  BY WidthType DEF TypeOK, RqTypeOK
<1>2. PICK f, g : /\ f = nr_uninterruptible /\ g = nr_uninterruptible'
                  /\ f \in [CPU -> 0 .. Width - 1]
  BY <1>1
<1>3. \A c \in CPU : f[c] \in Int
  BY <1>1, <1>2
<1>4. PICK s, k, m : /\ s = SumFunctionOnSet(f, CPU) /\ k = Cardinality(Loaded)
                     /\ m = Cardinality(Loaded') /\ s \in Int /\ k \in Int
  BY <1>3, LoadedType, ConstantsAssumption, SumType
<1>5. SumFunctionOnSet(g, CPU) % Width = (s + d) % Width
  <2>1. SumFunctionOnSet(g, CPU) % Width = (SumFunctionOnSet(f, CPU) + d) % Width
    <3>1. g = [f EXCEPT ![q] = (f[q] + d) % Width] /\ f \in [CPU -> 0 .. Width - 1]
      BY <1>2 DEF Shift
    <3> QED
      BY ONLY <3>1, SumMoves, q \in CPU, d \in Int
  <2> QED
    BY <1>4, <2>1
<1>6. s % Width = k % Width
  BY <1>2, <1>4, LoadedType
<1>7. ((s % Width) + d) % Width = (s + d) % Width /\ ((k % Width) + d) % Width = (k + d) % Width
  BY <1>1, <1>4, ModEarly
<1>8. SumFunctionOnSet(g, CPU) % Width = m % Width
  <2>1. m = k + d
    BY <1>4 DEF Shift
  <2> QED
    BY <1>5, <1>6, <1>7, <2>1
<1> QED
  BY <1>2, <1>4, <1>8 DEF LoadBalanced, Loaded, Counts

\* A step of c that counts nobody and no longer carries nobody.
LEMMA LoadStays ==
  ASSUME LoadInv, NEW c \in CPU, Others(c), UNCHANGED nr_uninterruptible,
         \A p \in Task : /\ (Counts(p)' <=> Counts(p))
                         /\ state'[p] = "WAKING" => on_rq'[p] = "no"
                         /\ on_rq'[p] = "migrating" =>
                               \/ on_rq[p] = "migrating" /\ ~(op[c] = "m_enq" /\ arg[c] = p)
                               \/ op'[c] = "m_enq" /\ arg'[c] = p
  PROVE  LoadInv'
<1>1. Woken'
  BY DEF Woken
<1>2. Carried'
  BY DEF Carried, LoadInv, Others
<1>3. Loaded' = Loaded
  BY DEF Loaded
<1>4. LoadBalanced'
  BY <1>3 DEF LoadInv, LoadBalanced, Loaded, Counts
<1> QED
  BY <1>1, <1>2, <1>4 DEF LoadInv

LEMMA LoadInvKept ==
  ASSUME IInv, LoadInv, NEW c \in CPU, Acts(c)
  PROVE  LoadInv'
<1>0. /\ OpPlace /\ OpTask /\ Pending /\ Newborn /\ Running /\ PiExclusive /\ Others(c) /\ TypeOK
      /\ Woken /\ Carried /\ LoadBalanced
      /\ state \in [Task -> Asleep \cup {"RUNNING", "WAKING", "DEAD"}]
      /\ on_rq \in [Task -> {"no", "queued", "migrating"}] /\ contrib \in [Task -> BOOLEAN]
      /\ nr_uninterruptible \in [CPU -> 0 .. Width - 1]
      /\ curr \in [CPU -> Task \cup {Idle, Stop}] /\ pend \in [CPU -> SUBSET Task]
      /\ op \in [CPU -> Ops] /\ arg \in [CPU -> Task \cup {NoTask}] /\ Width \in Nat \ {0}
  BY OthersKept, WidthType DEF IInv, LoadInv, TypeOK, TaskTypeOK, RqTypeOK, ListTypeOK, ControlTypeOK
\* Actions that leave states and queues alone.
<1>1. ASSUME UNCHANGED <<state, on_rq, contrib, nr_uninterruptible>>, op[c] # "m_enq"
      PROVE  LoadInv'
  BY <1>0, <1>1, LoadStays DEF Counts, Woken
<1>2. ASSUME \/ LocalDrop(c) \/ LocalPi(c) \/ TtwuLock(c) \/ TtwuQueueRemote(c)
             \/ TtwuNotify(c) \/ LockPi(c, "a_pi", "a_rq") \/ LockPi(c, "m_pi", "m_rq")
             \/ WakeUpNewPlace(c) \/ MigrateSkip(c) \/ SchedulerIpi(c)
             \/ MigrationCpuStop(c) \/ SchedulerTick(c)
      PROVE  LoadInv'
  <2>1. UNCHANGED <<state, on_rq, contrib, nr_uninterruptible>> /\ op[c] # "m_enq"
    BY <1>2 DEF LocalDrop, LocalPi, TtwuLock, TtwuQueueRemote, TtwuNotify, LockPi,
       WakeUpNewPlace, MigrateSkip, MigrateLocked, SchedulerIpi, MigrationCpuStop,
       SchedulerTick, IrqsOn, taskVars, rqVars
  <2> QED
    BY <1>1, <2>1
<1>3. ASSUME \/ IdlePoll(c) \/ IdleLook(c) \/ IdleClear(c) \/ IdleTest(c)
             \/ (\E p \in Task : \/ WakeUpProcess(c, p) \/ SchedFork(c, p)
                                 \/ SchedSetaffinity(c, p))
             \/ \E mask \in SUBSET CPU : \/ AllowedSame(c, mask) \/ AllowedStay(c, mask)
                                         \/ AllowedStop(c, mask)
      PROVE  LoadInv'
  <2>1. UNCHANGED <<state, on_rq, contrib, nr_uninterruptible>> /\ op[c] # "m_enq"
    BY <1>3 DEF IdlePoll, IdleLook, IdleClear, IdleTest, IdleStep, WakeUpProcess, SchedFork,
       SchedSetaffinity, AllowedSame, AllowedStay, AllowedStop, AllowedChanged,
       AllowedLocked, IrqsOn, InTask, taskVars, rqVars
  <2> QED
    BY <1>1, <2>1
<1>4. ASSUME \/ schedule(c) \/ PreemptSchedule(c) \/ StopSleep(c) \/ IdleSchedule(c)
             \/ ScheduleKeep(c)
      PROVE  LoadInv'
  <2>1. UNCHANGED <<state, on_rq, contrib, nr_uninterruptible>> /\ op[c] # "m_enq"
    BY <1>4 DEF schedule, PreemptSchedule, StopSleep, IdleSchedule, ScheduleKeep,
       ScheduleEnter, InTask, taskVars, rqVars
  <2> QED
    BY <1>1, <2>1
<1>5. ASSUME \/ FinishTaskSwitch(c) \/ PutTaskStruct(c)
             \/ \E next \in PickNextTask(c) : SwitchTo(c, next)
      PROVE  LoadInv'
  <2>1. /\ UNCHANGED <<state, on_rq, contrib, nr_uninterruptible>>
        /\ op[c] = "none" \/ pc[c] \in {"finish", "put"}
    BY <1>5 DEF FinishTaskSwitch, PutTaskStruct, SwitchTo, rqVars
  <2>2. op[c] # "m_enq"
    BY <1>0, <2>1 DEF OpPlace
  <2> QED
    BY <1>1, <2>1, <2>2
\* A queued task changes its state: it is not counted, before and after.
<1>6. ASSUME NEW p \in Task, on_rq[p] = "queued", op[c] # "m_enq",
             UNCHANGED <<on_rq, contrib, nr_uninterruptible>>,
             \A r \in Task \ {p} : state'[r] = state[r], state'[p] # "WAKING"
      PROVE  LoadInv'
  BY <1>0, <1>6, LoadStays DEF Counts, Woken
<1>7. ASSUME \/ CondHolds(c) \/ DoExit(c) \/ \E s \in Asleep : SetCurrentState(c, s)
      PROVE  LoadInv'
  <2>1. /\ pc[c] = "run" /\ op[c] = "none" /\ curr[c] \in Task
        /\ UNCHANGED <<on_rq, contrib, nr_uninterruptible>>
        /\ \A r \in Task \ {curr[c]} : state'[r] = state[r]
        /\ state'[curr[c]] \in Asleep \cup {"RUNNING", "DEAD"}
    BY <1>0, <1>7 DEF CondHolds, DoExit, SetCurrentState, InTask, rqVars
  <2>2. on_rq[curr[c]] = "queued" /\ state'[curr[c]] # "WAKING"
    BY <1>0, <2>1 DEF Running, Asleep
  <2> QED
    BY <1>6, <2>1, <2>2
<1>8. ASSUME ScheduleSignal(c) PROVE LoadInv'
  <2>1. /\ pc[c] = "sched" /\ op[c] = "none" /\ curr[c] \in Task
        /\ UNCHANGED <<on_rq, contrib, nr_uninterruptible>>
        /\ \A r \in Task \ {curr[c]} : state'[r] = state[r]
        /\ state'[curr[c]] = "RUNNING"
    BY <1>0, <1>8 DEF ScheduleSignal, ScheduleEnter, Blocks
  <2>2. on_rq[curr[c]] = "queued"
    BY <1>0, <2>1 DEF Running
  <2> QED
    BY <1>6, <2>1, <2>2
<1>9. ASSUME TtwuRemote(c) PROVE LoadInv'
  <2>1. CASE on_rq[arg[c]] = "queued"
    <3>1. /\ arg[c] \in Task /\ op[c] = "w_rq" /\ UNCHANGED <<on_rq, contrib, nr_uninterruptible>>
          /\ \A r \in Task \ {arg[c]} : state'[r] = state[r]
          /\ state'[arg[c]] = "RUNNING"
      BY ZenonT(45), <1>0, <1>9, <2>1 DEF TtwuRemote, OpPlace
    <3> QED
      BY <1>6, <2>1, <3>1
  <2>2. CASE on_rq[arg[c]] # "queued"
    BY <1>1, <1>9, <2>2 DEF TtwuRemote
  <2> QED
    BY <2>1, <2>2
\* The waker reads the state before it sets TASK_WAKING: the task goes on counting.
<1>10. ASSUME TtwuWaking(c) PROVE LoadInv'
  <2>1. PICK p \in Task : p = arg[c]
    BY <1>0, <1>10 DEF TtwuWaking, OpPlace
  <2>2. /\ op[c] = "w_spin" /\ contrib' = [contrib EXCEPT ![p] = (state[p] = "UNINTERRUPTIBLE")]
        /\ state' = [state EXCEPT ![p] = "WAKING"] /\ UNCHANGED <<on_rq, nr_uninterruptible>>
    BY <1>10, <2>1 DEF TtwuWaking, ContributesToLoad, rqVars
  <2>3. state[p] \in Asleep /\ on_rq[p] = "no"
    BY <1>0, <2>1, <2>2 DEF OpTask
  <2>4. \A r \in Task : (Counts(r)' <=> Counts(r)) /\ (state'[r] = "WAKING" => on_rq'[r] = "no")
    BY <1>0, <2>2, <2>3 DEF Counts, Woken, Asleep
  <2> QED
    BY <1>0, <2>2, <2>4, LoadStays
\* A task is put on a queue from a place where it does not count.
<1>11. ASSUME NEW p \in Task, ~Counts(p), state[p] # "WAKING",
              UNCHANGED <<state, contrib, nr_uninterruptible>>,
              \A r \in Task \ {p} : on_rq'[r] = on_rq[r],
              \/ on_rq'[p] = "queued" /\ (op[c] = "m_enq" => arg[c] = p)
              \/ on_rq'[p] = "migrating" /\ op'[c] = "m_enq" /\ arg'[c] = p /\ op[c] # "m_enq"
       PROVE  LoadInv'
  <2>1. \A r \in Task : (Counts(r)' <=> Counts(r)) /\ (state'[r] = "WAKING" => on_rq'[r] = "no")
    BY <1>0, <1>11 DEF Counts, Woken
  <2> QED
    BY <1>0, <1>11, <2>1, LoadStays
<1>12. ASSUME WakeUpNewTask(c) \/ MoveEnqueue(c) PROVE LoadInv'
  <2>1. PICK p \in Task : p = arg[c]
    BY <1>0, <1>12 DEF WakeUpNewTask, MoveEnqueue, OpPlace
  <2>2. /\ UNCHANGED <<state, contrib, nr_uninterruptible>> /\ on_rq' = [on_rq EXCEPT ![p] = "queued"]
    BY <1>12, <2>1 DEF WakeUpNewTask, MoveEnqueue
  <2>3. state[p] # "WAKING" /\ ~Counts(p)
    <3>1. CASE WakeUpNewTask(c)
      <4>1. op[c] = "f_rq" /\ life[p] = "forked"
        BY <1>0, <2>1, <3>1 DEF WakeUpNewTask, OpTask
      <4> QED
        BY <1>0, <4>1 DEF Newborn, Counts
    <3>2. CASE MoveEnqueue(c)
      <4>1. on_rq[p] = "migrating"
        BY <1>0, <2>1, <3>2 DEF MoveEnqueue, OpTask
      <4> QED
        BY <1>0, <4>1 DEF Woken, Counts
    <3> QED
      BY <1>12, <3>1, <3>2
  <2> QED
    BY <1>0, <1>11, <2>1, <2>2, <2>3
<1>13. ASSUME MigrateMove(c) \/ \E mask \in SUBSET CPU : AllowedMove(c, mask) PROVE LoadInv'
  <2>1. op[c] \in {"m_rq", "a_rq"} /\ arg[c] \in Task
    BY <1>0, <1>13 DEF MigrateMove, MigrateLocked, AllowedMove, AllowedChanged, AllowedLocked,
       OpPlace
  <2>2. PICK p \in Task : p = arg[c]
    BY <2>1
  <2>3. /\ on_rq[p] = "queued" /\ UNCHANGED <<state, contrib, nr_uninterruptible>>
        /\ \E d : MoveDequeue(c, p, d)
    BY <1>13, <2>2 DEF MigrateMove, MigrateLocked, MayMigrate, AllowedMove, AllowedChanged,
       AllowedLocked
  <2>4. on_rq' = [on_rq EXCEPT ![p] = "migrating"] /\ op'[c] = "m_enq" /\ arg'[c] = p
    BY <1>0, <2>3 DEF MoveDequeue, Begin
  <2>5. state[p] # "WAKING" /\ ~Counts(p)
    BY <1>0, <2>3 DEF Woken, Counts
  <2> QED
    BY <1>0, <1>11, <2>1, <2>3, <2>4, <2>5
\* A step that moves the number of counted tasks and the counter together.
<1>14. ASSUME NEW q \in CPU, NEW d \in Int, Shift(q, d), op[c] # "m_enq",
              \A p \in Task : /\ state'[p] = "WAKING" => on_rq'[p] = "no"
                              /\ on_rq'[p] = "migrating" => on_rq[p] = "migrating"
       PROVE  LoadInv'
  <2>1. Woken'
    BY <1>14 DEF Woken
  <2>2. Carried'
    BY <1>0, <1>14 DEF Carried, Others
  <2>3. LoadBalanced'
    BY <1>0, <1>14, LoadMoves
  <2> QED
    BY <2>1, <2>2, <2>3 DEF LoadInv
<1>15. ASSUME ScheduleBlock(c) PROVE LoadInv'
  <2>1. PICK p \in Task : p = curr[c]
    BY <1>15 DEF ScheduleBlock, Blocks
  <2>2. /\ pc[c] = "sched" /\ op[c] = "none" /\ UNCHANGED <<state, contrib>>
        /\ on_rq' = [on_rq EXCEPT ![p] = "no"]
        /\ nr_uninterruptible' = [nr_uninterruptible EXCEPT ![c] =
              IF state[p] = "UNINTERRUPTIBLE" THEN (nr_uninterruptible[c] + 1) % Width
              ELSE nr_uninterruptible[c]]
    BY <1>15, <2>1 DEF ScheduleBlock, ScheduleEnter
  <2>3. on_rq[p] = "queued" /\ state[p] # "WAKING"
    BY <1>0, <2>1, <2>2 DEF Running, Woken
  <2>4. /\ \A r \in Task : /\ state'[r] = "WAKING" => on_rq'[r] = "no"
                           /\ on_rq'[r] = "migrating" => on_rq[r] = "migrating"
        /\ \A r \in Task \ {p} : (Counts(r)' <=> Counts(r))
        /\ ~Counts(p) /\ (Counts(p)' <=> state[p] = "UNINTERRUPTIBLE")
    BY <1>0, <2>2, <2>3 DEF Counts, Woken
  <2>5. CASE state[p] = "UNINTERRUPTIBLE"
    <3>1. Loaded' = Loaded \cup {p} /\ p \notin Loaded
      BY <2>4, <2>5 DEF Loaded
    <3>2. Cardinality(Loaded') = Cardinality(Loaded) + 1
      BY <3>1, LoadedType, FS_AddElement
    <3>0. PICK d \in Int : d = 1
      OBVIOUS
    <3>3. op[c] # "m_enq" /\ Shift(c, d) /\ d \in Int
      BY <2>2, <2>5, <3>0, <3>2 DEF Shift
    <3>4. \A r \in Task : /\ state'[r] = "WAKING" => on_rq'[r] = "no"
                          /\ on_rq'[r] = "migrating" => on_rq[r] = "migrating"
      BY <2>4
    <3> QED
      BY <1>14, <3>3, <3>4
  <2>6. CASE state[p] # "UNINTERRUPTIBLE"
    <3>1. nr_uninterruptible' = nr_uninterruptible
      BY <1>0, <2>2, <2>6
    <3>2. \A r \in Task :
             /\ (Counts(r)' <=> Counts(r))
             /\ state'[r] = "WAKING" => on_rq'[r] = "no"
             /\ on_rq'[r] = "migrating" =>
                  \/ on_rq[r] = "migrating" /\ ~(op[c] = "m_enq" /\ arg[c] = r)
                  \/ op'[c] = "m_enq" /\ arg'[c] = r
      BY <2>2, <2>4, <2>6
    <3> QED
      BY <1>0, <3>1, <3>2, LoadStays
  <2> QED
    BY <2>5, <2>6
\* A worker that is woken on its own CPU is uncounted there.
<1>16. ASSUME LocalWake(c, arg[c]), op[c] \in {"l_try", "l_rq"},
              \A d \in CPU \ {c} : op[d] \in HoldsPi => arg[d] # arg[c]
       PROVE  LoadInv'
  <2>1. PICK p \in Task : p = arg[c]
    BY <1>0, <1>16 DEF OpPlace
  <2>2. UNCHANGED contrib
    BY <1>16 DEF LocalWake
  <2>3. CASE state[p] \in Asleep /\ on_rq[p] # "queued"
    <3>1. on_rq[p] = "no"
      BY <1>0, <1>16, <2>1, <2>3 DEF Carried, HoldsPi
    <3>2. /\ on_rq' = [on_rq EXCEPT ![p] = "queued"] /\ state' = [state EXCEPT ![p] = "RUNNING"]
          /\ nr_uninterruptible' = [nr_uninterruptible EXCEPT ![c] =
                IF state[p] = "UNINTERRUPTIBLE" THEN (nr_uninterruptible[c] - 1) % Width
                ELSE nr_uninterruptible[c]]
      BY <1>16, <2>1, <2>3 DEF LocalWake, MustActivate
    <3>3. /\ \A r \in Task : /\ state'[r] = "WAKING" => on_rq'[r] = "no"
                             /\ on_rq'[r] = "migrating" => on_rq[r] = "migrating"
          /\ \A r \in Task \ {p} : (Counts(r)' <=> Counts(r))
          /\ ~Counts(p)' /\ (Counts(p) <=> state[p] = "UNINTERRUPTIBLE")
      BY <1>0, <2>2, <2>3, <3>1, <3>2 DEF Counts, Woken, Asleep
    <3>4. CASE state[p] = "UNINTERRUPTIBLE"
      <4>1. Loaded' = Loaded \ {p} /\ p \in Loaded
        BY <3>3, <3>4 DEF Loaded
      <4>2. Cardinality(Loaded') = Cardinality(Loaded) - 1
        BY <4>1, LoadedType, FS_RemoveElement
      <4>0. PICK d \in Int : d = -1
        OBVIOUS
      <4>3. /\ nr_uninterruptible[c] - 1 = nr_uninterruptible[c] + d
            /\ Cardinality(Loaded) - 1 = Cardinality(Loaded) + d
        BY <1>0, <4>0, LoadedType
      <4>4. op[c] # "m_enq" /\ Shift(c, d) /\ d \in Int
        BY <1>16, <4>0, <3>2, <3>4, <4>2, <4>3 DEF Shift
      <4>5. \A r \in Task : /\ state'[r] = "WAKING" => on_rq'[r] = "no"
                            /\ on_rq'[r] = "migrating" => on_rq[r] = "migrating"
        BY <3>3
      <4> QED
        BY <1>14, <4>4, <4>5
    <3>5. CASE state[p] # "UNINTERRUPTIBLE"
      <4>1. nr_uninterruptible' = nr_uninterruptible
        BY <1>0, <3>2, <3>5
      <4>2. \A r \in Task :
               /\ (Counts(r)' <=> Counts(r))
               /\ state'[r] = "WAKING" => on_rq'[r] = "no"
               /\ on_rq'[r] = "migrating" =>
                    \/ on_rq[r] = "migrating" /\ ~(op[c] = "m_enq" /\ arg[c] = r)
                    \/ op'[c] = "m_enq" /\ arg'[c] = r
        BY <1>16, <3>3, <3>5
      <4> QED
        BY <1>0, <4>1, <4>2, LoadStays
    <3> QED
      BY <3>4, <3>5
  <2>4. CASE state[p] \in Asleep /\ on_rq[p] = "queued"
    <3>1. UNCHANGED <<on_rq, nr_uninterruptible>> /\ state' = [state EXCEPT ![p] = "RUNNING"]
      BY <1>16, <2>1, <2>4 DEF LocalWake, MustActivate
    <3> QED
      BY <1>0, <1>6, <1>16, <2>2, <2>4, <3>1
  <2>5. CASE state[p] \notin Asleep
    BY <1>1, <1>16, <2>1, <2>2, <2>5 DEF LocalWake
  <2> QED
    BY <2>3, <2>4, <2>5
<1>17. ASSUME LocalWake(c, arg[c]), op[c] \in {"l_try", "l_rq"}, op[c] = "l_try" => PiFree(arg[c])
       PROVE  LoadInv'
  <2>1. \A d \in CPU \ {c} : op[d] \in HoldsPi => arg[d] # arg[c]
    BY <1>0, <1>17 DEF PiFree, PiExclusive, HoldsPi
  <2> QED
    BY <1>16, <1>17, <2>1
\* The tasks of a wake_list are uncounted together, on the CPU they go to.
<1>18. ASSUME NEW q \in CPU, NEW P \in SUBSET Task, TtwuDoActivate(c, q, P), op[c] # "m_enq",
              \A p \in P : state[p] = "WAKING" /\ on_rq[p] = "no"
       PROVE  LoadInv'
  <2> DEFINE K == {p \in P : contrib[p]}
  <2>1. PICK k : k = Cardinality(K)
    OBVIOUS
  <2>2. /\ nr_uninterruptible' = [nr_uninterruptible EXCEPT ![q] = (nr_uninterruptible[q] - k) % Width]
        /\ on_rq' = [p \in Task |-> IF p \in P THEN "queued" ELSE on_rq[p]]
        /\ state' = [p \in Task |-> IF p \in P THEN "RUNNING" ELSE state[p]]
        /\ UNCHANGED contrib
    BY <1>18, <2>1 DEF TtwuDoActivate, Decrement
  <2>3. \A r \in Task : /\ state'[r] = "WAKING" => on_rq'[r] = "no"
                        /\ on_rq'[r] = "migrating" => on_rq[r] = "migrating"
                        /\ (Counts(r)' <=> Counts(r) /\ r \notin P)
                        /\ r \in P => (Counts(r) <=> contrib[r])
    BY <1>0, <1>18, <2>2 DEF Counts, Woken
  <2>4. Loaded' = Loaded \ K /\ K \subseteq Loaded
    BY <2>3 DEF Loaded
  <2> HIDE DEF K
  <2>5. IsFiniteSet(K) /\ k \in Nat
    BY <2>1, <2>4, LoadedType, FS_Subset, FS_CardinalityType
  <2>6. Loaded \cap K = K
    BY <2>4
  <2>7. Cardinality(Loaded \ K) = Cardinality(Loaded) - Cardinality(Loaded \cap K)
    BY LoadedType, FS_Difference
  <2>8. PICK d \in Int : d = -k
    BY <2>5
  <2>9. Cardinality(Loaded') = Cardinality(Loaded) + d
    BY <2>1, <2>4, <2>5, <2>6, <2>7, <2>8, LoadedType
  <2>10. (nr_uninterruptible[q] - k) = nr_uninterruptible[q] + d
    BY <1>0, <2>5, <2>8
  <2>11. Shift(q, d)
    BY <2>2, <2>9, <2>10 DEF Shift
  <2> QED
    BY <1>14, <1>18, <2>3, <2>11
<1>19. ASSUME TtwuQueueLocal(c) PROVE LoadInv'
  <2>1. PICK p \in Task : p = arg[c]
    BY <1>0, <1>19 DEF TtwuQueueLocal, OpPlace
  <2>2. op[c] = "w_queue" /\ TtwuDoActivate(c, cpu[p], {p})
    BY <1>19, <2>1 DEF TtwuQueueLocal
  <2>3. state[p] = "WAKING" /\ on_rq[p] = "no" /\ cpu[p] \in CPU
    BY <1>0, <2>1, <2>2 DEF OpTask, TypeOK, TaskTypeOK
  <2> QED
    BY <1>18, <2>2, <2>3
<1>20. ASSUME SchedTtwuPending(c) PROVE LoadInv'
  <2>1. op[c] = "p_act" /\ TtwuDoActivate(c, c, pend[c])
    BY <1>20 DEF SchedTtwuPending
  <2>2. pend[c] \in SUBSET Task /\ \A p \in pend[c] : state[p] = "WAKING" /\ on_rq[p] = "no"
    BY <1>0 DEF Pending
  <2> QED
    BY <1>18, <2>1, <2>2
<1> QED
  BY <1>2, <1>3, <1>4, <1>5, <1>7, <1>8, <1>9, <1>10, <1>12, <1>13, <1>15, <1>17, <1>19, <1>20
     DEF Acts

\* However tasks block, are woken on other CPUs, through a wake_list or by a worker, and
\* move meanwhile: the counters of all CPUs together give the number of tasks that count.
THEOREM LoadSafety == Spec => []LoadBalanced
<1>1. Init => LoadInv
  <2> SUFFICES ASSUME Init PROVE LoadInv
    OBVIOUS
  <2>1. Woken /\ Carried /\ \A p \in Task : ~Counts(p)
    BY DEF Init, Woken, Carried, Counts
  <2>2. Loaded = {}
    BY <2>1 DEF Loaded
  <2>3. SumFunctionOnSet(nr_uninterruptible, CPU) = 0
    BY ConstantsAssumption, SumZero DEF Init
  <2>4. LoadBalanced
    BY <2>2, <2>3, LoadedType, FS_EmptySet
  <2> QED
    BY <2>1, <2>4 DEF LoadInv
<1>2. IInv /\ LoadInv /\ [Next]_vars => LoadInv'
  <2> SUFFICES ASSUME IInv, LoadInv, [Next]_vars PROVE LoadInv'
    OBVIOUS
  <2>1. CASE UNCHANGED vars
    BY <2>1 DEF LoadInv, Woken, Carried, LoadBalanced, vars, taskVars, rqVars, opVars
  <2>2. CASE Next
    BY <2>2, Steps, LoadInvKept
  <2> QED
    BY <2>1, <2>2
<1> QED
  BY <1>1, <1>2, Invariance, PTL DEF Spec, LoadInv
=============================================================================
