----------------------------- MODULE SchedHooks -----------------------------
(***************************************************************************)
(* The hooks that assg4/core.c offers and the module assg4/assg4.c that    *)
(* fills them: loading and unloading while every CPU keeps switching.      *)
(*                                                                         *)
(* context_counter is called after switch_to, on the stack of the thread   *)
(* that is resumed: next and rq are the locals of the last context_switch  *)
(* of that thread, saved in frame.  It runs with rq->lock held and         *)
(* prev->on_cpu still set; its counters are plain words, read and written  *)
(* in two steps.                                                           *)
(*                                                                         *)
(* Run queues are abstracted to the cpu of each thread (module Scheduler   *)
(* has the details), priorities and run times are left out.                *)
(***************************************************************************)
EXTENDS Integers, FiniteSetsExt

CONSTANTS Task, CPU,
          Swapper,       \* Swapper[c]: the idle thread of c
          Fresh,         \* tasks that have never run
          Home,          \* Home[t]: where a task is at first
          Pid,           \* the task named by the module parameter pid
          MaxSwitch, MaxMigration, MaxLoad    \* bounds

Thread == Task \cup {Swapper[c] : c \in CPU}

ASSUME HooksAssumption ==
    /\ IsFiniteSet(Task) /\ MaxLoad \in Nat
    /\ Swapper \in [CPU -> {Swapper[c] : c \in CPU}]
    /\ \A c, d \in CPU : Swapper[c] = Swapper[d] => c = d
    /\ \A c \in CPU : Swapper[c] \notin Task
    /\ Fresh \subseteq Task /\ Home \in [Task -> CPU] /\ Pid \in Task

VARIABLES
    curr, cpu, frame, nr_switches, nr_migrations,     \* the scheduler
    pc, last,          \* a CPU in __schedule, and what switch_to returned
    seen,              \* the values a CPU read inside hk_context_counter
    hooks,             \* the hook pointers that are not NULL
    lkm, files, loads, \* the module: place in init or cleanup, proc files
    sched_counter, per_pid_switch_counter, switches, grqsize, migration,
    curr_cpu,          \* its data
    calls, base        \* history: hook calls about Pid; switches before the load

schedVars == <<curr, cpu, frame, nr_switches, nr_migrations>>
cpuVars   == <<pc, last, seen>>
lkmVars   == <<hooks, lkm, files, loads>>
dataVars  == <<sched_counter, per_pid_switch_counter, switches, grqsize,
               migration, curr_cpu, calls, base>>
vars      == <<schedVars, cpuVars, lkmVars, dataVars>>

NoFrame == [rq |-> "none", next |-> "none"]
Zero    == [c \in CPU |-> 0]

Init ==
    /\ curr = Swapper
    /\ cpu = [t \in Thread |-> IF t \in Task THEN Home[t]
                               ELSE CHOOSE c \in CPU : Swapper[c] = t]
    /\ frame = [t \in Thread |-> IF t \in Fresh THEN NoFrame
                                 ELSE [rq |-> cpu[t], next |-> Swapper[cpu[t]]]]
    /\ nr_switches = Zero /\ nr_migrations = [t \in Task |-> 0]
    /\ pc = [c \in CPU |-> "run"] /\ last = Swapper
    /\ seen = [c \in CPU |-> <<0, 0>>]
    /\ hooks = {} /\ lkm = "out" /\ files = {} /\ loads = 0
    /\ sched_counter = Zero /\ per_pid_switch_counter = Zero
    /\ switches = Zero /\ grqsize = Zero /\ migration = 0 /\ curr_cpu = 0
    /\ calls = Zero /\ base = Zero

-----------------------------------------------------------------------------
(* The scheduler                                                           *)

nr_running(c) == Cardinality({t \in Task : cpu[t] = c})

HkRqSize(c) == /\ grqsize' = [grqsize EXCEPT ![c] = nr_running(c)]
               /\ switches' = [switches EXCEPT ![c] = nr_switches[c]]

\* The rest of what it copies from the task is left out.
HkPerPidStats(t) == migration' = IF t = Pid THEN nr_migrations[Pid] ELSE migration

\* __schedule before it takes rq->lock: rq_size, then per_pid_stats.
EnterSchedule(c) ==
    /\ pc[c] = "run" /\ nr_switches[c] < MaxSwitch
    /\ pc' = [pc EXCEPT ![c] = "sched"]
    /\ IF "rq_size" \in hooks THEN HkRqSize(c) ELSE UNCHANGED <<grqsize, switches>>
    /\ IF "per_pid_stats" \in hooks THEN HkPerPidStats(curr[c])
       ELSE UNCHANGED migration
    /\ UNCHANGED <<schedVars, last, seen, lkmVars>>
    /\ UNCHANGED <<sched_counter, per_pid_switch_counter, curr_cpu, calls, base>>

\* Between switch_to and finish_task_switch, which follows the hook.
Switched(c) == pc[c] \in {"switched", "call", "hook"}

\* t->on_cpu: set until finish_task_switch.
OnCpu(t) == \E c \in CPU : curr[c] = t \/ (Switched(c) /\ last[c] = t)

\* __schedule and context_switch up to switch_to.  A thread that never ran
\* starts in schedule_tail, where there is no hook.
SwitchTo(c, n) ==
    /\ pc[c] = "sched" /\ cpu[n] = c /\ ~OnCpu(n)
    /\ curr' = [curr EXCEPT ![c] = n]
    /\ nr_switches' = [nr_switches EXCEPT ![c] = @ + 1]
    /\ frame' = [frame EXCEPT ![curr[c]] = [rq |-> c, next |-> n]]
    /\ last' = [last EXCEPT ![c] = curr[c]]
    /\ pc' = [pc EXCEPT ![c] = IF frame[n] = NoFrame THEN "run" ELSE "switched"]
    /\ UNCHANGED <<cpu, nr_migrations, seen, lkmVars, dataVars>>

\* __schedule picks the task that runs already.
NoSwitch(c) ==
    /\ pc[c] = "sched"
    /\ pc' = [pc EXCEPT ![c] = "run"]
    /\ UNCHANGED <<schedVars, last, seen, lkmVars, dataVars>>

\* if (context_counter != NULL)
TestHook(c) ==
    /\ pc[c] = "switched"
    /\ pc' = [pc EXCEPT ![c] = IF "context_counter" \in hooks THEN "call" ELSE "run"]
    /\ UNCHANGED <<schedVars, last, seen, lkmVars, dataVars>>

\* The rq that context_switch has on its stack, and its CPU.
RqCpu(c) == frame[curr[c]].rq

\* The call.  The pointer is not volatile: the compiler may have kept the
\* value that was tested or load it again, and then find NULL.
CallHook(c) ==
    /\ pc[c] = "call"
    /\ \/ /\ pc' = [pc EXCEPT ![c] = "hook"]
          /\ seen' = [seen EXCEPT ![c] = <<sched_counter[RqCpu(c)],
                                           per_pid_switch_counter[RqCpu(c)]>>]
          /\ calls' = [calls EXCEPT ![RqCpu(c)] = IF last[c] = Pid THEN @ + 1 ELSE @]
       \/ /\ "context_counter" \notin hooks
          /\ pc' = [pc EXCEPT ![c] = "oops"]
          /\ UNCHANGED <<seen, calls>>
    /\ UNCHANGED <<schedVars, last, lkmVars>>
    /\ UNCHANGED <<sched_counter, per_pid_switch_counter, switches, grqsize,
                   migration, curr_cpu, base>>

\* Mutation: the thread that was switched in is compared with pid.
HkContextCounterNext(c) ==
    /\ pc[c] = "hook"
    /\ sched_counter' = [sched_counter EXCEPT ![RqCpu(c)] = seen[c][1] + 1]
    /\ IF curr[c] = Pid
       THEN /\ per_pid_switch_counter' =
                  [per_pid_switch_counter EXCEPT ![RqCpu(c)] = seen[c][2] + 1]
            /\ curr_cpu' = RqCpu(c)
       ELSE UNCHANGED <<per_pid_switch_counter, curr_cpu>>
    /\ pc' = [pc EXCEPT ![c] = "run"]
    /\ UNCHANGED <<schedVars, last, seen, lkmVars>>
    /\ UNCHANGED <<switches, grqsize, migration, calls, base>>

\* hk_context_counter(prev, next, rq->cpu): its first parameter, called next
\* there, is the thread that was switched out.
HkContextCounter(c) ==
    /\ pc[c] = "hook"
    /\ sched_counter' = [sched_counter EXCEPT ![RqCpu(c)] = seen[c][1] + 1]
    /\ IF last[c] = Pid
       THEN /\ per_pid_switch_counter' =
                  [per_pid_switch_counter EXCEPT ![RqCpu(c)] = seen[c][2] + 1]
            /\ curr_cpu' = RqCpu(c)
       ELSE UNCHANGED <<per_pid_switch_counter, curr_cpu>>
    /\ pc' = [pc EXCEPT ![c] = "run"]
    /\ UNCHANGED <<schedVars, last, seen, lkmVars>>
    /\ UNCHANGED <<switches, grqsize, migration, calls, base>>

\* A task that is not running is moved to another CPU.
SetTaskCpu(t, d) ==
    /\ ~OnCpu(t) /\ cpu[t] # d
    /\ MapThenSumSet(LAMBDA u : nr_migrations[u], Task) < MaxMigration
    /\ cpu' = [cpu EXCEPT ![t] = d]
    /\ nr_migrations' = [nr_migrations EXCEPT ![t] = @ + 1]
    /\ UNCHANGED <<curr, frame, nr_switches, cpuVars, lkmVars, dataVars>>

-----------------------------------------------------------------------------
(* insmod and rmmod                                                        *)

\* The switches after which the hook was not, and will not be, called.
Finished == [c \in CPU |-> nr_switches[c] - (IF pc[c] = "switched" THEN 1 ELSE 0)]

\* The module image is loaded with its static data zeroed.
ZeroData ==
    /\ sched_counter' = Zero /\ per_pid_switch_counter' = Zero
    /\ switches' = Zero /\ grqsize' = Zero /\ migration' = 0 /\ curr_cpu' = 0
    /\ calls' = Zero /\ base' = Finished

\* init: the first proc_create succeeds (when it fails nothing is left).
CreateFirst ==
    /\ lkm = "out" /\ loads < MaxLoad
    /\ lkm' = "first" /\ loads' = loads + 1 /\ files' = files \cup {1}
    /\ ZeroData
    /\ UNCHANGED <<schedVars, cpuVars, hooks>>

\* The second one: when it fails, init returns -1 and the first file stays.
CreateSecond ==
    /\ lkm = "first"
    /\ \/ lkm' = "files" /\ files' = files \cup {2}
       \/ lkm' = "out" /\ UNCHANGED files
    /\ UNCHANGED <<schedVars, cpuVars, hooks, loads, dataVars>>

\* One assignment to a hook pointer, in init or in cleanup.
SetHook(h, from, to) ==
    /\ lkm = from /\ lkm' = to /\ hooks' = hooks \cup {h}
    /\ UNCHANGED <<schedVars, cpuVars, files, loads, dataVars>>

ClearHook(h, from, to) ==
    /\ lkm = from /\ lkm' = to /\ hooks' = hooks \ {h}
    /\ UNCHANGED <<schedVars, cpuVars, files, loads, dataVars>>

AssignHooks == \/ SetHook("context_counter", "files", "set1")
               \/ SetHook("rq_size", "set1", "set2")
               \/ SetHook("per_pid_stats", "set2", "live")

\* Mutation: one pointer is forgotten.
ClearHooksButOne == \/ ClearHook("rq_size", "live", "clear2")
                    \/ ClearHook("per_pid_stats", "clear2", "clear3")

ClearHooks == \/ ClearHook("rq_size", "live", "clear1")
              \/ ClearHook("context_counter", "clear1", "clear2")
              \/ ClearHook("per_pid_stats", "clear2", "clear3")

\* proc_remove of both files, in cleanup.
RemoveFiles ==
    /\ lkm = "clear3" /\ lkm' = "gone" /\ files' = {}
    /\ UNCHANGED <<schedVars, cpuVars, hooks, loads, dataVars>>

\* The kernel frees the module once every CPU has gone through the scheduler:
\* the hooks are called with preemption disabled.
FreeModule ==
    /\ lkm = "gone" /\ \A c \in CPU : pc[c] \notin {"call", "hook"}
    /\ lkm' = "out"
    /\ UNCHANGED <<schedVars, cpuVars, hooks, files, loads, dataVars>>

-----------------------------------------------------------------------------
Next ==
    \/ \E c \in CPU : \/ EnterSchedule(c) \/ NoSwitch(c) \/ TestHook(c)
                      \/ CallHook(c) \/ HkContextCounter(c)
                      \/ \E n \in Thread : SwitchTo(c, n)
    \/ \E t \in Task, d \in CPU : SetTaskCpu(t, d)
    \/ CreateFirst \/ CreateSecond \/ AssignHooks \/ ClearHooks \/ RemoveFiles
    \/ FreeModule

Spec == Init /\ [][Next]_vars

-----------------------------------------------------------------------------
(* Properties                                                              *)

Places == {"out", "first", "files", "set1", "set2", "live", "clear1", "clear2",
           "clear3", "gone"}

\* Every variable has its type; RqCpu is applied to threads that have a frame.
TypeOK ==
    /\ curr \in [CPU -> Thread] /\ cpu \in [Thread -> CPU]
    /\ frame \in [Thread -> [rq : CPU, next : Thread] \cup {NoFrame}]
    /\ nr_switches \in [CPU -> Nat] /\ nr_migrations \in [Task -> Nat]
    /\ pc \in [CPU -> {"run", "sched", "switched", "call", "hook", "oops"}]
    /\ last \in [CPU -> Thread] /\ seen \in [CPU -> Nat \X Nat]
    /\ hooks \subseteq {"context_counter", "rq_size", "per_pid_stats"}
    /\ lkm \in Places /\ files \subseteq {1, 2} /\ loads \in 0 .. MaxLoad
    /\ {sched_counter, per_pid_switch_counter, switches, grqsize, base, calls}
         \subseteq [CPU -> Nat]
    /\ migration \in Nat /\ curr_cpu \in CPU \cup {0}
    /\ \A c \in CPU : Switched(c) => frame[curr[c]] # NoFrame
    /\ \A c \in CPU : pc[c] = "switched" => nr_switches[c] > 0

\* No CPU is inside, or about to enter, code of a module that is gone, however
\* rmmod and the context switches interleave.
HookCodeLives == \A c \in CPU : pc[c] \in {"call", "hook"} => lkm # "out"

\* The CPUs that are counting a switch of the watched task in the word of d.
Counting(d) == {c \in CPU : pc[c] = "hook" /\ last[c] = Pid /\ RqCpu(c) = d}

\* No switch of the watched task is lost although its counters are plain
\* words: the hook runs before finish_task_switch, so no two CPUs count the
\* same task at the same time.
PerPidExact ==
    \A d \in CPU : per_pid_switch_counter[d] + Cardinality(Counting(d)) = calls[d]

\* What proc_readings2 prints after "&: No of CS: cpu0" is a number of context
\* switches of CPU 0, and so on: at most those since the module was loaded.
PerCpuCount == \A c \in CPU : sched_counter[c] <= nr_switches[c] - base[c]
=============================================================================
