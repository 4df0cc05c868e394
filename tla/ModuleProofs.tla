---------------------------- MODULE ModuleProofs ----------------------------
(***************************************************************************)
(* Proofs about three kernel modules.                                      *)
(*                                                                         *)
(* SchedHooks, for every number of CPUs, tasks, switches, migrations and   *)
(* loads of the module: types, that no CPU runs code of a module that is   *)
(* gone, and that no switch of the watched task is lost.                   *)
(*                                                                         *)
(* MappedPage, for every number of opens and mappings: MappedLives is      *)
(* inductive together with the types.  A step touches one file; what is    *)
(* known of the others carries over because a mapping belongs to one file. *)
(*                                                                         *)
(* PageWatch, for every process, layout of its areas and number of rounds: *)
(* what wss5.c counts (WorkingSetExact) and what rss2.c counts             *)
(* (ResidentSetSound).  The marking and the hook each read an entry before *)
(* they write it, so the proof says, of every page, how far each of the    *)
(* two is in its three writes, what it read, and what is in the entry.     *)
(***************************************************************************)
EXTENDS SchedHooks, MappedPage, PageWatch, FiniteSetTheorems, SequenceTheorems, TLAPS

-----------------------------------------------------------------------------
(* One thread, one CPU                                                     *)

\* A thread is current, or being switched out, on one CPU at most: this is what the
\* test of on_cpu in SwitchTo is for.
OneCpu ==
    /\ \A c, d \in CPU : curr[c] = curr[d] => c = d
    /\ \A c, d \in CPU : Switched(c) => last[c] # curr[d]
    /\ \A c, d \in CPU : Switched(c) /\ Switched(d) /\ last[c] = last[d] => c = d

\* The idle threads are where they belong.
LEMMA SwapperHome ==
  /\ \A c \in CPU : Swapper[c] \in Thread \ Task
  /\ \A t \in Thread \ Task : (CHOOSE c \in CPU : Swapper[c] = t) \in CPU
  /\ Swapper \in [CPU -> Thread]
<1>1. \A c \in CPU : Swapper[c] \in Thread \ Task
  BY HooksAssumption DEF Thread
<1>2. Swapper \in [CPU -> Thread]
  BY <1>1, HooksAssumption
<1>3. ASSUME NEW t \in Thread \ Task PROVE (CHOOSE c \in CPU : Swapper[c] = t) \in CPU
  <2>1. \E c \in CPU : Swapper[c] = t
    BY DEF Thread
  <2> QED
    BY <2>1
<1> QED
  BY <1>1, <1>2, <1>3

LEMMA InitTypes == Init => TypeOK /\ OneCpu
<1> SUFFICES ASSUME Init PROVE TypeOK /\ OneCpu
  OBVIOUS
<1>1. Zero \in [CPU -> Nat]
  BY DEF Zero
<1>2. cpu \in [Thread -> CPU]
  <2>1. ASSUME NEW t \in Thread
        PROVE  (IF t \in Task THEN Home[t] ELSE CHOOSE c \in CPU : Swapper[c] = t) \in CPU
    BY SwapperHome, HooksAssumption
  <2> QED
    BY <2>1 DEF Init
<1>3. frame \in [Thread -> [rq : CPU, next : Thread] \cup {NoFrame}]
  <2>1. ASSUME NEW t \in Thread
        PROVE  [rq |-> cpu[t], next |-> Swapper[cpu[t]]] \in [rq : CPU, next : Thread]
    BY <1>2, SwapperHome
  <2> QED
    BY <2>1 DEF Init
<1>4. /\ curr \in [CPU -> Thread] /\ last \in [CPU -> Thread]
      /\ pc \in [CPU -> {"run", "sched", "switched", "call", "hook", "oops"}]
      /\ seen \in [CPU -> Nat \X Nat]
  BY SwapperHome DEF Init
<1>5. \A c \in CPU : pc[c] = "run"
  BY DEF Init
<1>6. OneCpu
  BY <1>5, HooksAssumption DEF Init, OneCpu, Switched
<1>7. nr_migrations \in [Task -> Nat] /\ nr_switches \in [CPU -> Nat]
  BY <1>1 DEF Init
<1>8. {sched_counter, per_pid_switch_counter, switches, grqsize, base, calls} \subseteq [CPU -> Nat]
  BY <1>1 DEF Init
<1>9. /\ hooks \subseteq {"context_counter", "rq_size", "per_pid_stats"}
      /\ lkm \in Places /\ files \subseteq {1, 2} /\ loads \in 0 .. MaxLoad
      /\ migration \in Nat /\ curr_cpu \in CPU \cup {0}
  BY HooksAssumption DEF Init, Places
<1> QED
  BY <1>2, <1>3, <1>4, <1>5, <1>6, <1>7, <1>8, <1>9 DEF TypeOK, Switched

-----------------------------------------------------------------------------
(* Types                                                                   *)

\* The part of the state that only the scheduler changes.
SchedType ==
    /\ curr \in [CPU -> Thread] /\ cpu \in [Thread -> CPU]
    /\ frame \in [Thread -> [rq : CPU, next : Thread] \cup {NoFrame}]
    /\ nr_switches \in [CPU -> Nat] /\ nr_migrations \in [Task -> Nat]
    /\ pc \in [CPU -> {"run", "sched", "switched", "call", "hook", "oops"}]
    /\ last \in [CPU -> Thread] /\ seen \in [CPU -> Nat \X Nat]
    /\ \A c \in CPU : Switched(c) => frame[curr[c]] # NoFrame
    /\ \A c \in CPU : pc[c] = "switched" => nr_switches[c] > 0

\* The module and its data.
LkmType ==
    /\ hooks \subseteq {"context_counter", "rq_size", "per_pid_stats"}
    /\ lkm \in Places /\ files \subseteq {1, 2} /\ loads \in 0 .. MaxLoad

DataType ==
    /\ {sched_counter, per_pid_switch_counter, switches, grqsize, base, calls}
         \subseteq [CPU -> Nat]
    /\ migration \in Nat /\ curr_cpu \in CPU \cup {0}

LEMMA TypeParts == TypeOK <=> SchedType /\ LkmType /\ DataType
BY DEF TypeOK, SchedType, LkmType, DataType

\* A CPU that has switched has a frame, and RqCpu is a CPU.
LEMMA RqCpuType ==
  ASSUME SchedType, NEW c \in CPU, Switched(c) PROVE RqCpu(c) \in CPU
<1>1. curr[c] \in Thread /\ frame[curr[c]] # NoFrame
  BY DEF SchedType
<1>2. frame[curr[c]] \in [rq : CPU, next : Thread]
  BY <1>1 DEF SchedType
<1> QED
  BY <1>2 DEF RqCpu

LEMMA OneCpuKept == SchedType /\ OneCpu /\ [Next]_vars => OneCpu'
<1> SUFFICES ASSUME SchedType, OneCpu, [Next]_vars PROVE OneCpu'
  OBVIOUS
<1>1. ASSUME NEW c \in CPU, NEW n \in Thread, SwitchTo(c, n) PROVE OneCpu'
  <2>1. /\ curr' = [curr EXCEPT ![c] = n] /\ last' = [last EXCEPT ![c] = curr[c]]
        /\ pc[c] = "sched" /\ \A d \in CPU \ {c} : pc'[d] = pc[d]
    BY <1>1 DEF SwitchTo, SchedType
  <2>2. \A d \in CPU : curr[d] # n /\ (Switched(d) => last[d] # n)
    BY <1>1 DEF SwitchTo, OnCpu
  <2> QED
    BY <2>1, <2>2 DEF SchedType, OneCpu, Switched
<1>2. ASSUME UNCHANGED <<curr, last>>, NEW c \in CPU, \A d \in CPU \ {c} : pc'[d] = pc[d],
             pc'[c] \in {"run", "sched", "oops"} \/ Switched(c)
      PROVE  OneCpu'
  BY ZenonT(45), <1>2 DEF SchedType, OneCpu, Switched
<1>3. ASSUME NEW c \in CPU,
             \/ EnterSchedule(c) \/ NoSwitch(c) \/ TestHook(c) \/ CallHook(c)
             \/ HkContextCounter(c)
      PROVE  OneCpu'
  <2>1. UNCHANGED <<curr, last>> /\ \A d \in CPU \ {c} : pc'[d] = pc[d]
    BY <1>3 DEF EnterSchedule, NoSwitch, TestHook, CallHook, HkContextCounter, schedVars,
       SchedType
  <2>2. pc'[c] \in {"run", "sched", "oops"} \/ Switched(c)
    BY <1>3 DEF EnterSchedule, NoSwitch, TestHook, CallHook, HkContextCounter, schedVars,
       SchedType, Switched
  <2> QED
    BY <1>2, <2>1, <2>2
<1>4. ASSUME UNCHANGED <<curr, last, pc>> PROVE OneCpu'
  BY <1>4 DEF OneCpu, Switched
<1> QED
  BY <1>1, <1>3, <1>4 DEF Next, SetTaskCpu, CreateFirst, CreateSecond, AssignHooks, SetHook,
     ClearHooks, ClearHook, RemoveFiles, FreeModule, schedVars, cpuVars, vars

\* The scheduler keeps its types; here a thread that is switched to keeps its frame,
\* because it is current nowhere.
LEMMA SchedTypeKept == SchedType /\ DataType /\ OneCpu /\ [Next]_vars => SchedType'
<1> SUFFICES ASSUME SchedType, DataType, OneCpu, [Next]_vars PROVE SchedType'
  OBVIOUS
<1> DEFINE PC == {"run", "sched", "switched", "call", "hook", "oops"}
<1>1. ASSUME NEW c \in CPU, NEW n \in Thread, SwitchTo(c, n) PROVE SchedType'
  <2>1. /\ curr' = [curr EXCEPT ![c] = n] /\ last' = [last EXCEPT ![c] = curr[c]]
        /\ nr_switches' = [nr_switches EXCEPT ![c] = @ + 1]
        /\ frame' = [frame EXCEPT ![curr[c]] = [rq |-> c, next |-> n]]
        /\ pc' = [pc EXCEPT ![c] = IF frame[n] = NoFrame THEN "run" ELSE "switched"]
        /\ cpu' = cpu /\ nr_migrations' = nr_migrations /\ seen' = seen
    BY <1>1 DEF SwitchTo
  <2>2. \A d \in CPU : curr[d] # n
    BY <1>1 DEF SwitchTo, OnCpu
  <2>3. curr[c] \in Thread /\ \A d \in CPU \ {c} : curr[d] # curr[c] /\ curr[d] \in Thread
    BY DEF SchedType, OneCpu
  <2>4. curr' \in [CPU -> Thread] /\ last' \in [CPU -> Thread]
    BY <2>1, <2>3 DEF SchedType
  <2>5. frame' \in [Thread -> [rq : CPU, next : Thread] \cup {NoFrame}]
    <3>1. [rq |-> c, next |-> n] \in [rq : CPU, next : Thread]
      OBVIOUS
    <3> QED
      BY <2>1, <3>1 DEF SchedType
  <2>6. nr_switches' \in [CPU -> Nat]
    BY <2>1 DEF SchedType
  <2>7. pc' \in [CPU -> PC]
    BY <2>1 DEF SchedType
  <2>8. ASSUME NEW d \in CPU, Switched(d)' PROVE (frame[curr[d]] # NoFrame)'
    <3>1. CASE d = c
      <4>1. frame[n] # NoFrame /\ curr'[d] = n /\ n # curr[c]
        BY <2>1, <2>2, <2>8, <3>1 DEF SchedType, Switched
      <4> QED
        BY <2>1, <4>1 DEF SchedType
    <3>2. CASE d # c
      <4>1. Switched(d) /\ curr'[d] = curr[d] /\ curr[d] # curr[c] /\ curr[d] \in Thread
        BY <2>1, <2>3, <2>8, <3>2 DEF SchedType, Switched
      <4>2. frame[curr[d]] # NoFrame
        BY <4>1 DEF SchedType
      <4> QED
        BY <2>1, <4>1, <4>2 DEF SchedType
    <3> QED
      BY <3>1, <3>2
  <2>9. ASSUME NEW d \in CPU, pc'[d] = "switched" PROVE nr_switches'[d] > 0
    BY <2>1, <2>9 DEF SchedType
  <2> QED
    BY <2>1, <2>4, <2>5, <2>6, <2>7, <2>8, <2>9 DEF SchedType
<1>2. ASSUME UNCHANGED <<curr, cpu, frame, nr_switches, nr_migrations, last>>,
             seen' \in [CPU -> Nat \X Nat], NEW c \in CPU, NEW to \in PC,
             pc' = [pc EXCEPT ![c] = to],
             to \notin {"run", "sched", "oops"} => Switched(c), to # "switched"
      PROVE  SchedType'
  <2>1. pc' \in [CPU -> PC]
    BY <1>2 DEF SchedType
  <2>2. \A d \in CPU : Switched(d)' => Switched(d)
    BY <1>2 DEF SchedType, Switched
  <2>3. \A d \in CPU : pc'[d] = "switched" => pc[d] = "switched"
    BY <1>2 DEF SchedType
  <2> QED
    BY <1>2, <2>1, <2>2, <2>3 DEF SchedType
<1>3. ASSUME NEW c \in CPU, EnterSchedule(c) PROVE SchedType'
  <2> USE <1>3 DEF EnterSchedule, schedVars
  <2> QED
    BY <1>2 DEF SchedType
<1>4. ASSUME NEW c \in CPU, NoSwitch(c) PROVE SchedType'
  BY <1>2, <1>4 DEF NoSwitch, schedVars, SchedType
<1>5. ASSUME NEW c \in CPU, TestHook(c) PROVE SchedType'
  BY <1>2, <1>5 DEF TestHook, schedVars, SchedType, Switched
<1>6. ASSUME NEW c \in CPU, CallHook(c) PROVE SchedType'
  <2>1. seen' \in [CPU -> Nat \X Nat]
    <3>1. RqCpu(c) \in CPU
      BY <1>6, RqCpuType DEF CallHook, Switched
    <3>2. <<sched_counter[RqCpu(c)], per_pid_switch_counter[RqCpu(c)]>> \in Nat \X Nat
      BY <3>1 DEF DataType
    <3> HIDE DEF RqCpu
    <3> QED
      BY <1>6, <3>2 DEF CallHook, SchedType
  <2> QED
    BY <1>2, <1>6, <2>1 DEF CallHook, schedVars, SchedType, Switched
<1>7. ASSUME NEW c \in CPU, HkContextCounter(c) PROVE SchedType'
  BY <1>2, <1>7 DEF HkContextCounter, schedVars, SchedType
<1>8. ASSUME NEW t \in Task, NEW d \in CPU, SetTaskCpu(t, d) PROVE SchedType'
  <2>1. t \in Thread
    BY DEF Thread
  <2>2. cpu' \in [Thread -> CPU] /\ nr_migrations' \in [Task -> Nat]
    BY <1>8, <2>1 DEF SetTaskCpu, SchedType
  <2>3. UNCHANGED <<curr, frame, nr_switches, pc, last, seen>>
    BY <1>8 DEF SetTaskCpu, cpuVars
  <2> QED
    BY <2>2, <2>3 DEF SchedType, Switched
<1>9. ASSUME UNCHANGED <<schedVars, cpuVars>> PROVE SchedType'
  BY <1>9 DEF SchedType, Switched, schedVars, cpuVars
<1> QED
  BY <1>1, <1>3, <1>4, <1>5, <1>6, <1>7, <1>8, <1>9 DEF Next, CreateFirst, CreateSecond,
     AssignHooks, SetHook, ClearHooks, ClearHook, RemoveFiles, FreeModule, vars

LEMMA LkmTypeKept == LkmType /\ [Next]_vars => LkmType'
<1> SUFFICES ASSUME LkmType, [Next]_vars PROVE LkmType'
  OBVIOUS
<1> USE DEF LkmType
<1>1. CASE CreateFirst
  BY <1>1, HooksAssumption DEF CreateFirst, Places
<1>2. CASE CreateSecond
  BY <1>2 DEF CreateSecond, Places
<1>3. CASE AssignHooks
  BY <1>3 DEF AssignHooks, SetHook, Places
<1>4. CASE ClearHooks
  BY <1>4 DEF ClearHooks, ClearHook, Places
<1>5. CASE RemoveFiles \/ FreeModule
  BY <1>5 DEF RemoveFiles, FreeModule, Places
<1>6. CASE UNCHANGED lkmVars
  BY <1>6 DEF lkmVars
<1> QED
  BY <1>1, <1>2, <1>3, <1>4, <1>5, <1>6 DEF Next, EnterSchedule, NoSwitch, TestHook,
     CallHook, HkContextCounter, SwitchTo, SetTaskCpu, vars

LEMMA DataTypeKept == SchedType /\ DataType /\ [Next]_vars => DataType'
<1> SUFFICES ASSUME SchedType, DataType, [Next]_vars PROVE DataType'
  OBVIOUS
<1>0. /\ sched_counter \in [CPU -> Nat] /\ per_pid_switch_counter \in [CPU -> Nat]
      /\ curr_cpu \in CPU \cup {0} /\ migration \in Nat
  BY DEF DataType
<1>1. ASSUME NEW c \in CPU, EnterSchedule(c) PROVE DataType'
  <2>1. nr_running(c) \in Nat
    <3>1. IsFiniteSet({t \in Task : cpu[t] = c})
      BY HooksAssumption, FS_Subset
    <3> QED
      BY <3>1, FS_CardinalityType DEF nr_running
  <2>2. grqsize' \in [CPU -> Nat] /\ switches' \in [CPU -> Nat]
    <3>1. grqsize \in [CPU -> Nat] /\ switches \in [CPU -> Nat] /\ nr_switches[c] \in Nat
      BY DEF DataType, SchedType
    <3>2. /\ grqsize' = [grqsize EXCEPT ![c] = nr_running(c)] \/ grqsize' = grqsize
          /\ switches' = [switches EXCEPT ![c] = nr_switches[c]] \/ switches' = switches
      BY <1>1 DEF EnterSchedule, HkRqSize
    <3> QED
      BY <2>1, <3>1, <3>2
  <2>3. migration' \in Nat
    <3>1. nr_migrations[Pid] \in Nat
      BY HooksAssumption DEF SchedType
    <3>2. migration' \in {migration, nr_migrations[Pid]}
      BY <1>1 DEF EnterSchedule, HkPerPidStats
    <3> QED
      BY <1>0, <3>1, <3>2
  <2> QED
    BY <1>1, <2>2, <2>3 DEF EnterSchedule, DataType
<1>2. ASSUME NEW c \in CPU, CallHook(c) PROVE DataType'
  <2>1. calls' \in [CPU -> Nat]
    BY <1>2 DEF CallHook, DataType
  <2> QED
    BY <1>2, <2>1 DEF CallHook, DataType
<1>3. ASSUME NEW c \in CPU, HkContextCounter(c) PROVE DataType'
  <2>1. RqCpu(c) \in CPU
    BY <1>3, RqCpuType DEF HkContextCounter, Switched
  <2>2. seen[c][1] \in Nat /\ seen[c][2] \in Nat
    BY DEF SchedType
  <2> HIDE DEF RqCpu
  <2>3. sched_counter' \in [CPU -> Nat]
    <3>1. sched_counter' = [sched_counter EXCEPT ![RqCpu(c)] = seen[c][1] + 1]
      BY <1>3 DEF HkContextCounter
    <3>2. seen[c][1] + 1 \in Nat
      BY <2>2
    <3> QED
      BY <1>0, <3>1, <3>2
  <2>4. per_pid_switch_counter' \in [CPU -> Nat] /\ curr_cpu' \in CPU \cup {0}
    BY <1>0, <1>3, <2>1, <2>2 DEF HkContextCounter
  <2> QED
    BY <1>3, <2>3, <2>4 DEF HkContextCounter, DataType
<1>4. CASE CreateFirst
  <2>1. Finished \in [CPU -> Nat]
    BY DEF Finished, SchedType
  <2>2. Zero \in [CPU -> Nat]
    BY DEF Zero
  <2> QED
    BY <1>4, <2>1, <2>2 DEF CreateFirst, ZeroData, DataType
<1>5. CASE UNCHANGED dataVars
  BY <1>5 DEF DataType, dataVars
<1> QED
  BY <1>1, <1>2, <1>3, <1>4, <1>5 DEF Next, NoSwitch, TestHook, SwitchTo, SetTaskCpu,
     CreateSecond, AssignHooks, SetHook, ClearHooks, ClearHook, RemoveFiles, FreeModule, vars

\* Every variable of the hooks and of the module that fills them has its type; a CPU
\* reads rq from the stack of a thread that has one.
THEOREM HooksTypes == Spec => []TypeOK
<1>1. TypeOK /\ OneCpu /\ [Next]_vars => TypeOK' /\ OneCpu'
  BY TypeParts, OneCpuKept, SchedTypeKept, LkmTypeKept, DataTypeKept
  DEF TypeOK, SchedType, LkmType, DataType
<1> QED
  BY <1>1, InitTypes, PTL DEF Spec

-----------------------------------------------------------------------------
(* The code of the module                                                  *)

\* The pointer context_counter is set from the first assignment of init to the second
\* of cleanup; no CPU has got past its test before the pointer is set.
HookOn == "context_counter" \in hooks <=> lkm \in {"set1", "set2", "live", "clear1"}
Quiet == lkm \in {"out", "first", "files"} => \A c \in CPU : pc[c] \notin {"call", "hook"}

LEMMA QuietKept ==
  SchedType /\ HookOn /\ Quiet /\ [Next]_vars => HookOn' /\ Quiet'
<1> SUFFICES ASSUME SchedType, HookOn, Quiet, [Next]_vars PROVE HookOn' /\ Quiet'
  OBVIOUS
<1> USE DEF HookOn, Quiet
<1>1. ASSUME NEW c \in CPU, UNCHANGED lkmVars, \A d \in CPU \ {c} : pc'[d] = pc[d],
             pc'[c] \notin {"call", "hook"} \/ pc[c] = "call" \/ "context_counter" \in hooks
      PROVE  HookOn' /\ Quiet'
  BY <1>1 DEF lkmVars
<1>2. ASSUME NEW c \in CPU,
             \/ EnterSchedule(c) \/ NoSwitch(c) \/ TestHook(c) \/ CallHook(c)
             \/ HkContextCounter(c) \/ \E n \in Thread : SwitchTo(c, n)
      PROVE  HookOn' /\ Quiet'
  <2>1. UNCHANGED lkmVars /\ \A d \in CPU \ {c} : pc'[d] = pc[d]
    BY <1>2 DEF EnterSchedule, NoSwitch, TestHook, CallHook, HkContextCounter, SwitchTo,
       SchedType
  <2>2. pc'[c] \notin {"call", "hook"} \/ pc[c] = "call" \/ "context_counter" \in hooks
    BY <1>2 DEF EnterSchedule, NoSwitch, TestHook, CallHook, HkContextCounter, SwitchTo,
       SchedType
  <2> QED
    BY <1>1, <2>1, <2>2
<1>3. ASSUME UNCHANGED <<lkmVars, pc>> PROVE HookOn' /\ Quiet'
  BY <1>3 DEF lkmVars
<1>4. CASE CreateFirst
  BY <1>4 DEF CreateFirst, cpuVars
<1>5. CASE CreateSecond
  BY <1>5 DEF CreateSecond, cpuVars
<1>6. CASE AssignHooks
  BY <1>6 DEF AssignHooks, SetHook, cpuVars
<1>7. CASE ClearHooks
  BY <1>7 DEF ClearHooks, ClearHook, cpuVars
<1>8. CASE RemoveFiles
  BY <1>8 DEF RemoveFiles, cpuVars
<1>9. CASE FreeModule
  BY <1>9 DEF FreeModule, cpuVars
<1> QED
  BY <1>2, <1>3, <1>4, <1>5, <1>6, <1>7, <1>8, <1>9 DEF Next, SetTaskCpu, cpuVars, vars

\* However rmmod and the context switches interleave, no CPU is inside, or about to
\* enter, code of a module that is gone.
THEOREM HookCodeSafety == Spec => []HookCodeLives
<1>1. Init => HookOn /\ Quiet
  BY DEF Init, HookOn, Quiet
<1>2. Quiet => HookCodeLives
  BY DEF Quiet, HookCodeLives
<1>3. TypeOK => SchedType
  BY TypeParts
<1> QED
  BY <1>1, <1>2, <1>3, HooksTypes, QuietKept, PTL DEF Spec

-----------------------------------------------------------------------------
(* The switches of the watched task                                        *)

\* What a CPU has read in hk_context_counter about the watched task is still there.
SeenFresh ==
    \A c \in CPU : pc[c] = "hook" /\ last[c] = Pid =>
        seen[c][2] = per_pid_switch_counter[RqCpu(c)]

\* One CPU at most is counting, and the number of those is zero or one.
LEMMA CountingOne ==
  ASSUME OneCpu, NEW c \in CPU, pc[c] = "hook", last[c] = Pid, NEW d
  PROVE  Cardinality(Counting(d)) = IF RqCpu(c) = d THEN 1 ELSE 0
<1>1. \A e \in CPU : pc[e] = "hook" /\ last[e] = Pid => e = c
  BY DEF OneCpu, Switched
<1>2. Counting(d) = IF RqCpu(c) = d THEN {c} ELSE {}
  BY <1>1 DEF Counting
<1>3. Cardinality({c}) = 1 /\ Cardinality({}) = 0
  BY FS_Singleton, FS_EmptySet
<1> QED
  BY <1>2, <1>3

LEMMA CountingNone ==
  ASSUME \A c \in CPU : pc[c] # "hook" \/ last[c] # Pid, NEW d
  PROVE  Cardinality(Counting(d)) = 0
<1>1. Counting(d) = {}
  BY DEF Counting
<1> QED
  BY <1>1, FS_EmptySet

\* A step that leaves the CPUs that count, their frames and the words alone.
LEMMA CountingSame ==
  ASSUME SeenFresh, PerPidExact,
         UNCHANGED <<per_pid_switch_counter, calls>>,
         \A c \in CPU : (pc[c] = "hook" /\ last[c] = Pid) = (pc[c] = "hook" /\ last[c] = Pid)',
         \A c \in CPU : pc[c] = "hook" /\ last[c] = Pid =>
             RqCpu(c)' = RqCpu(c) /\ seen'[c] = seen[c]
  PROVE  SeenFresh' /\ PerPidExact'
<1>1. ASSUME NEW d PROVE Counting(d)' = Counting(d)
  BY DEF Counting
<1>2. PerPidExact'
  BY <1>1 DEF PerPidExact
<1>3. SeenFresh'
  BY DEF SeenFresh
<1> QED
  BY <1>2, <1>3

LEMMA CountsKept ==
  TypeOK /\ OneCpu /\ OneCpu' /\ Quiet /\ SeenFresh /\ PerPidExact /\ [Next]_vars
    => SeenFresh' /\ PerPidExact'
<1> SUFFICES ASSUME TypeOK, OneCpu, OneCpu', Quiet, SeenFresh, PerPidExact, [Next]_vars
             PROVE  SeenFresh' /\ PerPidExact'
  OBVIOUS
<1>0. /\ SchedType /\ per_pid_switch_counter \in [CPU -> Nat] /\ calls \in [CPU -> Nat]
  BY TypeParts DEF DataType
<1>1. ASSUME NEW c \in CPU, NEW n \in Thread, SwitchTo(c, n) PROVE SeenFresh' /\ PerPidExact'
  <2>1. /\ curr' = [curr EXCEPT ![c] = n] /\ last' = [last EXCEPT ![c] = curr[c]]
        /\ frame' = [frame EXCEPT ![curr[c]] = [rq |-> c, next |-> n]]
        /\ pc[c] = "sched" /\ pc'[c] \in {"run", "switched"}
        /\ \A d \in CPU \ {c} : pc'[d] = pc[d]
        /\ seen' = seen /\ UNCHANGED <<per_pid_switch_counter, calls>>
    BY <1>0, <1>1 DEF SwitchTo, SchedType, dataVars
  <2>2. ASSUME NEW d \in CPU \ {c} PROVE RqCpu(d)' = RqCpu(d) /\ last'[d] = last[d]
    BY <1>0, <2>1 DEF SchedType, OneCpu, RqCpu
  <2>3. \A d \in CPU : (pc[d] = "hook" /\ last[d] = Pid) = (pc[d] = "hook" /\ last[d] = Pid)'
    BY <2>1, <2>2
  <2> QED
    BY <2>1, <2>2, <2>3, CountingSame
<1>2. ASSUME UNCHANGED <<curr, frame, last, seen, per_pid_switch_counter, calls>>,
             \A d \in CPU : pc[d] = "hook" <=> pc'[d] = "hook"
      PROVE  SeenFresh' /\ PerPidExact'
  <2>1. \A d \in CPU : RqCpu(d)' = RqCpu(d)
    BY <1>2 DEF RqCpu
  <2> QED
    BY <1>2, <2>1, CountingSame
<1>3. ASSUME NEW c \in CPU, EnterSchedule(c) \/ NoSwitch(c) \/ TestHook(c)
      PROVE  SeenFresh' /\ PerPidExact'
  <2>1. \A d \in CPU : pc[d] = "hook" <=> pc'[d] = "hook"
    BY <1>0, <1>3 DEF EnterSchedule, NoSwitch, TestHook, SchedType
  <2>2. UNCHANGED <<curr, frame, last, seen, per_pid_switch_counter, calls>>
    BY <1>3 DEF EnterSchedule, NoSwitch, TestHook, schedVars, dataVars
  <2> QED
    BY <1>2, <2>1, <2>2
<1>4. ASSUME NEW c \in CPU, CallHook(c) PROVE SeenFresh' /\ PerPidExact'
  <2>1. /\ pc[c] = "call" /\ \A d \in CPU \ {c} : pc'[d] = pc[d] /\ seen'[d] = seen[d]
        /\ UNCHANGED <<curr, frame, last, per_pid_switch_counter>>
    BY <1>0, <1>4 DEF CallHook, schedVars, SchedType
  <2>2. \A d \in CPU : RqCpu(d)' = RqCpu(d)
    BY <2>1 DEF RqCpu
  <2>3. CASE pc'[c] = "hook"
    <3>1. /\ seen'[c] = <<sched_counter[RqCpu(c)], per_pid_switch_counter[RqCpu(c)]>>
          /\ calls' = [calls EXCEPT ![RqCpu(c)] = IF last[c] = Pid THEN @ + 1 ELSE @]
      BY <1>0, <1>4, <2>3 DEF CallHook, SchedType
    <3>2. SeenFresh'
      BY <2>1, <2>2, <3>1 DEF SeenFresh
    <3>3. RqCpu(c) \in CPU
      BY <1>0, <2>1, RqCpuType DEF Switched
    <3>4. CASE last[c] = Pid
      <4>1. \A d \in CPU : pc[d] # "hook" \/ last[d] # Pid
        BY <2>1, <3>4 DEF OneCpu, Switched
      <4>2. \A d \in CPU : Cardinality(Counting(d)) = 0
        BY <4>1, CountingNone
      <4>3. \A d \in CPU : per_pid_switch_counter[d] = calls[d]
        BY <1>0, <4>2 DEF PerPidExact
      <4>4. ASSUME NEW d \in CPU
            PROVE  Cardinality(Counting(d)') = IF RqCpu(c) = d THEN 1 ELSE 0
        <5>1. Counting(d)' = IF RqCpu(c) = d THEN {c} ELSE {}
          BY <2>1, <2>2, <2>3, <3>4, <4>1 DEF Counting
        <5>2. Cardinality({c}) = 1 /\ Cardinality({}) = 0
          BY FS_Singleton, FS_EmptySet
        <5> QED
          BY <5>1, <5>2
      <4>5. ASSUME NEW d \in CPU
            PROVE  per_pid_switch_counter'[d] + Cardinality(Counting(d)') = calls'[d]
        <5>1. calls'[d] = IF RqCpu(c) = d THEN calls[d] + 1 ELSE calls[d]
          BY <1>0, <3>1, <3>4
        <5> QED
          BY <1>0, <2>1, <4>3, <4>4, <5>1
      <4> QED
        BY <3>2, <4>5 DEF PerPidExact
    <3>5. CASE last[c] # Pid
      <4>1. calls' = calls
        BY <1>0, <3>1, <3>5
      <4>2. ASSUME NEW d PROVE Counting(d)' = Counting(d)
        BY <2>1, <2>2, <3>5 DEF Counting
      <4>3. PerPidExact'
        BY <2>1, <4>1, <4>2 DEF PerPidExact
      <4> QED
        BY <3>2, <4>3
    <3> QED
      BY <3>4, <3>5
  <2>4. CASE pc'[c] # "hook"
    <3>1. UNCHANGED <<seen, calls>>
      BY <1>0, <1>4, <2>4 DEF CallHook, SchedType
    <3> QED
      BY <1>2, <2>1, <2>4, <3>1
  <2> QED
    BY <2>3, <2>4
<1>5. ASSUME NEW c \in CPU, HkContextCounter(c) PROVE SeenFresh' /\ PerPidExact'
  <2>1. /\ pc[c] = "hook" /\ pc' = [pc EXCEPT ![c] = "run"]
        /\ UNCHANGED <<curr, frame, last, seen, calls>>
    BY <1>5 DEF HkContextCounter, schedVars
  <2>2. \A d \in CPU : RqCpu(d)' = RqCpu(d)
    BY <2>1 DEF RqCpu
  <2>3. RqCpu(c) \in CPU
    BY <1>0, <2>1, RqCpuType DEF Switched
  <2>4. CASE last[c] = Pid
    <3>1. \A d \in CPU : Cardinality(Counting(d)) = IF RqCpu(c) = d THEN 1 ELSE 0
      BY <2>1, <2>4, CountingOne
    <3>2. \A d \in CPU : pc'[d] # "hook" \/ last'[d] # Pid
      BY <1>0, <2>1, <2>4 DEF OneCpu, Switched, SchedType
    <3>3. ASSUME NEW d \in CPU PROVE Cardinality(Counting(d)') = 0
      <4>1. Counting(d)' = {}
        BY <3>2 DEF Counting
      <4> QED
        BY <4>1, FS_EmptySet
    <3>4. per_pid_switch_counter' =
            [per_pid_switch_counter EXCEPT ![RqCpu(c)] = per_pid_switch_counter[RqCpu(c)] + 1]
      BY <1>5, <2>1, <2>4 DEF HkContextCounter, SeenFresh
    <3>5. ASSUME NEW d \in CPU
          PROVE  per_pid_switch_counter'[d] + Cardinality(Counting(d)') = calls'[d]
      <4>1. per_pid_switch_counter'[d] = IF RqCpu(c) = d THEN per_pid_switch_counter[d] + 1
                                         ELSE per_pid_switch_counter[d]
        BY <1>0, <3>4
      <4>2. per_pid_switch_counter[d] + Cardinality(Counting(d)) = calls[d]
        BY DEF PerPidExact
      <4> QED
        BY <1>0, <2>1, <3>1, <3>3, <4>1, <4>2
    <3>6. SeenFresh'
      BY <3>2 DEF SeenFresh
    <3> QED
      BY <3>5, <3>6 DEF PerPidExact
  <2>5. CASE last[c] # Pid
    <3>1. per_pid_switch_counter' = per_pid_switch_counter
      BY <1>5, <2>5 DEF HkContextCounter
    <3>2. \A d \in CPU : (pc[d] = "hook" /\ last[d] = Pid) = (pc[d] = "hook" /\ last[d] = Pid)'
      BY <1>0, <2>1, <2>5 DEF SchedType
    <3> QED
      BY <2>1, <2>2, <3>1, <3>2, CountingSame
  <2> QED
    BY <2>4, <2>5
<1>6. CASE CreateFirst
  <2>1. \A d \in CPU : pc[d] # "hook" /\ pc'[d] # "hook"
    BY <1>6 DEF CreateFirst, Quiet, cpuVars
  <2>2. SeenFresh'
    BY <2>1 DEF SeenFresh
  <2>3. ASSUME NEW d \in CPU PROVE Cardinality(Counting(d)') = 0
    <3>1. Counting(d)' = {}
      BY <2>1 DEF Counting
    <3> QED
      BY <3>1, FS_EmptySet
  <2>4. \A d \in CPU : per_pid_switch_counter'[d] = 0 /\ calls'[d] = 0
    BY <1>6 DEF CreateFirst, ZeroData, Zero
  <2> QED
    BY <2>2, <2>3, <2>4 DEF PerPidExact
<1>7. ASSUME UNCHANGED <<curr, frame, cpuVars, dataVars>> PROVE SeenFresh' /\ PerPidExact'
  <2>1. UNCHANGED <<curr, frame, pc, last, seen, per_pid_switch_counter, calls>>
    BY <1>7 DEF cpuVars, dataVars
  <2> QED
    BY <1>2, <2>1
<1> QED
  BY <1>1, <1>3, <1>4, <1>5, <1>6, <1>7 DEF Next, SetTaskCpu, CreateSecond, AssignHooks,
     SetHook, ClearHooks, ClearHook, RemoveFiles, FreeModule, schedVars, vars

\* No switch of the watched task is lost although per_pid_switch_counter is a plain
\* word, read and written in two steps, and the module may be loaded and unloaded
\* meanwhile.
THEOREM PerPidSafety == Spec => []PerPidExact
<1>1. Init => SeenFresh /\ PerPidExact /\ HookOn /\ Quiet
  <2> SUFFICES ASSUME Init PROVE SeenFresh /\ PerPidExact /\ HookOn /\ Quiet
    OBVIOUS
  <2>1. \A c \in CPU : pc[c] = "run"
    BY DEF Init
  <2>2. \A d \in CPU : Cardinality(Counting(d)) = 0
    BY <2>1, CountingNone
  <2>3. \A d \in CPU : per_pid_switch_counter[d] = 0 /\ calls[d] = 0
    BY DEF Init, Zero
  <2> QED
    BY <2>1, <2>2, <2>3 DEF Init, SeenFresh, PerPidExact, HookOn, Quiet
<1>2. TypeOK => SchedType
  BY TypeParts
<1>3. Spec => []OneCpu
  <2>1. Spec => []TypeOK
    BY HooksTypes
  <2> QED
    BY <1>2, <2>1, InitTypes, OneCpuKept, PTL DEF Spec
<1> QED
  BY <1>1, <1>2, <1>3, HooksTypes, QuietKept, CountsKept, PTL DEF Spec

-----------------------------------------------------------------------------
(* MappedPage                                                               *)

MapInv == MapTypeOK /\ MappedLives

\* Sets of mappings are finite.
LEMMA MapsFinite ==
  ASSUME MappedAssumption, NEW f
  PROVE  /\ IsFiniteSet(Maps(f)) /\ Cardinality(Maps(f)) \in Nat
         /\ IsFiniteSet(Entries(f)) /\ Cardinality(Entries(f)) \in Nat
<1>1. IsFiniteSet(Vma)
  BY DEF MappedAssumption
<1>2. Maps(f) \in SUBSET Vma /\ Entries(f) \in SUBSET Vma
  BY DEF Maps, Entries
<1> QED
  BY <1>1, <1>2, FS_Subset, FS_CardinalityType

\* At first nothing is open and nothing is mapped.
LEMMA InitMapped ==
  ASSUME MappedAssumption, MapInit
  PROVE  MapInv
<1>1. MapTypeOK
  BY DEF MapTypeOK, MapInit, MappedAssumption, NoFile
<1>2. ASSUME NEW f \in File PROVE Lives(f)
  <2>1. Maps(f) = {} /\ Entries(f) = {}
    BY DEF MapInit, Maps, Entries, MappedAssumption, NoFile
  <2>2. Cardinality(Maps(f)) = 0 /\ Cardinality(Entries(f)) = 0
    BY <2>1, FS_EmptySet
  <2>3. file[f].fds = 0 /\ file[f].info = "never" /\ count[f] = 0
    BY DEF MapInit
  <2> QED
    BY <2>1, <2>2, <2>3 DEF Lives
<1> QED
  BY <1>1, <1>2 DEF MapInv, MappedLives

\* A file whose mappings, entries, fields and count stay is as sound as before.
LEMMA Untouched ==
  ASSUME MapInv, NEW f \in File,
         file'[f] = file[f], count'[f] = count[f],
         Maps(f)' = Maps(f), Entries(f)' = Entries(f)
  PROVE  Lives(f)'
BY DEF MapInv, MappedLives, Lives

-----------------------------------------------------------------------------
(* MappedPage, action by action                                            *)

\* The file was never open, so it has no mapping yet.
LEMMA CharOpenInv ==
  ASSUME MappedAssumption, MapInv, NEW f \in File, CharOpen(f)
  PROVE  MapInv'
<1>1. PICK g \in Garbage :
        file' = [file EXCEPT ![f] = [fds |-> 1, info |-> "live", reference |-> g, first |-> g]]
  BY DEF CharOpen
<1>2. MapTypeOK'
  BY <1>1 DEF MapInv, MapTypeOK, CharOpen, MappedAssumption
<1>3. ASSUME NEW e \in File PROVE Maps(e)' = Maps(e) /\ Entries(e)' = Entries(e)
  BY DEF CharOpen, Maps, Entries
<1>4. Maps(f) = {} /\ Entries(f) = {}
  BY DEF MapInv, MappedLives, Lives, CharOpen, Entries
<1>5. Cardinality(Maps(f)) = 0 /\ Cardinality(Entries(f)) = 0
  BY <1>4, FS_EmptySet
<1>6. Lives(f)'
  <2>1. file'[f] = [fds |-> 1, info |-> "live", reference |-> g, first |-> g]
    BY <1>1 DEF MapInv, MapTypeOK
  <2>2. count'[f] = 1 /\ g \in Int
    BY DEF CharOpen, MapInv, MapTypeOK, MappedAssumption
  <2> QED
    BY <2>1, <2>2, <1>3, <1>5 DEF Lives
<1>7. ASSUME NEW e \in File, e # f PROVE Lives(e)'
  BY <1>1, <1>3, <1>7, Untouched DEF MapInv, MapTypeOK, CharOpen
<1> QED
  BY <1>2, <1>6, <1>7 DEF MapInv, MappedLives

\* A descriptor more or less, while one is left or mappings remain.
LEMMA DescriptorInv ==
  ASSUME MappedAssumption, MapInv, NEW f \in File, Dup(f) \/ Close(f)
  PROVE  MapInv'
<1>1. MapTypeOK'
  BY DEF MapInv, MapTypeOK, Dup, Close, MappedAssumption
<1>2. ASSUME NEW e \in File PROVE Maps(e)' = Maps(e) /\ Entries(e)' = Entries(e)
  BY DEF Dup, Close, Maps, Entries
<1>3. Lives(f)'
  <2>1. /\ file'[f].info = file[f].info /\ file'[f].reference = file[f].reference
        /\ file'[f].first = file[f].first /\ file[f].fds > 0
    BY DEF MapInv, MapTypeOK, Dup, Close
  <2>2. count'[f] = count[f]
    BY DEF Dup, Close
  <2> QED
    BY <2>1, <2>2, <1>2 DEF Lives, MapInv, MappedLives
<1>4. ASSUME NEW e \in File, e # f PROVE Lives(e)'
  BY <1>2, <1>4, Untouched DEF MapInv, MapTypeOK, Dup, Close
<1> QED
  BY <1>1, <1>3, <1>4 DEF MapInv, MappedLives

\* release comes when no descriptor and no mapping is left.
LEMMA CharCloseInv ==
  ASSUME MappedAssumption, MapInv, NEW f \in File, CharClose(f)
  PROVE  MapInv'
<1>1. ASSUME NEW e \in File PROVE Maps(e)' = Maps(e) /\ Entries(e)' = Entries(e)
  BY DEF CharClose, Maps, Entries
<1>2. Maps(f) = {} /\ file[f].info = "live" /\ file[f].fds = 0
  BY DEF CharClose
<1>3. Entries(f) = {}
  BY <1>2 DEF Entries
<1>4. Cardinality(Entries(f)) = 0
  BY <1>3, FS_EmptySet
<1>5. count[f] = 1
  BY <1>2, <1>4 DEF MapInv, MappedLives, Lives
<1>6. MapTypeOK'
  BY <1>5 DEF MapInv, MapTypeOK, CharClose
<1>7. Lives(f)'
  <2>1. file'[f].info = "freed" /\ file'[f].fds = 0 /\ count'[f] = 0
    BY <1>2, <1>5 DEF MapInv, MapTypeOK, CharClose
  <2> QED
    BY <2>1, <1>1, <1>2, <1>4 DEF Lives
<1>8. ASSUME NEW e \in File, e # f PROVE Lives(e)'
  BY <1>1, <1>8, Untouched DEF MapInv, MapTypeOK, CharClose
<1> QED
  BY <1>6, <1>7, <1>8 DEF MapInv, MappedLives

\* A vma v that was free becomes a mapping of f, without an entry: mmap, and the
\* copy that fork makes.
LEMMA NewVma ==
  ASSUME MappedAssumption, MapInv, NEW f \in File, NEW v \in Vma,
         vma[v].file = NoFile, file[f].fds > 0 \/ Maps(f) # {},
         vma' = [vma EXCEPT ![v] = [file |-> f, entry |-> FALSE]],
         Reference(f, 1), UNCHANGED <<count, global_var>>
  PROVE  MapInv'
<1>1. f # NoFile
  BY DEF MappedAssumption, NoFile
<1>2. MapTypeOK'
  BY SMTT(45) DEF MapInv, MapTypeOK, Reference
<1>3. ASSUME NEW e \in File, e # f PROVE Maps(e)' = Maps(e) /\ Entries(e)' = Entries(e)
  BY <1>3 DEF MapInv, MapTypeOK, Maps, Entries, MappedAssumption, NoFile
<1>4. Maps(f)' = Maps(f) \cup {v} /\ v \notin Maps(f)
  BY <1>1 DEF MapInv, MapTypeOK, Maps
<1>5. Entries(f)' = Entries(f)
  BY <1>1, <1>4 DEF MapInv, MapTypeOK, Maps, Entries
<1>6. Cardinality(Maps(f)') = Cardinality(Maps(f)) + 1
  BY <1>4, FS_AddElement, MapsFinite
<1>7. Lives(f)'
  <2>1. /\ file'[f].info = file[f].info /\ file'[f].reference = file[f].reference + 1
        /\ file'[f].first = file[f].first
    BY DEF MapInv, MapTypeOK, Reference
  <2>2. file[f].first \in Int /\ Cardinality(Maps(f)) \in Nat
    BY MapsFinite DEF MapInv, MapTypeOK
  <2>3. file[f].info = "live" /\ file[f].reference = file[f].first + Cardinality(Maps(f))
    BY DEF MapInv, MappedLives, Lives
  <2>4. file'[f].reference = file'[f].first + Cardinality(Maps(f)')
    BY <2>1, <2>2, <2>3, <1>6
  <2> QED
    BY <2>1, <2>3, <2>4, <1>5 DEF Lives, MapInv, MappedLives
<1>8. ASSUME NEW e \in File, e # f PROVE Lives(e)'
  BY <1>3, <1>8, Untouched DEF MapInv, MapTypeOK, Reference
<1> QED
  BY <1>2, <1>7, <1>8 DEF MapInv, MappedLives

\* The entry takes the reference that get_page took.
LEMMA MmapFaultInv ==
  ASSUME MappedAssumption, MapInv, NEW v \in Vma, MmapFault(v)
  PROVE  MapInv'
<1>1. PICK f \in File : f = vma[v].file /\ file[f].info = "live" /\ ~vma[v].entry
  BY DEF MapInv, MapTypeOK, MmapFault
<1>2. MapTypeOK'
  <2>1. vma' \in [Vma -> [file : File \cup {NoFile}, entry : BOOLEAN]]
    BY DEF MapInv, MapTypeOK, MmapFault
  <2>2. count' \in [File -> Nat]
    BY <1>1 DEF MapInv, MapTypeOK, MmapFault
  <2> QED
    BY <2>1, <2>2 DEF MapInv, MapTypeOK, MmapFault
<1>3. ASSUME NEW e \in File PROVE Maps(e)' = Maps(e)
  BY DEF MapInv, MapTypeOK, Maps, MmapFault
<1>4. ASSUME NEW e \in File, e # f PROVE Entries(e)' = Entries(e)
  BY <1>1, <1>3, <1>4 DEF MapInv, MapTypeOK, Maps, Entries, MmapFault
<1>5. Entries(f)' = Entries(f) \cup {v} /\ v \notin Entries(f)
  BY <1>1 DEF MapInv, MapTypeOK, Maps, Entries, MmapFault
<1>6. Cardinality(Entries(f)') = Cardinality(Entries(f)) + 1
  BY <1>5, FS_AddElement, MapsFinite
<1>7. Lives(f)'
  <2>1. file' = file /\ count'[f] = count[f] + 1
    BY <1>1 DEF MapInv, MapTypeOK, MmapFault
  <2>2. Cardinality(Entries(f)) \in Nat
    BY MapsFinite
  <2>3. count'[f] = Cardinality(Entries(f)') + 1
    BY <2>1, <2>2, <1>1, <1>6 DEF MapInv, MappedLives, Lives
  <2>4. Maps(f)' = Maps(f)
    BY <1>1, <1>3
  <2>5. file[f].fds > 0 \/ Maps(f) # {} =>
           file[f].reference = file[f].first + Cardinality(Maps(f))
    BY <1>1 DEF MapInv, MappedLives, Lives
  <2> QED
    BY <1>1, <2>1, <2>3, <2>4, <2>5 DEF Lives
<1>8. ASSUME NEW e \in File, e # f PROVE Lives(e)'
  BY <1>1, <1>3, <1>4, <1>8, Untouched DEF MapInv, MapTypeOK, MmapFault
<1> QED
  BY <1>2, <1>7, <1>8 DEF MapInv, MappedLives

\* The entry goes with its reference, then the mapping.
LEMMA MunmapInv ==
  ASSUME MappedAssumption, MapInv, NEW v \in Vma, Munmap(v)
  PROVE  MapInv'
<1>1. PICK f \in File : f = vma[v].file
  BY DEF MapInv, MapTypeOK, Munmap
<1>2. f # NoFile /\ v \in Maps(f)
  BY <1>1 DEF MappedAssumption, NoFile, Maps
<1>3. ASSUME NEW e \in File, e # f PROVE Maps(e)' = Maps(e) /\ Entries(e)' = Entries(e)
  BY <1>1, <1>3 DEF MapInv, MapTypeOK, Maps, Entries, Munmap, MappedAssumption, NoFile
<1>4. Maps(f)' = Maps(f) \ {v} /\ Entries(f)' = Entries(f) \ {v}
  BY <1>1, <1>2 DEF MapInv, MapTypeOK, Maps, Entries, Munmap
<1>5. Cardinality(Maps(f)') = Cardinality(Maps(f)) - 1
  BY ZenonT(45), <1>2, <1>4, FS_RemoveElement, MapsFinite
<1>6. Cardinality(Entries(f)') = Cardinality(Entries(f)) - (IF vma[v].entry THEN 1 ELSE 0)
  <2>1. v \in Entries(f) <=> vma[v].entry
    BY <1>2 DEF Entries
  <2>2. /\ IsFiniteSet(Entries(f)) /\ Cardinality(Entries(f)) \in Nat
        /\ Cardinality(Entries(f) \ {v}) =
             IF v \in Entries(f) THEN Cardinality(Entries(f)) - 1 ELSE Cardinality(Entries(f))
    BY MapsFinite, FS_RemoveElement
  <2> QED
    BY <2>1, <2>2, <1>4
<1>7. file[f].info = "live" /\ file[f].reference = file[f].first + Cardinality(Maps(f))
  BY <1>2 DEF MapInv, MappedLives, Lives
<1>8. count[f] = Cardinality(Entries(f)) + 1
  BY <1>7 DEF MapInv, MappedLives, Lives
<1>9. count'[f] = count[f] - (IF vma[v].entry THEN 1 ELSE 0)
  BY <1>1 DEF MapInv, MapTypeOK, Munmap
<1>10. Cardinality(Entries(f)') \in Nat
  BY <1>4, MapsFinite, FS_RemoveElement, FS_CardinalityType
<1>11. count'[f] = Cardinality(Entries(f)') + 1
  BY <1>6, <1>8, <1>9, MapsFinite
<1>12. MapTypeOK'
  <2>1. count'[f] \in Nat
    BY <1>10, <1>11
  <2>2. \E n : count' = [count EXCEPT ![f] = n]
    BY <1>1 DEF Munmap
  <2>3. count' \in [File -> Nat]
    BY <2>1, <2>2 DEF MapInv, MapTypeOK
  <2>4. file' \in [File -> [fds : 0 .. MaxFds, info : {"never", "live", "freed"},
                            reference : Int, first : Int]]
    BY <1>1 DEF MapInv, MapTypeOK, Munmap, Reference
  <2>5. vma' \in [Vma -> [file : File \cup {NoFile}, entry : BOOLEAN]]
    BY DEF MapInv, MapTypeOK, Munmap
  <2> QED
    BY <2>3, <2>4, <2>5 DEF MapInv, MapTypeOK, Munmap
<1>13. Lives(f)'
  <2>1. /\ file'[f].info = "live" /\ file'[f].reference = file[f].reference - 1
        /\ file'[f].first = file[f].first
    BY <1>1, <1>7 DEF MapInv, MapTypeOK, Munmap, Reference
  <2>2. file[f].first \in Int /\ Cardinality(Maps(f)) \in Nat
    BY MapsFinite DEF MapInv, MapTypeOK
  <2>3. file'[f].reference = file'[f].first + Cardinality(Maps(f)')
    BY <2>1, <2>2, <1>5, <1>7
  <2> QED
    BY <2>1, <2>3, <1>11 DEF Lives
<1>14. ASSUME NEW e \in File, e # f PROVE Lives(e)'
  BY <1>1, <1>3, <1>14, Untouched DEF MapInv, MapTypeOK, Munmap, Reference
<1> QED
  BY <1>12, <1>13, <1>14 DEF MapInv, MappedLives

\* Every step of the driver and its users keeps the invariant.
LEMMA NextMapped ==
  ASSUME MappedAssumption, MapInv, [MapNext]_mapping
  PROVE  MapInv'
<1>1. ASSUME NEW f \in File, NEW v \in Vma, CharMmap(f, v) PROVE MapInv'
  BY <1>1, NewVma DEF CharMmap
<1>2. ASSUME NEW v \in Vma, NEW w \in Vma, DupVma(v, w) PROVE MapInv'
  <2>1. PICK f \in File : f = vma[v].file
    BY <1>2 DEF MapInv, MapTypeOK, DupVma
  <2>2. Maps(f) # {}
    BY <2>1 DEF Maps
  <2> QED
    BY <1>2, <2>1, <2>2, NewVma DEF DupVma
<1>3. ASSUME UNCHANGED mapping PROVE MapInv'
  <2>1. ASSUME NEW f \in File PROVE Maps(f)' = Maps(f) /\ Entries(f)' = Entries(f)
    BY <1>3 DEF mapping, Maps, Entries
  <2>2. ASSUME NEW f \in File PROVE Lives(f)'
    BY <1>3, <2>1, Untouched DEF mapping
  <2> QED
    BY <1>3, <2>2 DEF mapping, MapInv, MapTypeOK, MappedLives
<1> QED
  BY <1>1, <1>2, <1>3, CharOpenInv, DescriptorInv, CharCloseInv, MmapFaultInv,
     MunmapInv DEF MapNext

-----------------------------------------------------------------------------
(* MappedPage: theorems                                                    *)

\* Descriptors, infos, mappings and counts have their types; no count of a page
\* falls below zero (ex6_ver2.c).
THEOREM MappedTypes == ASSUME MappedAssumption PROVE MapSpec => []MapTypeOK
<1>1. MapInit => MapInv
  BY InitMapped
<1>2. MapInv /\ [MapNext]_mapping => MapInv'
  BY NextMapped
<1>3. MapInv => MapTypeOK
  BY DEF MapInv
<1> QED
  BY <1>1, <1>2, <1>3, PTL DEF MapSpec

\* No mapping of ex6_ver2.c outlives its info or its page, in whatever order
\* descriptors and mappings are shared and given up.
THEOREM MappedSafety == ASSUME MappedAssumption PROVE MapSpec => []MappedLives
<1>1. MapInit => MapInv
  BY InitMapped
<1>2. MapInv /\ [MapNext]_mapping => MapInv'
  BY NextMapped
<1>3. MapInv => MappedLives
  BY DEF MapInv
<1> QED
  BY <1>1, <1>2, <1>3, PTL DEF MapSpec

-----------------------------------------------------------------------------
(* PageWatch: types                                                        *)

Flags == {"PRESENT", "USER", "PROTNONE"}
Walking == {"load", "sleep", "walk", "set", "reread", "clear", "gone"}
Faulting == {"user", "hook", "set", "reread", "clear", "handle"}

Areas == [vm_start : Int, vm_end : Int]
MarkerFields == [pc : Walking, round : Int, area : Nat, page : Int, seen : SUBSET Flags]
FaultFields == [pc : Faulting, page : Int, seen : SUBSET Flags, met : BOOLEAN]
CounterFields == [pc : {"load", "sleep", "walk"}, round : Int, area : Nat, page : Int,
                  phy : Nat, virt : Nat]

SpaceType ==
    /\ areas \in Seq(Areas)
    /\ \A k \in 1 .. Len(areas) : areas[k].vm_start <= areas[k].vm_end
    /\ table \in SUBSET Page
    /\ pte \in [Page -> SUBSET Flags]

ActorType ==
    /\ page_fault_check \in BOOLEAN
    /\ marker \in MarkerFields
    /\ marker.area <= Len(areas)
    /\ fault \in FaultFields
    /\ counter \in CounterFields
    /\ counter.area <= Len(areas)

HistoryType ==
    /\ wss \in Nat /\ floor \in Nat /\ accesses \in Nat
    /\ marked \in [Page -> Nat] /\ used \subseteq Page \X Nat /\ IsFiniteSet(used)
    /\ overlap \in BOOLEAN /\ tornOnce \in BOOLEAN /\ torn \subseteq Page

WatchTypeOK == SpaceType /\ ActorType /\ HistoryType

\* What the type of the areas says of each of them.
LEMMA AreaType ==
  ASSUME SpaceType
  PROVE  /\ Len(areas) \in Nat
         /\ \A k \in 1 .. Len(areas) : /\ areas[k].vm_start \in Int /\ areas[k].vm_end \in Int
                                       /\ areas[k].vm_start <= areas[k].vm_end
<1>1. areas \in Seq(Areas)
  BY DEF SpaceType
<1>2. \A k \in 1 .. Len(areas) : areas[k] \in Areas
  BY <1>1, ElementOfSeq
<1>3. Len(areas) \in Nat
  BY <1>1, LenProperties
<1> QED
  BY <1>2, <1>3 DEF SpaceType, Areas

\* Where After leads: to a page of an area, or to the end of the walk.
LEMMA AfterMoves ==
  ASSUME SpaceType, NEW w, w.area \in Nat, w.area <= Len(areas), w.page \in Int
  PROVE  \/ /\ w.area > 0 /\ w.page < areas[w.area].vm_end
            /\ After(w) = [w EXCEPT !.page = w.page + 1]
         \/ /\ w.area > 0 => w.page >= areas[w.area].vm_end
            /\ w.area < Len(areas)
            /\ After(w) = [w EXCEPT !.area = w.area + 1, !.page = areas[w.area + 1].vm_start]
         \/ /\ w.area > 0 => w.page >= areas[w.area].vm_end
            /\ w.area = Len(areas)
            /\ After(w) = [w EXCEPT !.area = 0, !.page = 0, !.pc = "sleep"]
<1>1. Len(areas) \in Nat /\ (w.area > 0 => areas[w.area].vm_end \in Int)
  BY AreaType
<1> QED
  BY <1>1 DEF After

\* A walk of one of the threads keeps the types of its fields.
LEMMA MarkerAfter ==
  ASSUME SpaceType, NEW w \in MarkerFields, w.area <= Len(areas)
  PROVE  /\ After(w) \in MarkerFields /\ After(w).area <= Len(areas)
         /\ After(w).pc \in {w.pc, "sleep"}
<1> DEFINE start == areas[w.area + 1].vm_start
<1>1. w.area \in Nat /\ w.page \in Int /\ Len(areas) \in Nat
  BY AreaType DEF MarkerFields
<1>2. w.area < Len(areas) => start \in Int
  BY SMTT(45), <1>1, AreaType
<1>3. \/ After(w) = [w EXCEPT !.page = w.page + 1]
      \/ w.area < Len(areas) /\ After(w) = [w EXCEPT !.area = w.area + 1, !.page = start]
      \/ After(w) = [w EXCEPT !.area = 0, !.page = 0, !.pc = "sleep"]
  BY <1>1, AfterMoves
<1> HIDE DEF start
<1>4. CASE After(w) = [w EXCEPT !.page = w.page + 1]
  BY <1>1, <1>4 DEF Walking, MarkerFields
<1>5. CASE w.area < Len(areas) /\ After(w) = [w EXCEPT !.area = w.area + 1, !.page = start]
  <2>1. \A a \in Nat, g \in Int : [w EXCEPT !.area = a, !.page = g] \in MarkerFields
    BY DEF Walking, MarkerFields
  <2>2. After(w).area = w.area + 1 /\ After(w).pc = w.pc
    BY <1>5 DEF MarkerFields
  <2>3. w.area + 1 \in Nat /\ start \in Int
    BY <1>1, <1>2, <1>5
  <2>4. w.area < Len(areas)
    BY <1>5
  <2>5. After(w) \in MarkerFields
    BY <1>5, <2>1, <2>3
  <2> QED
    BY <1>1, <2>2, <2>5, <2>4
<1>6. CASE After(w) = [w EXCEPT !.area = 0, !.page = 0, !.pc = "sleep"]
  <2> DEFINE Ended(a, g, c) == [w EXCEPT !.area = a, !.page = g, !.pc = c]
  <2>1. \A a \in Nat, g \in Int, c \in Walking : Ended(a, g, c) \in MarkerFields
    BY DEF Walking, MarkerFields
  <2>2. 0 \in Nat /\ 0 \in Int /\ "sleep" \in Walking
    BY DEF Walking
  <2>3. After(w).area = 0 /\ After(w).pc = "sleep"
    BY <1>6 DEF MarkerFields
  <2>4. After(w) = Ended(0, 0, "sleep")
    BY <1>6
  <2> HIDE DEF Ended
  <2>5. After(w) \in MarkerFields
    BY <2>1, <2>2, <2>4
  <2>6. 0 <= Len(areas)
    BY <1>1
  <2> QED
    BY <2>3, <2>5, <2>6
<1> QED
  BY <1>3, <1>4, <1>5, <1>6

\* The same of rss2.c.
LEMMA CounterAfter ==
  ASSUME SpaceType, NEW w \in CounterFields, w.area <= Len(areas)
  PROVE  /\ After(w) \in CounterFields /\ After(w).area <= Len(areas)
         /\ After(w).pc \in {w.pc, "sleep"}
<1> DEFINE start == areas[w.area + 1].vm_start
<1>1. w.area \in Nat /\ w.page \in Int /\ Len(areas) \in Nat
  BY AreaType DEF CounterFields
<1>2. w.area < Len(areas) => start \in Int
  BY <1>1, AreaType
<1>3. \/ After(w) = [w EXCEPT !.page = w.page + 1]
      \/ w.area < Len(areas) /\ After(w) = [w EXCEPT !.area = w.area + 1, !.page = start]
      \/ After(w) = [w EXCEPT !.area = 0, !.page = 0, !.pc = "sleep"]
  BY <1>1, AfterMoves
<1> HIDE DEF start
<1>4. CASE After(w) = [w EXCEPT !.page = w.page + 1]
  BY <1>1, <1>4 DEF CounterFields
<1>5. CASE w.area < Len(areas) /\ After(w) = [w EXCEPT !.area = w.area + 1, !.page = start]
  <2>1. \A a \in Nat, g \in Int : [w EXCEPT !.area = a, !.page = g] \in CounterFields
    BY DEF CounterFields
  <2>2. After(w).area = w.area + 1 /\ After(w).pc = w.pc
    BY <1>5 DEF CounterFields
  <2>3. w.area + 1 \in Nat /\ start \in Int
    BY <1>1, <1>2, <1>5
  <2>4. w.area < Len(areas)
    BY <1>5
  <2>5. After(w) \in CounterFields
    BY <1>5, <2>1, <2>3
  <2> QED
    BY <1>1, <2>2, <2>5, <2>4
<1>6. CASE After(w) = [w EXCEPT !.area = 0, !.page = 0, !.pc = "sleep"]
  <2> DEFINE Ended(a, g, c) == [w EXCEPT !.area = a, !.page = g, !.pc = c]
  <2>1. \A a \in Nat, g \in Int, c \in {"load", "sleep", "walk"} : Ended(a, g, c) \in CounterFields
    BY DEF CounterFields
  <2>2. 0 \in Nat /\ 0 \in Int /\ "sleep" \in {"load", "sleep", "walk"}
    BY DEF Walking
  <2>3. After(w).area = 0 /\ After(w).pc = "sleep"
    BY <1>6 DEF CounterFields
  <2>4. After(w) = Ended(0, 0, "sleep")
    BY <1>6
  <2> HIDE DEF Ended
  <2>5. After(w) \in CounterFields
    BY <2>1, <2>2, <2>4
  <2>6. 0 <= Len(areas)
    BY <1>1
  <2> QED
    BY <2>3, <2>5, <2>6
<1> QED
  BY <1>3, <1>4, <1>5, <1>6

-----------------------------------------------------------------------------
(* PageWatch: who changes a page                                           *)

\* An entry that has flags has a table.
Tabled == \A p \in Page : p \notin table => pte[p] = {}

\* The hook is there as long as somebody marks.
Hooked == marker.pc \notin {"load", "gone"} => page_fault_check

\* Each of the two threads works on a page that exists.
Placed == /\ marker.pc \in {"set", "reread", "clear"} => marker.page \in table
          /\ fault.pc # "user" => fault.page \in Page
          /\ fault.pc \in {"set", "reread", "clear"} => fault.page \in table

\* Whenever both are at one page, that was noticed, and is held against the page at least
\* until the fault is over.
Noticed == /\ \A p \in Page : Marking(p) /\ Checking(p) => fault.met
           /\ fault.pc # "user" /\ fault.met => fault.page \in torn

\* What the marking is about to write is up to date, unless a fault met it.
MarkExact(p) ==
    /\ pte_present(pte[p])
    /\ marker.pc = "set" => marker.seen = pte[p]
    /\ marker.pc = "reread" => "PROTNONE" \in pte[p]
    /\ marker.pc = "clear" => marker.seen = pte[p] /\ "PROTNONE" \in pte[p]

\* It holds of the page being marked, or the page is torn and its fault has noticed.
MarkView ==
    \A p \in Page : Marking(p) =>
        \/ MarkExact(p)
        \/ p \in torn /\ (fault.page = p /\ fault.pc # "user" => fault.met)

\* What page_check is about to write is up to date, unless it met the marking; after it
\* the page is resident, or still has to be mapped.
CheckExact(p) ==
    /\ fault.pc = "set" => fault.seen = pte[p] /\ pte[p] # {}
    /\ fault.pc = "reread" => "PRESENT" \in pte[p]
    /\ fault.pc = "clear" => fault.seen = pte[p] /\ "PRESENT" \in pte[p]
    /\ fault.pc = "handle" => pte[p] = {} \/ pte_present(pte[p])

CheckView == fault.pc # "user" /\ ~fault.met => CheckExact(fault.page)

\* What is known of the entries, and with the types the invariant of PageWatch.
PInv == Tabled /\ Hooked /\ Placed /\ Noticed /\ MarkView /\ CheckView /\ PteSound

WatchInv == WatchTypeOK /\ PInv

\* The process starts with entries that are resident or empty, and nobody works on one.
LEMMA InitWatch ==
  ASSUME WatchAssumption, WatchInit
  PROVE  WatchInv
<1> USE DEF WatchInit
<1>1. PICK l \in Layouts : /\ areas = l.areas /\ table = l.table
                           /\ pte = [p \in Page |-> IF p \in l.resident
                                                    THEN {"PRESENT", "USER"} ELSE {}]
  OBVIOUS
<1>2. SpaceType
  <2>1. /\ l.areas \in Seq(Areas)
        /\ \A k \in 1 .. Len(l.areas) : l.areas[k].vm_start <= l.areas[k].vm_end
    BY DEF WatchAssumption, Areas
  <2>2. table \in SUBSET Page /\ pte \in [Page -> SUBSET Flags]
    BY <1>1 DEF WatchAssumption, Flags
  <2> QED
    BY <1>1, <2>1, <2>2 DEF SpaceType
<1>3. ActorType
  <2>1. Len(areas) \in Nat /\ marker.area = 0 /\ counter.area = 0
    BY <1>2, AreaType
  <2>2. page_fault_check \in BOOLEAN
    OBVIOUS
  <2>3. marker \in MarkerFields
    BY DEF MarkerFields, Walking, Flags
  <2>4. fault \in FaultFields
    BY DEF FaultFields, Faulting, Flags
  <2>5. counter \in CounterFields
    BY DEF CounterFields
  <2> QED
    BY <2>1, <2>3, <2>4, <2>5, <2>2 DEF ActorType
<1>4. HistoryType
  BY FS_EmptySet DEF HistoryType
<1>5. PInv
  BY <1>1 DEF PInv, Tabled, Hooked, Placed, Noticed, MarkView, CheckView, PteSound, Marking,
              Checking, pte_present, WatchAssumption
<1> QED
  BY <1>2, <1>3, <1>4, <1>5 DEF WatchInv, WatchTypeOK

-----------------------------------------------------------------------------
(* The steps keep the types                                                *)

\* Another use stays within what was marked.
LEMMA UseKept ==
  ASSUME WatchTypeOK, NEW p \in Page, Use(p)
  PROVE  /\ accesses' \in Nat /\ used' \subseteq Page \X Nat /\ IsFiniteSet(used')
<1>1. accesses' \in Nat
  BY DEF Use, WatchTypeOK, HistoryType
<1>2. <<p, marked[p]>> \in Page \X Nat
  BY DEF WatchTypeOK, HistoryType
<1>3. IsFiniteSet(used \cup {<<p, marked[p]>>})
  BY FS_AddElement DEF WatchTypeOK, HistoryType
<1> QED
  BY <1>1, <1>2, <1>3 DEF Use, WatchTypeOK, HistoryType

\* The marking thread.
LEMMA MarkerStepTypes ==
  ASSUME WatchInv, Marker
  PROVE  marker' \in MarkerFields /\ marker'.area <= Len(areas)
<1>0. marker \in MarkerFields /\ marker.area <= Len(areas) /\ pte \in [Page -> SUBSET Flags]
      /\ SpaceType /\ table \subseteq Page
  BY DEF WatchInv, WatchTypeOK, SpaceType, ActorType
<1>1. CASE MarkStart
  <2>1. marker' \in MarkerFields
    BY <1>0, <1>1 DEF MarkStart, Walking, MarkerFields
  <2>2. marker'.area = marker.area
    BY <1>0, <1>1 DEF MarkStart, MarkerFields
  <2> QED
    BY <1>0, <2>1, <2>2
<1>2. CASE MarkRound
  <2> DEFINE r == marker.round + 1
             w == [marker EXCEPT !.pc = "walk", !.round = r]
  <2>1. marker' = After(w)
    BY <1>2 DEF MarkRound
  <2>2. r \in Int
    BY <1>0 DEF MarkerFields
  <2> HIDE DEF r
  <2>3. w \in MarkerFields
    BY <1>0, <2>2 DEF MarkerFields, Walking
  <2>4. w.area = marker.area
    BY <1>0 DEF MarkerFields
  <2> HIDE DEF w
  <2> QED
    BY <1>0, <2>1, <2>3, <2>4, MarkerAfter
<1>3. CASE MarkWalk
  <2> DEFINE p == marker.page
  <2>1. CASE p \notin table
    <3>1. marker' = [marker EXCEPT !.pc = "sleep", !.area = 0, !.page = 0]
      BY <1>3, <2>1 DEF MarkWalk
    <3>2. marker'.area = 0 /\ 0 <= Len(areas)
      BY <1>0, <3>1, AreaType DEF MarkerFields
    <3> DEFINE Ended(c, a, g) == [marker EXCEPT !.pc = c, !.area = a, !.page = g]
    <3>3. marker' = Ended("sleep", 0, 0)
      BY <3>1
    <3>4. \A c \in Walking, a \in Nat, g \in Int : Ended(c, a, g) \in MarkerFields
      BY <1>0 DEF MarkerFields
    <3>5. "sleep" \in Walking /\ 0 \in Nat /\ 0 \in Int
      BY DEF Walking
    <3> HIDE DEF Ended
    <3> QED
      BY <3>2, <3>3, <3>4, <3>5
  <2>2. CASE p \in table /\ pte_present(pte[p])
    <3> DEFINE s == pte[p]
    <3>1. marker' = [marker EXCEPT !.pc = "set", !.seen = s]
      BY <1>3, <2>2 DEF MarkWalk
    <3>2. s \in SUBSET Flags
      BY <1>0, <2>2
    <3> HIDE DEF s
    <3>3. marker' \in MarkerFields
      BY <1>0, <3>1, <3>2 DEF Walking, MarkerFields
    <3>4. marker'.area = marker.area
      BY <1>0, <3>1 DEF MarkerFields
    <3> QED
      BY <1>0, <3>3, <3>4
  <2>3. CASE p \in table /\ ~pte_present(pte[p])
    BY <1>0, <1>3, <2>3, MarkerAfter DEF MarkWalk
  <2> QED
    BY <2>1, <2>2, <2>3
<1>4. CASE MarkSet
  <2>1. marker' \in MarkerFields
    BY <1>0, <1>4 DEF MarkSet, Walking, MarkerFields
  <2>2. marker'.area = marker.area
    BY <1>0, <1>4 DEF MarkSet, MarkerFields
  <2> QED
    BY <1>0, <2>1, <2>2
<1>5. CASE MarkReread
  <2> DEFINE s == pte[marker.page]
  <2>1. s \in SUBSET Flags
    BY <1>0, <1>5 DEF WatchInv, PInv, Placed, MarkReread
  <2>2. marker' = [marker EXCEPT !.pc = "clear", !.seen = s]
    BY <1>5 DEF MarkReread
  <2> HIDE DEF s
  <2>3. marker' \in MarkerFields
    BY <1>0, <2>1, <2>2 DEF Walking, MarkerFields
  <2>4. marker'.area = marker.area
    BY <1>0, <2>2 DEF MarkerFields
  <2> QED
    BY <1>0, <2>3, <2>4
<1>6. CASE MarkClear
  <2> DEFINE w == [marker EXCEPT !.pc = "walk"]
  <2>1. marker' = After(w)
    BY <1>6 DEF MarkClear
  <2>3. w \in MarkerFields
    BY <1>0 DEF MarkerFields, Walking
  <2>4. w.area = marker.area
    BY <1>0 DEF MarkerFields
  <2> HIDE DEF w
  <2> QED
    BY <1>0, <2>1, <2>3, <2>4, MarkerAfter
<1>7. CASE MarkCleanup
  <2>1. marker' \in MarkerFields
    BY <1>0, <1>7 DEF MarkCleanup, Walking, MarkerFields
  <2>2. marker'.area = marker.area
    BY <1>0, <1>7 DEF MarkCleanup, MarkerFields
  <2> QED
    BY <1>0, <2>1, <2>2
<1> QED
  BY <1>1, <1>2, <1>3, <1>4, <1>5, <1>6, <1>7 DEF Marker

\* The watched process; the marking changes what it has met.
LEMMA FaultStepTypes ==
  ASSUME WatchAssumption, WatchInv, WatchNext
  PROVE  fault' \in FaultFields
<1>0. fault \in FaultFields /\ pte \in [Page -> SUBSET Flags] /\ page_fault_check \in BOOLEAN
  BY DEF WatchInv, WatchTypeOK, SpaceType, ActorType
<1>1. CASE MarkWalk
  <2> DEFINE b == fault.met \/ (marker'.pc = "set" /\ Checking(marker.page))
  <2>1. fault' = [fault EXCEPT !.met = b]
    BY <1>1 DEF MarkWalk
  <2>2. b \in BOOLEAN
    BY <1>0 DEF FaultFields
  <2> HIDE DEF b
  <2> QED
    BY <1>0, <2>1, <2>2 DEF FaultFields
<1>2. CASE \E p \in Page : AccessFault(p)
  <2>1. PICK p \in Page : AccessFault(p)
    BY <1>2
  <2> DEFINE b == page_fault_check /\ Marking(p)
             c == IF page_fault_check THEN "hook" ELSE "handle"
  <2>2. fault' = [pc |-> c, page |-> p, seen |-> {}, met |-> b]
    BY <2>1 DEF AccessFault
  <2>3. b \in BOOLEAN /\ c \in Faulting
    BY <1>0 DEF Faulting, Marking
  <2>4. p \in Int
    BY DEF WatchAssumption
  <2> HIDE DEF b, c
  <2> QED
    BY <2>2, <2>3, <2>4 DEF FaultFields
<1>3. CASE PageCheck
  <2> DEFINE s == pte[fault.page]
             c == IF fault.page \in table /\ s # {} THEN "set" ELSE "handle"
  <2>1. fault' = [fault EXCEPT !.pc = c, !.seen = s]
    BY <1>3 DEF PageCheck
  <2>2. s \in SUBSET Flags
    BY <1>0, <1>3 DEF PageCheck, WatchInv, PInv, Placed
  <2>3. c \in Faulting
    BY DEF Faulting
  <2> HIDE DEF s, c
  <2> QED
    BY <1>0, <2>1, <2>2, <2>3 DEF FaultFields
<1>4. CASE CheckSet \/ CheckClear \/ HandleFault
  BY <1>0, <1>4 DEF CheckSet, CheckClear, HandleFault, FaultFields, Faulting
<1>5. CASE CheckReread
  <2> DEFINE s == pte[fault.page]
  <2>1. fault' = [fault EXCEPT !.pc = "clear", !.seen = s]
    BY <1>5 DEF CheckReread
  <2>2. s \in SUBSET Flags
    BY <1>0, <1>5 DEF CheckReread, WatchInv, PInv, Placed
  <2> HIDE DEF s
  <2> QED
    BY <1>0, <2>1, <2>2 DEF FaultFields, Faulting
<1>6. CASE \/ MarkStart \/ MarkRound \/ MarkSet \/ MarkReread \/ MarkClear \/ MarkCleanup
           \/ (\E p \in Page : AccessHit(p)) \/ Counter
  BY <1>0, <1>6 DEF MarkStart, MarkRound, MarkSet, MarkReread, MarkClear, MarkCleanup,
                    AccessHit, Counter, CountRound, CountPage
<1> QED
  BY <1>1, <1>2, <1>3, <1>4, <1>5, <1>6 DEF WatchNext, Marker, Process

\* The thread of rss2.c.
LEMMA CounterStepTypes ==
  ASSUME WatchInv, Counter
  PROVE  counter' \in CounterFields /\ counter'.area <= Len(areas)
<1>0. counter \in CounterFields /\ counter.area <= Len(areas) /\ SpaceType
  BY DEF WatchInv, WatchTypeOK, ActorType
<1>1. CASE CountRound
  <2> DEFINE r == counter.round + 1
             w == [counter EXCEPT !.pc = "walk", !.round = r, !.phy = 0, !.virt = 0]
  <2>1. counter' = After(w)
    BY <1>1 DEF CountRound
  <2>2. r \in Int
    BY <1>0 DEF CounterFields
  <2> HIDE DEF r
  <2>3. w \in CounterFields
    BY <1>0, <2>2 DEF CounterFields
  <2>4. w.area = counter.area
    BY <1>0 DEF CounterFields
  <2> HIDE DEF w
  <2> QED
    BY <1>0, <2>1, <2>3, <2>4, CounterAfter
<1>2. CASE CountPage
  <2> DEFINE n == IF follow_pte(counter.page) = 1 THEN counter.phy + 1 ELSE counter.phy
             v == counter.virt + 1
             w == [counter EXCEPT !.phy = n, !.virt = v]
  <2>1. counter' = After(w)
    BY <1>2 DEF CountPage
  <2>2. n \in Nat /\ v \in Nat
    BY <1>0 DEF CounterFields
  <2> HIDE DEF n, v
  <2>3. w \in CounterFields
    BY <1>0, <2>2 DEF CounterFields
  <2>4. w.area = counter.area
    BY <1>0 DEF CounterFields
  <2> HIDE DEF w
  <2> QED
    BY <1>0, <2>1, <2>3, <2>4, CounterAfter
<1> QED
  BY <1>1, <1>2 DEF Counter

\* Every step of PageWatch keeps the types.
LEMMA TypesKept ==
  ASSUME WatchAssumption, WatchInv, WatchNext
  PROVE  WatchTypeOK'
<1>0. /\ SpaceType /\ HistoryType /\ page_fault_check \in BOOLEAN
      /\ marker \in MarkerFields /\ marker.area <= Len(areas)
      /\ counter \in CounterFields /\ counter.area <= Len(areas)
  BY DEF WatchInv, WatchTypeOK, ActorType
<1>1. areas' = areas
  BY DEF WatchNext, Marker, Process, Counter, MarkStart, MarkRound, MarkWalk, MarkSet,
         MarkReread, MarkClear, MarkCleanup, AccessHit, AccessFault, PageCheck, CheckSet,
         CheckReread, CheckClear, HandleFault, CountRound, CountPage, space
<1>2. ActorType'
  <2>1. marker' \in MarkerFields /\ marker'.area <= Len(areas)
    <3>1. CASE Marker
      BY <3>1, MarkerStepTypes
    <3>2. CASE Process \/ Counter
      BY <1>0, <3>2 DEF Process, Counter, AccessHit, AccessFault, PageCheck, CheckSet,
                        CheckReread, CheckClear, HandleFault, CountRound, CountPage
    <3> QED
      BY <3>1, <3>2 DEF WatchNext
  <2>2. counter' \in CounterFields /\ counter'.area <= Len(areas)
    <3>1. CASE Counter
      BY <3>1, CounterStepTypes
    <3>2. CASE Marker \/ Process
      BY <1>0, <3>2 DEF Marker, Process, MarkStart, MarkRound, MarkWalk, MarkSet, MarkReread,
                        MarkClear, MarkCleanup, AccessHit, AccessFault, PageCheck, CheckSet,
                        CheckReread, CheckClear, HandleFault
    <3> QED
      BY <3>1, <3>2 DEF WatchNext
  <2>3. fault' \in FaultFields
    BY FaultStepTypes
  <2>4. page_fault_check' \in BOOLEAN
    BY <1>0 DEF WatchNext, Marker, Process, Counter, MarkStart, MarkRound, MarkWalk, MarkSet,
         MarkReread, MarkClear, MarkCleanup, AccessHit, AccessFault, PageCheck, CheckSet,
         CheckReread, CheckClear, HandleFault, CountRound, CountPage
  <2> QED
    BY <1>1, <2>1, <2>2, <2>3, <2>4 DEF ActorType
<1>3. SpaceType'
  <2>1. table' \in SUBSET Page /\ pte' \in [Page -> SUBSET Flags]
    <3>0. /\ table \in SUBSET Page /\ pte \in [Page -> SUBSET Flags]
          /\ marker.seen \in SUBSET Flags /\ fault.seen \in SUBSET Flags
          /\ fault.pc # "user" => fault.page \in Page
      BY <1>0 DEF WatchInv, WatchTypeOK, PInv, Placed, SpaceType, ActorType, MarkerFields,
                  FaultFields
    <3>1. CASE \/ MarkStart \/ MarkRound \/ MarkWalk \/ MarkReread \/ MarkCleanup \/ PageCheck
               \/ CheckReread \/ Counter \/ \E p \in Page : AccessHit(p) \/ AccessFault(p)
      BY <3>0, <3>1 DEF MarkStart, MarkRound, MarkWalk, MarkReread, MarkCleanup, PageCheck,
                        CheckReread, Counter, CountRound, CountPage, AccessHit, AccessFault, space
    <3>2. CASE MarkSet \/ MarkClear
      BY <3>0, <3>2 DEF MarkSet, MarkClear, Flags
    <3>3. CASE CheckSet \/ CheckClear
      BY <3>0, <3>3 DEF CheckSet, CheckClear, Flags
    <3>4. CASE HandleFault
      BY <3>0, <3>4 DEF HandleFault, Flags
    <3> QED
      BY <3>1, <3>2, <3>3, <3>4 DEF WatchNext, Marker, Process
  <2> QED
    BY <1>0, <1>1, <2>1 DEF SpaceType
<1>4. HistoryType'
  <2>1. wss' \in Nat
    BY <1>0 DEF HistoryType, WatchNext, Marker, Process, Counter, MarkStart, MarkRound, MarkWalk,
         MarkSet, MarkReread, MarkClear, MarkCleanup, AccessHit, AccessFault, PageCheck, CheckSet,
         CheckReread, CheckClear, HandleFault, CountRound, CountPage
  <2>2. floor' \in Nat
    <3>1. Counted \in Nat
      <4>1. IsFiniteSet(Visits)
        <5>1. IsFiniteSet(Page) /\ Resident \subseteq Page
          BY <1>0 DEF WatchAssumption, Resident, SpaceType
        <5>2. IsFiniteSet(Resident)
          BY <5>1, FS_Subset
        <5>3. IsFiniteSet(1 .. Len(areas))
          <6>1. Len(areas) \in Int
            BY <1>0, AreaType
          <6> QED
            BY <6>1, FS_Interval
        <5>4. IsFiniteSet((1 .. Len(areas)) \X Resident)
          BY <5>2, <5>3, FS_Product
        <5> QED
          BY <5>4, FS_Subset DEF Visits
      <4> QED
        BY <4>1, FS_CardinalityType DEF Counted
    <3> QED
      BY <1>0, <3>1 DEF HistoryType, WatchNext, Marker, Process, Counter, MarkStart, MarkRound,
         MarkWalk, MarkSet, MarkReread, MarkClear, MarkCleanup, AccessHit, AccessFault, PageCheck,
         CheckSet, CheckReread, CheckClear, HandleFault, CountRound, CountPage
  <2>3. accesses' \in Nat /\ used' \subseteq Page \X Nat /\ IsFiniteSet(used')
    <3>1. CASE \E p \in Page : AccessHit(p) \/ AccessFault(p)
      BY <3>1, UseKept DEF AccessHit, AccessFault, WatchInv
    <3>2. CASE \/ Marker \/ Counter \/ PageCheck \/ CheckSet \/ CheckReread
               \/ CheckClear \/ HandleFault
      BY <1>0, <3>2 DEF HistoryType, history, Marker, Counter, MarkStart, MarkRound, MarkWalk,
         MarkSet, MarkReread, MarkClear, MarkCleanup, PageCheck, CheckSet, CheckReread, CheckClear,
         HandleFault, CountRound, CountPage
    <3> QED
      BY <3>1, <3>2 DEF WatchNext, Process
  <2>4. marked' \in [Page -> Nat]
    <3>1. CASE MarkClear
      <4>1. marker.page \in Page
        BY <1>0, <3>1 DEF WatchInv, PInv, Placed, MarkClear, SpaceType
      <4> QED
        BY <1>0, <3>1, <4>1 DEF HistoryType, MarkClear
    <3>2. CASE ~MarkClear
      BY <1>0, <3>2 DEF HistoryType, history, WatchNext, Marker, Process, Counter, MarkStart,
         MarkRound, MarkWalk, MarkSet, MarkReread, MarkCleanup, AccessHit, AccessFault, PageCheck,
         CheckSet, CheckReread, CheckClear, HandleFault, CountRound, CountPage
    <3> QED
      BY <3>1, <3>2
  <2>5. overlap' \in BOOLEAN /\ tornOnce' \in BOOLEAN
    BY <1>0 DEF HistoryType, history, Meet, WatchNext, Marker, Process, Counter, MarkStart,
       MarkRound, MarkWalk, MarkSet, MarkReread, MarkClear, MarkCleanup, AccessHit, AccessFault,
       PageCheck, CheckSet, CheckReread, CheckClear, HandleFault, CountRound, CountPage
  <2>6. torn' \subseteq Page
    <3>1. marker.pc = "walk" /\ marker'.pc = "set" /\ MarkWalk => marker.page \in Page
      BY <1>0, MarkerAfter DEF MarkWalk, SpaceType, MarkerFields
    <3>2. MarkWalk => marker.pc = "walk"
      BY DEF MarkWalk
    <3> QED
      BY <1>0, <3>1, <3>2 DEF HistoryType, history, Meet, WatchNext, Marker, Process, Counter,
         MarkStart, MarkRound, MarkWalk, MarkSet, MarkReread, MarkClear, MarkCleanup, AccessHit,
         AccessFault, PageCheck, CheckSet, CheckReread, CheckClear, HandleFault, CountRound,
         CountPage
  <2> QED
    BY <2>1, <2>2, <2>3, <2>4, <2>5, <2>6 DEF HistoryType
<1> QED
  BY <1>2, <1>3, <1>4 DEF WatchTypeOK

-----------------------------------------------------------------------------
(* PageWatch: the steps keep the flags                                     *)

\* The marking at a page: it reads the entry, or goes on.
LEMMA WalkStep ==
  ASSUME WatchInv, MarkWalk
  PROVE  /\ marker.pc = "walk" /\ marker'.pc \in {"sleep", "set", "walk"}
         /\ marker'.pc = "set" => /\ marker.page \in table /\ pte_present(pte[marker.page])
                                  /\ marker'.page = marker.page
                                  /\ marker'.seen = pte[marker.page]
         /\ fault'.pc = fault.pc /\ fault'.page = fault.page /\ fault'.seen = fault.seen
         /\ fault'.met = (fault.met \/ (marker'.pc = "set" /\ Checking(marker.page)))
         /\ UNCHANGED space
<1>0. /\ marker \in MarkerFields /\ fault \in FaultFields /\ SpaceType
      /\ marker.area <= Len(areas)
  BY DEF WatchInv, WatchTypeOK, ActorType
<1>1. fault' = [fault EXCEPT !.met = fault.met \/ (marker'.pc = "set" /\ Checking(marker.page))]
  BY DEF MarkWalk
<1>2. CASE marker.page \in table /\ pte_present(pte[marker.page])
  BY <1>0, <1>1, <1>2 DEF MarkWalk, MarkerFields, FaultFields
<1>3. CASE marker.page \notin table
  BY <1>0, <1>1, <1>3 DEF MarkWalk, MarkerFields, FaultFields
<1>4. CASE marker.page \in table /\ ~pte_present(pte[marker.page])
  <2>1. marker' = After(marker) /\ marker.pc = "walk" /\ UNCHANGED space
    BY <1>4 DEF MarkWalk
  <2>2. marker'.pc \in {"walk", "sleep"}
    BY <1>0, <2>1, MarkerAfter
  <2> QED
    BY <1>0, <1>1, <2>1, <2>2 DEF FaultFields
<1> QED
  BY <1>2, <1>3, <1>4

\* At the start of a round and after a page it is at none.
LEMMA NextPage ==
  ASSUME WatchInv, MarkRound \/ MarkClear
  PROVE  marker'.pc \in {"walk", "sleep"}
<1>0. marker \in MarkerFields /\ marker.area <= Len(areas) /\ SpaceType
  BY DEF WatchInv, WatchTypeOK, ActorType
<1>1. CASE MarkRound
  <2> DEFINE r == marker.round + 1
             w == [marker EXCEPT !.pc = "walk", !.round = r]
  <2>1. marker' = After(w)
    BY <1>1 DEF MarkRound
  <2>2. r \in Int
    BY <1>0 DEF MarkerFields
  <2> HIDE DEF r
  <2>3. w \in MarkerFields /\ w.pc = "walk" /\ w.area = marker.area
    BY <1>0, <2>2 DEF MarkerFields, Walking
  <2> HIDE DEF w
  <2> QED
    BY <1>0, <2>1, <2>3, MarkerAfter
<1>2. CASE MarkClear
  <2> DEFINE w == [marker EXCEPT !.pc = "walk"]
  <2>1. marker' = After(w)
    BY <1>2 DEF MarkClear
  <2>2. w \in MarkerFields /\ w.pc = "walk" /\ w.area = marker.area
    BY <1>0 DEF MarkerFields, Walking
  <2> HIDE DEF w
  <2> QED
    BY <1>0, <2>1, <2>2, MarkerAfter
<1> QED
  BY <1>1, <1>2

\* The simple parts: entries have tables, the hook is there, pages exist.
LEMMA PlacesKept ==
  ASSUME WatchInv, WatchNext
  PROVE  Tabled' /\ Hooked' /\ Placed'
<1>0. /\ table \in SUBSET Page /\ pte \in [Page -> SUBSET Flags] /\ marker \in MarkerFields
      /\ fault \in FaultFields /\ Tabled /\ Hooked /\ Placed
  BY DEF WatchInv, WatchTypeOK, PInv, SpaceType, ActorType
<1>1. Tabled'
  <2>1. CASE MarkSet \/ MarkClear \/ CheckSet \/ CheckClear \/ HandleFault
    BY <1>0, <2>1 DEF Tabled, Placed, MarkSet, MarkClear, CheckSet, CheckClear, HandleFault
  <2>2. CASE UNCHANGED <<table, pte>>
    BY <1>0, <2>2 DEF Tabled
  <2> QED
    BY <2>1, <2>2 DEF WatchNext, Marker, Process, Counter, MarkStart, MarkRound, MarkWalk,
       MarkReread, MarkCleanup, AccessHit, AccessFault, PageCheck, CheckReread, CountRound,
       CountPage, space
<1>2. Hooked' /\ Placed'
  <2>1. CASE MarkStart \/ MarkSet \/ MarkReread \/ MarkCleanup
    BY <1>0, <2>1 DEF Hooked, Placed, MarkStart, MarkSet, MarkReread, MarkCleanup, MarkerFields,
                      space
  <2>2. CASE MarkRound
    BY <1>0, <2>2, NextPage DEF Hooked, Placed, MarkRound, space
  <2>3. CASE MarkWalk
    <3>1. page_fault_check' = page_fault_check
      BY <2>3 DEF MarkWalk
    <3> QED
      BY <1>0, <2>3, <3>1, WalkStep DEF Hooked, Placed, space
  <2>4. CASE MarkClear
    BY <1>0, <2>4, NextPage DEF Hooked, Placed, MarkClear
  <2>5. CASE \E p \in Page : AccessFault(p)
    <3>1. PICK p \in Page : AccessFault(p)
      BY <2>5
    <3>2. fault'.page = p /\ fault'.pc \in {"hook", "handle"}
      BY <3>1 DEF AccessFault
    <3>3. UNCHANGED <<marker, page_fault_check, table>>
      BY <3>1 DEF AccessFault, space
    <3> QED
      BY <1>0, <3>2, <3>3 DEF Hooked, Placed
  <2>6. CASE PageCheck
    BY <1>0, <2>6 DEF Hooked, Placed, PageCheck, FaultFields, space
  <2>7. CASE CheckSet \/ CheckReread \/ CheckClear \/ HandleFault
    BY <1>0, <2>7 DEF Hooked, Placed, CheckSet, CheckReread, CheckClear, HandleFault, FaultFields,
                      space
  <2>8. CASE Counter \/ \E p \in Page : AccessHit(p)
    BY <1>0, <2>8 DEF Hooked, Placed, Counter, CountRound, CountPage, AccessHit, space
  <2> QED
    BY <2>1, <2>2, <2>3, <2>4, <2>5, <2>6, <2>7, <2>8 DEF WatchNext, Marker, Process
<1> QED
  BY <1>1, <1>2

Views == Noticed /\ MarkView /\ CheckView /\ PteSound

\* What is known before a step.
LEMMA Before ==
  ASSUME WatchInv
  PROVE  /\ table \in SUBSET Page /\ pte \in [Page -> SUBSET Flags] /\ torn \subseteq Page
         /\ marker \in MarkerFields /\ fault \in FaultFields /\ overlap \in BOOLEAN
         /\ Tabled /\ Hooked /\ Placed /\ Noticed /\ MarkView /\ CheckView /\ PteSound
BY DEF WatchInv, WatchTypeOK, PInv, SpaceType, ActorType, HistoryType

\* Steps that write no entry and begin or end nothing at a page.
LEMMA ElsewhereViews ==
  ASSUME WatchInv, UNCHANGED <<pte, torn, fault>>,
         \/ UNCHANGED marker
         \/ marker'.pc \notin {"set", "reread", "clear"}
  PROVE  Views'
<1> USE Before
<1>1. UNCHANGED marker \/ \A p \in Page : ~Marking(p)'
  BY DEF Marking
<1>2. Noticed'
  BY <1>1 DEF Noticed, Marking, Checking
<1>3. MarkView'
  BY <1>1 DEF MarkView, MarkExact, Marking
<1>4. CheckView' /\ PteSound'
  BY DEF CheckView, CheckExact, PteSound
<1> QED
  BY <1>2, <1>3, <1>4 DEF Views

\* The marking reads an entry, or goes on to the next page.
LEMMA MarkWalkViews ==
  ASSUME WatchInv, MarkWalk
  PROVE  Views'
<1> DEFINE p == marker.page
           meets == marker'.pc = "set" /\ Checking(p)
<1>0. /\ Noticed /\ MarkView /\ CheckView /\ PteSound /\ marker.pc = "walk"
      /\ torn \subseteq Page /\ table \subseteq Page
  BY Before, WalkStep
<1>1. UNCHANGED <<pte, table>> /\ torn' = IF meets THEN torn \cup {p} ELSE torn
  BY DEF MarkWalk, Meet, space
<1>2. torn \subseteq torn' /\ (meets => p \in torn')
  BY <1>1
<1>3. /\ fault'.pc = fault.pc /\ fault'.page = fault.page /\ fault'.seen = fault.seen
      /\ fault'.met = (fault.met \/ meets)
      /\ marker'.pc \in {"sleep", "set", "walk"}
      /\ marker'.pc = "set" => /\ p \in table /\ pte_present(pte[p])
                               /\ marker'.page = p /\ marker'.seen = pte[p]
  BY WalkStep
<1> HIDE DEF p, meets
<1>4. \A q : Checking(q)' = Checking(q)
  BY <1>3 DEF Checking
<1>5. \A q \in Page : Marking(q)' => q = p /\ marker'.pc = "set" /\ p \in table
  BY <1>3 DEF Marking
<1>6. Noticed'
  <2>1. ASSUME NEW q \in Page, Marking(q)', Checking(q)' PROVE fault'.met
    BY <1>3, <1>4, <1>5, <2>1 DEF meets, p
  <2>2. fault.pc # "user" /\ (fault.met \/ meets) => fault.page \in torn'
    BY <1>0, <1>2 DEF Noticed, meets, Checking
  <2> QED
    BY <1>3, <2>1, <2>2 DEF Noticed
<1>7. MarkView'
  <2>1. ASSUME NEW q \in Page, Marking(q)' PROVE MarkExact(q)'
    BY <1>1, <1>3, <1>5, <2>1 DEF MarkExact
  <2> QED
    BY <2>1 DEF MarkView
<1>8. CheckView'
  BY <1>0, <1>1, <1>3 DEF CheckView, CheckExact
<1>9. PteSound'
  BY <1>0, <1>1, <1>2 DEF PteSound
<1> QED
  BY <1>6, <1>7, <1>8, <1>9 DEF Views

\* The three steps of the marking at a page.
LEMMA MarkWriteViews ==
  ASSUME WatchInv, MarkSet \/ MarkReread \/ MarkClear
  PROVE  Views'
<1> DEFINE p == marker.page
<1>0. /\ Noticed /\ MarkView /\ CheckView /\ PteSound /\ p \in Page
      /\ torn \subseteq Page /\ pte \in [Page -> SUBSET Flags] /\ marker \in MarkerFields
      /\ Marking(p)
  BY Before DEF Placed, MarkSet, MarkReread, MarkClear, Marking
<1>1. UNCHANGED <<torn, fault>>
  BY DEF MarkSet, MarkReread, MarkClear, history
<1>2. \A q \in Page : q # p => pte'[q] = pte[q]
  BY <1>0 DEF MarkSet, MarkReread, MarkClear, space
<1>3. marker'.pc \in {"reread", "clear"} => marker'.page = p
  BY <1>0, NextPage DEF MarkSet, MarkReread, MarkClear, MarkerFields
<1>4. \A q \in Page : Marking(q)' => q = p
  <2>1. marker'.pc # "set"
    BY <1>0, NextPage DEF MarkSet, MarkReread, MarkClear, MarkerFields
  <2> QED
    BY <1>3, <2>1 DEF Marking
<1>5. Noticed'
  BY <1>0, <1>1, <1>4 DEF Noticed, Checking
<1>6. MarkExact(p) => pte_present(pte'[p])
  BY <1>0 DEF MarkExact, MarkSet, MarkReread, MarkClear, pte_present, space
<1>7. MarkView'
  <2>1. CASE MarkExact(p)
    <3>1. ASSUME NEW q \in Page, Marking(q)' PROVE MarkExact(q)'
      <4>1. q = p
        BY <1>4, <3>1
      <4>2. CASE MarkSet
        BY <1>0, <1>6, <2>1, <4>1, <4>2 DEF MarkSet, MarkExact, MarkerFields
      <4>3. CASE MarkReread
        BY <1>0, <1>6, <2>1, <4>1, <4>3 DEF MarkReread, MarkExact, MarkerFields, space
      <4>4. CASE MarkClear
        BY <3>1, <4>4, NextPage DEF Marking
      <4> QED
        BY <4>2, <4>3, <4>4
    <3> QED
      BY <3>1 DEF MarkView
  <2>2. CASE ~MarkExact(p)
    <3>1. p \in torn /\ (fault.page = p /\ fault.pc # "user" => fault.met)
      BY <1>0, <2>2 DEF MarkView
    <3> QED
      BY <1>1, <1>4, <3>1 DEF MarkView
  <2> QED
    BY <2>1, <2>2
<1>8. CheckView'
  <2> SUFFICES ASSUME fault.pc # "user", ~fault.met PROVE CheckExact(fault.page)'
    BY <1>1 DEF CheckView
  <2>1. CheckExact(fault.page) /\ fault.page \in Page
    BY <1>0, Before DEF CheckView, Placed
  <2>2. CASE fault.page # p
    BY <1>1, <1>2, <2>1, <2>2 DEF CheckExact
  <2>3. CASE fault.page = p
    <3>1. ~Checking(p) /\ MarkExact(p)
      BY <1>0, <2>3 DEF Noticed, MarkView
    <3> QED
      BY <1>1, <1>6, <2>3, <3>1 DEF CheckExact, Checking
  <2> QED
    BY <2>2, <2>3
<1>9. PteSound'
  <2> SUFFICES ASSUME NEW q \in Page, pte'[q] # {}, q \notin torn PROVE pte_present(pte'[q])
    BY <1>1 DEF PteSound
  <2>1. CASE q # p
    BY <1>0, <1>2, <2>1 DEF PteSound
  <2>2. CASE q = p
    BY <1>0, <1>6, <2>2 DEF MarkView
  <2> QED
    BY <2>1, <2>2
<1> QED
  BY <1>5, <1>7, <1>8, <1>9 DEF Views

\* A fault begins.
LEMMA FaultViews ==
  ASSUME WatchInv, NEW p \in Page, AccessFault(p)
  PROVE  Views'
<1> DEFINE meets == page_fault_check /\ Marking(p)
<1>0. /\ Noticed /\ MarkView /\ PteSound /\ Hooked
      /\ torn \subseteq Page /\ page_fault_check \in BOOLEAN
  BY Before DEF WatchInv, WatchTypeOK, ActorType
<1>1. UNCHANGED <<pte, table, marker>> /\ torn' = IF meets THEN torn \cup {p} ELSE torn
  BY DEF AccessFault, Meet, space
<1>2. /\ fault.pc = "user" /\ fault'.page = p /\ fault'.met = meets
      /\ fault'.pc = IF page_fault_check THEN "hook" ELSE "handle"
      /\ page_fault_check \/ pte[p] = {}
  BY DEF AccessFault, Use
<1>3. ASSUME NEW q \in Page PROVE Marking(q)' = Marking(q)
  BY <1>1 DEF Marking
<1>4. ASSUME NEW q \in Page, Marking(q) PROVE page_fault_check
  BY <1>0, <1>4 DEF Marking, Hooked
<1> HIDE DEF meets
<1>5. Noticed'
  <2>1. ASSUME NEW q \in Page, Marking(q)', Checking(q)' PROVE fault'.met
    BY <1>2, <1>3, <1>4, <2>1 DEF Checking, meets
  <2> QED
    BY <1>1, <1>2, <2>1 DEF Noticed
<1>6. MarkView'
  <2> SUFFICES ASSUME NEW q \in Page, Marking(q)
               PROVE  \/ MarkExact(q)'
                      \/ q \in torn' /\ (fault'.page = q /\ fault'.pc # "user" => fault'.met)
    BY <1>3 DEF MarkView
  <2>1. MarkExact(q)' = MarkExact(q)
    BY <1>1 DEF MarkExact
  <2>2. CASE q = p
    BY <1>1, <1>2, <1>4, <2>2 DEF meets
  <2>3. CASE q # p
    BY <1>0, <1>1, <1>2, <2>1, <2>3 DEF MarkView
  <2> QED
    BY <2>2, <2>3
<1>7. CheckView'
  BY <1>1, <1>2 DEF CheckView, CheckExact
<1>8. PteSound'
  BY <1>0, <1>1 DEF PteSound
<1> QED
  BY <1>5, <1>6, <1>7, <1>8 DEF Views

\* The steps of page_check.
LEMMA CheckViews ==
  ASSUME WatchInv, PageCheck \/ CheckSet \/ CheckReread \/ CheckClear
  PROVE  Views'
<1> DEFINE p == fault.page
<1>0. /\ Noticed /\ MarkView /\ CheckView /\ PteSound /\ p \in Page /\ Tabled
      /\ torn \subseteq Page /\ pte \in [Page -> SUBSET Flags] /\ fault \in FaultFields
      /\ Checking(p)
  BY Before DEF Placed, PageCheck, CheckSet, CheckReread, CheckClear, Checking
<1>1. /\ UNCHANGED <<torn, marker>> /\ fault'.met = fault.met /\ fault'.page = p
      /\ fault'.pc # "user" /\ fault.pc # "user"
  BY <1>0 DEF PageCheck, CheckSet, CheckReread, CheckClear, history, FaultFields
<1>2. \A q \in Page : q # p => pte'[q] = pte[q]
  BY <1>0 DEF PageCheck, CheckSet, CheckReread, CheckClear, space
<1>3. \A q : Checking(q)' => Checking(q)
  BY <1>0, <1>1 DEF Checking
<1>4. Marking(p) => fault.met /\ p \in torn
  BY <1>0, <1>1 DEF Noticed
<1>5. Noticed'
  BY <1>0, <1>1, <1>3 DEF Noticed, Marking
<1>6. MarkView'
  <2> SUFFICES ASSUME NEW q \in Page, Marking(q)
               PROVE  \/ MarkExact(q)'
                      \/ q \in torn /\ (fault'.page = q /\ fault'.pc # "user" => fault'.met)
    BY <1>1 DEF MarkView, Marking
  <2>1. CASE q = p
    BY <1>1, <1>4, <2>1
  <2>2. CASE q # p
    <3>1. MarkExact(q)' = MarkExact(q)
      BY <1>1, <1>2, <2>2 DEF MarkExact
    <3> QED
      BY <1>0, <1>1, <2>2, <3>1 DEF MarkView
  <2> QED
    BY <2>1, <2>2
<1>7. CheckExact(p) => CheckExact(p)'
  <2>1. CASE PageCheck
    BY <1>0, <2>1 DEF PageCheck, CheckExact, FaultFields, Tabled, space
  <2>2. CASE CheckSet
    BY <1>0, <2>2 DEF CheckSet, CheckExact, FaultFields
  <2>3. CASE CheckReread
    BY <1>0, <2>3 DEF CheckReread, CheckExact, FaultFields, space
  <2>4. CASE CheckClear
    BY <1>0, <2>4 DEF CheckClear, CheckExact, FaultFields, pte_present
  <2> QED
    BY <2>1, <2>2, <2>3, <2>4
<1>8. CheckView'
  BY <1>0, <1>1, <1>7 DEF CheckView, CheckExact
<1>9. PteSound'
  <2> SUFFICES ASSUME NEW q \in Page, pte'[q] # {}, q \notin torn PROVE pte_present(pte'[q])
    BY <1>1 DEF PteSound
  <2>1. CASE q # p
    BY <1>0, <1>2, <2>1 DEF PteSound
  <2>2. CASE q = p
    <3>1. ~fault.met /\ CheckExact(p)
      BY <1>0, <1>1, <2>2 DEF Noticed, CheckView
    <3>2. CASE PageCheck \/ CheckReread
      BY <1>0, <2>2, <3>2 DEF PteSound, PageCheck, CheckReread, space
    <3>3. CASE CheckSet \/ CheckClear
      BY <1>0, <2>2, <3>1, <3>3 DEF CheckSet, CheckClear, CheckExact, pte_present
    <3> QED
      BY <3>2, <3>3
  <2> QED
    BY <2>1, <2>2
<1> QED
  BY <1>5, <1>6, <1>8, <1>9 DEF Views

\* The kernel's handler: what it leaves is resident.
LEMMA HandleViews ==
  ASSUME WatchInv, HandleFault
  PROVE  Views'
<1> DEFINE p == fault.page
<1>0. /\ Noticed /\ MarkView /\ CheckView /\ PteSound /\ p \in Page
      /\ torn \subseteq Page /\ pte \in [Page -> SUBSET Flags] /\ fault \in FaultFields
      /\ fault.pc = "handle" /\ fault.met \in BOOLEAN
  BY Before DEF Placed, HandleFault, FaultFields
<1>1. /\ UNCHANGED marker /\ fault'.pc = "user" /\ fault'.page = p
      /\ torn' = IF fault.met THEN torn ELSE torn \ {p}
  BY <1>0 DEF HandleFault, FaultFields
<1>2. \A q \in Page : pte'[q] = IF q = p /\ pte[p] = {} THEN {"PRESENT", "USER"} ELSE pte[q]
  BY <1>0 DEF HandleFault
<1>3. pte_present({}) = FALSE /\ pte_present({"PRESENT", "USER"}) = TRUE
  BY DEF pte_present
<1>4. Noticed'
  BY <1>1 DEF Noticed, Checking
<1>5. MarkView'
  <2> SUFFICES ASSUME NEW q \in Page, Marking(q)
               PROVE  MarkExact(q)' \/ q \in torn'
    BY <1>1 DEF MarkView, Marking
  <2>1. CASE MarkExact(q)
    <3>1. pte'[q] = pte[q]
      BY <1>2, <1>3, <2>1 DEF MarkExact
    <3> QED
      BY <1>1, <2>1, <3>1 DEF MarkExact
  <2>2. CASE ~MarkExact(q)
    BY <1>0, <1>1, <2>2 DEF MarkView
  <2> QED
    BY <2>1, <2>2
<1>6. CheckView'
  BY <1>1 DEF CheckView
<1>7. PteSound'
  <2> SUFFICES ASSUME NEW q \in Page, pte'[q] # {}, q \notin torn' PROVE pte_present(pte'[q])
    BY DEF PteSound
  <2>1. CASE q \notin torn
    BY <1>0, <1>2, <1>3, <2>1 DEF PteSound
  <2>2. CASE q \in torn
    <3>1. q = p /\ ~fault.met
      BY <1>1, <2>2
    <3>2. pte[p] = {} \/ pte_present(pte[p])
      BY <1>0, <3>1 DEF CheckView, CheckExact
    <3> QED
      BY <1>2, <1>3, <3>1, <3>2
  <2> QED
    BY <2>1, <2>2
<1> QED
  BY <1>4, <1>5, <1>6, <1>7 DEF Views

\* Every step of PageWatch keeps the invariant.
LEMMA InvKept ==
  ASSUME WatchAssumption, WatchInv, [WatchNext]_watchVars
  PROVE  WatchInv'
<1>1. CASE UNCHANGED watchVars
  BY <1>1 DEF watchVars, space, history, WatchInv, WatchTypeOK, SpaceType, ActorType, HistoryType,
     PInv, Tabled, Hooked, Placed, Noticed, MarkView, MarkExact, CheckView, CheckExact, PteSound,
     Marking, Checking
<1>2. CASE WatchNext
  <2>1. WatchTypeOK' /\ Tabled' /\ Hooked' /\ Placed'
    BY <1>2, TypesKept, PlacesKept
  <2>2. Views'
    <3>1. CASE MarkStart \/ MarkCleanup \/ Counter \/ \E p \in Page : AccessHit(p)
      <4>1. UNCHANGED <<pte, torn, fault>>
        BY <3>1 DEF MarkStart, MarkCleanup, Counter, CountRound, CountPage, AccessHit, space,
                    history
      <4>2. UNCHANGED marker \/ marker'.pc \notin {"set", "reread", "clear"}
        BY <3>1, Before DEF MarkStart, MarkCleanup, Counter, CountRound, CountPage, AccessHit,
                            MarkerFields
      <4> QED
        BY <4>1, <4>2, ElsewhereViews
    <3>2. CASE MarkRound
      BY <3>2, NextPage, ElsewhereViews DEF MarkRound, space, history
    <3>3. CASE MarkWalk \/ MarkSet \/ MarkReread \/ MarkClear
      BY <3>3, MarkWalkViews, MarkWriteViews
    <3>4. CASE Process /\ ~\E p \in Page : AccessHit(p)
      BY <3>4, FaultViews, CheckViews, HandleViews DEF Process
    <3> QED
      BY <1>2, <3>1, <3>2, <3>3, <3>4 DEF WatchNext, Marker
  <2> QED
    BY <2>1, <2>2 DEF WatchInv, PInv, Views
<1> QED
  BY <1>1, <1>2

-----------------------------------------------------------------------------
(* PageWatch: the working set                                              *)

\* A fault that met a marking is remembered.
Met == (fault.met => overlap) /\ (torn # {} => overlap)

\* A page that was marked is accessible again exactly if it was used since, or is just
\* being used; one that was not is accessible or has no entry.
UsedPage(p) ==
    /\ marked[p] = 0 => pte[p] = {} \/ "PRESENT" \in pte[p]
    /\ marked[p] > 0 =>
        pte[p] # {} /\ (<<p, marked[p]>> \in used <=> "PRESENT" \in pte[p] \/ Checking(p))

UsedMarks == \A p \in Page, n \in Nat : <<p, n>> \in used => n > 0 /\ n <= marked[p]

\* The use that the hook is about to count.
Ahead == IF fault.pc = "hook" /\ pte[fault.page] # {} THEN 1 ELSE 0

Uses == /\ \A p \in Page : UsedPage(p)
        /\ UsedMarks
        /\ fault.pc = "hook" => "PRESENT" \notin pte[fault.page]
        /\ wss + Ahead = Cardinality(used)

UInv == Met /\ (~overlap => Uses)

\* At first no page is marked, and none is counted.
LEMMA InitUses ==
  ASSUME WatchInit
  PROVE  UInv
<1> USE DEF WatchInit
<1>1. Cardinality(used) = 0
  BY FS_EmptySet
<1>2. Ahead = 0 /\ wss = 0
  BY DEF Ahead
<1>3. \A p \in Page : pte[p] = {} \/ "PRESENT" \in pte[p]
  OBVIOUS
<1>4. \A p \in Page : UsedPage(p)
  BY <1>3 DEF UsedPage
<1> QED
  BY <1>1, <1>2, <1>4 DEF UInv, Met, Uses, UsedMarks

\* What is remembered of meetings is not forgotten.
LEMMA MetKept ==
  ASSUME WatchInv, Met, WatchNext
  PROVE  Met' /\ (overlap => overlap')
<1>0. fault \in FaultFields /\ overlap \in BOOLEAN /\ fault.met \in BOOLEAN
  BY Before DEF FaultFields
<1>1. CASE MarkWalk
  BY <1>0, <1>1, WalkStep DEF Met, Meet, MarkWalk
<1>2. CASE \E p \in Page : AccessFault(p)
  <2>1. PICK p \in Page : AccessFault(p)
    BY <1>2
  <2>2. fault'.met = (page_fault_check /\ Marking(p))
    BY <2>1 DEF AccessFault
  <2> QED
    BY <1>0, <2>1, <2>2 DEF Met, Meet, AccessFault
<1>3. CASE HandleFault
  BY <1>0, <1>3 DEF Met, HandleFault, FaultFields
<1>4. CASE UNCHANGED <<overlap, torn>> /\ fault'.met = fault.met
  BY <1>0, <1>4 DEF Met
<1>5. CASE PageCheck \/ CheckSet \/ CheckReread \/ CheckClear
  BY <1>0, <1>4, <1>5 DEF PageCheck, CheckSet, CheckReread, CheckClear, history, FaultFields
<1>6. CASE \/ MarkStart \/ MarkRound \/ MarkSet \/ MarkReread \/ MarkClear \/ MarkCleanup
           \/ Counter \/ \E p \in Page : AccessHit(p)
  BY <1>4, <1>6 DEF MarkStart, MarkRound, MarkSet, MarkReread, MarkClear, MarkCleanup, Counter,
     CountRound, CountPage, AccessHit, history
<1> QED
  BY <1>1, <1>2, <1>3, <1>5, <1>6 DEF WatchNext, Marker, Process

\* What is known while no fault has met a marking.
LEMMA NotMet ==
  ASSUME WatchInv, UInv, ~overlap
  PROVE  /\ \A p \in Page : UsedPage(p)
         /\ UsedMarks /\ wss + Ahead = Cardinality(used)
         /\ fault.pc = "hook" => "PRESENT" \notin pte[fault.page]
         /\ \A p \in Page : Marking(p) => MarkExact(p) /\ ~Checking(p)
         /\ fault.pc # "user" => CheckExact(fault.page) /\ fault.page \in Page
         /\ fault \in FaultFields /\ marker \in MarkerFields
         /\ pte \in [Page -> SUBSET Flags] /\ marked \in [Page -> Nat]
         /\ used \subseteq Page \X Nat /\ IsFiniteSet(used) /\ wss \in Nat
         /\ table \subseteq Page
BY Before DEF UInv, Uses, Met, MarkView, CheckView, Noticed, Placed, WatchInv, WatchTypeOK,
              HistoryType

\* The steps of the marking.
LEMMA MarkerUses ==
  ASSUME WatchInv, UInv, ~overlap, ~overlap', MarkWalk \/ MarkSet \/ MarkReread \/ MarkClear
  PROVE  Uses'
<1> PICK p : p = marker.page
  OBVIOUS
<1>0. UNCHANGED <<used, wss>> /\ fault'.pc = fault.pc /\ fault'.page = fault.page
  BY WalkStep DEF MarkWalk, MarkSet, MarkReread, MarkClear, history
<1>1. \A q : Checking(q)' = Checking(q)
  BY <1>0 DEF Checking
<1>2. CASE MarkWalk \/ MarkReread
  <2>1. UNCHANGED <<pte, marked>>
    BY <1>2 DEF MarkWalk, MarkReread, space, history
  <2> QED
    BY <1>0, <1>1, <2>1, NotMet DEF Uses, UsedPage, UsedMarks, Ahead
<1>3. CASE MarkSet \/ MarkClear
  <2>0. p \in Page /\ MarkExact(p) /\ ~Checking(p)
    <3>1. p \in Page /\ Marking(p)
      BY <1>3, Before DEF Placed, MarkSet, MarkClear, Marking
    <3> QED
      BY <3>1, NotMet
  <2>1. \A q \in Page : q # p => pte'[q] = pte[q] /\ marked'[q] = marked[q]
    BY <1>3, <2>0, NotMet DEF MarkSet, MarkClear, history
  <2>2. ASSUME NEW q \in Page, q # p PROVE UsedPage(q)'
    BY <1>0, <1>1, <2>1, <2>2, NotMet DEF UsedPage
  <2>3. fault.pc = "hook" => fault.page # p
    BY <2>0 DEF Checking
  <2>4. Ahead' = Ahead /\ (fault'.pc = "hook" => "PRESENT" \notin pte'[fault'.page])
    BY <1>0, <2>1, <2>3, NotMet DEF Ahead
  <2>5. CASE MarkSet
    <3>1. marked' = marked /\ pte'[p] = pte[p] \cup {"PROTNONE"}
      BY <2>0, <2>5, NotMet DEF MarkSet, MarkExact, history
    <3>2. UsedPage(p)'
      <4>1. UsedPage(p)
        BY <2>0, NotMet
      <4>2. pte'[p] # {} /\ ("PRESENT" \in pte'[p] <=> "PRESENT" \in pte[p])
        BY <3>1
      <4>3. pte[p] # {}
        BY <2>0 DEF MarkExact, pte_present
      <4> QED
        BY <1>0, <1>1, <3>1, <4>1, <4>2, <4>3 DEF UsedPage
    <3> QED
      BY <1>0, <2>2, <2>4, <3>1, <3>2, NotMet DEF Uses, UsedMarks
  <2>6. CASE MarkClear
    <3>1. /\ marked'[p] = marked[p] + 1 /\ pte'[p] = pte[p] \ {"PRESENT"} /\ marked[p] \in Nat
          /\ "PROTNONE" \in pte[p]
      BY <2>0, <2>6, NotMet DEF MarkClear, MarkExact
    <3>2. <<p, marked[p] + 1>> \notin used
      <4>1. <<p, marked[p] + 1>> \in used => marked[p] + 1 <= marked[p]
        BY <2>0, <3>1, NotMet DEF UsedMarks
      <4> QED
        BY <3>1, <4>1
    <3>3. UsedPage(p)'
      <4>1. "PRESENT" \notin pte'[p] /\ pte'[p] # {} /\ ~Checking(p)' /\ used' = used
        BY <1>0, <1>1, <2>0, <3>1
      <4> QED
        BY <3>1, <3>2, <4>1 DEF UsedPage
    <3>4. UsedMarks'
      <4> SUFFICES ASSUME NEW q \in Page, NEW n \in Nat, <<q, n>> \in used
                   PROVE  n > 0 /\ n <= marked'[q]
        BY <1>0 DEF UsedMarks
      <4>1. marked[q] \in Nat /\ n > 0 /\ n <= marked[q]
        BY NotMet DEF UsedMarks
      <4>2. marked'[q] = marked[q] \/ marked'[q] = marked[q] + 1
        BY <2>1, <3>1
      <4> QED
        BY <4>1, <4>2
    <3> QED
      BY <1>0, <2>2, <2>4, <3>3, <3>4, NotMet DEF Uses
  <2> QED
    BY <1>3, <2>5, <2>6
<1> QED
  BY <1>2, <1>3

\* An access to an accessible page was counted before.
LEMMA HitUses ==
  ASSUME WatchInv, UInv, ~overlap, NEW p \in Page, AccessHit(p)
  PROVE  Uses'
<1>0. UsedPage(p) /\ "PRESENT" \in pte[p] /\ marked[p] \in Nat
  BY NotMet DEF AccessHit
<1>1. used' = used
  <2>1. marked[p] > 0 => <<p, marked[p]>> \in used
    BY <1>0 DEF UsedPage
  <2> QED
    BY <2>1 DEF AccessHit, Use
<1>2. UNCHANGED <<pte, marked, fault, wss>>
  BY DEF AccessHit, space
<1> QED
  BY <1>1, <1>2, NotMet DEF Uses, UsedPage, UsedMarks, Ahead, Checking

\* A fault on a page that was marked is its first use since; one on a page without an
\* entry is not counted.
LEMMA FaultUses ==
  ASSUME WatchInv, UInv, ~overlap, NEW p \in Page, AccessFault(p)
  PROVE  Uses'
<1>0. /\ UsedPage(p) /\ "PRESENT" \notin pte[p] /\ marked[p] \in Nat /\ fault.pc = "user"
      /\ IsFiniteSet(used) /\ Cardinality(used) = wss /\ wss \in Nat
  BY NotMet DEF AccessFault, Use, Ahead
<1>1. /\ UNCHANGED <<pte, marked, wss>> /\ fault'.page = p
      /\ fault'.pc = IF page_fault_check THEN "hook" ELSE "handle"
      /\ page_fault_check \/ pte[p] = {}
      /\ used' = IF marked[p] > 0 THEN used \cup {<<p, marked[p]>>} ELSE used
  BY DEF AccessFault, Use, space
<1>2. marked[p] > 0 => <<p, marked[p]>> \notin used /\ pte[p] # {}
  BY <1>0 DEF UsedPage, Checking
<1>3. marked[p] = 0 => pte[p] = {}
  BY <1>0 DEF UsedPage
<1>4. ASSUME NEW q \in Page PROVE UsedPage(q)'
  <2>1. UsedPage(q) /\ ~Checking(q)
    BY <1>0, NotMet DEF Checking
  <2>2. CASE q = p
    <3>1. marked[p] > 0 => Checking(p)'
      BY <1>1, <1>2 DEF Checking
    <3> QED
      BY <1>0, <1>1, <1>2, <1>3, <2>2, <3>1 DEF UsedPage
  <2>3. CASE q # p
    <3>1. ~Checking(q)' /\ (<<q, marked[q]>> \in used' <=> <<q, marked[q]>> \in used)
      BY <1>1, <2>3 DEF Checking
    <3> QED
      BY <1>1, <2>1, <3>1 DEF UsedPage
  <2> QED
    BY <2>2, <2>3
<1>5. UsedMarks'
  <2> SUFFICES ASSUME NEW q \in Page, NEW n \in Nat, <<q, n>> \in used'
               PROVE  n > 0 /\ n <= marked[q]
    BY <1>1 DEF UsedMarks
  <2>1. <<q, n>> \in used \/ (q = p /\ n = marked[p] /\ marked[p] > 0)
    BY <1>1
  <2> QED
    BY <1>0, <2>1, NotMet DEF UsedMarks
<1>6. wss' + Ahead' = Cardinality(used')
  <2>1. CASE marked[p] > 0
    <3>1. Cardinality(used') = Cardinality(used) + 1
      BY <1>0, <1>1, <1>2, <2>1, FS_AddElement
    <3>2. Ahead' = 1
      BY <1>1, <1>2, <2>1 DEF Ahead
    <3> QED
      BY <1>0, <1>1, <3>1, <3>2
  <2>2. CASE marked[p] = 0
    <3>1. used' = used /\ Ahead' = 0
      BY <1>1, <1>3, <2>2 DEF Ahead
    <3> QED
      BY <1>0, <1>1, <3>1
  <2> QED
    BY <1>0, <2>1, <2>2
<1>7. fault'.pc = "hook" => "PRESENT" \notin pte'[fault'.page]
  BY <1>0, <1>1
<1> QED
  BY <1>4, <1>5, <1>6, <1>7 DEF Uses

\* The hook counts what was used, and makes the page accessible.
LEMMA CheckUses ==
  ASSUME WatchInv, UInv, ~overlap, PageCheck \/ CheckSet \/ CheckReread \/ CheckClear
  PROVE  Uses'
<1> PICK p : p = fault.page
  OBVIOUS
<1>0. /\ p \in Page /\ CheckExact(p) /\ Checking(p) /\ UsedPage(p) /\ fault \in FaultFields
      /\ pte \in [Page -> SUBSET Flags] /\ wss \in Nat
      /\ fault.pc = "hook" => "PRESENT" \notin pte[p]
  BY NotMet DEF PageCheck, CheckSet, CheckReread, CheckClear, Checking
<1>1. UNCHANGED <<used, marked>> /\ fault'.page = p
  BY <1>0 DEF PageCheck, CheckSet, CheckReread, CheckClear, history, FaultFields
<1>2. \A q \in Page : q # p => pte'[q] = pte[q]
  BY <1>0 DEF PageCheck, CheckSet, CheckReread, CheckClear, space
<1>3. ASSUME NEW q \in Page, q # p PROVE UsedPage(q)'
  <2>1. ~Checking(q) /\ ~Checking(q)' /\ UsedPage(q)
    BY <1>0, <1>1, <1>3, NotMet DEF Checking
  <2> QED
    BY <1>1, <1>2, <1>3, <2>1 DEF UsedPage
<1>4. UsedPage(p)' /\ fault'.pc # "hook" /\ wss' = Cardinality(used)
  <2>0. wss + Ahead = Cardinality(used)
    BY NotMet
  <2>1. CASE PageCheck
    <3>1. pte' = pte /\ (p \notin table => pte[p] = {})
      BY <1>0, <2>1, Before DEF Tabled, PageCheck, space
    <3>2. CASE pte[p] # {}
      <4>1. fault'.pc = "set" /\ wss' = wss + 1 /\ Ahead = 1
        BY <1>0, <2>1, <3>1, <3>2 DEF PageCheck, FaultFields, Ahead
      <4>2. Checking(p)'
        BY <1>1, <4>1 DEF Checking
      <4>3. UsedPage(p)'
        BY <1>0, <1>1, <3>1, <4>2 DEF UsedPage
      <4> QED
        BY <1>0, <2>0, <4>1, <4>3
    <3>3. CASE pte[p] = {}
      <4>1. fault'.pc = "handle" /\ wss' = wss /\ Ahead = 0
        BY <1>0, <2>1, <3>3 DEF PageCheck, FaultFields, Ahead
      <4>2. marked[p] \in Nat /\ ~(marked[p] > 0)
        BY <1>0, <3>3, NotMet DEF UsedPage
      <4>3. UsedPage(p)'
        BY <1>1, <3>1, <3>3, <4>2 DEF UsedPage
      <4> QED
        BY <1>0, <2>0, <4>1, <4>3
    <3> QED
      BY <3>2, <3>3
  <2>2. CASE CheckSet \/ CheckReread \/ CheckClear
    <3>1. fault'.pc \in {"reread", "clear", "handle"} /\ fault.pc # "hook" /\ wss' = wss
      BY <1>0, <2>2 DEF CheckSet, CheckReread, CheckClear, FaultFields
    <3>2. "PRESENT" \in pte'[p]
      BY <1>0, <2>2 DEF CheckSet, CheckReread, CheckClear, CheckExact, space
    <3>3. Ahead = 0
      BY <3>1 DEF Ahead
    <3>4. UsedPage(p)'
      BY <1>0, <1>1, <3>2 DEF UsedPage
    <3> QED
      BY <1>0, <2>0, <3>1, <3>3, <3>4
  <2> QED
    BY <2>1, <2>2
<1>5. Ahead' = 0 /\ wss' \in Nat
  BY <1>0, <1>4 DEF Ahead, PageCheck, CheckSet, CheckReread, CheckClear
<1>6. wss' + Ahead' = Cardinality(used')
  BY <1>1, <1>4, <1>5
<1>7. UsedMarks'
  BY <1>1, NotMet DEF UsedMarks
<1> QED
  BY <1>3, <1>4, <1>6, <1>7 DEF Uses

\* A page that the kernel maps was never marked.
LEMMA HandleUses ==
  ASSUME WatchInv, UInv, ~overlap, HandleFault
  PROVE  Uses'
<1> PICK p : p = fault.page
  OBVIOUS
<1>0. p \in Page /\ fault.pc = "handle" /\ UsedPage(p) /\ marked[p] \in Nat
      /\ pte \in [Page -> SUBSET Flags] /\ fault \in FaultFields
  BY NotMet DEF HandleFault
<1>1. /\ UNCHANGED <<used, marked, wss>> /\ fault'.pc = "user"
      /\ pte' = IF pte[p] = {} THEN [pte EXCEPT ![p] = {"PRESENT", "USER"}] ELSE pte
  BY <1>0 DEF HandleFault, FaultFields
<1>2. Ahead' = 0 /\ Ahead = 0
  BY <1>0, <1>1 DEF Ahead
<1>3. ASSUME NEW q \in Page PROVE UsedPage(q)'
  <2>1. ~Checking(q) /\ ~Checking(q)' /\ UsedPage(q) /\ marked[q] \in Nat
    BY <1>0, <1>1, NotMet DEF Checking
  <2>2. pte'[q] = pte[q] \/ (pte[q] = {} /\ "PRESENT" \in pte'[q])
    BY <1>0, <1>1
  <2> QED
    BY <1>1, <2>1, <2>2 DEF UsedPage
<1> QED
  BY <1>1, <1>2, <1>3, NotMet DEF Uses, UsedMarks

\* Every step keeps the count of uses.
LEMMA UsesKept ==
  ASSUME WatchInv, UInv, [WatchNext]_watchVars
  PROVE  UInv'
<1>1. CASE UNCHANGED watchVars
  BY <1>1 DEF watchVars, space, history, UInv, Met, Uses, UsedPage, UsedMarks, Ahead, Checking
<1>2. CASE WatchNext
  <2>1. Met' /\ (overlap => overlap')
    BY <1>2, MetKept DEF UInv
  <2>2. ASSUME ~overlap, ~overlap' PROVE Uses'
    <3>1. CASE MarkWalk \/ MarkSet \/ MarkReread \/ MarkClear
      BY <2>2, <3>1, MarkerUses
    <3>2. CASE Process
      BY <2>2, <3>2, HitUses, FaultUses, CheckUses, HandleUses DEF Process
    <3>3. CASE MarkStart \/ MarkRound \/ MarkCleanup \/ Counter
      <4>1. UNCHANGED <<pte, fault, marked, used, wss>>
        BY <3>3 DEF MarkStart, MarkRound, MarkCleanup, Counter, CountRound, CountPage, space,
                    history
      <4> QED
        BY <2>2, <4>1, NotMet DEF Uses, UsedPage, UsedMarks, Ahead, Checking
    <3> QED
      BY <1>2, <3>1, <3>2, <3>3 DEF WatchNext, Marker
  <2> QED
    BY <2>1, <2>2 DEF UInv
<1> QED
  BY <1>1, <1>2

\* No use of a page after a marking is missed by wss5.c, and none is counted twice, as long
\* as no fault met the marking of its page.
THEOREM WorkingSetExact == ASSUME WatchAssumption PROVE WatchSpec => []WssExact
<1>1. WatchInit => WatchInv /\ UInv
  BY InitWatch, InitUses
<1>2. WatchInv /\ UInv /\ [WatchNext]_watchVars => WatchInv' /\ UInv'
  BY InvKept, UsesKept
<1>3. WatchInv /\ UInv => WssExact
  <2> SUFFICES ASSUME WatchInv, UInv, ~overlap, fault.pc # "hook" PROVE wss = Cardinality(used)
    BY DEF WssExact
  <2>1. Ahead = 0 /\ wss \in Nat /\ wss + Ahead = Cardinality(used)
    BY NotMet DEF Ahead
  <2> QED
    BY <2>1
<1> QED
  BY <1>1, <1>2, <1>3, PTL DEF WatchSpec

-----------------------------------------------------------------------------
(* PageWatch: the resident set                                             *)

\* The pages of page_walk that the round has passed, and those still to come.
Passed(v) == v[1] < counter.area \/ (v[1] = counter.area /\ v[2] < counter.page)
Done == {v \in Visits : Passed(v)}
Coming == {v \in Visits : ~Passed(v)}

\* What was counted is still resident, and what was resident at the start has been counted
\* or is still to come.
RInv ==
    /\ torn # {} => tornOnce
    /\ counter.pc = "walk" =>
        counter.area > 0 /\ counter.page \in Visited(areas[counter.area])
    /\ counter.pc # "walk" => counter.area = 0
    /\ counter.pc = "walk" /\ ~tornOnce =>
        counter.phy <= Cardinality(Done) /\ floor <= counter.phy + Cardinality(Coming)
    /\ RssBracket

\* Sets of visits are finite.
LEMMA VisitsFinite ==
  ASSUME WatchAssumption, NEW n \in Nat, NEW S, S \subseteq (1 .. n) \X Page
  PROVE  IsFiniteSet(S) /\ Cardinality(S) \in Nat
<1>1. IsFiniteSet(Page)
  BY DEF WatchAssumption
<1>2. IsFiniteSet(1 .. n)
  BY FS_Interval
<1>3. IsFiniteSet((1 .. n) \X Page)
  BY <1>1, <1>2, FS_Product
<1>4. IsFiniteSet(S)
  BY <1>3, FS_Subset
<1> QED
  BY <1>4, FS_CardinalityType

\* A visit is a number of an area and a page.
LEMMA VisitsOf ==
  ASSUME WatchInv
  PROVE  /\ Len(areas) \in Nat /\ Visits \subseteq (1 .. Len(areas)) \X Page
         /\ Done \subseteq Visits /\ Coming \subseteq Visits
BY AreaType DEF WatchInv, WatchTypeOK, SpaceType, Visits, Resident, Done, Coming

\* At first no round of rss2.c is under way.
LEMMA InitCount ==
  ASSUME WatchInit
  PROVE  RInv
BY DEF WatchInit, RInv, RssBracket

\* While no fault meets a marking, a resident page stays resident.
LEMMA ResidentStays ==
  ASSUME WatchInv, WatchInv', WatchNext, torn = {}, torn' = {}
  PROVE  Resident \subseteq Resident'
<1>0. /\ table \in SUBSET Page /\ pte \in [Page -> SUBSET Flags] /\ PteSound'
      /\ \A p \in Page : Marking(p) => MarkExact(p)
      /\ fault.pc # "user" => CheckExact(fault.page) /\ fault.page \in Page
      /\ marker.pc \in {"set", "reread", "clear"} => marker.page \in Page
  BY Before DEF WatchInv, PInv, MarkView, Noticed, CheckView, Placed
<1> SUFFICES ASSUME NEW p \in Resident PROVE p \in Resident'
  OBVIOUS
<1>1. p \in Page /\ p \in table /\ pte[p] # {}
  BY <1>0 DEF Resident, pte_present
<1>2. p \in table'
  BY <1>1 DEF WatchNext, Marker, Process, Counter, MarkStart, MarkRound, MarkWalk, MarkSet,
     MarkReread, MarkClear, MarkCleanup, AccessHit, AccessFault, PageCheck, CheckSet,
     CheckReread, CheckClear, HandleFault, CountRound, CountPage, space
<1>3. pte'[p] # {}
  <2>1. CASE MarkSet
    BY <1>0, <1>1, <2>1 DEF MarkSet
  <2>2. CASE MarkClear
    <3>1. "PROTNONE" \in marker.seen /\ marker.page \in Page
      BY <1>0, <2>2 DEF MarkClear, Marking, MarkExact
    <3> QED
      BY <1>0, <1>1, <2>2, <3>1 DEF MarkClear
  <2>3. CASE CheckSet
    BY <1>0, <1>1, <2>3 DEF CheckSet
  <2>4. CASE CheckClear
    <3>1. "PRESENT" \in fault.seen /\ fault.page \in Page
      BY <1>0, <2>4 DEF CheckClear, CheckExact
    <3> QED
      BY <1>0, <1>1, <2>4, <3>1 DEF CheckClear
  <2>5. CASE HandleFault
    BY <1>0, <1>1, <2>5 DEF HandleFault
  <2>6. CASE pte' = pte
    BY <1>1, <2>6
  <2> QED
    BY <2>1, <2>2, <2>3, <2>4, <2>5, <2>6 DEF WatchNext, Marker, Process, Counter, MarkStart,
       MarkRound, MarkWalk, MarkReread, MarkCleanup, AccessHit, AccessFault, PageCheck,
       CheckReread, CountRound, CountPage, space
<1> QED
  BY <1>0, <1>1, <1>2, <1>3 DEF PteSound, Resident

\* The steps of the others add visits, passed ones and coming ones.
LEMMA OthersCount ==
  ASSUME WatchAssumption, WatchInv, WatchInv', RInv, Marker \/ Process
  PROVE  RInv'
<1>0. UNCHANGED <<counter, floor, areas>>
  BY DEF Marker, Process, MarkStart, MarkRound, MarkWalk, MarkSet, MarkReread, MarkClear,
     MarkCleanup, AccessHit, AccessFault, PageCheck, CheckSet, CheckReread, CheckClear,
     HandleFault, space
<1>1. (torn' # {} => tornOnce') /\ (tornOnce => tornOnce')
  <2>1. torn # {} => tornOnce
    BY DEF RInv
  <2>2. CASE MarkWalk \/ \E p \in Page : AccessFault(p)
    BY <2>1, <2>2 DEF MarkWalk, AccessFault, Meet
  <2>3. CASE HandleFault
    BY <2>1, <2>3 DEF HandleFault
  <2>4. CASE UNCHANGED <<torn, tornOnce>>
    BY <2>1, <2>4
  <2> QED
    BY <2>2, <2>3, <2>4 DEF Marker, Process, MarkStart, MarkRound, MarkSet, MarkReread, MarkClear,
       MarkCleanup, AccessHit, PageCheck, CheckSet, CheckReread, CheckClear, history
<1>2. /\ Len(areas) \in Nat
      /\ Visits \subseteq (1 .. Len(areas)) \X Page /\ Done \subseteq (1 .. Len(areas)) \X Page
      /\ Coming \subseteq (1 .. Len(areas)) \X Page
      /\ Visits' \subseteq (1 .. Len(areas)) \X Page /\ Done' \subseteq (1 .. Len(areas)) \X Page
      /\ Coming' \subseteq (1 .. Len(areas)) \X Page
  <2>1. /\ Resident \subseteq Page /\ Resident' \subseteq Page
    BY DEF WatchInv, WatchTypeOK, SpaceType, Resident
  <2> QED
    BY <1>0, <2>1, VisitsOf DEF Visits, Done, Coming
<1>3. ASSUME ~tornOnce'
      PROVE  /\ ~tornOnce
             /\ Cardinality(Done) <= Cardinality(Done')
             /\ Cardinality(Coming) <= Cardinality(Coming')
             /\ Counted <= Counted'
  <2>1. ~tornOnce /\ torn = {} /\ torn' = {}
    BY <1>1, <1>3 DEF RInv
  <2>2. Visits \subseteq Visits'
    BY <1>0, <2>1, ResidentStays DEF Visits, Visited, WatchNext
  <2>3. Done \subseteq Done' /\ Coming \subseteq Coming'
    BY <1>0, <2>2 DEF Done, Coming, Passed
  <2>4. IsFiniteSet(Visits') /\ IsFiniteSet(Done') /\ IsFiniteSet(Coming')
    BY <1>2, VisitsFinite
  <2> QED
    BY <2>1, <2>2, <2>3, <2>4, FS_Subset DEF Counted
<1>4. CASE tornOnce'
  BY <1>0, <1>1, <1>4 DEF RInv, RssBracket, Visited
<1>5. CASE ~tornOnce'
  <2>1. /\ Cardinality(Done) \in Nat /\ Cardinality(Coming) \in Nat /\ Counted \in Nat
        /\ Cardinality(Done') \in Nat /\ Cardinality(Coming') \in Nat /\ Counted' \in Nat
    BY <1>2, VisitsFinite DEF Counted
  <2>2. ~tornOnce /\ Cardinality(Done) <= Cardinality(Done')
        /\ Cardinality(Coming) <= Cardinality(Coming') /\ Counted <= Counted'
    BY <1>3, <1>5
  <2>3. counter.phy \in Nat /\ floor \in Nat
    BY DEF WatchInv, WatchTypeOK, ActorType, HistoryType, CounterFields
  <2>4. counter.pc = "walk" => /\ counter.phy <= Cardinality(Done')
                               /\ floor <= counter.phy + Cardinality(Coming')
    BY <2>1, <2>2, <2>3 DEF RInv
  <2>5. counter.pc = "sleep" => floor <= counter.phy /\ counter.phy <= Counted'
    BY <2>1, <2>2, <2>3 DEF RInv, RssBracket
  <2> QED
    BY <1>0, <1>1, <1>5, <2>4, <2>5 DEF RInv, RssBracket, Visited
<1> QED
  BY <1>4, <1>5

\* Where the counting thread is, in numbers.
LEMMA CounterPlace ==
  ASSUME WatchInv, RInv
  PROVE  /\ counter \in CounterFields /\ counter.area \in Nat /\ counter.page \in Int
         /\ counter.area <= Len(areas) /\ Len(areas) \in Nat
         /\ \A k \in 1 .. Len(areas) :
              /\ areas[k].vm_start \in Int /\ areas[k].vm_end \in Int
              /\ areas[k].vm_start <= areas[k].vm_end
         /\ floor \in Nat /\ counter.phy \in Nat
BY AreaType DEF WatchInv, WatchTypeOK, ActorType, HistoryType, CounterFields

\* The start of a round: everything is still to come.
LEMMA CountRoundCount ==
  ASSUME WatchAssumption, WatchInv, RInv, CountRound
  PROVE  RInv'
<1> DEFINE r == counter.round + 1
           w == [counter EXCEPT !.pc = "walk", !.round = r, !.phy = 0, !.virt = 0]
<1>0. UNCHANGED <<space, torn>> /\ floor' = Counted /\ tornOnce' = (torn # {})
  BY DEF CountRound
<1>1. counter.area = 0 /\ SpaceType /\ (torn' # {} => tornOnce')
  BY <1>0 DEF RInv, CountRound, WatchInv, WatchTypeOK
<1>2. counter' = After(w)
  BY DEF CountRound
<1>3. w.pc = "walk" /\ w.area = 0 /\ w.page \in Int /\ w.phy = 0
  BY <1>1, CounterPlace DEF CounterFields
<1>4. w \in CounterFields
  <2>1. r \in Int
    BY CounterPlace DEF CounterFields
  <2> HIDE DEF r
  <2> QED
    BY <2>1, CounterPlace DEF CounterFields
<1> HIDE DEF w
<1>5. Visits' = Visits /\ Visits \subseteq (1 .. Len(areas)) \X Page
  BY SMTT(45), <1>0, VisitsOf DEF Visits, Resident, Visited, space
<1>6. \/ /\ 0 < Len(areas)
         /\ counter' = [w EXCEPT !.area = w.area + 1, !.page = areas[w.area + 1].vm_start]
      \/ /\ Len(areas) = 0
         /\ counter' = [w EXCEPT !.area = 0, !.page = 0, !.pc = "sleep"]
  <2>1. w.area \in Nat /\ w.area <= Len(areas) /\ ~(w.area > 0)
    BY <1>3, CounterPlace
  <2> QED
    BY <1>1, <1>2, <1>3, <2>1, AfterMoves
<1>7. CASE /\ 0 < Len(areas)
           /\ counter' = [w EXCEPT !.area = w.area + 1, !.page = areas[w.area + 1].vm_start]
  <2>1. counter'.pc = "walk" /\ counter'.area = 1 /\ counter'.page = areas[1].vm_start
        /\ counter'.phy = 0
    BY <1>3, <1>4, <1>7 DEF CounterFields
  <2>2. counter'.page \in Visited(areas'[counter'.area])
    BY <1>0, <1>7, <2>1, CounterPlace DEF Visited, space
  <2>3. ASSUME NEW v \in Visits PROVE ~Passed(v)'
    <3>1. v[1] \in 1 .. Len(areas) /\ v[2] \in Visited(areas[v[1]])
      BY <1>5 DEF Visits
    <3> QED
      BY <2>1, <3>1, CounterPlace DEF Passed, Visited
  <2>4. Done' = {} /\ Coming' = Visits
    BY <1>5, <2>3 DEF Done, Coming
  <2>5. Cardinality(Done') = 0 /\ Cardinality(Coming') = Counted /\ Counted \in Nat
    BY <1>5, <2>4, FS_EmptySet, VisitsFinite, CounterPlace DEF Counted
  <2> QED
    <3>1. floor' = Counted
      BY <1>0
    <3> QED
      BY <1>1, <2>1, <2>2, <2>5, <3>1 DEF RInv, RssBracket
<1>8. CASE Len(areas) = 0 /\ counter' = [w EXCEPT !.area = 0, !.page = 0, !.pc = "sleep"]
  <2>1. counter'.pc = "sleep" /\ counter'.area = 0 /\ counter'.phy = 0
    BY <1>3, <1>4, <1>8 DEF CounterFields
  <2>2. Visits = {}
    BY <1>5, <1>8
  <2>3. Counted = 0 /\ Counted' = 0
    BY <1>5, <2>2, FS_EmptySet DEF Counted
  <2> QED
    <3>1. floor' = Counted
      BY <1>0
    <3> QED
      BY <1>1, <2>1, <2>3, <3>1 DEF RInv, RssBracket
<1> QED
  BY <1>6, <1>7, <1>8

\* One page: it is counted if it is resident, and is no longer to come.
LEMMA CountPageCount ==
  ASSUME WatchAssumption, WatchInv, RInv, CountPage
  PROVE  RInv'
<1> DEFINE here == <<counter.area, counter.page>>
           n == IF follow_pte(counter.page) = 1 THEN counter.phy + 1 ELSE counter.phy
           u == counter.virt + 1
           w == [counter EXCEPT !.phy = n, !.virt = u]
<1>0. UNCHANGED <<space, torn, tornOnce, floor>> /\ counter.pc = "walk"
  BY DEF CountPage, history
<1>1. /\ counter.area \in 1 .. Len(areas) /\ counter.page \in Visited(areas[counter.area])
      /\ SpaceType
  BY <1>0, CounterPlace DEF RInv, WatchInv, WatchTypeOK
<1>2. counter' = After(w)
  BY DEF CountPage
<1>3. n \in Nat /\ u \in Nat
  BY CounterPlace DEF CounterFields
<1>4. Visits' = Visits /\ Visits \subseteq (1 .. Len(areas)) \X Page
  BY <1>0, VisitsOf DEF Visits, Resident, Visited, space
<1>5. IF here \in Visits THEN n = counter.phy + 1 ELSE n = counter.phy
  BY <1>1 DEF Visits, Resident, follow_pte
<1>6. w.pc = "walk" /\ w.area = counter.area /\ w.page = counter.page /\ w.phy = n
  BY <1>0, CounterPlace DEF CounterFields
<1>7. w \in CounterFields
  <2> HIDE DEF n, u
  <2> QED
    BY <1>3, CounterPlace DEF CounterFields
<1>8. ~Passed(here)
  BY CounterPlace DEF Passed
<1> DEFINE bound == areas[counter.area].vm_end
<1>9. bound \in Int /\ counter.page <= bound /\ counter.page >= areas[counter.area].vm_start
  BY <1>1, CounterPlace DEF Visited
<1>10. ASSUME NEW v \in Visits
       PROVE  /\ v[1] \in Nat /\ v[1] <= Len(areas) /\ v[2] \in Int
              /\ v[2] >= areas[v[1]].vm_start /\ v[2] <= areas[v[1]].vm_end
              /\ v = <<v[1], v[2]>>
  <2>1. v \in (1 .. Len(areas)) \X Page /\ v[2] \in Visited(areas[v[1]])
    BY <1>4 DEF Visits
  <2>2. v[1] \in 1 .. Len(areas) /\ v = <<v[1], v[2]>>
    BY <2>1
  <2> QED
    BY <2>1, <2>2, CounterPlace DEF Visited
<1>11. /\ IsFiniteSet(Done) /\ Cardinality(Done) \in Nat
       /\ IsFiniteSet(Coming) /\ Cardinality(Coming) \in Nat
       /\ IsFiniteSet(Visits) /\ Cardinality(Visits) \in Nat
  <2>1. Done \subseteq (1 .. Len(areas)) \X Page /\ Coming \subseteq (1 .. Len(areas)) \X Page
    BY <1>4, VisitsOf
  <2> QED
    BY <1>4, <2>1, VisitsFinite, CounterPlace
<1> HIDE DEF w, n, u, here, bound
\* The sets after the page, when the round goes on.
<1>12. ASSUME counter'.pc = "walk", counter'.phy = n,
              counter'.area > 0, counter'.page \in Visited(areas[counter'.area]),
              \A v \in Visits : Passed(v)' <=> Passed(v) \/ v = here
       PROVE  RInv'
  <2>1. CASE here \in Visits
    <3>1. Done' = Done \cup {here} /\ Coming' = Coming \ {here}
      BY <1>4, <1>12, <2>1 DEF Done, Coming
    <3>2. here \notin Done /\ here \in Coming
      BY <1>8, <2>1 DEF Done, Coming
    <3>3. Cardinality(Done') = Cardinality(Done) + 1
          /\ Cardinality(Coming') = Cardinality(Coming) - 1
      BY <1>11, <3>1, <3>2, FS_AddElement, FS_RemoveElement
    <3> QED
      BY SMTT(45), <1>0, <1>5, <1>11, <1>12, <2>1, <3>3, CounterPlace DEF RInv, RssBracket, space
  <2>2. CASE here \notin Visits
    <3>1. Done' = Done /\ Coming' = Coming
      BY <1>4, <1>12, <2>2 DEF Done, Coming
    <3> QED
      BY <1>0, <1>5, <1>11, <1>12, <2>2, <3>1, CounterPlace DEF RInv, RssBracket, space
  <2> QED
    BY <2>1, <2>2
<1>13. \/ /\ counter.page < bound
          /\ counter' = [w EXCEPT !.page = w.page + 1]
       \/ /\ counter.page >= bound /\ counter.area < Len(areas)
          /\ counter' = [w EXCEPT !.area = w.area + 1, !.page = areas[w.area + 1].vm_start]
       \/ /\ counter.page >= bound /\ counter.area = Len(areas)
          /\ counter' = [w EXCEPT !.area = 0, !.page = 0, !.pc = "sleep"]
  <2>1. w.area \in Nat /\ w.area <= Len(areas) /\ w.area > 0 /\ w.page \in Int
    BY <1>1, <1>6, CounterPlace
  <2>2. bound = areas[w.area].vm_end
    BY <1>6 DEF bound
  <2> QED
    BY <1>1, <1>2, <1>6, <2>1, <2>2, AfterMoves
<1>14. CASE counter.page < bound /\ counter' = [w EXCEPT !.page = w.page + 1]
  <2>1. /\ counter'.pc = "walk" /\ counter'.phy = n /\ counter'.area = counter.area
        /\ counter'.page = counter.page + 1
    BY <1>6, <1>7, <1>14 DEF CounterFields
  <2>2. counter'.page \in Visited(areas[counter'.area])
    BY <1>1, <1>9, <1>14, <2>1, CounterPlace DEF Visited, bound
  <2>3. ASSUME NEW v \in Visits PROVE Passed(v)' <=> Passed(v) \/ v = here
    BY <1>10, <2>1, CounterPlace DEF Passed, here
  <2> QED
    BY <1>1, <1>12, <2>1, <2>2, <2>3
<1>15. CASE /\ counter.page >= bound /\ counter.area < Len(areas)
            /\ counter' = [w EXCEPT !.area = w.area + 1, !.page = areas[w.area + 1].vm_start]
  <2>1. /\ counter'.pc = "walk" /\ counter'.phy = n /\ counter'.area = counter.area + 1
        /\ counter'.page = areas[counter.area + 1].vm_start
    BY <1>6, <1>7, <1>15 DEF CounterFields
  <2>2. counter'.page \in Visited(areas[counter'.area])
    BY <1>1, <1>15, <2>1, CounterPlace DEF Visited
  <2>3. ASSUME NEW v \in Visits PROVE Passed(v)' <=> Passed(v) \/ v = here
    <3>1. v[1] = counter.area + 1 => v[2] >= counter'.page
      BY <1>10, <2>1
    <3>2. v[1] = counter.area => v[2] <= counter.page
      <4>1. v[1] = counter.area => v[2] <= bound
        BY <1>10 DEF bound
      <4>2. counter.page >= bound
        BY <1>15
      <4>3. bound \in Int /\ v[2] \in Int /\ counter.page \in Int
        BY <1>9, <1>10, CounterPlace
      <4> QED
        BY <4>1, <4>2, <4>3
    <3>3. v = here <=> v[1] = counter.area /\ v[2] = counter.page
      BY <1>10 DEF here
    <3>4. v[1] \in Nat /\ v[2] \in Int /\ counter'.page \in Int
      BY <1>10, <1>15, <2>1, CounterPlace
    <3> QED
      BY <2>1, <3>1, <3>2, <3>3, <3>4, CounterPlace DEF Passed
  <2> QED
    BY <1>1, <1>12, <2>1, <2>2, <2>3
<1>16. CASE /\ counter.page >= bound /\ counter.area = Len(areas)
            /\ counter' = [w EXCEPT !.area = 0, !.page = 0, !.pc = "sleep"]
  <2>1. counter'.pc = "sleep" /\ counter'.phy = n /\ counter'.area = 0
    BY <1>6, <1>7, <1>16 DEF CounterFields
  <2>2. ASSUME NEW v \in Visits PROVE Passed(v) \/ v = here
    BY <1>1, <1>9, <1>10, <1>16, CounterPlace DEF Passed, here, bound
  <2>3. Counted' = Cardinality(Visits)
    BY <1>4 DEF Counted
  <2>4. CASE here \in Visits
    <3>1. Done \cup {here} = Visits /\ Coming = {here} /\ here \notin Done
      BY <1>8, <2>2, <2>4 DEF Done, Coming
    <3>2. Cardinality(Visits) = Cardinality(Done) + 1 /\ Cardinality(Coming) = 1
      BY <1>11, <3>1, FS_AddElement, FS_Singleton
    <3> QED
      BY <1>0, <1>5, <1>11, <2>1, <2>3, <2>4, <3>2, CounterPlace DEF RInv, RssBracket, space
  <2>5. CASE here \notin Visits
    <3>1. Done = Visits /\ Coming = {}
      BY <2>2, <2>5 DEF Done, Coming
    <3>2. Cardinality(Coming) = 0
      BY <3>1, FS_EmptySet
    <3> QED
      BY <1>0, <1>5, <1>11, <2>1, <2>3, <2>5, <3>1, <3>2, CounterPlace DEF RInv, RssBracket, space
  <2> QED
    BY <2>4, <2>5
<1> QED
  BY <1>13, <1>14, <1>15, <1>16

\* Every step keeps the brackets of the count.
LEMMA CountKept ==
  ASSUME WatchAssumption, WatchInv, RInv, WatchInv', [WatchNext]_watchVars
  PROVE  RInv'
<1>1. CASE UNCHANGED watchVars
  BY <1>1 DEF watchVars, space, history, RInv, RssBracket, Counted, Done, Coming, Visits, Passed,
     Resident, Visited
<1>2. CASE WatchNext
  BY <1>2, OthersCount, CountRoundCount, CountPageCount DEF WatchNext, Counter
<1> QED
  BY <1>1, <1>2

\* wss5.c hides pages from their process and not from rss2.c, and the loops of rss2.c count
\* every page of every area once.
THEOREM ResidentSetSound == ASSUME WatchAssumption PROVE WatchSpec => []RssSound
<1>1. WatchInit => WatchInv /\ RInv
  BY InitWatch, InitCount
<1>2. WatchInv /\ RInv /\ [WatchNext]_watchVars => WatchInv' /\ RInv'
  BY InvKept, CountKept
<1>3. WatchInv /\ RInv => RssSound
  BY DEF WatchInv, PInv, RInv, RssSound
<1> QED
  BY <1>1, <1>2, <1>3, PTL DEF WatchSpec
=============================================================================
