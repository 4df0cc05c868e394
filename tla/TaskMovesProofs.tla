-------------------------- MODULE TaskMovesProofs ---------------------------
(***************************************************************************)
(* About TaskMoves for every number of tasks, CPUs and calls: no task is   *)
(* lost or left on a CPU that went down, none is queued where it may not   *)
(* run, the NUMA counts are exact, and two equal results of                *)
(* wait_task_inactive mean that the task did not run in between.           *)
(***************************************************************************)
EXTENDS TaskMoves, FiniteSetTheorems, TLAPS

-----------------------------------------------------------------------------
(* Types                                                                   *)

TaskFields == [cpu : CPU, wake_cpu : CPU, allowed : SUBSET CPU, pref : CPU, nvcsw : Nat,
               state : {"RUNNING", "UNINTERRUPTIBLE", "WAKING"}]
RqFields == [queue : SUBSET Task, curr : Task \cup {None}, numa : Int, wl : SUBSET Task]
States == [task : [Task -> TaskFields], rqs : [CPU -> RqFields]]

\* What a caller keeps between its steps.
Swaps == [op : {"swap"}, at : {"read", "stop"}, with : Task, src : CPU, dst : CPU]
Moves == [op : {"move"}, at : {"read", "stop"}, src : CPU \cup {None}, dst : CPU,
          first : BOOLEAN]
Yields == [op : {"yield"}, at : {"read"}, to : Task, p_rq : CPU]
AllCalls == Swaps \cup Moves \cup Yields

TypeOK ==
    /\ task \in [Task -> TaskFields] /\ rqs \in [CPU -> RqFields]
    /\ online \in SUBSET CPU /\ active \in SUBSET CPU /\ going \in CPU \cup {None}
    /\ call \in [Task -> AllCalls \cup {None}]
    /\ wait \in [rq : CPU \cup {None}, first : Nat \cup {NotYet}, second : Nat \cup {NotYet}]
    /\ ran \in BOOLEAN

-----------------------------------------------------------------------------
(* The invariant: parts about tasks t and run queues r, and CPUs on.       *)

\* A task is on the queue or on the wake list of its own CPU, if on any.
AtHome(t, r) ==
    /\ \A p \in Task, c \in CPU : p \in r[c].queue \cup r[c].wl => t[p].cpu = c
    /\ \A c \in CPU : r[c].queue \cap r[c].wl = {}

\* A runnable task is queued, one that is being woken is on a wake list.
Kept(t, r) ==
    \A p \in Task : /\ t[p].state = "RUNNING" => p \in r[t[p].cpu].queue
                    /\ t[p].state = "WAKING" <=> p \in r[t[p].cpu].wl

\* Only CPUs that are online have tasks, and these may run there.
UsableBy(t, r, on, p) ==
    p \in r[t[p].cpu].queue \cup r[t[p].cpu].wl => t[p].cpu \in on \cap t[p].allowed
Usable(t, r, on) == \A p \in Task : UsableBy(t, r, on, p)

Current(r) == \A c \in CPU : r[c].curr \in r[c].queue \cup {None}

Counted(t, r) ==
    \A c \in CPU : r[c].numa = Cardinality({p \in r[c].queue : t[p].pref = c})

Sound(t, r, on) == /\ AtHome(t, r) /\ Kept(t, r) /\ Usable(t, r, on)
                   /\ Current(r) /\ Counted(t, r)

\* An active CPU is online, and so is one on its way down.
MasksOK == active \subseteq online /\ (going # None => going \in online \ active)

\* Between the stopping of two CPUs and the swap neither goes down: the works that
\* take it down come after.
SwapsHeld ==
    \A p \in Task : Stopping(p) /\ call[p].op = "swap" =>
                        {call[p].src, call[p].dst} \subseteq online

\* What the first result of wait_task_inactive says of the present: a task that ran
\* since is still queued or has been switched out once more.
Waited ==
    /\ wait.first = NotYet => wait.second = NotYet
    /\ wait.rq # None => wait.second = NotYet /\ wait.first # 0
    /\ wait.first > 0 => wait.first <= task[Watched].nvcsw + 1
    /\ Between /\ ran => Queued(Watched) \/ wait.first < task[Watched].nvcsw + 1
    /\ TwoCallsAgree

MInv == TypeOK /\ Sound(task, rqs, online) /\ MasksOK /\ SwapsHeld /\ Waited

-----------------------------------------------------------------------------
(* Effects                                                                 *)

\* The shape of a run queue after an effect: its queue, and the rest as before.
SameRest(r, e) == \A c \in CPU : e[c].curr = r[c].curr /\ e[c].wl = r[c].wl

LEMMA NowTypes == ASSUME TypeOK PROVE Now \in States
BY DEF TypeOK, Now, States

LEMMA EnqueueShape ==
  ASSUME NEW s \in States, NEW p \in Task
  PROVE  LET e == EnqueueTask(s, p)
             c == s.task[p].cpu
         IN /\ e \in States /\ e.task = s.task /\ c \in CPU /\ SameRest(s.rqs, e.rqs)
            /\ \A d \in CPU \ {c} : e.rqs[d] = s.rqs[d]
            /\ e.rqs[c].queue = s.rqs[c].queue \cup {p}
            /\ e.rqs[c].numa = s.rqs[c].numa + (IF s.task[p].pref = c THEN 1 ELSE 0)
<1> DEFINE c == s.task[p].cpu
           n == IF s.task[p].pref = c THEN 1 ELSE 0
           r == s.rqs[c]
           new == [r EXCEPT !.queue = @ \cup {p}, !.numa = @ + n]
<1>1. c \in CPU /\ s.task \in [Task -> TaskFields] /\ s.rqs \in [CPU -> RqFields]
      /\ n \in Int /\ r \in RqFields
  BY DEF States, TaskFields
<1>2. /\ new \in RqFields /\ new.queue = r.queue \cup {p} /\ new.numa = r.numa + n
      /\ new.curr = r.curr /\ new.wl = r.wl
  <2> HIDE DEF n, c, r
  <2>1. r.queue \cup {p} \in SUBSET Task /\ r.numa + n \in Int
    BY <1>1 DEF RqFields
  <2>2. new \in RqFields
    BY <1>1, <2>1 DEF RqFields
  <2>3. /\ new.queue = r.queue \cup {p} /\ new.numa = r.numa + n
        /\ new.curr = r.curr /\ new.wl = r.wl
    BY <1>1 DEF RqFields
  <2> QED
    BY <2>2, <2>3
<1>3. EnqueueTask(s, p) = [task |-> s.task, rqs |-> [s.rqs EXCEPT ![c] = new]]
  BY <1>1 DEF EnqueueTask, Prefers, States
<1>4. /\ EnqueueTask(s, p).task = s.task
      /\ EnqueueTask(s, p).rqs = [s.rqs EXCEPT ![c] = new]
  BY <1>3
<1> HIDE DEF new
<1> QED
  BY <1>1, <1>2, <1>3, <1>4 DEF States, SameRest

LEMMA DequeueShape ==
  ASSUME NEW s \in States, NEW p \in Task
  PROVE  LET e == DequeueTask(s, p)
             c == s.task[p].cpu
         IN /\ e \in States /\ e.task = s.task /\ c \in CPU /\ SameRest(s.rqs, e.rqs)
            /\ \A d \in CPU \ {c} : e.rqs[d] = s.rqs[d]
            /\ e.rqs[c].queue = s.rqs[c].queue \ {p}
            /\ e.rqs[c].numa = s.rqs[c].numa - (IF s.task[p].pref = c THEN 1 ELSE 0)
<1> DEFINE c == s.task[p].cpu
           n == IF s.task[p].pref = c THEN 1 ELSE 0
           r == s.rqs[c]
           new == [r EXCEPT !.queue = @ \ {p}, !.numa = @ - n]
<1>1. c \in CPU /\ s.task \in [Task -> TaskFields] /\ s.rqs \in [CPU -> RqFields]
      /\ n \in Int /\ r \in RqFields
  BY DEF States, TaskFields
<1>2. /\ new \in RqFields /\ new.queue = r.queue \ {p} /\ new.numa = r.numa - n
      /\ new.curr = r.curr /\ new.wl = r.wl
  <2> HIDE DEF n, c, r
  <2>1. r.queue \ {p} \in SUBSET Task /\ r.numa - n \in Int
    BY <1>1 DEF RqFields
  <2>2. new \in RqFields
    BY <1>1, <2>1 DEF RqFields
  <2>3. /\ new.queue = r.queue \ {p} /\ new.numa = r.numa - n
        /\ new.curr = r.curr /\ new.wl = r.wl
    BY <1>1 DEF RqFields
  <2> QED
    BY <2>2, <2>3
<1>3. DequeueTask(s, p) = [task |-> s.task, rqs |-> [s.rqs EXCEPT ![c] = new]]
  BY <1>1 DEF DequeueTask, Prefers, States
<1>4. /\ DequeueTask(s, p).task = s.task
      /\ DequeueTask(s, p).rqs = [s.rqs EXCEPT ![c] = new]
  BY <1>3
<1> HIDE DEF new
<1> QED
  BY <1>1, <1>2, <1>3, <1>4 DEF States, SameRest

\* The fields of a task that is put on c.
PutOn(r, c) == [r EXCEPT !.cpu = c, !.wake_cpu = c]

LEMMA SetTaskCpuShape ==
  ASSUME NEW s \in States, NEW p \in Task, NEW c \in CPU
  PROVE  LET e == SetTaskCpu(s, p, c)
         IN /\ e \in States /\ e.rqs = s.rqs
            /\ e.task = [s.task EXCEPT ![p] = PutOn(s.task[p], c)]
<1> DEFINE r == s.task[p]
           new == [r EXCEPT !.cpu = c, !.wake_cpu = c]
<1>1. r \in TaskFields /\ s.task \in [Task -> TaskFields] /\ s.rqs \in [CPU -> RqFields]
  BY DEF States
<1>2. new \in TaskFields
  BY <1>1 DEF TaskFields
<1>3. SetTaskCpu(s, p, c) = [task |-> [s.task EXCEPT ![p] = new], rqs |-> s.rqs]
  BY <1>1 DEF SetTaskCpu, States
<1>4. SetTaskCpu(s, p, c).task = [s.task EXCEPT ![p] = new] /\ SetTaskCpu(s, p, c).rqs = s.rqs
  BY <1>3
<1> HIDE DEF new
<1>5. SetTaskCpu(s, p, c) \in States
  BY <1>1, <1>2, <1>3 DEF States
<1> QED
  BY <1>4, <1>5 DEF new, PutOn

LEMMA VacateShape ==
  ASSUME NEW s \in States, NEW C
  PROVE  LET e == Vacate(s, C)
         IN /\ e \in States /\ e.task = s.task
            /\ \A c \in CPU : /\ e.rqs[c].queue = s.rqs[c].queue /\ e.rqs[c].wl = s.rqs[c].wl
                              /\ e.rqs[c].numa = s.rqs[c].numa
                              /\ e.rqs[c].curr = IF c \in C THEN None ELSE s.rqs[c].curr
<1>1. ASSUME NEW c \in CPU
      PROVE  [s.rqs[c] EXCEPT !.curr = None] \in RqFields
  BY DEF States, RqFields
<1> QED
  BY <1>1 DEF Vacate, States, RqFields

Having(Q, f, c) == {q \in Q : f[q] = c}

\* What one more and one less add to a count.
LEMMA CountOne ==
  ASSUME MovesAssumption, NEW Q \in SUBSET Task, NEW f \in [Task -> CPU], NEW c,
         NEW p \in Task
  PROVE  /\ IsFiniteSet(Having(Q, f, c)) /\ Cardinality(Having(Q, f, c)) \in Nat
         /\ p \notin Q => Cardinality(Having(Q \cup {p}, f, c))
                            = Cardinality(Having(Q, f, c)) + (IF f[p] = c THEN 1 ELSE 0)
         /\ p \in Q => Cardinality(Having(Q \ {p}, f, c))
                         = Cardinality(Having(Q, f, c)) - (IF f[p] = c THEN 1 ELSE 0)
<1> USE DEF Having
<1> DEFINE S == {q \in Q : f[q] = c}
<1>1. IsFiniteSet(Task)
  BY DEF MovesAssumption
<1>2. IsFiniteSet(S) /\ Cardinality(S) \in Nat
  BY <1>1, FS_Subset, FS_CardinalityType
<1>3. ASSUME p \notin Q
      PROVE  Cardinality({q \in Q \cup {p} : f[q] = c}) = Cardinality(S) + (IF f[p] = c THEN 1 ELSE 0)
  <2>1. CASE f[p] = c
    <3>1. {q \in Q \cup {p} : f[q] = c} = S \cup {p} /\ p \notin S
      BY <1>3, <2>1
    <3> QED
      BY <1>2, <2>1, <3>1, FS_AddElement
  <2>2. CASE f[p] # c
    <3>1. {q \in Q \cup {p} : f[q] = c} = S
      BY <2>2
    <3> QED
      BY <1>2, <2>2, <3>1
  <2> QED
    BY <2>1, <2>2
<1>4. ASSUME p \in Q
      PROVE  Cardinality({q \in Q \ {p} : f[q] = c}) = Cardinality(S) - (IF f[p] = c THEN 1 ELSE 0)
  <2>1. CASE f[p] = c
    <3>1. {q \in Q \ {p} : f[q] = c} = S \ {p} /\ p \in S
      BY <1>4, <2>1
    <3> HIDE DEF S
    <3>2. Cardinality(S \ {p}) = Cardinality(S) - 1
      BY <1>2, <3>1, FS_RemoveElement
    <3> QED
      BY <1>2, <2>1, <3>1, <3>2
  <2>2. CASE f[p] # c
    <3>1. {q \in Q \ {p} : f[q] = c} = S
      BY <2>2
    <3> QED
      BY <1>2, <2>2, <3>1
  <2> QED
    BY <2>1, <2>2
<1> QED
  BY <1>2, <1>3, <1>4

-----------------------------------------------------------------------------
(* Counts                                                                  *)

LEMMA CountedSame ==
  ASSUME NEW s \in States, NEW e \in States, Counted(s.task, s.rqs),
         \A c \in CPU : /\ e.rqs[c].queue = s.rqs[c].queue /\ e.rqs[c].numa = s.rqs[c].numa
                        /\ \A p \in e.rqs[c].queue : e.task[p].pref = s.task[p].pref
  PROVE  Counted(e.task, e.rqs)
<1>1. ASSUME NEW c \in CPU
      PROVE  {p \in e.rqs[c].queue : e.task[p].pref = c} = {p \in s.rqs[c].queue : s.task[p].pref = c}
  OBVIOUS
<1> QED
  BY <1>1 DEF Counted

LEMMA EnqueueCounts ==
  ASSUME MovesAssumption, NEW s \in States, NEW p \in Task, Counted(s.task, s.rqs),
         p \notin s.rqs[s.task[p].cpu].queue
  PROVE  Counted(EnqueueTask(s, p).task, EnqueueTask(s, p).rqs)
<1> DEFINE e == EnqueueTask(s, p)
           c == s.task[p].cpu
           f == [q \in Task |-> s.task[q].pref]
           Q == s.rqs[c].queue
<1>1. /\ e.task = s.task /\ c \in CPU /\ \A d \in CPU \ {c} : e.rqs[d] = s.rqs[d]
      /\ e.rqs[c].queue = Q \cup {p}
      /\ e.rqs[c].numa = s.rqs[c].numa + (IF s.task[p].pref = c THEN 1 ELSE 0)
  BY EnqueueShape
<1>2. f \in [Task -> CPU] /\ Q \in SUBSET Task
  BY <1>1 DEF States, TaskFields, RqFields
<1>3. /\ {q \in Q : s.task[q].pref = c} = Having(Q, f, c)
      /\ {q \in Q \cup {p} : s.task[q].pref = c} = Having(Q \cup {p}, f, c)
      /\ f[p] = s.task[p].pref
  BY SMTT(45), <1>2 DEF Having
<1>4. s.rqs[c].numa = Cardinality(Having(Q, f, c))
  BY <1>1, <1>3 DEF Counted
<1>5. Cardinality(Having(Q \cup {p}, f, c))
        = Cardinality(Having(Q, f, c)) + (IF f[p] = c THEN 1 ELSE 0)
  <2>1. p \notin Q
    BY SMTT(45)
  <2> HIDE DEF f, Q, c
  <2> QED
    BY <1>2, <2>1, CountOne
<1>6. e.rqs[c].numa = Cardinality({q \in e.rqs[c].queue : e.task[q].pref = c})
  BY ZenonT(45), <1>1, <1>3, <1>4, <1>5
<1> HIDE DEF e, f, Q
<1>7. ASSUME NEW d \in CPU \ {c}
      PROVE  e.rqs[d].numa = Cardinality({q \in e.rqs[d].queue : e.task[q].pref = d})
  BY <1>1 DEF Counted
<1> HIDE DEF c
<1>8. \A d \in CPU : e.rqs[d].numa = Cardinality({q \in e.rqs[d].queue : e.task[q].pref = d})
  BY <1>6, <1>7
<1> QED
  BY <1>8 DEF Counted, e

LEMMA DequeueCounts ==
  ASSUME MovesAssumption, NEW s \in States, NEW p \in Task, Counted(s.task, s.rqs),
         p \in s.rqs[s.task[p].cpu].queue
  PROVE  Counted(DequeueTask(s, p).task, DequeueTask(s, p).rqs)
<1> DEFINE e == DequeueTask(s, p)
           c == s.task[p].cpu
           f == [q \in Task |-> s.task[q].pref]
           Q == s.rqs[c].queue
<1>1. /\ e.task = s.task /\ c \in CPU /\ \A d \in CPU \ {c} : e.rqs[d] = s.rqs[d]
      /\ e.rqs[c].queue = Q \ {p}
      /\ e.rqs[c].numa = s.rqs[c].numa - (IF s.task[p].pref = c THEN 1 ELSE 0)
  BY DequeueShape
<1>2. f \in [Task -> CPU] /\ Q \in SUBSET Task
  BY <1>1 DEF States, TaskFields, RqFields
<1>3. /\ {q \in Q : s.task[q].pref = c} = Having(Q, f, c)
      /\ {q \in Q \ {p} : s.task[q].pref = c} = Having(Q \ {p}, f, c)
      /\ f[p] = s.task[p].pref
  BY SMTT(45), <1>2 DEF Having
<1>4. s.rqs[c].numa = Cardinality(Having(Q, f, c))
  BY <1>1, <1>3 DEF Counted
<1>5. Cardinality(Having(Q \ {p}, f, c))
        = Cardinality(Having(Q, f, c)) - (IF f[p] = c THEN 1 ELSE 0)
  <2>1. p \in Q
    BY SMTT(45)
  <2> HIDE DEF f, Q, c
  <2> QED
    BY <1>2, <2>1, CountOne
<1>6. e.rqs[c].numa = Cardinality({q \in e.rqs[c].queue : e.task[q].pref = c})
  BY ZenonT(45), <1>1, <1>3, <1>4, <1>5
<1> HIDE DEF e, f, Q
<1>7. ASSUME NEW d \in CPU \ {c}
      PROVE  e.rqs[d].numa = Cardinality({q \in e.rqs[d].queue : e.task[q].pref = d})
  BY <1>1 DEF Counted
<1> HIDE DEF c
<1>8. \A d \in CPU : e.rqs[d].numa = Cardinality({q \in e.rqs[d].queue : e.task[q].pref = d})
  BY <1>6, <1>7
<1> QED
  BY <1>8 DEF Counted, e

-----------------------------------------------------------------------------
(* Moving a queued task                                                    *)

In(s, p) == p \in s.rqs[s.task[p].cpu].queue

\* Who leaves the queues has been switched out.
Steady(s, e) ==
    \A p \in Task : /\ e.task[p].nvcsw >= s.task[p].nvcsw
                    /\ In(s, p) => In(e, p) \/ e.task[p].nvcsw > s.task[p].nvcsw

\* p is on the queue of c and on no other; the rest is as before.
Moved(s, e, p, c) ==
    /\ e \in States
    /\ e.task = [s.task EXCEPT ![p] = PutOn(s.task[p], c)]
    /\ SameRest(s.rqs, e.rqs) /\ p \in e.rqs[c].queue
    /\ \A d \in CPU : e.rqs[d].queue \ {p} = s.rqs[d].queue \ {p}
    /\ \A d \in CPU \ {c} : p \notin e.rqs[d].queue

LEMMA MoveShape ==
  ASSUME MovesAssumption, NEW s \in States, NEW p \in Task, NEW c \in CPU,
         AtHome(s.task, s.rqs), Counted(s.task, s.rqs), In(s, p)
  PROVE  Moved(s, MoveQueued(s, p, c), p, c)
         /\ Counted(MoveQueued(s, p, c).task, MoveQueued(s, p, c).rqs)
<1> DEFINE x == DequeueTask(s, p)
           y == SetTaskCpu(x, p, c)
           z == EnqueueTask(y, p)
           b == s.task[p].cpu
<1>1. /\ x \in States /\ x.task = s.task /\ b \in CPU /\ SameRest(s.rqs, x.rqs)
      /\ \A d \in CPU \ {b} : x.rqs[d] = s.rqs[d]
      /\ x.rqs[b].queue = s.rqs[b].queue \ {p}
  BY DequeueShape
<1>2. \A d \in CPU : p \notin x.rqs[d].queue
  BY <1>1 DEF AtHome
<1>3. Counted(x.task, x.rqs)
  BY DequeueCounts DEF In
<1>4. /\ y \in States /\ y.rqs = x.rqs
      /\ y.task = [s.task EXCEPT ![p] = PutOn(s.task[p], c)]
  <2> HIDE DEF x
  <2>1. /\ y \in States /\ y.rqs = x.rqs
        /\ y.task = [x.task EXCEPT ![p] = PutOn(x.task[p], c)]
    BY <1>1, SetTaskCpuShape
  <2> QED
    BY <1>1, <2>1
<1>5. /\ s.task \in [Task -> TaskFields] /\ s.task[p] \in TaskFields
      /\ \A d \in CPU : x.rqs[d].queue \subseteq Task
  <2> HIDE DEF x
  <2> QED
    BY <1>1 DEF States, RqFields
<1>6. y.task[p].cpu = c /\ \A q \in Task : y.task[q].pref = s.task[q].pref
  <2> HIDE DEF x, y
  <2> QED
    BY <1>4, <1>5 DEF TaskFields, PutOn
<1>7. Counted(y.task, y.rqs)
  <2> HIDE DEF x, y
  <2>1. \A d \in CPU : /\ y.rqs[d].queue = x.rqs[d].queue /\ y.rqs[d].numa = x.rqs[d].numa
                       /\ \A q \in y.rqs[d].queue : y.task[q].pref = x.task[q].pref
    BY <1>1, <1>4, <1>5, <1>6
  <2> QED
    BY <1>1, <1>3, <1>4, <2>1, CountedSame
<1>8. /\ z \in States /\ z.task = y.task /\ SameRest(y.rqs, z.rqs)
      /\ \A d \in CPU \ {c} : z.rqs[d] = y.rqs[d]
      /\ z.rqs[c].queue = y.rqs[c].queue \cup {p}
      /\ Counted(z.task, z.rqs)
  <2> HIDE DEF x, y
  <2> QED
    BY <1>2, <1>4, <1>6, <1>7, EnqueueShape, EnqueueCounts
<1>9. z = MoveQueued(s, p, c)
  BY DEF MoveQueued
<1> HIDE DEF x, y, z
<1>10. SameRest(s.rqs, z.rqs)
  BY <1>1, <1>4, <1>8 DEF SameRest
<1>11. \A d \in CPU : z.rqs[d].queue \ {p} = s.rqs[d].queue \ {p}
  BY <1>1, <1>4, <1>8
<1>12. p \in z.rqs[c].queue /\ \A d \in CPU \ {c} : p \notin z.rqs[d].queue
  BY <1>2, <1>4, <1>8
<1> QED
  BY <1>4, <1>8, <1>9, <1>10, <1>11, <1>12 DEF Moved

-----------------------------------------------------------------------------
(* Effects that keep the invariant                                         *)

LEMMA SteadySelf == ASSUME NEW s \in States PROVE Steady(s, s)
BY DEF Steady, States, TaskFields

LEMMA SteadyTrans ==
  ASSUME NEW s \in States, NEW t \in States, NEW e \in States, Steady(s, t), Steady(t, e)
  PROVE  Steady(s, e)
<1>1. \A p \in Task : /\ s.task[p].nvcsw \in Nat /\ t.task[p].nvcsw \in Nat
                      /\ e.task[p].nvcsw \in Nat
  BY DEF States, TaskFields
<1> QED
  BY <1>1 DEF Steady

\* The queues are the same; a CPU may have left its task.
SameQueues(s, e) ==
    \A c \in CPU : /\ e.rqs[c].queue = s.rqs[c].queue /\ e.rqs[c].wl = s.rqs[c].wl
                   /\ e.rqs[c].curr \in {s.rqs[c].curr, None}

LEMMA SameSound ==
  ASSUME NEW s \in States, NEW e \in States, NEW on, Sound(s.task, s.rqs, on),
         SameQueues(s, e),
         \A p \in Task : e.task[p].cpu = s.task[p].cpu /\ e.task[p].nvcsw = s.task[p].nvcsw,
         Kept(e.task, e.rqs), Usable(e.task, e.rqs, on), Counted(e.task, e.rqs)
  PROVE  Sound(e.task, e.rqs, on) /\ Steady(s, e)
<1>1. \A p \in Task : s.task[p].cpu \in CPU /\ s.task[p].nvcsw \in Nat
  BY DEF States, TaskFields
<1>2. AtHome(e.task, e.rqs)
  BY DEF AtHome, SameQueues, Sound
<1>3. Current(e.rqs)
  BY DEF Current, SameQueues, Sound
<1>4. Steady(s, e)
  BY <1>1 DEF Steady, SameQueues, In
<1> QED
  BY <1>2, <1>3, <1>4 DEF Sound

\* Who is moved is on a queue before and after, and on no wake list.
LEMMA MovedSound ==
  ASSUME MovesAssumption, NEW s \in States, NEW e \in States, NEW on,
         NEW p \in Task, NEW c \in CPU,
         Moved(s, e, p, c), Counted(e.task, e.rqs), In(s, p),
         AtHome(s.task, s.rqs), Kept(s.task, s.rqs), Current(s.rqs),
         \A q \in Task \ {p} : UsableBy(s.task, s.rqs, on, q),
         c \in on \cap s.task[p].allowed, \A d \in CPU : s.rqs[d].curr # p
  PROVE  Sound(e.task, e.rqs, on) /\ Steady(s, e)
<1>1. /\ \A q \in Task : s.task[q] \in TaskFields
      /\ \A d \in CPU : s.rqs[d] \in RqFields /\ e.rqs[d] \in RqFields
  BY DEF States
<1>2. /\ \A q \in Task \ {p} : e.task[q] = s.task[q]
      /\ e.task[p].cpu = c /\ e.task[p].state = s.task[p].state
      /\ e.task[p].allowed = s.task[p].allowed /\ e.task[p].nvcsw = s.task[p].nvcsw
  <2>1. e.task[p] = PutOn(s.task[p], c) /\ \A q \in Task \ {p} : e.task[q] = s.task[q]
    BY DEF Moved, States
  <2> QED
    BY <1>1, <2>1 DEF PutOn, TaskFields
<1>3. \A q \in Task : s.task[q].cpu \in CPU /\ s.task[q].nvcsw \in Nat
  BY <1>1 DEF TaskFields
<1>4. /\ \A d \in CPU : e.rqs[d].curr = s.rqs[d].curr /\ e.rqs[d].wl = s.rqs[d].wl
      /\ \A d \in CPU : e.rqs[d].queue \ {p} = s.rqs[d].queue \ {p}
      /\ \A d \in CPU \ {c} : p \notin e.rqs[d].queue
      /\ p \in e.rqs[c].queue
  BY DEF Moved, SameRest
<1>5. \A d \in CPU : s.rqs[d].queue \subseteq Task
  BY <1>1 DEF RqFields
<1>6. \A d \in CPU : p \notin s.rqs[d].wl
  BY <1>3 DEF AtHome, In
<1>7. AtHome(e.task, e.rqs)
  <2>1. ASSUME NEW q \in Task, NEW d \in CPU, q \in e.rqs[d].queue \cup e.rqs[d].wl
        PROVE  e.task[q].cpu = d
    BY <1>2, <1>4, <1>6, <2>1 DEF AtHome
  <2>2. ASSUME NEW d \in CPU PROVE e.rqs[d].queue \cap e.rqs[d].wl = {}
    BY <1>4, <1>6 DEF AtHome
  <2> QED
    BY <2>1, <2>2 DEF AtHome
<1>8. Kept(e.task, e.rqs)
  BY SMTT(45), <1>2, <1>3, <1>4, <1>6 DEF Kept
<1>9. Usable(e.task, e.rqs, on)
  BY SMTT(45), <1>2, <1>3, <1>4 DEF Usable, UsableBy
<1>10. Current(e.rqs)
  BY <1>4, <1>5 DEF Current
<1>11. Steady(s, e)
  BY <1>2, <1>3, <1>4 DEF Steady, In
<1> QED
  BY <1>7, <1>8, <1>9, <1>10, <1>11 DEF Sound

\* A task that is nowhere, as t has it, is put on the queue of its CPU.
LEMMA EnqueueSound ==
  ASSUME MovesAssumption, NEW s \in States, NEW t \in States, NEW on, NEW p \in Task,
         Sound(s.task, s.rqs, on), t.rqs = s.rqs,
         \A d \in CPU : p \notin s.rqs[d].queue \cup s.rqs[d].wl,
         \A q \in Task \ {p} : t.task[q] = s.task[q],
         t.task[p].nvcsw = s.task[p].nvcsw, t.task[p].state # "WAKING",
         t.task[p].cpu \in on \cap t.task[p].allowed
  PROVE  LET e == EnqueueTask(t, p)
         IN e \in States /\ Sound(e.task, e.rqs, on) /\ Steady(s, e)
<1> DEFINE e == EnqueueTask(t, p)
           c == t.task[p].cpu
<1>1. /\ e \in States /\ e.task = t.task /\ c \in CPU /\ SameRest(t.rqs, e.rqs)
      /\ \A d \in CPU \ {c} : e.rqs[d] = t.rqs[d]
      /\ e.rqs[c].queue = t.rqs[c].queue \cup {p}
  BY EnqueueShape
<1>2. \A d \in CPU : s.rqs[d].queue \subseteq Task
  BY DEF States, RqFields
<1>3. Counted(t.task, t.rqs)
  <2>1. \A d \in CPU : /\ t.rqs[d].queue = s.rqs[d].queue /\ t.rqs[d].numa = s.rqs[d].numa
                       /\ \A q \in t.rqs[d].queue : t.task[q].pref = s.task[q].pref
    BY <1>2
  <2> QED
    BY <2>1, CountedSame DEF Sound
<1>4. Counted(e.task, e.rqs)
  BY <1>1, <1>3, EnqueueCounts
<1> HIDE DEF e
<1>5. \A q \in Task : s.task[q].cpu \in CPU /\ s.task[q].nvcsw \in Nat
  BY DEF States, TaskFields
<1>6. AtHome(e.task, e.rqs)
  BY <1>1 DEF AtHome, Sound, SameRest
<1>7. Kept(e.task, e.rqs)
  BY SMTT(45), <1>1, <1>5 DEF Kept, Sound, SameRest
<1>8. Usable(e.task, e.rqs, on)
  BY SMTT(45), <1>1, <1>5 DEF Usable, UsableBy, Sound, SameRest
<1>9. Current(e.rqs)
  BY <1>1 DEF Current, Sound, SameRest
<1>10. Steady(s, e)
  BY <1>1, <1>5 DEF Steady, In
<1> QED
  BY <1>1, <1>4, <1>6, <1>7, <1>8, <1>9, <1>10 DEF Sound, e

\* The queues are the same but for p on the wake list of c.
SameQueuesBut(s, e, p, c) ==
    /\ \A d \in CPU : /\ e.rqs[d].queue = s.rqs[d].queue /\ e.rqs[d].curr = s.rqs[d].curr
                      /\ e.rqs[d].numa = s.rqs[d].numa
    /\ e.rqs[c].wl = s.rqs[c].wl \cup {p}
    /\ \A d \in CPU \ {c} : e.rqs[d].wl = s.rqs[d].wl

\* Such a task is put on the wake list of its CPU.
LEMMA WakeListSound ==
  ASSUME NEW s \in States, NEW e \in States, NEW on, NEW p \in Task, NEW c \in CPU,
         Sound(s.task, s.rqs, on),
         \A d \in CPU : p \notin s.rqs[d].queue \cup s.rqs[d].wl,
         \A q \in Task \ {p} : e.task[q] = s.task[q],
         e.task[p].nvcsw = s.task[p].nvcsw, e.task[p].state = "WAKING",
         e.task[p].cpu = c, c \in on \cap e.task[p].allowed,
         SameQueuesBut(s, e, p, c)
  PROVE  Sound(e.task, e.rqs, on) /\ Steady(s, e)
<1> USE DEF SameQueuesBut
<1>1. /\ \A d \in CPU : s.rqs[d].queue \subseteq Task
      /\ \A q \in Task : s.task[q].cpu \in CPU /\ s.task[q].nvcsw \in Nat
  BY DEF States, RqFields, TaskFields
<1>2. Counted(e.task, e.rqs)
  <2>1. \A d \in CPU : /\ e.rqs[d].queue = s.rqs[d].queue /\ e.rqs[d].numa = s.rqs[d].numa
                       /\ \A q \in e.rqs[d].queue : e.task[q].pref = s.task[q].pref
    BY <1>1
  <2> QED
    BY <2>1, CountedSame DEF Sound
<1>3. AtHome(e.task, e.rqs)
  BY DEF AtHome, Sound
<1>4. Kept(e.task, e.rqs)
  BY SMTT(45), <1>1 DEF Kept, Sound
<1>5. Usable(e.task, e.rqs, on)
  BY SMTT(45), <1>1 DEF Usable, UsableBy, Sound
<1>6. Current(e.rqs)
  BY DEF Current, Sound
<1>7. Steady(s, e)
  BY <1>1 DEF Steady, In
<1> QED
  BY <1>2, <1>3, <1>4, <1>5, <1>6, <1>7 DEF Sound

-----------------------------------------------------------------------------
(* Whole sets of tasks are queued                                          *)

LEMMA NumaTypes ==
  ASSUME MovesAssumption, NEW s, NEW P \in SUBSET Task, NEW c
  PROVE  NumaTasks(s, P, c) \in Nat /\ NumaTasks(s, {}, c) = 0
<1> DEFINE A == {p \in P : s.task[p].pref = c}
           B == {p \in {} : s.task[p].pref = c}
<1>1. A \in SUBSET Task /\ B = {}
  OBVIOUS
<1>2. NumaTasks(s, P, c) = Cardinality(A) /\ NumaTasks(s, {}, c) = Cardinality(B)
  BY DEF NumaTasks
<1> HIDE DEF A, B
<1>3. IsFiniteSet(A)
  BY <1>1, FS_Subset DEF MovesAssumption
<1> QED
  BY <1>1, <1>2, <1>3, FS_CardinalityType, FS_EmptySet

LEMMA NumaUnion ==
  ASSUME MovesAssumption, NEW s, NEW P \in SUBSET Task, NEW Q \in SUBSET Task,
         P \cap Q = {}, NEW c
  PROVE  NumaTasks(s, P \cup Q, c) = NumaTasks(s, P, c) + NumaTasks(s, Q, c)
<1> DEFINE A == {p \in P : s.task[p].pref = c}
           B == {p \in Q : s.task[p].pref = c}
           C == {p \in P \cup Q : s.task[p].pref = c}
<1>1. C = A \cup B /\ A \cap B = {} /\ A \in SUBSET Task /\ B \in SUBSET Task
  OBVIOUS
<1>2. /\ NumaTasks(s, P, c) = Cardinality(A) /\ NumaTasks(s, Q, c) = Cardinality(B)
      /\ NumaTasks(s, P \cup Q, c) = Cardinality(C)
  BY DEF NumaTasks
<1> HIDE DEF A, B, C
<1>3. IsFiniteSet(A) /\ IsFiniteSet(B)
  BY <1>1, FS_Subset DEF MovesAssumption
<1>4. Cardinality(A) \in Nat /\ Cardinality(B) \in Nat /\ Cardinality({}) = 0
  BY <1>3, FS_CardinalityType, FS_EmptySet
<1>5. Cardinality(A \cup B) = Cardinality(A) + Cardinality(B) - Cardinality(A \cap B)
  BY <1>3, FS_Union
<1>6. Cardinality(A \cap B) = 0 /\ Cardinality(C) = Cardinality(A \cup B)
  BY <1>1, <1>4
<1>7. Cardinality(C) = Cardinality(A) + Cardinality(B)
  BY <1>4, <1>5, <1>6
<1> QED
  BY <1>2, <1>7

\* The run queue without a wake list, and a task that is woken.
Drained(r, n) == [r EXCEPT !.wl = {}, !.queue = @ \cup r.wl, !.numa = @ + n]
Woken(r) == [r EXCEPT !.state = "RUNNING"]

LEMMA TtwuShape ==
  ASSUME MovesAssumption, NEW s \in States, NEW c \in CPU, AtHome(s.task, s.rqs)
  PROVE  LET e == TtwuPending(s, c)
             W == s.rqs[c].wl
         IN /\ e \in States
            /\ \A p \in Task : /\ e.task[p].cpu = s.task[p].cpu
                               /\ e.task[p].wake_cpu = s.task[p].wake_cpu
                               /\ e.task[p].pref = s.task[p].pref
                               /\ e.task[p].allowed = s.task[p].allowed
                               /\ e.task[p].nvcsw = s.task[p].nvcsw
                               /\ e.task[p].state = IF p \in W THEN "RUNNING"
                                                    ELSE s.task[p].state
            /\ \A d \in CPU : e.rqs[d].curr = s.rqs[d].curr
            /\ \A d \in CPU \ {c} : e.rqs[d] = s.rqs[d]
            /\ e.rqs[c].wl = {} /\ e.rqs[c].queue = s.rqs[c].queue \cup W
            /\ e.rqs[c].numa = s.rqs[c].numa + NumaTasks(s, W, c)
<1> DEFINE r == s.rqs[c]
           n == NumaTasks(s, r.wl, c)
           new == Drained(r, n)
           t == [p \in Task |-> IF p \in r.wl THEN Woken(s.task[p]) ELSE s.task[p]]
           q == [s.rqs EXCEPT ![c] = new]
<1>1. /\ r \in RqFields /\ r.queue \in SUBSET Task /\ r.wl \in SUBSET Task
      /\ s.task \in [Task -> TaskFields] /\ s.rqs \in [CPU -> RqFields]
  BY DEF States, RqFields
<1>2. n \in Nat
  <2> HIDE DEF r
  <2> QED
    BY <1>1, NumaTypes
<1>3. /\ new \in RqFields /\ new.wl = {} /\ new.queue = r.queue \cup r.wl
      /\ new.numa = r.numa + n /\ new.curr = r.curr
  <2> HIDE DEF n, r
  <2>1. r.queue \cup r.wl \in SUBSET Task /\ r.numa + n \in Int
    BY <1>1, <1>2 DEF RqFields
  <2>2. new \in RqFields
    BY <1>1, <2>1 DEF RqFields, Drained
  <2>3. /\ new.wl = {} /\ new.queue = r.queue \cup r.wl
        /\ new.numa = r.numa + n /\ new.curr = r.curr
    BY <1>1 DEF RqFields, Drained
  <2> QED
    BY <2>2, <2>3
<1>4. \A f \in TaskFields : /\ Woken(f) \in TaskFields /\ Woken(f).cpu = f.cpu
                            /\ Woken(f).wake_cpu = f.wake_cpu /\ Woken(f).pref = f.pref
                            /\ Woken(f).allowed = f.allowed /\ Woken(f).nvcsw = f.nvcsw
                            /\ Woken(f).state = "RUNNING"
  BY DEF Woken, TaskFields
<1>5. TtwuPending(s, c) = [task |-> t, rqs |-> q]
  BY DEF TtwuPending, Drained, Woken
<1>6. TtwuPending(s, c).task = t /\ TtwuPending(s, c).rqs = q
  BY <1>5
<1>7. t \in [Task -> TaskFields] /\ q \in [CPU -> RqFields]
  <2> HIDE DEF new, r
  <2> QED
    BY <1>1, <1>3, <1>4
<1>8. TtwuPending(s, c) \in States
  <2> HIDE DEF t, q
  <2> QED
    BY <1>5, <1>7 DEF States
<1>9. \A p \in Task : t[p] = IF p \in r.wl THEN Woken(s.task[p]) ELSE s.task[p]
  OBVIOUS
<1>10. q[c] = new /\ \A d \in CPU \ {c} : q[d] = s.rqs[d]
  <2> HIDE DEF new
  <2> QED
    BY <1>1
<1> HIDE DEF t, q, new, n
<1>11. \A p \in Task : /\ t[p].cpu = s.task[p].cpu /\ t[p].wake_cpu = s.task[p].wake_cpu
                       /\ t[p].pref = s.task[p].pref /\ t[p].allowed = s.task[p].allowed
                       /\ t[p].nvcsw = s.task[p].nvcsw
                       /\ t[p].state = IF p \in r.wl THEN "RUNNING" ELSE s.task[p].state
  <2> HIDE DEF r
  <2> QED
    BY <1>1, <1>4, <1>9
<1>12. \A d \in CPU : q[d].curr = s.rqs[d].curr
  BY <1>3, <1>10
<1> QED
  BY <1>3, <1>6, <1>8, <1>10, <1>11, <1>12 DEF n

LEMMA TtwuSound ==
  ASSUME MovesAssumption, NEW s \in States, NEW c \in CPU, NEW on, Sound(s.task, s.rqs, on)
  PROVE  LET e == TtwuPending(s, c)
         IN Sound(e.task, e.rqs, on) /\ Steady(s, e)
<1> DEFINE e == TtwuPending(s, c)
           W == s.rqs[c].wl
<1>1. /\ e \in States
      /\ \A p \in Task : /\ e.task[p].cpu = s.task[p].cpu /\ e.task[p].pref = s.task[p].pref
                         /\ e.task[p].allowed = s.task[p].allowed
                         /\ e.task[p].nvcsw = s.task[p].nvcsw
                         /\ e.task[p].state = IF p \in W THEN "RUNNING" ELSE s.task[p].state
      /\ \A d \in CPU : e.rqs[d].curr = s.rqs[d].curr
      /\ \A d \in CPU \ {c} : e.rqs[d] = s.rqs[d]
      /\ e.rqs[c].wl = {} /\ e.rqs[c].queue = s.rqs[c].queue \cup W
      /\ e.rqs[c].numa = s.rqs[c].numa + NumaTasks(s, W, c)
  BY TtwuShape DEF Sound
<1> HIDE DEF e
<1>2. /\ \A d \in CPU : /\ s.rqs[d].queue \in SUBSET Task /\ e.rqs[d].queue \in SUBSET Task
                        /\ s.rqs[d].wl \in SUBSET Task
      /\ \A p \in Task : s.task[p].cpu \in CPU /\ s.task[p].nvcsw \in Nat
  BY <1>1 DEF States, RqFields, TaskFields
<1>3. \A p \in Task, d \in CPU : p \in s.rqs[d].queue \cup s.rqs[d].wl => s.task[p].cpu = d
  BY DEF Sound, AtHome
<1>4. \A d \in CPU : s.rqs[d].queue \cap s.rqs[d].wl = {}
  BY DEF Sound, AtHome
<1>5. Counted(e.task, e.rqs)
  <2>1. ASSUME NEW d \in CPU
        PROVE  e.rqs[d].numa = Cardinality({p \in e.rqs[d].queue : e.task[p].pref = d})
    <3>1. /\ {p \in e.rqs[d].queue : e.task[p].pref = d}
               = {p \in e.rqs[d].queue : s.task[p].pref = d}
          /\ s.rqs[d].numa = NumaTasks(s, s.rqs[d].queue, d)
      BY <1>1, <1>2 DEF Sound, Counted, NumaTasks
    <3>2. e.rqs[d].numa = NumaTasks(s, e.rqs[d].queue, d)
      <4>1. CASE d = c
        <5>1. NumaTasks(s, s.rqs[c].queue \cup W, c)
                = NumaTasks(s, s.rqs[c].queue, c) + NumaTasks(s, W, c)
          BY <1>2, <1>4, NumaUnion
        <5> QED
          BY <1>1, <3>1, <4>1, <5>1
      <4>2. CASE d # c
        BY <1>1, <3>1, <4>2
      <4> QED
        BY <4>1, <4>2
    <3> QED
      BY <3>1, <3>2 DEF NumaTasks
  <2> QED
    BY <2>1 DEF Counted
<1>6. AtHome(e.task, e.rqs)
  BY <1>1, <1>3, <1>4 DEF AtHome
<1>7. Kept(e.task, e.rqs)
  <2>1. ASSUME NEW p \in Task
        PROVE  /\ e.task[p].state = "RUNNING" => p \in e.rqs[e.task[p].cpu].queue
               /\ e.task[p].state = "WAKING" <=> p \in e.rqs[e.task[p].cpu].wl
    <3>1. /\ s.task[p].state = "RUNNING" => p \in s.rqs[s.task[p].cpu].queue
          /\ s.task[p].state = "WAKING" <=> p \in s.rqs[s.task[p].cpu].wl
      BY DEF Sound, Kept
    <3>2. CASE p \in W
      BY <1>1, <1>2, <1>3, <3>1, <3>2
    <3>3. CASE p \notin W
      BY <1>1, <1>2, <3>1, <3>3
    <3> QED
      BY <3>2, <3>3
  <2> QED
    BY <2>1 DEF Kept
<1>8. Usable(e.task, e.rqs, on)
  BY SMTT(45), <1>1, <1>2 DEF Sound, Usable, UsableBy
<1>9. Current(e.rqs)
  BY <1>1 DEF Sound, Current
<1>10. Steady(s, e)
  BY <1>1, <1>2 DEF Steady, In
<1> QED
  BY <1>5, <1>6, <1>7, <1>8, <1>9, <1>10 DEF Sound, e

\* The mask of select_fallback_rq, and the CPUs it may take.
Wide(m) == IF m \cap active # {} THEN m ELSE CPU
Fallback(m) == IF m \cap active # {} THEN m \cap active ELSE active

LEMMA WidenShape ==
  ASSUME NEW s \in States, NEW p \in Task
  PROVE  LET e == Widen(s, p)
         IN /\ e \in States /\ e.rqs = s.rqs
            /\ \A q \in Task \ {p} : e.task[q] = s.task[q]
            /\ e.task[p].allowed = Wide(s.task[p].allowed)
            /\ e.task[p].cpu = s.task[p].cpu /\ e.task[p].wake_cpu = s.task[p].wake_cpu
            /\ e.task[p].pref = s.task[p].pref /\ e.task[p].nvcsw = s.task[p].nvcsw
            /\ e.task[p].state = s.task[p].state
<1> DEFINE r == s.task[p]
           new == [r EXCEPT !.allowed = CPU]
<1>1. r \in TaskFields /\ s.task \in [Task -> TaskFields] /\ s.rqs \in [CPU -> RqFields]
  BY DEF States
<1>2. CASE r.allowed \cap active # {}
  BY <1>2 DEF Widen, Wide
<1>3. CASE ~(r.allowed \cap active # {})
  <2>1. Widen(s, p) = [task |-> [s.task EXCEPT ![p] = new], rqs |-> s.rqs]
    BY <1>1, <1>3 DEF Widen, States
  <2>2. /\ new \in TaskFields /\ new.allowed = CPU /\ new.cpu = r.cpu
        /\ new.wake_cpu = r.wake_cpu /\ new.pref = r.pref /\ new.nvcsw = r.nvcsw
        /\ new.state = r.state
    <3> HIDE DEF r
    <3> QED
      BY <1>1 DEF TaskFields
  <2>3. Wide(r.allowed) = CPU
    BY <1>3 DEF Wide
  <2>4. /\ Widen(s, p).rqs = s.rqs
        /\ Widen(s, p).task = [s.task EXCEPT ![p] = new]
    BY <2>1
  <2> HIDE DEF new
  <2>5. Widen(s, p) \in States
    BY <1>1, <2>1, <2>2 DEF States
  <2>6. Widen(s, p).task[p] = new /\ \A q \in Task \ {p} : Widen(s, p).task[q] = s.task[q]
    BY <1>1, <2>4
  <2> QED
    BY <2>2, <2>3, <2>4, <2>5, <2>6
<1> QED
  BY <1>2, <1>3

\* The fields of a task that leaves its CPU for d.
Left(s, p, d) == SetTaskCpu(Widen(s, p), p, d).task[p]

LEMMA LeftShape ==
  ASSUME NEW s \in States, NEW p \in Task, NEW d \in CPU
  PROVE  LET f == Left(s, p, d)
         IN /\ f \in TaskFields /\ f.cpu = d /\ f.allowed = Wide(s.task[p].allowed)
            /\ f.pref = s.task[p].pref /\ f.nvcsw = s.task[p].nvcsw
            /\ f.state = s.task[p].state
<1> DEFINE w == Widen(s, p)
<1>1. /\ w \in States /\ w.task[p].allowed = Wide(s.task[p].allowed)
      /\ w.task[p].pref = s.task[p].pref /\ w.task[p].nvcsw = s.task[p].nvcsw
      /\ w.task[p].state = s.task[p].state
  BY WidenShape
<1> HIDE DEF w
<1>2. w.task \in [Task -> TaskFields] /\ w.task[p] \in TaskFields
  BY <1>1 DEF States
<1>3. SetTaskCpu(w, p, d).task[p] = PutOn(w.task[p], d)
  <2>1. SetTaskCpu(w, p, d).task = [w.task EXCEPT ![p] = PutOn(w.task[p], d)]
    BY <1>1, SetTaskCpuShape
  <2> QED
    BY <1>2, <2>1
<1>4. \A f \in TaskFields : LET g == PutOn(f, d)
                            IN /\ g \in TaskFields /\ g.cpu = d /\ g.allowed = f.allowed
                               /\ g.pref = f.pref /\ g.nvcsw = f.nvcsw /\ g.state = f.state
  BY DEF PutOn, TaskFields
<1>5. Left(s, p, d) = PutOn(w.task[p], d)
  BY <1>3 DEF Left, w
<1> QED
  BY <1>1, <1>2, <1>4, <1>5

\* migrate_tasks takes every task of the queue.
LEMMA MigrateTasksShape ==
  ASSUME MovesAssumption, NEW s \in States, NEW c \in CPU, active \in SUBSET CPU,
         c \notin active, AtHome(s.task, s.rqs),
         NEW dest \in [s.rqs[c].queue -> active],
         \A p \in s.rqs[c].queue : dest[p] \in Fallback(s.task[p].allowed)
  PROVE  LET e == MigrateTasks(s, c, dest)
             Q == s.rqs[c].queue
         IN /\ e \in States
            /\ \A p \in Task : e.task[p] = IF p \in Q THEN Left(s, p, dest[p]) ELSE s.task[p]
            /\ \A d \in CPU : /\ e.rqs[d].curr = s.rqs[d].curr /\ e.rqs[d].wl = s.rqs[d].wl
            /\ \A d \in CPU \ {c} :
                 /\ e.rqs[d].queue = s.rqs[d].queue \cup Having(Q, dest, d)
                 /\ e.rqs[d].numa = s.rqs[d].numa + NumaTasks(s, Having(Q, dest, d), d)
            /\ e.rqs[c].queue = {}
            /\ e.rqs[c].numa = s.rqs[c].numa - NumaTasks(s, Q, c)
<1> DEFINE Q == s.rqs[c].queue
           To(d) == {p \in Q : dest[p] = d}
           e == MigrateTasks(s, c, dest)
           t == [p \in Task |-> IF p \in Q THEN Left(s, p, dest[p]) ELSE s.task[p]]
           new(d) == [s.rqs[d] EXCEPT
                        !.queue = (IF d = c THEN @ \ Q ELSE @) \cup To(d),
                        !.numa = (IF d = c THEN @ - NumaTasks(s, Q, c) ELSE @)
                                 + NumaTasks(s, To(d), d)]
           r == [d \in CPU |-> new(d)]
<1>1. /\ Q \in SUBSET Task /\ \A d \in CPU : s.rqs[d] \in RqFields
      /\ \A p \in Task : s.task[p] \in TaskFields
      /\ \A p \in Q : dest[p] \in active
  BY DEF States, RqFields
<1>2. {p \in Q : MayMigrate(Widen(s, p), p, c, dest[p])} = Q
  <2> SUFFICES ASSUME NEW p \in Q PROVE MayMigrate(Widen(s, p), p, c, dest[p])
    OBVIOUS
  <2>1. dest[p] \in active /\ dest[p] \in Wide(s.task[p].allowed)
    BY <1>1 DEF Wide, Fallback
  <2>2. s.task[p].cpu = c
    BY <1>1 DEF AtHome
  <2>3. /\ Widen(s, p).rqs = s.rqs /\ Widen(s, p).task[p].cpu = c
        /\ Widen(s, p).task[p].allowed = Wide(s.task[p].allowed)
    BY <1>1, <2>2, WidenShape
  <2> QED
    BY <2>1, <2>3 DEF MayMigrate
<1>3. e = [task |-> t, rqs |-> r]
  <2> DEFINE M == {p \in Q : MayMigrate(Widen(s, p), p, c, dest[p])}
             After(X) == [task |-> [p \in Task |-> IF p \in X THEN Left(s, p, dest[p])
                                                    ELSE s.task[p]],
                         rqs |-> [d \in CPU |->
                           [s.rqs[d] EXCEPT
                              !.queue = (IF d = c THEN @ \ X ELSE @) \cup {p \in X : dest[p] = d},
                              !.numa = (IF d = c THEN @ - NumaTasks(s, X, c) ELSE @)
                                       + NumaTasks(s, {p \in X : dest[p] = d}, d)]]]
  <2>1. e = After(M)
    BY DEF MigrateTasks, Left
  <2>2. After(Q) = [task |-> t, rqs |-> r]
    OBVIOUS
  <2> HIDE DEF After, M, e, t, r
  <2>3. M = Q
    BY <1>2 DEF M
  <2> QED
    BY <2>1, <2>2, <2>3
<1>4. e.task = t /\ e.rqs = r
  <2> HIDE DEF e, t, r
  <2> QED
    BY <1>3
<1>5. \A d \in CPU : To(d) \in SUBSET Task /\ NumaTasks(s, To(d), d) \in Nat
  <2> SUFFICES ASSUME NEW d \in CPU PROVE To(d) \in SUBSET Task /\ NumaTasks(s, To(d), d) \in Nat
    OBVIOUS
  <2>1. To(d) \in SUBSET Task
    BY <1>1
  <2> HIDE DEF To
  <2> QED
    BY <2>1, NumaTypes
<1>6. NumaTasks(s, Q, c) \in Nat
  <2> HIDE DEF Q
  <2> QED
    BY <1>1, NumaTypes
<1>7. To(c) = {} /\ NumaTasks(s, To(c), c) = 0
  <2>1. To(c) = {}
    BY <1>1
  <2> HIDE DEF To
  <2> QED
    BY <1>1, <2>1, NumaTypes
<1>8. ASSUME NEW d \in CPU
      PROVE  /\ new(d) \in RqFields /\ new(d).curr = s.rqs[d].curr
             /\ new(d).wl = s.rqs[d].wl
             /\ new(d).queue = (IF d = c THEN s.rqs[d].queue \ Q ELSE s.rqs[d].queue) \cup To(d)
             /\ new(d).numa = (IF d = c THEN s.rqs[d].numa - NumaTasks(s, Q, c)
                               ELSE s.rqs[d].numa) + NumaTasks(s, To(d), d)
  <2> DEFINE x == s.rqs[d]
             u == (IF d = c THEN x.queue \ Q ELSE x.queue) \cup To(d)
             n == (IF d = c THEN x.numa - NumaTasks(s, Q, c) ELSE x.numa)
                     + NumaTasks(s, To(d), d)
  <2>1. u \in SUBSET Task /\ n \in Int /\ x \in RqFields
    <3>1. /\ To(d) \in SUBSET Task /\ NumaTasks(s, To(d), d) \in Nat
          /\ NumaTasks(s, Q, c) \in Nat /\ x \in RqFields
      BY <1>1, <1>5, <1>6
    <3> HIDE DEF To, Q, x
    <3> QED
      BY <3>1 DEF RqFields
  <2>2. new(d) = [x EXCEPT !.queue = u, !.numa = n]
    OBVIOUS
  <2> HIDE DEF new, u, n, x
  <2>3. /\ new(d) \in RqFields /\ new(d).curr = x.curr /\ new(d).wl = x.wl
        /\ new(d).queue = u /\ new(d).numa = n
    BY <2>1, <2>2 DEF RqFields
  <2> QED
    BY <2>3 DEF x, u, n
<1>9. /\ t \in [Task -> TaskFields]
      /\ \A p \in Task : t[p] = IF p \in Q THEN Left(s, p, dest[p]) ELSE s.task[p]
  <2>1. \A p \in Q : Left(s, p, dest[p]) \in TaskFields
    BY <1>1, LeftShape
  <2> HIDE DEF Q
  <2> QED
    BY <1>1, <2>1
<1>10. r \in [CPU -> RqFields] /\ \A d \in CPU : r[d] = new(d)
  <2> HIDE DEF new
  <2> QED
    BY <1>8
<1> HIDE DEF t, r, new, e
<1>11. e \in States
  BY <1>3, <1>9, <1>10 DEF States
<1>12. /\ \A d \in CPU : e.rqs[d].curr = s.rqs[d].curr /\ e.rqs[d].wl = s.rqs[d].wl
       /\ \A d \in CPU \ {c} : /\ e.rqs[d].queue = s.rqs[d].queue \cup To(d)
                               /\ e.rqs[d].numa = s.rqs[d].numa + NumaTasks(s, To(d), d)
       /\ e.rqs[c].queue = (Q \ Q) \cup To(c)
       /\ e.rqs[c].numa = s.rqs[c].numa - NumaTasks(s, Q, c) + NumaTasks(s, To(c), c)
  <2> HIDE DEF To
  <2> QED
    BY <1>4, <1>8, <1>10
<1>13. e.rqs[c].queue = {} /\ e.rqs[c].numa = s.rqs[c].numa - NumaTasks(s, Q, c)
  <2>1. s.rqs[c].numa \in Int
    BY <1>1 DEF RqFields
  <2> HIDE DEF To, Q
  <2> QED
    BY <1>6, <1>7, <1>12, <2>1
<1>14. \A d \in CPU : To(d) = Having(Q, dest, d)
  BY DEF Having
<1> HIDE DEF To
<1> QED
  BY <1>4, <1>9, <1>11, <1>12, <1>13, <1>14 DEF e

\* After it no task is on the CPU that goes down, and all others are where they were.
LEMMA MigrateTasksSound ==
  ASSUME MovesAssumption, NEW s \in States, NEW c \in CPU, NEW on,
         Sound(s.task, s.rqs, on), s.rqs[c].wl = {}, s.rqs[c].curr = None,
         active \in SUBSET CPU, active \subseteq on \ {c},
         NEW dest \in [s.rqs[c].queue -> active],
         \A p \in s.rqs[c].queue : dest[p] \in Fallback(s.task[p].allowed)
  PROVE  LET e == MigrateTasks(s, c, dest)
         IN e \in States /\ Sound(e.task, e.rqs, on \ {c}) /\ Steady(s, e)
<1> DEFINE e == MigrateTasks(s, c, dest)
           Q == s.rqs[c].queue
           To(d) == Having(Q, dest, d)
<1>1. /\ e \in States
      /\ \A p \in Task : e.task[p] = IF p \in Q THEN Left(s, p, dest[p]) ELSE s.task[p]
      /\ \A d \in CPU : e.rqs[d].curr = s.rqs[d].curr /\ e.rqs[d].wl = s.rqs[d].wl
      /\ \A d \in CPU \ {c} : /\ e.rqs[d].queue = s.rqs[d].queue \cup To(d)
                              /\ e.rqs[d].numa = s.rqs[d].numa + NumaTasks(s, To(d), d)
      /\ e.rqs[c].queue = {}
      /\ e.rqs[c].numa = s.rqs[c].numa - NumaTasks(s, Q, c)
  <2>1. c \notin active /\ AtHome(s.task, s.rqs)
    BY DEF Sound
  <2> QED
    BY <2>1, MigrateTasksShape
<1>2. /\ \A d \in CPU : s.rqs[d].queue \in SUBSET Task /\ s.rqs[d].numa \in Int
      /\ \A p \in Task : s.task[p].cpu \in CPU /\ s.task[p].nvcsw \in Nat
      /\ \A p \in Q : p \in Task /\ dest[p] \in active /\ dest[p] \in CPU /\ dest[p] \in on
                      /\ dest[p] # c
  <2>1. /\ \A d \in CPU : s.rqs[d].queue \in SUBSET Task /\ s.rqs[d].numa \in Int
        /\ \A p \in Task : s.task[p].cpu \in CPU /\ s.task[p].nvcsw \in Nat
    BY DEF States, RqFields, TaskFields
  <2>2. \A p \in Q : p \in Task /\ dest[p] \in active
    BY <2>1
  <2>3. \A d \in active : d \in CPU /\ d \in on /\ d # c
    OBVIOUS
  <2> HIDE DEF Q
  <2> QED
    BY <2>1, <2>2, <2>3
<1>3. /\ \A p \in Task, d \in CPU : p \in s.rqs[d].queue \cup s.rqs[d].wl => s.task[p].cpu = d
      /\ \A d \in CPU : s.rqs[d].queue \cap s.rqs[d].wl = {}
  BY DEF Sound, AtHome
<1>4. \A p \in Q : /\ e.task[p].cpu = dest[p]
                   /\ e.task[p].allowed = Wide(s.task[p].allowed)
                   /\ e.task[p].pref = s.task[p].pref /\ e.task[p].nvcsw = s.task[p].nvcsw
                   /\ e.task[p].state = s.task[p].state
  <2> SUFFICES ASSUME NEW p \in Q
               PROVE  /\ e.task[p].cpu = dest[p]
                      /\ e.task[p].allowed = Wide(s.task[p].allowed)
                      /\ e.task[p].pref = s.task[p].pref
                      /\ e.task[p].nvcsw = s.task[p].nvcsw
                      /\ e.task[p].state = s.task[p].state
    OBVIOUS
  <2> HIDE DEF e, Q
  <2>1. p \in Task /\ dest[p] \in CPU /\ e.task[p] = Left(s, p, dest[p])
    BY <1>1, <1>2
  <2> QED
    BY <2>1, LeftShape
<1>5. \A p \in Q : dest[p] \in Wide(s.task[p].allowed)
  BY <1>2 DEF Wide, Fallback
<1>6. \A d \in CPU \ {c} : To(d) \in SUBSET Task /\ s.rqs[d].queue \cap To(d) = {}
  BY <1>2, <1>3 DEF Having
<1>7. /\ \A p \in Q, d \in CPU : p \in To(d) <=> dest[p] = d
      /\ \A p, d : p \in To(d) => p \in Q
  BY DEF Having
<1>8. /\ \A p \in Task : p \notin Q => e.task[p] = s.task[p]
      /\ \A p \in Q : s.task[p].cpu = c
      /\ \A p \in Task : p \in Q <=> p \in s.rqs[c].queue
      /\ \A p \in Q : p \in Task
  BY <1>1, <1>2, <1>3
<1> HIDE DEF e, To, Q
<1>9. Counted(e.task, e.rqs)
  <2>1. \A d \in CPU : /\ e.rqs[d].queue \in SUBSET Task
                       /\ \A p \in e.rqs[d].queue : e.task[p].pref = s.task[p].pref
    <3>1. \A d \in CPU : e.rqs[d].queue \in SUBSET Task
      BY <1>1 DEF States, RqFields
    <3>2. \A p \in Task : e.task[p].pref = s.task[p].pref
      BY <1>4, <1>8
    <3> QED
      BY <3>1, <3>2
  <2>2. ASSUME NEW d \in CPU
        PROVE  e.rqs[d].numa = Cardinality({p \in e.rqs[d].queue : e.task[p].pref = d})
    <3>1. {p \in e.rqs[d].queue : e.task[p].pref = d} = {p \in e.rqs[d].queue : s.task[p].pref = d}
      BY <2>1
    <3>2. s.rqs[d].numa = NumaTasks(s, s.rqs[d].queue, d)
      BY DEF Sound, Counted, NumaTasks
    <3>3. e.rqs[d].numa = NumaTasks(s, e.rqs[d].queue, d)
      <4>1. CASE d = c
        <5>1. NumaTasks(s, {}, c) = 0
          BY <1>2, NumaTypes
        <5>2. e.rqs[c].numa = 0
          BY <1>1, <1>2, <3>2, <4>1 DEF Q
        <5> QED
          BY <1>1, <4>1, <5>1, <5>2
      <4>2. CASE d # c
        <5>1. NumaTasks(s, s.rqs[d].queue \cup To(d), d)
                = NumaTasks(s, s.rqs[d].queue, d) + NumaTasks(s, To(d), d)
          BY <1>2, <1>6, <4>2, NumaUnion
        <5> QED
          BY <1>1, <3>2, <4>2, <5>1
      <4> QED
        BY <4>1, <4>2
    <3> QED
      BY <3>1, <3>3 DEF NumaTasks
  <2> QED
    BY <2>2 DEF Counted
<1>10. AtHome(e.task, e.rqs)
  <2>1. ASSUME NEW p \in Task, NEW d \in CPU, p \in e.rqs[d].queue \cup e.rqs[d].wl
        PROVE  e.task[p].cpu = d
    <3>1. CASE d = c
      <4>1. p \in s.rqs[c].wl
        BY <1>1, <2>1, <3>1
      <4> QED
        BY <4>1
    <3>2. CASE d # c /\ p \in Q
      <4>1. s.task[p].cpu = c /\ p \notin s.rqs[d].queue /\ p \notin s.rqs[d].wl
        BY <1>3, <1>8, <3>2
      <4>2. p \in To(d)
        BY <1>1, <2>1, <3>2, <4>1
      <4> QED
        BY <1>4, <1>7, <3>2, <4>2
    <3>3. CASE d # c /\ p \notin Q
      <4>1. p \in s.rqs[d].queue \cup s.rqs[d].wl
        BY <1>1, <1>7, <2>1, <3>3
      <4> QED
        BY <1>3, <1>8, <3>3, <4>1
    <3> QED
      BY <3>1, <3>2, <3>3
  <2>2. ASSUME NEW d \in CPU PROVE e.rqs[d].queue \cap e.rqs[d].wl = {}
    <3>1. CASE d = c
      BY <1>1, <3>1
    <3>2. CASE d # c
      <4>1. ASSUME NEW p \in To(d) PROVE p \notin s.rqs[d].wl
        BY <1>3, <1>7, <1>8, <3>2
      <4> QED
        BY <1>1, <1>3, <3>2, <4>1
    <3> QED
      BY <3>1, <3>2
  <2> QED
    BY <2>1, <2>2 DEF AtHome
<1>11. ASSUME NEW p \in Task, p \in Q
       PROVE  /\ p \in e.rqs[e.task[p].cpu].queue /\ e.task[p].cpu \in CPU
              /\ s.task[p].state # "WAKING" /\ p \notin e.rqs[e.task[p].cpu].wl
  <2>1. e.task[p].cpu = dest[p] /\ dest[p] \in CPU \ {c} /\ p \in To(dest[p])
    BY <1>2, <1>4, <1>7, <1>11
  <2>2. p \in e.rqs[dest[p]].queue
    BY <1>1, <2>1
  <2>3. p \notin e.rqs[dest[p]].wl
    BY <1>10, <2>1, <2>2 DEF AtHome
  <2>4. s.task[p].state # "WAKING"
    BY <1>8, <1>11 DEF Sound, Kept
  <2> QED
    BY <2>1, <2>2, <2>3, <2>4
<1>12. ASSUME NEW p \in Task, p \notin Q
       PROVE  /\ e.task[p] = s.task[p] /\ s.task[p].cpu \in CPU
              /\ p \in e.rqs[s.task[p].cpu].queue <=> p \in s.rqs[s.task[p].cpu].queue
              /\ e.rqs[s.task[p].cpu].wl = s.rqs[s.task[p].cpu].wl
  <2>1. e.task[p] = s.task[p] /\ s.task[p].cpu \in CPU
    BY <1>2, <1>8, <1>12
  <2>2. p \in e.rqs[s.task[p].cpu].queue <=> p \in s.rqs[s.task[p].cpu].queue
    BY <1>1, <1>7, <1>8, <1>12, <2>1
  <2> QED
    BY <1>1, <2>1, <2>2
<1>13. Kept(e.task, e.rqs)
  <2>1. ASSUME NEW p \in Task
        PROVE  /\ e.task[p].state = "RUNNING" => p \in e.rqs[e.task[p].cpu].queue
               /\ e.task[p].state = "WAKING" <=> p \in e.rqs[e.task[p].cpu].wl
    <3>1. CASE p \in Q
      BY <1>4, <1>11, <3>1
    <3>2. CASE p \notin Q
      BY SMTT(45), <1>12, <3>2 DEF Sound, Kept
    <3> QED
      BY <3>1, <3>2
  <2> QED
    BY <2>1 DEF Kept
<1>14. Usable(e.task, e.rqs, on \ {c})
  <2>1. ASSUME NEW p \in Task PROVE UsableBy(e.task, e.rqs, on \ {c}, p)
    <3>1. CASE p \in Q
      BY <1>2, <1>4, <1>5, <3>1 DEF UsableBy
    <3>2. CASE p \notin Q
      <4>1. UsableBy(s.task, s.rqs, on, p)
        BY DEF Sound, Usable
      <4>2. p \in s.rqs[s.task[p].cpu].queue \cup s.rqs[s.task[p].cpu].wl => s.task[p].cpu # c
        BY <1>8, <3>2
      <4> QED
        BY <1>12, <3>2, <4>1, <4>2 DEF UsableBy
    <3> QED
      BY <3>1, <3>2
  <2> QED
    BY <2>1 DEF Usable
<1>15. Current(e.rqs)
  <2>1. \A d \in CPU \ {c} : s.rqs[d].queue \subseteq e.rqs[d].queue
    BY <1>1
  <2> QED
    BY <1>1, <2>1 DEF Sound, Current
<1>16. Steady(s, e)
  <2>1. \A p \in Task : e.task[p].nvcsw = s.task[p].nvcsw
    BY <1>4, <1>8
  <2>2. ASSUME NEW p \in Task, In(s, p) PROVE In(e, p)
    <3>1. CASE p \in Q
      BY <1>11, <3>1 DEF In
    <3>2. CASE p \notin Q
      BY <1>12, <2>2, <3>2 DEF In
    <3> QED
      BY <3>1, <3>2
  <2> QED
    BY <1>2, <2>1, <2>2 DEF Steady
<1> QED
  BY <1>1, <1>9, <1>10, <1>13, <1>14, <1>15, <1>16 DEF Sound, e

-----------------------------------------------------------------------------
(* Steps                                                                   *)

\* A task that is still queued or was switched out once more leaves the results of
\* wait_task_inactive what they said.
LEMMA WaitedKept ==
  ASSUME MovesAssumption, TypeOK, Waited, NEW e \in States, Set(e), Steady(Now, e),
         UNCHANGED watch
  PROVE  Waited'
<1>1. Watched \in Task /\ wait' = wait /\ ran' = ran
  BY DEF MovesAssumption, watch
<1>2. task[Watched].nvcsw \in Nat /\ e.task[Watched].nvcsw \in Nat
  BY <1>1 DEF TypeOK, TaskFields, States
<1>3. /\ e.task[Watched].nvcsw >= task[Watched].nvcsw
      /\ In(Now, Watched) => In(e, Watched) \/ e.task[Watched].nvcsw > task[Watched].nvcsw
  BY <1>1 DEF Steady, Now
<1>4. task' = e.task /\ rqs' = e.rqs
  BY DEF Set
<1>5. (Queued(Watched) <=> In(Now, Watched)) /\ (Queued(Watched)' <=> In(e, Watched))
  BY <1>4 DEF Queued, In, Now
<1>6. wait.first \in Nat \cup {NotYet}
  BY DEF TypeOK
<1>7. Between' <=> Between
  BY <1>1 DEF Between
<1>8. TwoCallsAgree'
  BY <1>1 DEF TwoCallsAgree, Waited
<1>9. wait.first > 0 => wait.first <= e.task[Watched].nvcsw + 1
  BY <1>2, <1>3, <1>6 DEF Waited, NotYet
<1>10. Between /\ ran => In(e, Watched) \/ wait.first < e.task[Watched].nvcsw + 1
  <2> HAVE Between /\ ran
  <2>1. In(Now, Watched) \/ wait.first < task[Watched].nvcsw + 1
    BY <1>5 DEF Waited
  <2>2. wait.first \in Nat /\ wait.first <= task[Watched].nvcsw + 1
    BY <1>6 DEF Waited, Between, NotYet
  <2> QED
    BY <1>2, <1>3, <2>1, <2>2
<1> QED
  BY <1>1, <1>4, <1>5, <1>7, <1>8, <1>9, <1>10 DEF Waited

LEMMA StepKeeps ==
  ASSUME MovesAssumption, MInv, NEW e \in States, Set(e), Steady(Now, e),
         Sound(e.task, e.rqs, online'),
         online' \in SUBSET CPU, active' \in SUBSET CPU, going' \in CPU \cup {None},
         call' \in [Task -> AllCalls \cup {None}], MasksOK', SwapsHeld', UNCHANGED watch
  PROVE  MInv'
<1>1. Waited'
  BY WaitedKept DEF MInv
<1>2. TypeOK'
  BY DEF MInv, TypeOK, Set, States, watch
<1>3. Sound(task', rqs', online')
  BY DEF Set
<1> QED
  BY <1>1, <1>2, <1>3 DEF MInv

\* A step that changes nothing but run queues and tasks.
LEMMA EffectKeeps ==
  ASSUME MovesAssumption, MInv, NEW e \in States, Set(e), Steady(Now, e),
         Sound(e.task, e.rqs, online), UNCHANGED <<masks, call, watch>>
  PROVE  MInv'
<1>1. /\ online' = online /\ active' = active /\ going' = going /\ call' = call
      /\ UNCHANGED watch
  BY DEF masks, watch
<1>2. MasksOK' /\ SwapsHeld'
  BY <1>1 DEF MInv, MasksOK, SwapsHeld, Stopping
<1> QED
  BY <1>1, <1>2, StepKeeps DEF MInv, TypeOK

\* A step of a call that begins, goes on before its stopper is asked, or returns.
QuietCall(r) == r \in AllCalls \cup {None} /\ (r # None => r.at = "read" \/ r.op # "swap")

LEMMA CallKeeps ==
  ASSUME MovesAssumption, MInv, NEW e \in States, Set(e), Steady(Now, e),
         Sound(e.task, e.rqs, online), UNCHANGED <<masks, watch>>,
         NEW p \in Task, NEW r, QuietCall(r), call' = [call EXCEPT ![p] = r]
  PROVE  MInv'
<1>1. online' = online /\ active' = active /\ going' = going /\ UNCHANGED watch
  BY DEF masks, watch
<1>2. call' \in [Task -> AllCalls \cup {None}]
  BY DEF MInv, TypeOK, QuietCall
<1>3. MasksOK'
  BY <1>1 DEF MInv, MasksOK
<1>4. SwapsHeld'
  <2>1. ASSUME NEW q \in Task, Stopping(q)', call'[q].op = "swap"
        PROVE  {call'[q].src, call'[q].dst} \subseteq online
    <3>1. q # p
      BY <2>1 DEF Stopping, QuietCall, MInv, TypeOK
    <3>2. call'[q] = call[q]
      BY <3>1 DEF MInv, TypeOK
    <3> QED
      BY <2>1, <3>2 DEF SwapsHeld, Stopping, MInv
  <2> QED
    BY <1>1, <2>1 DEF SwapsHeld
<1> QED
  BY <1>1, <1>2, <1>3, <1>4, StepKeeps DEF MInv, TypeOK

LEMMA NothingMoves ==
  ASSUME MInv, UNCHANGED sched
  PROVE  /\ Now \in States /\ Set(Now) /\ Steady(Now, Now)
         /\ Sound(Now.task, Now.rqs, online)
<1>1. Now \in States /\ Now.task = task /\ Now.rqs = rqs
  BY NowTypes DEF MInv, Now
<1>2. Steady(Now, Now)
  BY <1>1, SteadySelf
<1> QED
  BY <1>1, <1>2 DEF MInv, Set, sched

-----------------------------------------------------------------------------
(* Init                                                                    *)

LEMMA InitMInv == ASSUME MovesAssumption, Init PROVE MInv
<1>1. PICK home \in [Task -> CPU] :
        /\ task = [p \in Task |-> [cpu |-> home[p], wake_cpu |-> home[p], allowed |-> CPU,
                                   state |-> "RUNNING", pref |-> home[p], nvcsw |-> 0]]
        /\ rqs = [c \in CPU |-> LET Q == {p \in Task : home[p] = c}
                                IN [queue |-> Q, curr |-> None, numa |-> Cardinality(Q),
                                    wl |-> {}]]
  BY DEF Init
<1>2. \A p \in Task : /\ task[p].cpu = home[p] /\ task[p].wake_cpu = home[p]
                      /\ task[p].allowed = CPU /\ task[p].state = "RUNNING"
                      /\ task[p].pref = home[p] /\ task[p].nvcsw = 0
  BY <1>1
<1>3. \A c \in CPU : /\ rqs[c].queue = Having(Task, home, c) /\ rqs[c].curr = None
                     /\ rqs[c].numa = Cardinality(Having(Task, home, c)) /\ rqs[c].wl = {}
  BY <1>1 DEF Having
<1>4. \A c : Having(Task, home, c) \in SUBSET Task
              /\ \A p \in Task : p \in Having(Task, home, c) <=> home[p] = c
  BY DEF Having
<1>5. ASSUME NEW c \in CPU PROVE Cardinality(Having(Task, home, c)) \in Nat
  BY <1>4, FS_Subset, FS_CardinalityType DEF MovesAssumption
<1>6. TypeOK
  <2>1. task \in [Task -> TaskFields]
    BY <1>1 DEF TaskFields
  <2>2. rqs \in [CPU -> RqFields]
    <3>1. rqs = [c \in CPU |-> [queue |-> Having(Task, home, c), curr |-> None,
                                numa |-> Cardinality(Having(Task, home, c)), wl |-> {}]]
      BY <1>1 DEF Having
    <3>2. ASSUME NEW c \in CPU
          PROVE  [queue |-> Having(Task, home, c), curr |-> None,
                  numa |-> Cardinality(Having(Task, home, c)), wl |-> {}] \in RqFields
      BY <1>4, <1>5 DEF RqFields
    <3> QED
      BY <3>1, <3>2
  <2> QED
    BY <2>1, <2>2 DEF TypeOK, Init, NotYet
<1>7. AtHome(task, rqs) /\ Kept(task, rqs) /\ Current(rqs)
  BY <1>2, <1>3, <1>4 DEF AtHome, Kept, Current
<1>8. Usable(task, rqs, online)
  BY <1>2 DEF Usable, UsableBy, Init
<1>9. Counted(task, rqs)
  <2>1. ASSUME NEW c \in CPU
        PROVE  {p \in rqs[c].queue : task[p].pref = c} = Having(Task, home, c)
    BY <1>2, <1>3, <1>4
  <2> QED
    BY <1>3, <2>1 DEF Counted
<1>10. MasksOK /\ SwapsHeld
  BY DEF Init, MasksOK, SwapsHeld, Stopping
<1>11. Waited
  BY DEF Init, Waited, Between, TwoCallsAgree, NotYet
<1> QED
  BY <1>6, <1>7, <1>8, <1>9, <1>10, <1>11 DEF MInv, Sound

-----------------------------------------------------------------------------
(* Changes of one field of one task                                        *)

WithState(s, p, v) == [s EXCEPT !.task[p].state = v]
WithMask(s, p, m) == [s EXCEPT !.task[p].allowed = m]
WithNode(s, p, n) == [s EXCEPT !.task[p].pref = n]
WithWakeCpu(s, p, c) == [s EXCEPT !.task[p].wake_cpu = c]
Switched(s, p) == [s EXCEPT !.task[p].nvcsw = @ + 1]

\* e is s but for a field of p; the CPU of p is the same.
Alike(s, e, p) ==
    /\ e \in States /\ e.rqs = s.rqs /\ e.task[p].cpu = s.task[p].cpu
    /\ \A q \in Task : q # p => e.task[q] = s.task[q]

LEMMA PutShape ==
  ASSUME NEW s \in States, NEW p \in Task, NEW r \in TaskFields, r.cpu = s.task[p].cpu,
         NEW e, e = [task |-> [s.task EXCEPT ![p] = r], rqs |-> s.rqs]
  PROVE  Alike(s, e, p) /\ e.task[p] = r
<1>1. s.task \in [Task -> TaskFields] /\ s.rqs \in [CPU -> RqFields]
  BY DEF States
<1>2. e.task = [s.task EXCEPT ![p] = r] /\ e.rqs = s.rqs
  OBVIOUS
<1>3. e \in States
  BY <1>1 DEF States
<1> QED
  BY <1>1, <1>2, <1>3 DEF Alike

LEMMA WithStateShape ==
  ASSUME NEW s \in States, NEW p \in Task, NEW v \in {"RUNNING", "UNINTERRUPTIBLE", "WAKING"}
  PROVE  LET e == WithState(s, p, v)
         IN /\ Alike(s, e, p) /\ e.task[p].state = v
            /\ e.task[p].allowed = s.task[p].allowed /\ e.task[p].pref = s.task[p].pref
            /\ e.task[p].nvcsw = s.task[p].nvcsw
<1> DEFINE r == s.task[p]
           new == [r EXCEPT !.state = v]
<1>1. r \in TaskFields /\ WithState(s, p, v) = [task |-> [s.task EXCEPT ![p] = new], rqs |-> s.rqs]
  BY DEF WithState, States
<1> HIDE DEF r
<1>2. /\ new \in TaskFields /\ new.cpu = r.cpu /\ new.state = v /\ new.allowed = r.allowed
      /\ new.pref = r.pref /\ new.nvcsw = r.nvcsw
  BY <1>1 DEF TaskFields
<1> HIDE DEF new
<1>3. Alike(s, WithState(s, p, v), p) /\ WithState(s, p, v).task[p] = new
  BY <1>1, <1>2, PutShape DEF r
<1> QED
  BY <1>2, <1>3 DEF r

LEMMA WithMaskShape ==
  ASSUME NEW s \in States, NEW p \in Task, NEW m \in SUBSET CPU
  PROVE  LET e == WithMask(s, p, m)
         IN /\ Alike(s, e, p) /\ e.task[p].allowed = m
            /\ e.task[p].state = s.task[p].state /\ e.task[p].pref = s.task[p].pref
            /\ e.task[p].nvcsw = s.task[p].nvcsw
<1> DEFINE r == s.task[p]
           new == [r EXCEPT !.allowed = m]
<1>1. r \in TaskFields /\ WithMask(s, p, m) = [task |-> [s.task EXCEPT ![p] = new], rqs |-> s.rqs]
  BY DEF WithMask, States
<1> HIDE DEF r
<1>2. /\ new \in TaskFields /\ new.cpu = r.cpu /\ new.allowed = m /\ new.state = r.state
      /\ new.pref = r.pref /\ new.nvcsw = r.nvcsw
  BY <1>1 DEF TaskFields
<1> HIDE DEF new
<1>3. Alike(s, WithMask(s, p, m), p) /\ WithMask(s, p, m).task[p] = new
  BY <1>1, <1>2, PutShape DEF r
<1> QED
  BY <1>2, <1>3 DEF r

LEMMA WithNodeShape ==
  ASSUME NEW s \in States, NEW p \in Task, NEW n \in CPU
  PROVE  LET e == WithNode(s, p, n)
         IN /\ Alike(s, e, p) /\ e.task[p].pref = n
            /\ e.task[p].state = s.task[p].state /\ e.task[p].allowed = s.task[p].allowed
            /\ e.task[p].nvcsw = s.task[p].nvcsw
<1> DEFINE r == s.task[p]
           new == [r EXCEPT !.pref = n]
<1>1. r \in TaskFields /\ WithNode(s, p, n) = [task |-> [s.task EXCEPT ![p] = new], rqs |-> s.rqs]
  BY DEF WithNode, States
<1> HIDE DEF r
<1>2. /\ new \in TaskFields /\ new.cpu = r.cpu /\ new.pref = n /\ new.state = r.state
      /\ new.allowed = r.allowed /\ new.nvcsw = r.nvcsw
  BY <1>1 DEF TaskFields
<1> HIDE DEF new
<1>3. Alike(s, WithNode(s, p, n), p) /\ WithNode(s, p, n).task[p] = new
  BY <1>1, <1>2, PutShape DEF r
<1> QED
  BY <1>2, <1>3 DEF r

LEMMA WithWakeCpuShape ==
  ASSUME NEW s \in States, NEW p \in Task, NEW c \in CPU
  PROVE  LET e == WithWakeCpu(s, p, c)
         IN /\ Alike(s, e, p) /\ e.task[p].pref = s.task[p].pref
            /\ e.task[p].state = s.task[p].state /\ e.task[p].allowed = s.task[p].allowed
            /\ e.task[p].nvcsw = s.task[p].nvcsw
<1> DEFINE r == s.task[p]
           new == [r EXCEPT !.wake_cpu = c]
<1>1. r \in TaskFields /\ WithWakeCpu(s, p, c) = [task |-> [s.task EXCEPT ![p] = new], rqs |-> s.rqs]
  BY DEF WithWakeCpu, States
<1> HIDE DEF r
<1>2. /\ new \in TaskFields /\ new.cpu = r.cpu /\ new.pref = r.pref /\ new.state = r.state
      /\ new.allowed = r.allowed /\ new.nvcsw = r.nvcsw
  BY <1>1 DEF TaskFields
<1> HIDE DEF new
<1>3. Alike(s, WithWakeCpu(s, p, c), p) /\ WithWakeCpu(s, p, c).task[p] = new
  BY <1>1, <1>2, PutShape DEF r
<1> QED
  BY <1>2, <1>3 DEF r

LEMMA SwitchedShape ==
  ASSUME NEW s \in States, NEW p \in Task
  PROVE  LET e == Switched(s, p)
         IN /\ Alike(s, e, p) /\ e.task[p].pref = s.task[p].pref
            /\ e.task[p].state = s.task[p].state /\ e.task[p].allowed = s.task[p].allowed
            /\ e.task[p].nvcsw = s.task[p].nvcsw + 1
<1> DEFINE r == s.task[p]
           new == [r EXCEPT !.nvcsw = r.nvcsw + 1]
<1>1. r \in TaskFields /\ Switched(s, p) = [task |-> [s.task EXCEPT ![p] = new], rqs |-> s.rqs]
  BY DEF Switched, States
<1> HIDE DEF r
<1>2. /\ new \in TaskFields /\ new.cpu = r.cpu /\ new.pref = r.pref /\ new.state = r.state
      /\ new.allowed = r.allowed /\ new.nvcsw = r.nvcsw + 1
  BY <1>1 DEF TaskFields
<1> HIDE DEF new
<1>3. Alike(s, Switched(s, p), p) /\ Switched(s, p).task[p] = new
  BY <1>1, <1>2, PutShape DEF r
<1> QED
  BY <1>2, <1>3 DEF r

\* What such a change keeps, but for the mask, the state and the node of p.
LEMMA AlikeSound ==
  ASSUME NEW s \in States, NEW e, NEW p \in Task, NEW on,
         Alike(s, e, p), Sound(s.task, s.rqs, on), e.task[p].pref = s.task[p].pref,
         e.task[p].nvcsw = s.task[p].nvcsw,
         e.task[p].state = "RUNNING" => In(s, p),
         e.task[p].state = "WAKING" <=> s.task[p].state = "WAKING",
         UsableBy(e.task, e.rqs, on, p)
  PROVE  Sound(e.task, e.rqs, on) /\ Steady(s, e)
<1>1. /\ e \in States /\ e.rqs = s.rqs /\ e.task[p].cpu = s.task[p].cpu
      /\ \A q \in Task : q # p => e.task[q] = s.task[q]
  BY DEF Alike
<1>2. \A d \in CPU : s.rqs[d].queue \in SUBSET Task
  BY DEF States, RqFields
<1>3. SameQueues(s, e)
  BY <1>1 DEF SameQueues
<1>4. Kept(e.task, e.rqs)
  BY <1>1 DEF Sound, Kept, In
<1>5. Usable(e.task, e.rqs, on)
  BY <1>1 DEF Sound, Usable, UsableBy
<1>6. Counted(e.task, e.rqs)
  <2>1. \A q \in Task : e.task[q].pref = s.task[q].pref
    BY <1>1
  <2> QED
    BY <1>1, <1>2, <2>1, CountedSame DEF Sound
<1>7. \A q \in Task : e.task[q].cpu = s.task[q].cpu /\ e.task[q].nvcsw = s.task[q].nvcsw
  BY <1>1
<1> QED
  BY <1>1, <1>3, <1>4, <1>5, <1>6, <1>7, SameSound

LEMMA VacateSound ==
  ASSUME NEW s \in States, NEW C, NEW on, Sound(s.task, s.rqs, on)
  PROVE  LET e == Vacate(s, C) IN e \in States /\ Sound(e.task, e.rqs, on) /\ Steady(s, e)
<1> DEFINE e == Vacate(s, C)
<1>1. /\ e \in States /\ e.task = s.task
      /\ \A c \in CPU : /\ e.rqs[c].queue = s.rqs[c].queue /\ e.rqs[c].wl = s.rqs[c].wl
                        /\ e.rqs[c].numa = s.rqs[c].numa
                        /\ e.rqs[c].curr = IF c \in C THEN None ELSE s.rqs[c].curr
  BY VacateShape
<1> HIDE DEF e
<1>2. \A p \in Task : s.task[p].cpu \in CPU
  BY DEF States, TaskFields
<1>3. SameQueues(s, e)
  BY <1>1 DEF SameQueues
<1>4. Kept(e.task, e.rqs) /\ Usable(e.task, e.rqs, on)
  BY <1>1, <1>2 DEF Sound, Kept, Usable, UsableBy
<1>5. Counted(e.task, e.rqs)
  BY <1>1, CountedSame DEF Sound
<1>6. e \in States /\ Sound(e.task, e.rqs, on) /\ Steady(s, e)
  BY <1>1, <1>3, <1>4, <1>5, SameSound
<1> QED
  BY <1>6 DEF e

-----------------------------------------------------------------------------
(* The rest of the scheduler                                               *)

\* What MInv says of the present state.
LEMMA Present ==
  ASSUME MInv
  PROVE  /\ Now \in States /\ Now.task = task /\ Now.rqs = rqs
         /\ Sound(Now.task, Now.rqs, online) /\ Steady(Now, Now)
         /\ \A p \in Task : /\ task[p] \in TaskFields /\ task[p].cpu \in CPU
                            /\ task[p].allowed \in SUBSET CPU
                            /\ Queued(p) <=> In(Now, p)
                            /\ Running(p) => Queued(p) \/ p = None
         /\ \A c \in CPU : /\ rqs[c].queue \in SUBSET Task /\ rqs[c].wl \in SUBSET Task
                           /\ \A p \in Task : p \in rqs[c].queue \cup rqs[c].wl => task[p].cpu = c
<1>1. Now \in States /\ Now.task = task /\ Now.rqs = rqs
  BY NowTypes DEF MInv, Now
<1>2. Sound(Now.task, Now.rqs, online) /\ Steady(Now, Now)
  BY <1>1, SteadySelf DEF MInv
<1>3. \A p \in Task : /\ task[p] \in TaskFields /\ task[p].cpu \in CPU
                      /\ task[p].allowed \in SUBSET CPU
                      /\ Queued(p) <=> In(Now, p)
  BY <1>1 DEF MInv, TypeOK, TaskFields, Queued, In
<1>4. \A p \in Task : Running(p) => Queued(p) \/ p = None
  BY <1>3 DEF MInv, Sound, Current, Running, Queued
<1>5. \A c \in CPU : /\ rqs[c].queue \in SUBSET Task /\ rqs[c].wl \in SUBSET Task
                     /\ \A p \in Task : p \in rqs[c].queue \cup rqs[c].wl => task[p].cpu = c
  BY DEF MInv, TypeOK, RqFields, Sound, AtHome
<1> QED
  BY <1>1, <1>2, <1>3, <1>4, <1>5

LEMMA PickNextStep ==
  ASSUME MovesAssumption, MInv, NEW c \in CPU, PickNext(c)
  PROVE  MInv'
<1>1. PICK p \in rqs[c].queue : /\ rqs' = [rqs EXCEPT ![c].curr = p]
                                /\ ran' = (ran \/ (p = Watched /\ Between))
  BY DEF PickNext
<1>2. /\ task' = task /\ online' = online /\ active' = active /\ going' = going
      /\ call' = call /\ wait' = wait
  BY DEF PickNext, masks, ops
<1>3. /\ rqs \in [CPU -> RqFields] /\ p \in Task /\ task[p].cpu = c
  BY <1>1, Present DEF MInv, TypeOK
<1>4. /\ rqs' \in [CPU -> RqFields] /\ rqs'[c].curr = p
      /\ \A d \in CPU : /\ rqs'[d].queue = rqs[d].queue /\ rqs'[d].wl = rqs[d].wl
                        /\ rqs'[d].numa = rqs[d].numa
                        /\ d # c => rqs'[d].curr = rqs[d].curr
  BY <1>1, <1>3 DEF RqFields
<1>5. TypeOK'
  BY <1>1, <1>2, <1>4 DEF MInv, TypeOK
<1>6. Sound(task', rqs', online')
  <2>1. AtHome(task', rqs') /\ Current(rqs')
    BY <1>1, <1>2, <1>4 DEF MInv, Sound, AtHome, Current
  <2>2. Kept(task', rqs') /\ Usable(task', rqs', online')
    BY <1>2, <1>4, Present DEF MInv, Sound, Kept, Usable, UsableBy
  <2>3. Counted(task', rqs')
    BY <1>2, <1>4 DEF MInv, Sound, Counted
  <2> QED
    BY <2>1, <2>2, <2>3 DEF Sound
<1>7. MasksOK' /\ SwapsHeld'
  BY <1>2 DEF MInv, MasksOK, SwapsHeld, Stopping
<1>8. Waited'
  <2>1. Watched \in Task
    BY DEF MovesAssumption
  <2>2. Queued(Watched)' <=> Queued(Watched)
    BY <1>2, <1>4, <2>1, Present DEF Queued
  <2>3. p = Watched => Queued(Watched)
    BY <1>1, <1>3 DEF Queued
  <2>4. Between' <=> Between
    BY <1>2 DEF Between
  <2>5. Between /\ ran' => Queued(Watched)' \/ wait.first < task[Watched].nvcsw + 1
    BY <1>1, <2>2, <2>3 DEF MInv, Waited
  <2>6. TwoCallsAgree'
    <3>1. CASE Between
      BY <1>2, <3>1 DEF TwoCallsAgree, Between, NotYet
    <3>2. CASE ~Between
      BY <1>1, <1>2, <3>2 DEF MInv, Waited, TwoCallsAgree
    <3> QED
      BY <3>1, <3>2
  <2> QED
    BY <1>2, <2>4, <2>5, <2>6 DEF MInv, Waited
<1> QED
  BY <1>5, <1>6, <1>7, <1>8 DEF MInv

LEMMA PrepareStep ==
  ASSUME MovesAssumption, MInv, NEW p \in Task, Prepare(p)
  PROVE  MInv'
<1> DEFINE e == WithState(Now, p, "UNINTERRUPTIBLE")
<1>1. /\ Alike(Now, e, p) /\ e.task[p].state = "UNINTERRUPTIBLE"
      /\ e.task[p].allowed = Now.task[p].allowed /\ e.task[p].pref = Now.task[p].pref
      /\ e.task[p].nvcsw = Now.task[p].nvcsw
  BY Present, WithStateShape
<1>2. Set(e) /\ UNCHANGED <<masks, call, watch>>
  BY DEF Prepare, e, WithState, Set, Now, ops
<1> HIDE DEF e
<1>3. Now.task[p].state = "RUNNING"
  BY Present DEF Prepare
<1>4. UsableBy(e.task, e.rqs, online, p)
  BY <1>1, Present DEF Alike, Sound, Usable, UsableBy
<1>5. Sound(e.task, e.rqs, online) /\ Steady(Now, e)
  BY <1>1, <1>3, <1>4, Present, AlikeSound
<1>6. e \in States
  BY <1>1 DEF Alike
<1> QED
  BY <1>2, <1>5, <1>6, EffectKeeps

LEMMA SchedulerIpiStep ==
  ASSUME MovesAssumption, MInv, NEW c \in CPU, SchedulerIpi(c)
  PROVE  MInv'
<1> DEFINE e == TtwuPending(Now, c)
<1>1. e \in States /\ Sound(e.task, e.rqs, online) /\ Steady(Now, e)
  <2>1. AtHome(Now.task, Now.rqs)
    BY Present DEF Sound
  <2> QED
    BY <2>1, Present, TtwuShape, TtwuSound
<1>2. Set(e) /\ UNCHANGED <<masks, call, watch>>
  BY DEF SchedulerIpi, ops
<1> QED
  BY <1>1, <1>2, EffectKeeps

LEMMA BlockStep ==
  ASSUME MovesAssumption, MInv, NEW p \in Task, Block(p)
  PROVE  MInv'
<1> DEFINE c == task[p].cpu
           x == DequeueTask(Now, p)
           y == Vacate(x, {c})
           e == Switched(y, p)
<1>1. /\ c \in CPU /\ rqs[c].curr = p /\ task[p].state = "UNINTERRUPTIBLE"
      /\ Set(e) /\ UNCHANGED <<masks, call, watch>>
  BY Present DEF Block, Running, Switched, ops
<1>2. p \in rqs[c].queue
  BY <1>1, Present DEF Sound, Current, MovesAssumption
<1>3. /\ x \in States /\ x.task = task /\ SameRest(rqs, x.rqs)
      /\ \A d \in CPU \ {c} : x.rqs[d] = rqs[d]
      /\ x.rqs[c].queue = rqs[c].queue \ {p}
  <2>1. Now \in States /\ Now.task = task /\ Now.rqs = rqs
    BY Present
  <2>2. /\ x \in States /\ x.task = Now.task /\ SameRest(Now.rqs, x.rqs)
        /\ \A d \in CPU \ {Now.task[p].cpu} : x.rqs[d] = Now.rqs[d]
        /\ x.rqs[Now.task[p].cpu].queue = Now.rqs[Now.task[p].cpu].queue \ {p}
    BY <2>1, DequeueShape
  <2> HIDE DEF x
  <2> QED
    BY <2>1, <2>2
<1>4. Counted(x.task, x.rqs)
  BY <1>2, Present, DequeueCounts DEF Sound
<1>5. /\ y \in States /\ y.task = task
      /\ \A d \in CPU : /\ y.rqs[d].queue = x.rqs[d].queue /\ y.rqs[d].wl = x.rqs[d].wl
                        /\ y.rqs[d].numa = x.rqs[d].numa
                        /\ y.rqs[d].curr = IF d = c THEN None ELSE x.rqs[d].curr
  <2> HIDE DEF x, c
  <2> QED
    BY <1>3, VacateShape
<1>6. /\ Alike(y, e, p) /\ e.task[p].pref = y.task[p].pref
      /\ e.task[p].state = y.task[p].state /\ e.task[p].allowed = y.task[p].allowed
      /\ e.task[p].nvcsw = y.task[p].nvcsw + 1
  <2> HIDE DEF y
  <2> QED
    BY <1>5, SwitchedShape
<1> HIDE DEF x, y, e, c
<1>7. /\ e \in States /\ \A q \in Task : q # p => e.task[q] = task[q]
      /\ e.task[p].cpu = c /\ e.task[p].state = "UNINTERRUPTIBLE"
      /\ e.task[p].nvcsw = task[p].nvcsw + 1
      /\ \A q \in Task : e.task[q].pref = task[q].pref
      /\ e.rqs = y.rqs
  BY <1>1, <1>5, <1>6 DEF Alike, c
<1>8. /\ \A d \in CPU : /\ e.rqs[d].wl = rqs[d].wl
                        /\ d # c => e.rqs[d].queue = rqs[d].queue
                                    /\ e.rqs[d].curr = rqs[d].curr
      /\ e.rqs[c].queue = rqs[c].queue \ {p} /\ e.rqs[c].curr = None
  BY <1>1, <1>3, <1>5, <1>7 DEF SameRest
<1>9. \A q \in Task : task[q].cpu \in CPU /\ task[q].nvcsw \in Nat
  BY Present DEF TaskFields
<1>10. Counted(e.task, e.rqs)
  <2>1. \A d \in CPU : e.rqs[d].queue \in SUBSET Task
    BY <1>7 DEF States, RqFields
  <2>2. \A d \in CPU : /\ e.rqs[d].queue = x.rqs[d].queue /\ e.rqs[d].numa = x.rqs[d].numa
                       /\ \A q \in e.rqs[d].queue : e.task[q].pref = x.task[q].pref
    BY <1>3, <1>5, <1>7, <2>1
  <2> QED
    BY <1>3, <1>4, <1>7, <2>2, CountedSame
<1>11. AtHome(e.task, e.rqs)
  <2>1. \A q \in Task : e.task[q].cpu = task[q].cpu
    BY <1>7 DEF c
  <2>2. AtHome(task, rqs)
    BY DEF MInv, Sound
  <2> QED
    BY <1>8, <2>1, <2>2 DEF AtHome
<1>12. Kept(e.task, e.rqs)
  <2>1. Kept(task, rqs)
    BY DEF MInv, Sound
  <2>2. task[p].cpu = c /\ task[p].state # "WAKING"
    BY <1>1 DEF c
  <2> QED
    BY <1>1, <1>7, <1>8, <1>9, <2>1, <2>2 DEF Kept
<1>13. Usable(e.task, e.rqs, online)
  <2>1. Usable(task, rqs, online) /\ Kept(task, rqs)
    BY DEF MInv, Sound
  <2>2. p \notin rqs[c].wl
    BY <1>1, <2>1 DEF Kept, c
  <2> QED
    BY <1>1, <1>7, <1>8, <1>9, <2>1, <2>2 DEF Usable, UsableBy
<1>14. Current(e.rqs)
  <2>1. Current(rqs)
    BY DEF MInv, Sound
  <2> QED
    BY <1>8, <2>1 DEF Current
<1>15. Steady(Now, e)
  <2>1. \A q \in Task : q # p => (q \in rqs[task[q].cpu].queue => q \in e.rqs[e.task[q].cpu].queue)
    BY <1>7, <1>8, <1>9
  <2>2. \A q \in Task : e.task[q].nvcsw >= task[q].nvcsw /\ e.task[p].nvcsw > task[p].nvcsw
    BY <1>7, <1>9
  <2> QED
    BY <2>1, <2>2, Present DEF Steady, In
<1>16. Sound(e.task, e.rqs, online)
  BY <1>10, <1>11, <1>12, <1>13, <1>14 DEF Sound
<1> QED
  BY <1>1, <1>7, <1>15, <1>16, EffectKeeps

\* Where a wakeup puts p, on c and with state v: try_to_wake_up up to the queueing.
Fits(p) == task[p].wake_cpu \in task[p].allowed \cap online
From(p) == IF Fits(p) THEN Now ELSE Widen(Now, p)
PutAt(p, c) == IF task[p].cpu = c THEN From(p) ELSE SetTaskCpu(From(p), p, c)
WokenAt(p, c, v) == WithState(PutAt(p, c), p, v)

LEMMA WokenAtShape ==
  ASSUME MInv, NEW p \in Task, NEW v \in {"RUNNING", "WAKING"},
         NEW c \in IF Fits(p) THEN {task[p].wake_cpu} ELSE FallbackCpus(p)
  PROVE  LET t == WokenAt(p, c, v)
         IN /\ t \in States /\ t.rqs = rqs /\ \A q \in Task : q # p => t.task[q] = task[q]
            /\ t.task[p].nvcsw = task[p].nvcsw /\ t.task[p].state = v
            /\ t.task[p].cpu = c /\ c \in CPU /\ c \in online /\ c \in t.task[p].allowed
<1> DEFINE f == From(p)
           y == PutAt(p, c)
           t == WokenAt(p, c, v)
<1>1. /\ Now \in States /\ Now.task = task /\ Now.rqs = rqs
      /\ task[p].allowed \in SUBSET CPU /\ task[p].cpu \in CPU
  BY Present
<1>2. active \subseteq online /\ online \subseteq CPU
  BY DEF MInv, MasksOK, TypeOK
<1>3. /\ f \in States /\ f.rqs = rqs /\ \A q \in Task : q # p => f.task[q] = task[q]
      /\ f.task[p].nvcsw = task[p].nvcsw /\ f.task[p].cpu = task[p].cpu
      /\ f.task[p].allowed = IF Fits(p) THEN task[p].allowed ELSE Wide(task[p].allowed)
  <2>1. CASE Fits(p)
    BY <1>1, <2>1 DEF From
  <2>2. CASE ~Fits(p)
    <3>1. f = Widen(Now, p)
      BY <2>2 DEF From
    <3> HIDE DEF f
    <3>2. /\ f \in States /\ f.rqs = Now.rqs
          /\ \A q \in Task \ {p} : f.task[q] = Now.task[q]
          /\ f.task[p].allowed = Wide(Now.task[p].allowed)
          /\ f.task[p].cpu = Now.task[p].cpu /\ f.task[p].nvcsw = Now.task[p].nvcsw
      BY <1>1, <3>1, WidenShape
    <3> QED
      BY <1>1, <2>2, <3>2
  <2> QED
    BY <2>1, <2>2
<1>4. c \in CPU /\ c \in online /\ c \in f.task[p].allowed
  <2>1. CASE Fits(p)
    <3>1. c = task[p].wake_cpu
      BY <2>1
    <3> HIDE DEF f
    <3> QED
      BY <1>2, <1>3, <2>1, <3>1 DEF Fits
  <2>2. CASE ~Fits(p)
    <3>1. c \in FallbackCpus(p)
      BY <2>2
    <3>2. c \in active /\ c \in Wide(task[p].allowed)
      BY <1>2, <3>1 DEF FallbackCpus, Wide
    <3> HIDE DEF f
    <3> QED
      BY <1>2, <1>3, <2>2, <3>2
  <2> QED
    BY <2>1, <2>2
<1> HIDE DEF f
<1>5. /\ y \in States /\ y.rqs = rqs /\ \A q \in Task : q # p => y.task[q] = task[q]
      /\ y.task[p].nvcsw = task[p].nvcsw /\ y.task[p].cpu = c
      /\ y.task[p].allowed = f.task[p].allowed
  <2>1. CASE task[p].cpu = c
    <3>1. y = f
      BY <2>1 DEF PutAt, f
    <3> HIDE DEF y
    <3> QED
      BY <1>3, <2>1, <3>1
  <2>2. CASE task[p].cpu # c
    <3>1. y = SetTaskCpu(f, p, c)
      BY <2>2 DEF PutAt, f
    <3> HIDE DEF y
    <3>2. /\ y \in States /\ y.rqs = f.rqs
          /\ y.task = [f.task EXCEPT ![p] = PutOn(f.task[p], c)]
      BY <1>3, <1>4, <3>1, SetTaskCpuShape
    <3>3. f.task \in [Task -> TaskFields] /\ f.task[p] \in TaskFields
      BY <1>3 DEF States
    <3>4. y.task[p] = PutOn(f.task[p], c) /\ \A q \in Task : q # p => y.task[q] = f.task[q]
      BY <3>2, <3>3
    <3>5. /\ y.task[p].cpu = c /\ y.task[p].nvcsw = f.task[p].nvcsw
          /\ y.task[p].allowed = f.task[p].allowed
      BY <3>3, <3>4 DEF PutOn, TaskFields
    <3> QED
      BY <1>3, <3>2, <3>4, <3>5
  <2> QED
    BY <2>1, <2>2
<1> HIDE DEF y
<1>6. t = WithState(y, p, v)
  BY DEF WokenAt, y
<1> HIDE DEF t
<1>7. /\ Alike(y, t, p) /\ t.task[p].state = v
      /\ t.task[p].allowed = y.task[p].allowed /\ t.task[p].nvcsw = y.task[p].nvcsw
  BY <1>5, <1>6, WithStateShape
<1> QED
  BY <1>4, <1>5, <1>7 DEF Alike, t

OnWakeList(s, p, c) == [s EXCEPT !.rqs[c].wl = @ \cup {p}]

LEMMA OnWakeListShape ==
  ASSUME NEW s \in States, NEW p \in Task, NEW c \in CPU
  PROVE  LET e == OnWakeList(s, p, c)
         IN /\ e \in States /\ e.task = s.task /\ SameQueuesBut(s, e, p, c)
<1> DEFINE r == s.rqs[c]
           new == [r EXCEPT !.wl = r.wl \cup {p}]
           e == OnWakeList(s, p, c)
<1>1. s.task \in [Task -> TaskFields] /\ s.rqs \in [CPU -> RqFields] /\ r \in RqFields
  BY DEF States
<1>2. e = [task |-> s.task, rqs |-> [s.rqs EXCEPT ![c] = new]]
  <2> DEFINE q == [s.rqs EXCEPT ![c] = new]
  <2>1. e = [s EXCEPT !.rqs = q]
    BY DEF OnWakeList
  <2> HIDE DEF q, new, e
  <2>2. e = [task |-> s.task, rqs |-> q]
    BY <2>1 DEF States
  <2> QED
    BY <2>2 DEF q
<1> HIDE DEF r
<1>3. /\ new \in RqFields /\ new.queue = r.queue /\ new.curr = r.curr
      /\ new.numa = r.numa /\ new.wl = r.wl \cup {p}
  BY <1>1 DEF RqFields
<1> HIDE DEF new, e
<1>4. e.task = s.task /\ e.rqs = [s.rqs EXCEPT ![c] = new] /\ e \in States
  BY <1>1, <1>2, <1>3 DEF States
<1>5. e.rqs[c] = new /\ \A d \in CPU : d # c => e.rqs[d] = s.rqs[d]
  BY SMTT(45), <1>1, <1>4
<1> QED
  BY <1>3, <1>4, <1>5 DEF SameQueuesBut, e, r

LEMMA WakeStep ==
  ASSUME MovesAssumption, MInv, NEW p \in Task, Wake(p)
  PROVE  MInv'
<1>1. task[p].state = "UNINTERRUPTIBLE" /\ UNCHANGED <<masks, call, watch>>
  BY DEF Wake, ops
<1>2. CASE Queued(p) /\ Set([Now EXCEPT !.task[p].state = "RUNNING"])
  <2> DEFINE e == WithState(Now, p, "RUNNING")
  <2>1. Set(e)
    BY <1>2 DEF WithState
  <2>2. /\ Alike(Now, e, p) /\ e.task[p].state = "RUNNING"
        /\ e.task[p].allowed = Now.task[p].allowed /\ e.task[p].pref = Now.task[p].pref
        /\ e.task[p].nvcsw = Now.task[p].nvcsw
    BY Present, WithStateShape
  <2> HIDE DEF e
  <2>3. Now.task[p].state = "UNINTERRUPTIBLE" /\ In(Now, p)
    BY <1>1, <1>2, Present
  <2>4. UsableBy(e.task, e.rqs, online, p)
    BY <2>2, Present DEF Alike, Sound, Usable, UsableBy
  <2>5. Sound(e.task, e.rqs, online) /\ Steady(Now, e)
    BY <2>2, <2>3, <2>4, Present, AlikeSound
  <2>6. e \in States
    BY <2>2 DEF Alike
  <2> QED
    BY <1>1, <2>1, <2>5, <2>6, EffectKeeps
<1>3. CASE ~Queued(p)
  <2>1. \A d \in CPU : p \notin rqs[d].queue \cup rqs[d].wl
    BY SMTT(45), <1>1, <1>3, Present DEF Queued, Sound, Kept
  <2>2. PICK c \in IF Fits(p) THEN {task[p].wake_cpu} ELSE FallbackCpus(p) :
             \/ Set(EnqueueTask(WokenAt(p, c, "RUNNING"), p))
             \/ Set([WokenAt(p, c, "WAKING") EXCEPT !.rqs[c].wl = @ \cup {p}])
    BY <1>3 DEF Wake, Fits, From, PutAt, WokenAt, WithState
  <2>3. CASE Set(EnqueueTask(WokenAt(p, c, "RUNNING"), p))
    <3> DEFINE t == WokenAt(p, c, "RUNNING")
               e == EnqueueTask(t, p)
    <3>1. /\ t \in States /\ t.rqs = rqs /\ \A q \in Task : q # p => t.task[q] = task[q]
          /\ t.task[p].nvcsw = task[p].nvcsw /\ t.task[p].state = "RUNNING"
          /\ t.task[p].cpu = c /\ c \in CPU /\ c \in online /\ c \in t.task[p].allowed
      BY WokenAtShape
    <3> HIDE DEF t
    <3>2. e \in States /\ Sound(e.task, e.rqs, online) /\ Steady(Now, e)
      <4>1. /\ Now \in States /\ Sound(Now.task, Now.rqs, online) /\ t.rqs = Now.rqs
            /\ \A d \in CPU : p \notin Now.rqs[d].queue \cup Now.rqs[d].wl
            /\ \A q \in Task \ {p} : t.task[q] = Now.task[q]
            /\ t.task[p].nvcsw = Now.task[p].nvcsw /\ t.task[p].state # "WAKING"
            /\ t.task[p].cpu \in online \cap t.task[p].allowed
        BY <2>1, <3>1, Present
      <4> QED
        BY <3>1, <4>1, EnqueueSound
    <3>3. Set(e)
      BY <2>3 DEF t
    <3> QED
      BY <1>1, <3>2, <3>3, EffectKeeps
  <2>4. CASE Set([WokenAt(p, c, "WAKING") EXCEPT !.rqs[c].wl = @ \cup {p}])
    <3> DEFINE t == WokenAt(p, c, "WAKING")
               e == OnWakeList(t, p, c)
    <3>1. /\ t \in States /\ t.rqs = rqs /\ \A q \in Task : q # p => t.task[q] = task[q]
          /\ t.task[p].nvcsw = task[p].nvcsw /\ t.task[p].state = "WAKING"
          /\ t.task[p].cpu = c /\ c \in CPU /\ c \in online /\ c \in t.task[p].allowed
      BY WokenAtShape
    <3>2. Set(e)
      BY <2>4 DEF OnWakeList
    <3> HIDE DEF t
    <3>3. e \in States /\ e.task = t.task /\ SameQueuesBut(t, e, p, c)
      BY <3>1, OnWakeListShape
    <3> HIDE DEF e
    <3>4. SameQueuesBut(Now, e, p, c)
      <4>1. t.rqs = Now.rqs
        BY <3>1, Present
      <4> QED
        BY <3>3, <4>1 DEF SameQueuesBut
    <3>5. /\ Now \in States /\ Sound(Now.task, Now.rqs, online)
          /\ \A d \in CPU : p \notin Now.rqs[d].queue \cup Now.rqs[d].wl
          /\ \A q \in Task \ {p} : e.task[q] = Now.task[q]
          /\ e.task[p].nvcsw = Now.task[p].nvcsw /\ e.task[p].state = "WAKING"
          /\ e.task[p].cpu = c /\ c \in online \cap e.task[p].allowed
      BY <2>1, <3>1, <3>3, Present
    <3>6. c \in CPU /\ e \in States
      BY <3>1, <3>3
    <3>7. Sound(e.task, e.rqs, online) /\ Steady(Now, e)
      BY <3>4, <3>5, <3>6, WakeListSound
    <3> QED
      BY <1>1, <3>2, <3>6, <3>7, EffectKeeps
  <2> QED
    BY <2>2, <2>3, <2>4
<1> QED
  BY ZenonT(45), <1>2, <1>3 DEF Wake

\* A change of the mask of p leaves all but the usability of its CPU.
LEMMA MaskRest ==
  ASSUME NEW s \in States, NEW e, NEW p \in Task, NEW on,
         Alike(s, e, p), Sound(s.task, s.rqs, on), e.task[p].pref = s.task[p].pref,
         e.task[p].nvcsw = s.task[p].nvcsw, e.task[p].state = s.task[p].state
  PROVE  /\ AtHome(e.task, e.rqs) /\ Kept(e.task, e.rqs) /\ Current(e.rqs)
         /\ Counted(e.task, e.rqs) /\ Steady(s, e)
         /\ \A q \in Task \ {p} : UsableBy(e.task, e.rqs, on, q)
<1>1. /\ e \in States /\ e.rqs = s.rqs /\ e.task[p].cpu = s.task[p].cpu
      /\ \A q \in Task : q # p => e.task[q] = s.task[q]
  BY DEF Alike
<1>2. \A d \in CPU : s.rqs[d].queue \in SUBSET Task
  BY DEF States, RqFields
<1>3. \A q \in Task : s.task[q].nvcsw \in Nat
  BY DEF States, TaskFields
<1>4. AtHome(e.task, e.rqs) /\ Kept(e.task, e.rqs) /\ Current(e.rqs)
  BY <1>1 DEF Sound, AtHome, Kept, Current
<1>5. Counted(e.task, e.rqs)
  <2>1. \A q \in Task : e.task[q].pref = s.task[q].pref
    BY <1>1
  <2> QED
    BY <1>1, <1>2, <2>1, CountedSame DEF Sound
<1>6. Steady(s, e)
  BY <1>1, <1>3 DEF Steady, In
<1>7. \A q \in Task \ {p} : UsableBy(e.task, e.rqs, on, q)
  BY <1>1 DEF Sound, Usable, UsableBy
<1> QED
  BY <1>4, <1>5, <1>6, <1>7

\* A task that is not running is not what any CPU runs.
LEMMA NotCurrent ==
  ASSUME MovesAssumption, NEW s \in States, NEW p \in Task,
         AtHome(s.task, s.rqs), Current(s.rqs), s.rqs[s.task[p].cpu].curr # p
  PROVE  \A d \in CPU : s.rqs[d].curr # p
BY DEF AtHome, Current, MovesAssumption

LEMMA SetCpusAllowedStep ==
  ASSUME MovesAssumption, MInv, NEW p \in Task, SetCpusAllowed(p)
  PROVE  MInv'
<1>1. PICK m \in SUBSET CPU :
        /\ task[p].cpu \in m \/ (~Running(p) /\ task[p].state # "WAKING")
        /\ IF Queued(p) /\ task[p].cpu \notin m
           THEN \E c \in m \cap active : Set(MoveQueued(WithMask(Now, p, m), p, c))
           ELSE Set(WithMask(Now, p, m))
  BY DEF SetCpusAllowed, WithMask
<1>2. UNCHANGED <<masks, call, watch>>
  BY DEF SetCpusAllowed
<1> DEFINE s == WithMask(Now, p, m)
<1>3. /\ Alike(Now, s, p) /\ s.task[p].allowed = m
      /\ s.task[p].state = Now.task[p].state /\ s.task[p].pref = Now.task[p].pref
      /\ s.task[p].nvcsw = Now.task[p].nvcsw
  BY Present, WithMaskShape
<1>4. CASE ~(Queued(p) /\ task[p].cpu \notin m)
  <2>1. Set(s)
    BY <1>1, <1>4
  <2> HIDE DEF s
  <2>2. s \in States /\ s.rqs = rqs /\ s.task[p].cpu = task[p].cpu
    BY <1>3, Present DEF Alike
  <2>3. p \in rqs[task[p].cpu].wl => task[p].state = "WAKING"
    BY Present DEF Sound, Kept
  <2>4. p \in rqs[task[p].cpu].queue \cup rqs[task[p].cpu].wl => task[p].cpu \in m \cap online
    BY <1>1, <1>4, <2>3, Present DEF Queued, Sound, Usable, UsableBy
  <2>5. UsableBy(s.task, s.rqs, online, p)
    BY <1>3, <2>2, <2>4 DEF UsableBy
  <2>6. s.task[p].state = "RUNNING" => In(Now, p)
    BY <1>3, Present DEF Sound, Kept, In
  <2>7. Sound(s.task, s.rqs, online) /\ Steady(Now, s)
    BY <1>3, <2>5, <2>6, Present, AlikeSound
  <2> QED
    BY <1>2, <2>1, <2>2, <2>7, EffectKeeps
<1>5. CASE Queued(p) /\ task[p].cpu \notin m
  <2>1. PICK c \in m \cap active : Set(MoveQueued(s, p, c))
    BY <1>1, <1>5
  <2> HIDE DEF s
  <2>2. s \in States /\ s.rqs = rqs /\ s.task[p].cpu = task[p].cpu
    BY <1>3, Present DEF Alike
  <2>3. /\ AtHome(s.task, s.rqs) /\ Kept(s.task, s.rqs) /\ Current(s.rqs)
        /\ Counted(s.task, s.rqs) /\ Steady(Now, s)
        /\ \A q \in Task \ {p} : UsableBy(s.task, s.rqs, online, q)
    BY <1>3, Present, MaskRest
  <2>4. In(s, p) /\ c \in CPU /\ c \in online /\ c \in s.task[p].allowed
    BY <1>3, <1>5, <2>1, <2>2 DEF In, Queued, MInv, MasksOK
  <2>5. \A d \in CPU : s.rqs[d].curr # p
    BY <1>1, <1>5, <2>2, <2>3, NotCurrent DEF Running
  <2> DEFINE e == MoveQueued(s, p, c)
  <2>6. Moved(s, e, p, c) /\ Counted(e.task, e.rqs)
    BY <2>2, <2>3, <2>4, MoveShape
  <2> HIDE DEF e
  <2>7. e \in States
    BY <2>6 DEF Moved
  <2>8. Sound(e.task, e.rqs, online) /\ Steady(s, e)
    BY <2>2, <2>3, <2>4, <2>5, <2>6, <2>7, MovedSound
  <2>9. Steady(Now, e)
    BY <2>2, <2>3, <2>7, <2>8, Present, SteadyTrans
  <2> QED
    BY <1>2, <2>1, <2>7, <2>8, <2>9, EffectKeeps DEF e
<1> QED
  BY <1>4, <1>5

LEMMA SetNumaStep ==
  ASSUME MovesAssumption, MInv, NEW p \in Task, SetNuma(p)
  PROVE  MInv'
<1> DEFINE x == IF Queued(p) THEN DequeueTask(Now, p) ELSE Now
           y(n) == WithNode(x, p, n)
           z(n) == IF Queued(p) THEN EnqueueTask(y(n), p) ELSE y(n)
<1>1. PICK n \in CPU : Set(z(n))
  BY DEF SetNuma, WithNode
<1>2. UNCHANGED <<masks, call, watch>>
  BY DEF SetNuma
<1>3. /\ x \in States /\ x.task = task /\ SameRest(rqs, x.rqs)
      /\ \A d \in CPU : p \notin x.rqs[d].queue
      /\ \A d \in CPU : x.rqs[d].queue = rqs[d].queue \ {p}
      /\ Counted(x.task, x.rqs)
  <2>1. /\ Now \in States /\ Now.task = task /\ Now.rqs = rqs
        /\ Counted(Now.task, Now.rqs) /\ AtHome(task, rqs)
    BY Present DEF Sound
  <2>2. \A d \in CPU : d # task[p].cpu => p \notin rqs[d].queue
    BY <2>1 DEF AtHome
  <2>3. CASE Queued(p)
    <3> DEFINE v == DequeueTask(Now, p)
    <3>1. x = v
      BY <2>3
    <3>2. /\ v \in States /\ v.task = Now.task /\ SameRest(Now.rqs, v.rqs)
          /\ \A d \in CPU \ {Now.task[p].cpu} : v.rqs[d] = Now.rqs[d]
          /\ v.rqs[Now.task[p].cpu].queue = Now.rqs[Now.task[p].cpu].queue \ {p}
      BY <2>1, DequeueShape
    <3>3. Counted(v.task, v.rqs)
      BY <2>1, <2>3, DequeueCounts DEF Queued
    <3> HIDE DEF v, x
    <3>4. \A d \in CPU : v.rqs[d].queue = rqs[d].queue \ {p}
      <4>1. ASSUME NEW d \in CPU PROVE v.rqs[d].queue = rqs[d].queue \ {p}
        <5>1. CASE d = task[p].cpu
          BY <2>1, <3>2, <5>1
        <5>2. CASE d # task[p].cpu
          <6>1. v.rqs[d] = rqs[d]
            BY <2>1, <3>2, <5>2
          <6> QED
            BY <2>2, <5>2, <6>1
        <5> QED
          BY <5>1, <5>2
      <4> QED
        BY <4>1
    <3> QED
      BY <2>1, <3>1, <3>2, <3>3, <3>4
  <2>4. CASE ~Queued(p)
    <3>1. x = Now
      BY <2>4
    <3> HIDE DEF x
    <3>2. \A d \in CPU : p \notin rqs[d].queue
      BY <2>2, <2>4 DEF Queued
    <3>3. \A d \in CPU : rqs[d].queue = rqs[d].queue \ {p}
      BY <3>2
    <3> QED
      BY <2>1, <3>1, <3>2, <3>3 DEF SameRest
  <2> QED
    BY <2>3, <2>4
<1> HIDE DEF x
<1>4. /\ Alike(x, y(n), p) /\ y(n).task[p].state = x.task[p].state
      /\ y(n).task[p].allowed = x.task[p].allowed /\ y(n).task[p].nvcsw = x.task[p].nvcsw
  BY <1>3, WithNodeShape
<1> DEFINE t == y(n)
           e == z(n)
<1>5. e = IF Queued(p) THEN EnqueueTask(t, p) ELSE t
  OBVIOUS
<1>6. Set(e)
  BY <1>1
<1> HIDE DEF y, z, t, e
<1>7. /\ t \in States /\ t.rqs = x.rqs /\ t.task[p].cpu = task[p].cpu
      /\ t.task[p].state = task[p].state /\ t.task[p].allowed = task[p].allowed
      /\ t.task[p].nvcsw = task[p].nvcsw
      /\ \A q \in Task : q # p => t.task[q] = task[q]
  BY <1>3, <1>4 DEF Alike, t
<1>8. Counted(t.task, t.rqs)
  <2>1. \A d \in CPU : x.rqs[d].queue \in SUBSET Task
    BY <1>3 DEF States, RqFields
  <2>2. \A d \in CPU : /\ t.rqs[d].queue = x.rqs[d].queue /\ t.rqs[d].numa = x.rqs[d].numa
                       /\ \A q \in t.rqs[d].queue : t.task[q].pref = x.task[q].pref
    BY <1>3, <1>7, <2>1
  <2> QED
    BY <1>3, <1>7, <2>2, CountedSame
<1>9. /\ e \in States /\ e.task = t.task /\ Counted(e.task, e.rqs) /\ SameRest(rqs, e.rqs)
      /\ \A d \in CPU : e.rqs[d].queue = rqs[d].queue
  <2>1. CASE Queued(p)
    <3>1. e = EnqueueTask(t, p)
      BY <1>5, <2>1
    <3>2. /\ e \in States /\ e.task = t.task /\ t.task[p].cpu \in CPU
          /\ SameRest(t.rqs, e.rqs)
          /\ \A d \in CPU \ {t.task[p].cpu} : e.rqs[d] = t.rqs[d]
          /\ e.rqs[t.task[p].cpu].queue = t.rqs[t.task[p].cpu].queue \cup {p}
      BY <1>7, <3>1, EnqueueShape
    <3>3. Counted(e.task, e.rqs)
      BY <1>3, <1>7, <1>8, <3>1, <3>2, EnqueueCounts
    <3>4. SameRest(rqs, e.rqs)
      BY <1>3, <1>7, <3>2 DEF SameRest
    <3>5. ASSUME NEW d \in CPU PROVE e.rqs[d].queue = rqs[d].queue
      <4>1. CASE d = task[p].cpu
        <5>1. p \in rqs[d].queue
          BY <2>1, <4>1 DEF Queued
        <5>2. e.rqs[d].queue = (rqs[d].queue \ {p}) \cup {p}
          BY <1>3, <1>7, <3>2, <4>1
        <5> QED
          BY <5>1, <5>2
      <4>2. CASE d # task[p].cpu
        <5>1. p \notin rqs[d].queue
          BY <4>2, Present
        <5>2. e.rqs[d].queue = rqs[d].queue \ {p}
          BY <1>3, <1>7, <3>2, <4>2
        <5> QED
          BY <5>1, <5>2
      <4> QED
        BY <4>1, <4>2
    <3> QED
      BY <3>2, <3>3, <3>4, <3>5
  <2>2. CASE ~Queued(p)
    <3>1. e = t
      BY <1>5, <2>2
    <3>2. \A d \in CPU : p \notin rqs[d].queue
      BY <2>2, Present DEF Queued
    <3>3. \A d \in CPU : rqs[d].queue \ {p} = rqs[d].queue
      BY <3>2
    <3> QED
      BY <1>3, <1>7, <1>8, <3>1, <3>3
  <2> QED
    BY <2>1, <2>2
<1>10. SameQueues(Now, e)
  BY <1>9, Present DEF SameRest, SameQueues
<1>11. \A q \in Task : /\ e.task[q].cpu = Now.task[q].cpu /\ e.task[q].nvcsw = Now.task[q].nvcsw
                       /\ e.task[q].state = Now.task[q].state
                       /\ e.task[q].allowed = Now.task[q].allowed
  BY <1>7, <1>9, Present
<1>12. Kept(e.task, e.rqs) /\ Usable(e.task, e.rqs, online)
  BY SMTT(45), <1>10, <1>11, Present DEF Sound, Kept, Usable, UsableBy, SameQueues
<1>13. Sound(e.task, e.rqs, online) /\ Steady(Now, e)
  BY <1>9, <1>10, <1>11, <1>12, Present, SameSound
<1> QED
  BY <1>2, <1>6, <1>9, <1>13, EffectKeeps

-----------------------------------------------------------------------------
(* Calls                                                                   *)

\* What kind of call a task is in the middle of.
LEMMA CallKinds ==
  ASSUME TypeOK, NEW p \in Task, ~Resting(p)
  PROVE  /\ call[p] # None /\ call[p] \in AllCalls
         /\ call[p].op = "swap" => call[p] \in Swaps
         /\ call[p].op = "move" => call[p] \in Moves
         /\ call[p].op = "yield" => call[p] \in Yields
BY DEF TypeOK, Resting, AllCalls, Swaps, Moves, Yields

\* A call that begins only reads.
LEMMA BeginStep ==
  ASSUME MovesAssumption, MInv, NEW p \in Task, NEW r \in AllCalls, r.at = "read",
         Begin(p, r), UNCHANGED <<sched, masks, watch>>
  PROVE  MInv'
<1>1. QuietCall(r) /\ call' = [call EXCEPT ![p] = r]
  BY DEF QuietCall, Begin
<1> QED
  BY <1>1, Present, NothingMoves, CallKeeps

LEMMA BeginsStep ==
  ASSUME MovesAssumption, MInv, NEW p \in Task,
         MigrateSwap(p) \/ MigrateTaskTo(p) \/ SchedExec(p) \/ YieldTo(p)
  PROVE  MInv'
<1>1. \A q \in Task : task[q].cpu \in CPU /\ task[q].allowed \in SUBSET CPU
  BY Present
<1>2. active \in SUBSET CPU
  BY DEF MInv, TypeOK
<1>3. CASE MigrateSwap(p)
  <2>1. PICK q \in Task : Begin(p, [op |-> "swap", at |-> "read", with |-> q,
                                    src |-> task[p].cpu, dst |-> task[q].cpu])
    BY <1>3 DEF MigrateSwap
  <2> DEFINE r == [op |-> "swap", at |-> "read", with |-> q, src |-> task[p].cpu,
                   dst |-> task[q].cpu]
  <2>2. r \in AllCalls /\ r.at = "read"
    BY <1>1 DEF AllCalls, Swaps
  <2> HIDE DEF r
  <2> QED
    BY <1>3, <2>1, <2>2, BeginStep DEF MigrateSwap, r
<1>4. CASE MigrateTaskTo(p)
  <2>1. PICK c \in task[p].allowed :
          Begin(p, [op |-> "move", at |-> "read", src |-> task[p].cpu, dst |-> c,
                    first |-> FALSE])
    BY <1>4 DEF MigrateTaskTo
  <2> DEFINE r == [op |-> "move", at |-> "read", src |-> task[p].cpu, dst |-> c,
                   first |-> FALSE]
  <2>2. r \in AllCalls /\ r.at = "read"
    BY <1>1 DEF AllCalls, Moves
  <2> HIDE DEF r
  <2> QED
    BY <1>4, <2>1, <2>2, BeginStep DEF MigrateTaskTo, r
<1>5. CASE SchedExec(p)
  <2>1. PICK c \in active :
          Begin(p, [op |-> "move", at |-> "read", src |-> None, dst |-> c, first |-> FALSE])
    BY <1>5 DEF SchedExec
  <2> DEFINE r == [op |-> "move", at |-> "read", src |-> None, dst |-> c, first |-> FALSE]
  <2>2. r \in AllCalls /\ r.at = "read"
    BY <1>2 DEF AllCalls, Moves
  <2> HIDE DEF r
  <2> QED
    BY <1>5, <2>1, <2>2, BeginStep DEF SchedExec, r
<1>6. CASE YieldTo(p)
  <2>1. PICK q \in Task : Begin(p, [op |-> "yield", at |-> "read", to |-> q,
                                    p_rq |-> task[q].cpu])
    BY <1>6 DEF YieldTo
  <2> DEFINE r == [op |-> "yield", at |-> "read", to |-> q, p_rq |-> task[q].cpu]
  <2>2. r \in AllCalls /\ r.at = "read"
    BY <1>1 DEF AllCalls, Yields
  <2> HIDE DEF r
  <2> QED
    BY <1>6, <2>1, <2>2, BeginStep DEF YieldTo, r
<1> QED
  BY <1>3, <1>4, <1>5, <1>6

LEMMA ReturnsQuiet == QuietCall(None)
BY DEF QuietCall

\* Both CPUs are active when the stoppers are asked, and active CPUs are online.
LEMMA SwapTestStep ==
  ASSUME MovesAssumption, MInv, NEW p \in Task, SwapTest(p)
  PROVE  MInv'
<1> DEFINE a == call[p]
<1>1. UNCHANGED <<sched, masks, watch>> /\ a \in Swaps
  BY CallKinds DEF SwapTest, MInv
<1>2. CASE Return(p)
  BY <1>1, <1>2, NothingMoves, ReturnsQuiet, CallKeeps DEF Return, Continue
<1>3. CASE {a.src, a.dst} \subseteq active /\ Continue(p, [a EXCEPT !.at = "stop"])
  <2> DEFINE r == [a EXCEPT !.at = "stop"]
  <2>1. r \in Swaps /\ r.src = a.src /\ r.dst = a.dst /\ call' = [call EXCEPT ![p] = r]
    BY <1>1, <1>3 DEF Swaps, Continue
  <2> HIDE DEF r
  <2>2. call' \in [Task -> AllCalls \cup {None}]
    BY <2>1 DEF MInv, TypeOK, AllCalls
  <2>3. online' = online /\ active' = active /\ going' = going /\ UNCHANGED watch
    BY <1>1 DEF masks
  <2>4. MasksOK'
    BY <2>3 DEF MInv, MasksOK
  <2>5. SwapsHeld'
    <3>1. ASSUME NEW q \in Task, Stopping(q)', call'[q].op = "swap"
          PROVE  {call'[q].src, call'[q].dst} \subseteq online
      <4>1. CASE q = p
        BY <1>3, <2>1, <4>1 DEF MInv, MasksOK, TypeOK
      <4>2. CASE q # p
        <5>1. call'[q] = call[q]
          BY <2>1, <4>2 DEF MInv, TypeOK
        <5> QED
          BY <3>1, <5>1 DEF MInv, SwapsHeld, Stopping
      <4> QED
        BY <4>1, <4>2
    <3> QED
      BY <2>3, <3>1 DEF SwapsHeld
  <2> QED
    BY <1>1, <2>2, <2>3, <2>4, <2>5, NothingMoves, StepKeeps DEF MInv, TypeOK
<1> QED
  BY <1>2, <1>3 DEF SwapTest

LEMMA StopOneCpuStep ==
  ASSUME MovesAssumption, MInv, NEW p \in Task, StopOneCpu(p)
  PROVE  MInv'
<1> DEFINE a == call[p]
           src == IF a.src = None THEN task[p].cpu ELSE a.src
           r == [a EXCEPT !.at = "stop", !.src = src, !.first = src \in active]
<1>1. UNCHANGED <<sched, masks, watch>> /\ a \in Moves /\ call' = [call EXCEPT ![p] = r]
  BY CallKinds DEF StopOneCpu, MInv, Continue
<1>2. src \in CPU \cup {None}
  BY <1>1, Present DEF Moves
<1>3. r \in Moves
  <2> HIDE DEF src, a
  <2>1. (src \in active) \in BOOLEAN
    OBVIOUS
  <2> QED
    BY <1>1, <1>2, <2>1 DEF Moves
<1>4. QuietCall(r)
  <2> HIDE DEF r
  <2> QED
    BY <1>3 DEF QuietCall, AllCalls, Moves
<1> HIDE DEF r
<1> QED
  BY <1>1, <1>4, NothingMoves, CallKeeps

\* A task is swapped to a CPU that is online and that it may use.
LEMMA SwapTaskSound ==
  ASSUME MovesAssumption, NEW s \in States, NEW p \in Task, NEW c \in CPU, NEW on,
         Sound(s.task, s.rqs, on), c \in on \cap s.task[p].allowed,
         \A d \in CPU : s.rqs[d].curr # p
  PROVE  LET e == MigrateSwapTask(s, p, c)
         IN /\ e \in States /\ Sound(e.task, e.rqs, on) /\ Steady(s, e)
            /\ \A q \in Task : e.task[q].allowed = s.task[q].allowed
            /\ \A d \in CPU : e.rqs[d].curr = s.rqs[d].curr
<1> DEFINE e == MigrateSwapTask(s, p, c)
<1>1. /\ s.task \in [Task -> TaskFields]
      /\ AtHome(s.task, s.rqs) /\ Kept(s.task, s.rqs) /\ Current(s.rqs)
      /\ Counted(s.task, s.rqs)
      /\ \A q \in Task \ {p} : UsableBy(s.task, s.rqs, on, q)
  BY DEF Sound, Usable, States
<1>2. CASE In(s, p)
  <2>1. e = MoveQueued(s, p, c)
    BY <1>2 DEF MigrateSwapTask, In
  <2> HIDE DEF e
  <2>2. Moved(s, e, p, c) /\ Counted(e.task, e.rqs)
    BY <1>1, <1>2, <2>1, MoveShape
  <2>3. e \in States
    BY <2>2 DEF Moved
  <2>4. Sound(e.task, e.rqs, on) /\ Steady(s, e)
    BY <1>1, <1>2, <2>2, <2>3, MovedSound
  <2>5. \A q \in Task : e.task[q].allowed = s.task[q].allowed
    BY <1>1, <2>2 DEF Moved, PutOn, TaskFields
  <2>6. \A d \in CPU : e.rqs[d].curr = s.rqs[d].curr
    BY <2>2 DEF Moved, SameRest
  <2> QED
    BY <2>3, <2>4, <2>5, <2>6 DEF e
<1>3. CASE ~In(s, p)
  <2>1. e = WithWakeCpu(s, p, c)
    BY <1>3 DEF MigrateSwapTask, In, WithWakeCpu
  <2> HIDE DEF e
  <2>2. /\ Alike(s, e, p) /\ e.task[p].pref = s.task[p].pref
        /\ e.task[p].state = s.task[p].state /\ e.task[p].allowed = s.task[p].allowed
        /\ e.task[p].nvcsw = s.task[p].nvcsw
    BY <2>1, WithWakeCpuShape
  <2>3. UsableBy(e.task, e.rqs, on, p)
    BY <2>2 DEF Alike, Sound, Usable, UsableBy
  <2>4. e.task[p].state = "RUNNING" => In(s, p)
    BY <2>2 DEF Sound, Kept, In
  <2>5. Sound(e.task, e.rqs, on) /\ Steady(s, e)
    BY <2>2, <2>3, <2>4, AlikeSound
  <2>6. /\ e \in States /\ \A d \in CPU : e.rqs[d].curr = s.rqs[d].curr
        /\ \A q \in Task : e.task[q].allowed = s.task[q].allowed
    BY <2>2 DEF Alike
  <2> QED
    BY <2>5, <2>6 DEF e
<1> QED
  BY <1>2, <1>3

LEMMA MigrateSwapStopStep ==
  ASSUME MovesAssumption, MInv, NEW p \in Task, MigrateSwapStop(p)
  PROVE  MInv'
<1> DEFINE a == call[p]
           s == Vacate(Now, {a.src, a.dst})
           x == MigrateSwapTask(s, p, a.dst)
           y == MigrateSwapTask(x, a.with, a.src)
           e == IF StillSwappable(p, a) THEN y ELSE s
<1>1. /\ UNCHANGED <<masks, watch>> /\ a \in Swaps /\ call' = [call EXCEPT ![p] = None]
      /\ Set(e)
  BY CallKinds DEF MigrateSwapStop, MInv, Return, Continue, Stopping, Resting
<1>2. a.with \in Task /\ a.src \in CPU /\ a.dst \in CPU
  BY <1>1 DEF Swaps
<1>3. a.src \in online /\ a.dst \in online
  BY DEF MigrateSwapStop, MInv, SwapsHeld
<1>4. /\ Now \in States /\ Now.task = task /\ Now.rqs = rqs
      /\ Sound(Now.task, Now.rqs, online)
  BY Present
<1>5. /\ s \in States /\ s.task = Now.task
      /\ \A c \in CPU : s.rqs[c].curr = IF c \in {a.src, a.dst} THEN None ELSE Now.rqs[c].curr
  <2> HIDE DEF a
  <2> QED
    BY <1>4, VacateShape
<1>6. Sound(s.task, s.rqs, online) /\ Steady(Now, s)
  <2> HIDE DEF a
  <2> QED
    BY <1>4, VacateSound
<1> HIDE DEF s
<1>7. CASE ~StillSwappable(p, a)
  <2>1. e = s
    BY <1>7
  <2> QED
    BY <1>1, <1>5, <1>6, <2>1, ReturnsQuiet, CallKeeps
<1>8. CASE StillSwappable(p, a)
  <2>1. /\ task[p].cpu = a.src /\ task[a.with].cpu = a.dst
        /\ a.dst \in task[p].allowed /\ a.src \in task[a.with].allowed
    BY <1>8 DEF StillSwappable, SwapAllowed
  <2>2. AtHome(s.task, s.rqs) /\ Current(s.rqs)
    BY <1>6 DEF Sound
  <2>3. p # None /\ a.with # None
    BY <1>2 DEF MovesAssumption
  <2>4. s.rqs[a.src].curr = None /\ s.rqs[a.dst].curr = None
    BY <1>2, <1>5
  <2>5. s.task[p].cpu = a.src /\ s.task[a.with].cpu = a.dst
    BY <1>4, <1>5, <2>1
  <2>6. \A d \in CPU : s.rqs[d].curr # p
    BY <1>5, <2>2, <2>3, <2>4, <2>5, NotCurrent
  <2>7. \A d \in CPU : s.rqs[d].curr # a.with
    BY <1>2, <1>5, <2>2, <2>3, <2>4, <2>5, NotCurrent
  <2>8. a.dst \in online \cap s.task[p].allowed /\ a.src \in online \cap s.task[a.with].allowed
    BY <1>3, <1>4, <1>5, <2>1
  <2>9. /\ x \in States /\ Sound(x.task, x.rqs, online) /\ Steady(s, x)
        /\ \A q \in Task : x.task[q].allowed = s.task[q].allowed
        /\ \A d \in CPU : x.rqs[d].curr = s.rqs[d].curr
    <3> HIDE DEF a
    <3> QED
      BY <1>2, <1>5, <1>6, <2>6, <2>8, SwapTaskSound
  <2> HIDE DEF x
  <2>10. y \in States /\ Sound(y.task, y.rqs, online) /\ Steady(x, y)
    <3>1. a.src \in online \cap x.task[a.with].allowed /\ \A d \in CPU : x.rqs[d].curr # a.with
      BY <1>2, <2>7, <2>8, <2>9
    <3> HIDE DEF a
    <3> QED
      BY <1>2, <2>9, <3>1, SwapTaskSound
  <2> HIDE DEF y
  <2>11. Steady(Now, y)
    <3>1. Steady(Now, x)
      BY <1>4, <1>5, <1>6, <2>9, SteadyTrans
    <3> QED
      BY <1>4, <2>9, <2>10, <3>1, SteadyTrans
  <2>12. Set(y)
    BY <1>1, <1>8
  <2> QED
    BY <1>1, <2>10, <2>11, <2>12, ReturnsQuiet, CallKeeps
<1> QED
  BY <1>7, <1>8

\* __migrate_task: the checks under the lock make a move safe.
LEMMA MigrateTaskSound ==
  ASSUME MovesAssumption, MInv, NEW s \in States, NEW p \in Task, NEW src \in CPU, NEW dst,
         Sound(s.task, s.rqs, online), s.rqs[src].curr = None
  PROVE  LET e == MigrateTask(s, p, src, dst)
         IN e \in States /\ Sound(e.task, e.rqs, online) /\ Steady(s, e)
<1> DEFINE e == MigrateTask(s, p, src, dst)
<1>1. CASE ~MayMigrate(s, p, src, dst)
  <2>1. e = s
    BY <1>1 DEF MigrateTask
  <2> HIDE DEF e
  <2> QED
    BY <2>1, SteadySelf DEF e
<1>2. CASE MayMigrate(s, p, src, dst)
  <2>1. e = MoveQueued(s, p, dst)
    BY <1>2 DEF MigrateTask
  <2> HIDE DEF e
  <2>2. /\ dst \in CPU /\ dst \in online \cap s.task[p].allowed /\ In(s, p)
        /\ s.task[p].cpu = src
    BY <1>2 DEF MayMigrate, MInv, MasksOK, TypeOK, In
  <2>3. /\ AtHome(s.task, s.rqs) /\ Kept(s.task, s.rqs) /\ Current(s.rqs)
        /\ Counted(s.task, s.rqs)
        /\ \A q \in Task \ {p} : UsableBy(s.task, s.rqs, online, q)
    BY DEF Sound, Usable
  <2>4. \A d \in CPU : s.rqs[d].curr # p
    BY <2>2, <2>3, NotCurrent DEF MovesAssumption
  <2>5. Moved(s, e, p, dst) /\ Counted(e.task, e.rqs)
    BY <2>1, <2>2, <2>3, MoveShape
  <2>6. e \in States
    BY <2>5 DEF Moved
  <2>7. Sound(e.task, e.rqs, online) /\ Steady(s, e)
    BY <2>2, <2>3, <2>4, <2>5, <2>6, MovedSound
  <2> QED
    BY <2>6, <2>7 DEF e
<1> QED
  BY <1>1, <1>2

\* The wake list of c is drained and c leaves its task.
Emptied(c) == Vacate(TtwuPending(Now, c), {c})

LEMMA EmptiedSound ==
  ASSUME MovesAssumption, MInv, NEW c \in CPU
  PROVE  LET s == Emptied(c)
         IN /\ s \in States /\ Sound(s.task, s.rqs, online) /\ Steady(Now, s)
            /\ s.rqs[c].wl = {} /\ s.rqs[c].curr = None
            /\ \A p \in Task : s.task[p].allowed = task[p].allowed
<1> DEFINE t == TtwuPending(Now, c)
           s == Emptied(c)
<1>1. /\ Now \in States /\ Now.task = task /\ Now.rqs = rqs
      /\ Sound(Now.task, Now.rqs, online)
  BY Present
<1>2. /\ t \in States /\ t.rqs[c].wl = {}
      /\ \A p \in Task : t.task[p].allowed = Now.task[p].allowed
  <2>1. AtHome(Now.task, Now.rqs)
    BY <1>1 DEF Sound
  <2> QED
    BY <1>1, <2>1, TtwuShape
<1>3. Sound(t.task, t.rqs, online) /\ Steady(Now, t)
  BY <1>1, TtwuSound
<1>4. s = Vacate(t, {c})
  BY DEF Emptied
<1> HIDE DEF t, s
<1>5. /\ s \in States /\ s.task = t.task /\ s.rqs[c].wl = t.rqs[c].wl /\ s.rqs[c].curr = None
  BY <1>2, <1>4, VacateShape
<1>6. Sound(s.task, s.rqs, online) /\ Steady(t, s)
  BY <1>2, <1>3, <1>4, VacateSound
<1>7. Steady(Now, s)
  BY <1>1, <1>2, <1>3, <1>5, <1>6, SteadyTrans
<1> QED
  BY <1>1, <1>2, <1>5, <1>6, <1>7 DEF s

LEMMA MigrationCpuStopStep ==
  ASSUME MovesAssumption, MInv, NEW p \in Task, MigrationCpuStop(p)
  PROVE  MInv'
<1> DEFINE a == call[p]
           s == Emptied(a.src)
           y == MigrateTask(s, p, a.src, a.dst)
<1>1. /\ UNCHANGED <<masks, watch>> /\ call' = [call EXCEPT ![p] = None]
      /\ Set(IF a.src \in online THEN y ELSE Now)
  BY DEF MigrationCpuStop, Return, Continue, Emptied
<1> HIDE DEF a
<1>2. CASE a.src \notin online
  <2>1. Set(Now)
    BY <1>1, <1>2
  <2> QED
    BY <1>1, <2>1, Present, ReturnsQuiet, CallKeeps
<1>3. CASE a.src \in online
  <2>1. a.src \in CPU /\ Set(y)
    BY <1>1, <1>3 DEF MInv, TypeOK
  <2>2. /\ s \in States /\ Sound(s.task, s.rqs, online) /\ Steady(Now, s)
        /\ s.rqs[a.src].curr = None
    BY <2>1, EmptiedSound
  <2> HIDE DEF s
  <2>3. y \in States /\ Sound(y.task, y.rqs, online) /\ Steady(s, y)
    BY <2>1, <2>2, MigrateTaskSound
  <2> HIDE DEF y
  <2>4. Steady(Now, y)
    BY <2>2, <2>3, Present, SteadyTrans
  <2> QED
    BY <1>1, <2>1, <2>3, <2>4, ReturnsQuiet, CallKeeps
<1> QED
  BY <1>2, <1>3

LEMMA YieldLockedStep ==
  ASSUME MovesAssumption, MInv, NEW p \in Task, YieldLocked(p)
  PROVE  MInv'
<1> DEFINE a == call[p]
           rq == task[p].cpu
<1>1. UNCHANGED <<masks, watch>> /\ a \in Yields
  BY CallKinds DEF YieldLocked, MInv
<1>2. CASE UNCHANGED sched /\ Return(p)
  BY <1>1, <1>2, NothingMoves, ReturnsQuiet, CallKeeps DEF Return, Continue
<1>3. CASE UNCHANGED sched /\ Continue(p, [a EXCEPT !.p_rq = task[a.to].cpu])
  <2> DEFINE r == [a EXCEPT !.p_rq = task[a.to].cpu]
  <2>1. task[a.to].cpu \in CPU
    BY <1>1, Present DEF Yields
  <2>2. r \in Yields
    <3> HIDE DEF a
    <3> QED
      BY <1>1, <2>1 DEF Yields
  <2>3. call' = [call EXCEPT ![p] = r]
    BY <1>3 DEF Continue
  <2> HIDE DEF r
  <2>4. QuietCall(r)
    BY <2>2 DEF QuietCall, AllCalls, Yields
  <2> QED
    BY <1>1, <1>3, <2>3, <2>4, NothingMoves, CallKeeps
<1>4. CASE Set(Vacate(Now, {rq, a.p_rq})) /\ Return(p)
  <2> DEFINE e == Vacate(Now, {rq, a.p_rq})
  <2>1. e \in States /\ Sound(e.task, e.rqs, online) /\ Steady(Now, e)
    <3> HIDE DEF rq, a
    <3> QED
      BY Present, VacateSound
  <2>2. Set(e)
    BY <1>4
  <2> HIDE DEF e
  <2> QED
    BY <1>1, <1>4, <2>1, <2>2, ReturnsQuiet, CallKeeps DEF Return, Continue
<1> QED
  BY <1>2, <1>3, <1>4 DEF YieldLocked, sched

-----------------------------------------------------------------------------
(* CPUs go down and come back                                              *)

LEMMA MoreOnline ==
  ASSUME NEW s \in States, NEW on, NEW c, Sound(s.task, s.rqs, on)
  PROVE  Sound(s.task, s.rqs, on \cup {c})
BY DEF Sound, Usable, UsableBy

LEMMA CpuDownPrepareStep ==
  ASSUME MovesAssumption, MInv, NEW c \in CPU, CpuDownPrepare(c)
  PROVE  MInv'
<1>1. /\ UNCHANGED sched /\ online' = online /\ call' = call /\ UNCHANGED watch
      /\ active' = active \ {c} /\ going' = c /\ c \in active
  BY DEF CpuDownPrepare, ops
<1>2. MasksOK' /\ SwapsHeld'
  BY <1>1 DEF MInv, MasksOK, SwapsHeld, Stopping
<1>3. active' \in SUBSET CPU /\ going' \in CPU \cup {None} /\ online' \in SUBSET CPU
      /\ call' \in [Task -> AllCalls \cup {None}]
  BY <1>1 DEF MInv, TypeOK
<1>4. Sound(Now.task, Now.rqs, online')
  BY <1>1, Present
<1> QED
  BY <1>1, <1>2, <1>3, <1>4, NothingMoves, StepKeeps

LEMMA CpuDownFailedStep ==
  ASSUME MovesAssumption, MInv, CpuDownFailed
  PROVE  MInv'
<1>1. /\ UNCHANGED sched /\ online' = online /\ call' = call /\ UNCHANGED watch
      /\ active' = active \cup {going} /\ going' = None /\ going # None
  BY DEF CpuDownFailed, ops
<1>2. MasksOK' /\ SwapsHeld'
  BY <1>1 DEF MInv, MasksOK, SwapsHeld, Stopping
<1>3. active' \in SUBSET CPU /\ going' \in CPU \cup {None} /\ online' \in SUBSET CPU
      /\ call' \in [Task -> AllCalls \cup {None}]
  BY <1>1 DEF MInv, TypeOK
<1>4. Sound(Now.task, Now.rqs, online')
  BY <1>1, Present
<1> QED
  BY <1>1, <1>2, <1>3, <1>4, NothingMoves, StepKeeps

LEMMA CpuUpStep ==
  ASSUME MovesAssumption, MInv, NEW c \in CPU, CpuUp(c)
  PROVE  MInv'
<1>1. /\ UNCHANGED sched /\ call' = call /\ UNCHANGED watch /\ going' = going
      /\ active' = active \cup {c} /\ online' = online \cup {c} /\ going = None
  BY DEF CpuUp, ops
<1>2. MasksOK' /\ SwapsHeld'
  BY <1>1 DEF MInv, MasksOK, SwapsHeld, Stopping
<1>3. active' \in SUBSET CPU /\ going' \in CPU \cup {None} /\ online' \in SUBSET CPU
      /\ call' \in [Task -> AllCalls \cup {None}]
  BY <1>1 DEF MInv, TypeOK
<1>4. Sound(Now.task, Now.rqs, online')
  BY <1>1, Present, MoreOnline
<1> QED
  BY <1>1, <1>2, <1>3, <1>4, NothingMoves, StepKeeps

\* The wake list and the queue of the CPU are emptied in the step that takes it down.
LEMMA CpuDyingStep ==
  ASSUME MovesAssumption, MInv, CpuDying
  PROVE  MInv'
<1> DEFINE c == going
           s == Emptied(c)
<1>1. PICK dest \in [s.rqs[c].queue -> active] :
        /\ \A p \in s.rqs[c].queue : dest[p] \in FallbackCpus(p)
        /\ Set(MigrateTasks(s, c, dest))
  BY DEF CpuDying, Emptied
<1>2. /\ online' = online \ {c} /\ active' = active /\ going' = None /\ call' = call
      /\ UNCHANGED watch /\ WorksBefore(c) = {} /\ c # None
  BY DEF CpuDying, ops
<1>3. /\ c \in CPU /\ c \in online /\ c \notin active
      /\ active \in SUBSET CPU /\ active \subseteq online \ {c}
  BY <1>2 DEF MInv, TypeOK, MasksOK
<1>4. /\ s \in States /\ Sound(s.task, s.rqs, online) /\ Steady(Now, s)
      /\ s.rqs[c].wl = {} /\ s.rqs[c].curr = None
      /\ \A p \in Task : s.task[p].allowed = task[p].allowed
  BY <1>3, EmptiedSound
<1> DEFINE e == MigrateTasks(s, c, dest)
<1>5. Set(e)
  BY <1>1
<1> HIDE DEF s, c
<1>6. \A p \in s.rqs[c].queue : dest[p] \in Fallback(s.task[p].allowed)
  <2>1. \A p \in s.rqs[c].queue : p \in Task
    BY <1>3, <1>4 DEF States, RqFields
  <2> QED
    BY <1>1, <1>4, <2>1 DEF FallbackCpus, Fallback
<1>7. e \in States /\ Sound(e.task, e.rqs, online \ {c}) /\ Steady(s, e)
  BY <1>3, <1>4, <1>6, MigrateTasksSound
<1> HIDE DEF e
<1>8. Steady(Now, e)
  BY <1>4, <1>7, Present, SteadyTrans
<1>9. MasksOK'
  BY <1>2, <1>3 DEF MasksOK
<1>10. SwapsHeld'
  <2>1. ASSUME NEW p \in Task, Stopping(p), call[p].op = "swap"
        PROVE  {call[p].src, call[p].dst} \subseteq online \ {c}
    <3>1. p \notin WorksBefore(c)
      BY <1>2
    <3>2. c \notin {call[p].src, call[p].dst}
      BY <2>1, <3>1 DEF WorksBefore
    <3> QED
      BY <2>1, <3>2 DEF MInv, SwapsHeld
  <2> QED
    BY <1>2, <2>1 DEF SwapsHeld, Stopping
<1>11. online' \in SUBSET CPU /\ active' \in SUBSET CPU /\ going' \in CPU \cup {None}
       /\ call' \in [Task -> AllCalls \cup {None}]
  BY <1>2 DEF MInv, TypeOK
<1>12. Sound(e.task, e.rqs, online')
  BY <1>2, <1>7
<1> QED
  BY <1>2, <1>5, <1>7, <1>8, <1>9, <1>10, <1>11, <1>12, StepKeeps

-----------------------------------------------------------------------------
(* wait_task_inactive                                                      *)

\* Its steps change nothing but its own results.
LEMMA WaitKeeps ==
  ASSUME MInv, UNCHANGED <<sched, masks, ops>>,
         wait' \in [rq : CPU \cup {None}, first : Nat \cup {NotYet}, second : Nat \cup {NotYet}],
         ran' \in BOOLEAN, Waited'
  PROVE  MInv'
<1>1. TypeOK'
  BY DEF MInv, TypeOK, sched, masks, ops
<1>2. Sound(task', rqs', online')
  BY DEF MInv, sched, masks
<1>3. MasksOK' /\ SwapsHeld'
  BY DEF MInv, MasksOK, SwapsHeld, Stopping, sched, masks, ops
<1> QED
  BY <1>1, <1>2, <1>3 DEF MInv

LEMMA WaitReadStep ==
  ASSUME MovesAssumption, MInv, WaitRead
  PROVE  MInv'
<1>1. /\ wait.rq = None /\ wait.second = NotYet /\ wait.first # 0
      /\ wait' = [wait EXCEPT !.rq = task[Watched].cpu] /\ ran' = ran
      /\ UNCHANGED <<sched, masks, ops>>
  BY DEF WaitRead
<1>2. task[Watched].cpu \in CPU
  BY Present DEF MovesAssumption
<1>3. /\ wait' \in [rq : CPU \cup {None}, first : Nat \cup {NotYet},
                    second : Nat \cup {NotYet}]
      /\ wait'.first = wait.first /\ wait'.second = wait.second
  BY <1>1, <1>2 DEF MInv, TypeOK
<1>4. task' = task /\ rqs' = rqs
  BY <1>1 DEF sched
<1>5. Waited'
  BY <1>1, <1>3, <1>4 DEF MInv, Waited, Between, TwoCallsAgree, Queued
<1> QED
  BY <1>1, <1>3, <1>5, WaitKeeps DEF MInv, TypeOK

\* A result r, when the task ran since the first one only if r says so.
LEMMA ResultStep ==
  ASSUME MovesAssumption, MInv, NEW r \in Nat, Result(r), wait.rq # None,
         r <= task[Watched].nvcsw + 1,
         r > 0 /\ r = wait.first => ~ran,
         UNCHANGED <<sched, masks, ops>>
  PROVE  MInv'
<1>1. /\ wait.second = NotYet /\ wait.first # 0
      /\ wait \in [rq : CPU \cup {None}, first : Nat \cup {NotYet}, second : Nat \cup {NotYet}]
      /\ ran \in BOOLEAN
  BY DEF MInv, Waited, TypeOK
<1>2. task' = task /\ rqs' = rqs
  BY DEF sched
<1>3. CASE wait.first = NotYet
  <2>1. wait' = [wait EXCEPT !.rq = None, !.first = r] /\ ran' = FALSE
    BY <1>3 DEF Result
  <2>2. /\ wait' \in [rq : CPU \cup {None}, first : Nat \cup {NotYet},
                      second : Nat \cup {NotYet}]
        /\ wait'.first = r /\ wait'.second = NotYet /\ wait'.rq = None
    BY <1>1, <2>1
  <2>3. Waited'
    BY <1>2, <2>1, <2>2 DEF Waited, Between, TwoCallsAgree, NotYet
  <2> QED
    BY <2>1, <2>2, <2>3, WaitKeeps
<1>4. CASE wait.first # NotYet
  <2>1. wait' = [wait EXCEPT !.rq = None, !.second = r] /\ ran' = ran
    BY <1>4 DEF Result
  <2>2. /\ wait' \in [rq : CPU \cup {None}, first : Nat \cup {NotYet},
                      second : Nat \cup {NotYet}]
        /\ wait'.first = wait.first /\ wait'.second = r /\ wait'.rq = None
    BY <1>1, <2>1
  <2>3. Waited'
    <3>1. ~Between'
      BY <2>2 DEF Between, NotYet
    <3>2. TwoCallsAgree'
      BY <2>1, <2>2 DEF TwoCallsAgree
    <3> QED
      BY <1>2, <1>4, <2>2, <3>1, <3>2 DEF MInv, Waited
  <2> QED
    BY <1>1, <2>1, <2>2, <2>3, WaitKeeps
<1> QED
  BY <1>3, <1>4

LEMMA WaitSpinStep ==
  ASSUME MovesAssumption, MInv, WaitSpin
  PROVE  MInv'
<1>1. task[Watched].nvcsw \in Nat
  BY DEF MovesAssumption, MInv, TypeOK, TaskFields
<1> QED
  BY <1>1, ResultStep DEF WaitSpin

LEMMA WaitLockedStep ==
  ASSUME MovesAssumption, MInv, WaitLocked
  PROVE  MInv'
<1>1. task[Watched].nvcsw \in Nat
  BY DEF MovesAssumption, MInv, TypeOK, TaskFields
<1>2. UNCHANGED <<sched, masks, ops>> /\ wait.rq # None
  BY DEF WaitLocked
<1>3. CASE Result(0)
  BY <1>1, <1>2, <1>3, ResultStep
<1>4. CASE wait' = [wait EXCEPT !.rq = None] /\ UNCHANGED ran
  <2>1. /\ wait' \in [rq : CPU \cup {None}, first : Nat \cup {NotYet},
                      second : Nat \cup {NotYet}]
        /\ wait'.first = wait.first /\ wait'.second = wait.second /\ wait'.rq = None
    BY <1>4 DEF MInv, TypeOK
  <2>2. task' = task /\ rqs' = rqs
    BY <1>2 DEF sched
  <2>3. Waited'
    BY <1>4, <2>1, <2>2 DEF MInv, Waited, Between, TwoCallsAgree, Queued
  <2> QED
    BY <1>2, <1>4, <2>1, <2>3, WaitKeeps DEF MInv, TypeOK
<1>5. CASE ~StillOnRq /\ Result(task[Watched].nvcsw + 1)
  <2> DEFINE r == task[Watched].nvcsw + 1
  <2>1. r \in Nat /\ r <= task[Watched].nvcsw + 1
    BY <1>1
  <2>2. r > 0 /\ r = wait.first => ~ran
    <3>1. wait.second = NotYet /\ ~Queued(Watched)
      BY <1>2, <1>5 DEF MInv, Waited, StillOnRq
    <3>2. Between /\ ran => wait.first < r
      BY <3>1 DEF MInv, Waited
    <3> QED
      BY <1>1, <3>1, <3>2 DEF Between
  <2>3. Result(r)
    BY <1>5
  <2> HIDE DEF r
  <2> QED
    BY <1>2, <2>1, <2>2, <2>3, ResultStep
<1> QED
  BY <1>3, <1>4, <1>5 DEF WaitLocked

-----------------------------------------------------------------------------
(* Theorems                                                                *)

LEMMA NextMInv == ASSUME MovesAssumption, MInv, [Next]_vars PROVE MInv'
<1>1. CASE \E c \in CPU : PickNext(c) \/ SchedulerIpi(c) \/ CpuDownPrepare(c) \/ CpuUp(c)
  BY <1>1, PickNextStep, SchedulerIpiStep, CpuDownPrepareStep, CpuUpStep
<1>2. CASE \E p \in Task : Prepare(p) \/ Block(p) \/ Wake(p)
  BY <1>2, PrepareStep, BlockStep, WakeStep
<1>3. CASE \E p \in Setters : SetCpusAllowed(p) \/ SetNuma(p)
  BY <1>3, SetCpusAllowedStep, SetNumaStep DEF MovesAssumption
<1>4. CASE \E p \in Callers : \/ MigrateSwap(p) \/ SwapTest(p) \/ MigrateSwapStop(p)
                              \/ MigrateTaskTo(p) \/ SchedExec(p) \/ StopOneCpu(p)
                              \/ MigrationCpuStop(p) \/ YieldTo(p) \/ YieldLocked(p)
  BY <1>4, BeginsStep, SwapTestStep, MigrateSwapStopStep, StopOneCpuStep,
     MigrationCpuStopStep, YieldLockedStep DEF MovesAssumption
<1>5. CASE CpuDownFailed \/ CpuDying
  BY <1>5, CpuDownFailedStep, CpuDyingStep
<1>6. CASE WaitRead \/ WaitSpin \/ WaitLocked
  BY <1>6, WaitReadStep, WaitSpinStep, WaitLockedStep
<1>7. CASE UNCHANGED vars
  <2>1. UNCHANGED <<sched, masks, ops>> /\ wait' = wait /\ ran' = ran
    BY <1>7 DEF vars, watch
  <2>2. Waited'
    BY <2>1 DEF MInv, Waited, Between, TwoCallsAgree, Queued, sched
  <2> QED
    BY <2>1, <2>2, WaitKeeps DEF MInv, TypeOK
<1> QED
  BY <1>1, <1>2, <1>3, <1>4, <1>5, <1>6, <1>7 DEF Next

LEMMA SpecMInv == ASSUME MovesAssumption PROVE Spec => []MInv
BY InitMInv, NextMInv, PTL DEF Spec

\* Types: every field of a task and of a run queue, and what the calls in progress
\* have read, stay what the code declares them.
THEOREM TypesHold == ASSUME MovesAssumption PROVE Spec => []TypeOK
<1>1. MInv => TypeOK
  BY DEF MInv
<1> QED
  BY <1>1, SpecMInv, PTL

\* No task is stranded on a CPU that went down or lost on the way between two run
\* queues, and the NUMA counts are exact (migrate_tasks, migrate_swap_stop, ttwu).
THEOREM QueuesAreSound == ASSUME MovesAssumption PROVE Spec => []QueuesSound
<1>1. MInv => QueuesSound
  <2> HAVE MInv
  <2>1. ASSUME NEW p \in Task
        PROVE  LET c == task[p].cpu
               IN /\ task[p].state = "RUNNING" => Queued(p)
                  /\ task[p].state = "WAKING" => p \in rqs[c].wl /\ ~Queued(p)
                  /\ Queued(p) \/ p \in rqs[c].wl => c \in online
                  /\ \A d \in CPU \ {c} : p \notin rqs[d].queue \cup rqs[d].wl
    <3>1. task[p].cpu \in CPU
      BY Present
    <3>2. /\ task[p].state = "RUNNING" => Queued(p)
          /\ task[p].state = "WAKING" => p \in rqs[task[p].cpu].wl /\ ~Queued(p)
      BY <3>1 DEF MInv, Sound, Kept, AtHome, Queued
    <3>3. Queued(p) \/ p \in rqs[task[p].cpu].wl => task[p].cpu \in online
      BY DEF MInv, Sound, Usable, UsableBy, Queued
    <3>4. \A d \in CPU \ {task[p].cpu} : p \notin rqs[d].queue \cup rqs[d].wl
      BY DEF MInv, Sound, AtHome
    <3> QED
      BY <3>2, <3>3, <3>4
  <2>2. \A c \in CPU : rqs[c].curr \in rqs[c].queue \cup {None}
    BY DEF MInv, Sound, Current
  <2>3. NumaCountExact
    BY DEF MInv, Sound, Counted, NumaCountExact
  <2> QED
    BY <2>1, <2>2, <2>3 DEF QueuesSound, NoTaskStranded
<1> QED
  BY <1>1, SpecMInv, PTL

\* A queued task is on a CPU it may run on, although migrate_swap, sched_exec and
\* migrate_task_to read their arguments long before the stopper runs.
THEOREM AffinityIsKept == ASSUME MovesAssumption PROVE Spec => []AffinityKept
<1>1. MInv => AffinityKept
  BY DEF MInv, Sound, Usable, UsableBy, AffinityKept, Queued
<1> QED
  BY <1>1, SpecMInv, PTL

\* Two equal positive results of wait_task_inactive mean that the task has not run in
\* between, as its comment promises.
THEOREM TwoCallsDoAgree == ASSUME MovesAssumption PROVE Spec => []TwoCallsAgree
<1>1. MInv => TwoCallsAgree
  BY DEF MInv, Waited
<1> QED
  BY <1>1, SpecMInv, PTL
=============================================================================
