-------------------------- MODULE SchedPolicyProofs --------------------------
(***************************************************************************)
(* About SchedPolicy for every set of tasks and callers: the fields of a   *)
(* task agree with each other, and callers without the capability stay     *)
(* within their limits, although a call checks before it has the locks.    *)
(***************************************************************************)
EXTENDS SchedPolicy, SumTheorems

USE DEF Fair, Rt, Dl, Policies

-----------------------------------------------------------------------------
(* Priorities                                                              *)

LEMMA Ranges ==
  /\ MAX_RT_PRIO \in Nat \ {0} /\ MIN_NICE \in Int /\ MAX_NICE \in Int
  /\ MIN_NICE <= 0 /\ 0 <= MAX_NICE /\ NoTask \notin Task
BY SchedPolicyAssumption

\* Static priorities come after the real-time ones, and all are priorities.
LEMMA PrioRange ==
  /\ \A n \in MIN_NICE .. MAX_NICE : NICE_TO_PRIO(n) \in StaticPrio
  /\ \A pr \in StaticPrio : pr \in Prio /\ pr >= MAX_RT_PRIO /\ pr \in Int
  /\ \A pr \in Prio : pr \in Int /\ pr >= -1
BY Ranges DEF NICE_TO_PRIO, StaticPrio, Prio

LEMMA NiceRange ==
  ASSUME NEW t \in Fields
  PROVE  task_nice(t) \in MIN_NICE .. MAX_NICE
BY Ranges DEF Fields, StaticPrio, NICE_TO_PRIO, task_nice

LEMMA NormalPrioType ==
  ASSUME NEW t, t.policy \in Policies, t.static_prio \in StaticPrio,
         t.rt_priority \in 0 .. MAX_RT_PRIO - 1
  PROVE  normal_prio(t) \in Prio
BY Ranges DEF normal_prio, Prio, StaticPrio, NICE_TO_PRIO

LEMMA ClassType == \A pr : ClassOf(pr) \in {"dl", "rt", "fair"}
BY DEF ClassOf

\* Every set of priorities has a best one.
LEMMA BestPrio ==
  ASSUME NEW S, S \subseteq Prio, S # {}
  PROVE  \E x \in S : \A y \in S : x <= y
<1> DEFINE N == {x + 1 : x \in S}
<1>1. N \subseteq Nat /\ N # {}
  BY PrioRange
<1>2. PICK n \in N : \A m \in N : n <= m
  <2> HIDE DEF N
  <2> QED
    BY <1>1, Least
<1>3. PICK x \in S : n = x + 1
  OBVIOUS
<1>4. \A y \in S : x <= y
  <2> SUFFICES ASSUME NEW y \in S PROVE x <= y
    OBVIOUS
  <2>1. x + 1 <= y + 1
    BY <1>2, <1>3
  <2> QED
    BY <2>1, PrioRange
<1> QED
  BY <1>4

-----------------------------------------------------------------------------
(* What the helpers do to the fields of a task                             *)

\* CheckClassChanged changes the bandwidth only, of a task that leaves the class.
LEMMA ClassChanged ==
  ASSUME NEW t \in Fields, NEW old
  PROVE  LET u == CheckClassChanged(t, old) IN
         /\ u \in Fields /\ u.policy = t.policy /\ u.static_prio = t.static_prio
         /\ u.rt_priority = t.rt_priority /\ u.normal_prio = t.normal_prio
         /\ u.prio = t.prio /\ u.class = t.class /\ u.reset = t.reset
         /\ u.dl_bw = IF old.class = "dl" /\ t.class # "dl" THEN 0 ELSE t.dl_bw
BY DEF CheckClassChanged, Fields

LEMMA SetprioKeeps ==
  ASSUME NEW t \in Fields, NEW pr \in Prio
  PROVE  LET u == RtMutexSetprio(t, pr) IN
         /\ u \in Fields /\ u.policy = t.policy /\ u.static_prio = t.static_prio
         /\ u.rt_priority = t.rt_priority /\ u.normal_prio = t.normal_prio
         /\ u.class = ClassOf(u.prio) /\ u.prio = pr
         /\ u.dl_bw = IF t.class = "dl" /\ u.class # "dl" THEN 0 ELSE t.dl_bw
<1> DEFINE v == [t EXCEPT !.prio = pr, !.class = ClassOf(pr)]
<1>1. v \in Fields
  BY ClassType DEF Fields
<1>2. /\ v.policy = t.policy /\ v.static_prio = t.static_prio
      /\ v.rt_priority = t.rt_priority /\ v.normal_prio = t.normal_prio
      /\ v.class = ClassOf(v.prio) /\ v.prio = pr /\ v.dl_bw = t.dl_bw
  BY DEF Fields
<1> HIDE DEF v
<1>3. RtMutexSetprio(t, pr) = CheckClassChanged(v, t)
  BY DEF RtMutexSetprio, v
<1> QED
  BY <1>1, <1>2, <1>3, ClassChanged

\* A boost, or its end, leaves a task whose fields agree; a deadline task is in the
\* deadline class then, and keeps its bandwidth.
LEMMA AdjustAgrees ==
  ASSUME NEW t \in Fields, NEW W \in SUBSET Task, NEW prios \in [Task -> Prio]
  PROVE  LET u == AdjustPrio(t, W, prios) IN
         /\ u \in Fields /\ u.policy = t.policy /\ u.static_prio = t.static_prio
         /\ u.rt_priority = t.rt_priority /\ u.dl_bw \in {0, t.dl_bw}
         /\ Agree(t) => Agree(u)
         /\ Agree(t) /\ Dl(t.policy) => u.class = "dl" /\ u.dl_bw = t.dl_bw
<1> DEFINE S == {t.normal_prio} \cup {prios[w] : w \in W}
           pr == CHOOSE x \in S : \A y \in S : x <= y
<1>1. S \subseteq Prio /\ S # {}
  BY DEF Fields
<1>2. pr \in Prio /\ (t.normal_prio = -1 => pr = -1)
  <2>1. pr \in S /\ \A y \in S : pr <= y
    <3> HIDE DEF S
    <3> QED
      BY <1>1, BestPrio
  <2>2. t.normal_prio \in S /\ \A y \in S : y \in Int /\ y >= -1
    BY <1>1, PrioRange
  <2> HIDE DEF S, pr
  <2> QED
    BY <1>1, <2>1, <2>2
<1> HIDE DEF pr, S
<1>3. AdjustPrio(t, W, prios) = IF t.prio = pr /\ pr >= 0 THEN t ELSE RtMutexSetprio(t, pr)
  BY DEF AdjustPrio, pr, S
<1> DEFINE u == AdjustPrio(t, W, prios)
<1>4. /\ u \in Fields /\ u.policy = t.policy /\ u.static_prio = t.static_prio
      /\ u.rt_priority = t.rt_priority /\ u.dl_bw \in {0, t.dl_bw}
      /\ Agree(t) => Agree(u)
  BY <1>2, <1>3, SetprioKeeps DEF Agree, normal_prio
<1>5. ASSUME Agree(t), Dl(t.policy) PROVE u.class = "dl" /\ u.dl_bw = t.dl_bw
  <2>1. pr = -1 /\ u = RtMutexSetprio(t, pr)
    BY <1>2, <1>3, <1>5 DEF Agree, normal_prio
  <2>2. u.prio = -1 /\ u.class = ClassOf(u.prio)
    BY <1>2, <2>1, SetprioKeeps
  <2>3. u.class = "dl"
    BY <2>2 DEF ClassOf
  <2> QED
    BY <1>2, <2>1, <2>3, SetprioKeeps
<1> QED
  BY <1>4, <1>5

LEMMA NiceAgrees ==
  ASSUME NEW t \in Fields, NEW n \in MIN_NICE .. MAX_NICE
  PROVE  LET u == SetUserNice(t, n) IN
         /\ u \in Fields /\ u.policy = t.policy /\ u.static_prio = NICE_TO_PRIO(n)
         /\ u.rt_priority = t.rt_priority /\ u.class = t.class /\ u.dl_bw = t.dl_bw
         /\ Agree(t) => Agree(u)
<1> DEFINE v == [t EXCEPT !.static_prio = NICE_TO_PRIO(n)]
<1>0. NICE_TO_PRIO(n) \in StaticPrio
  BY PrioRange
<1>1. /\ v \in Fields /\ v.policy = t.policy /\ v.static_prio = NICE_TO_PRIO(n)
      /\ v.rt_priority = t.rt_priority /\ v.normal_prio = t.normal_prio
      /\ v.prio = t.prio /\ v.class = t.class /\ v.dl_bw = t.dl_bw
  BY <1>0 DEF Fields
<1>2. SetUserNice(t, n) =
        IF ~Fair(t.policy) THEN v
        ELSE [v EXCEPT !.normal_prio = normal_prio(v),
                       !.prio = IF t.prio < MAX_RT_PRIO THEN @ ELSE normal_prio(v)]
  BY DEF SetUserNice
<1> HIDE DEF v
<1>3. CASE ~Fair(t.policy)
  <2>1. t.policy \in {"FIFO", "RR", "DEADLINE"}
    BY <1>3 DEF Fields
  <2>2. normal_prio(v) = normal_prio(t)
    BY <1>1, <2>1 DEF normal_prio
  <2> QED
    BY <1>1, <1>2, <1>3, <2>2 DEF Agree
<1>4. CASE Fair(t.policy)
  <2>1. normal_prio(v) = NICE_TO_PRIO(n) /\ normal_prio(v) \in Prio
    BY <1>0, <1>1, <1>4, PrioRange DEF normal_prio
  <2> DEFINE u == [v EXCEPT !.normal_prio = normal_prio(v),
                            !.prio = IF t.prio < MAX_RT_PRIO THEN @ ELSE normal_prio(v)]
  <2>2. u = SetUserNice(t, n)
    BY <1>2, <1>4
  <2>3. /\ u \in Fields /\ u.policy = t.policy /\ u.static_prio = NICE_TO_PRIO(n)
        /\ u.rt_priority = t.rt_priority /\ u.normal_prio = NICE_TO_PRIO(n)
        /\ u.class = t.class /\ u.dl_bw = t.dl_bw
        /\ u.prio = IF t.prio < MAX_RT_PRIO THEN t.prio ELSE NICE_TO_PRIO(n)
    BY <1>1, <2>1 DEF Fields
  <2> HIDE DEF u
  <2>4. t.prio \in Int /\ MAX_RT_PRIO \in Nat /\ NICE_TO_PRIO(n) \in Int
        /\ NICE_TO_PRIO(n) >= MAX_RT_PRIO
    BY <1>0, Ranges, PrioRange DEF Fields
  <2>5. t.class = ClassOf(t.prio) => u.class = ClassOf(u.prio)
    BY <2>3, <2>4 DEF ClassOf
  <2>6. normal_prio(u) = u.normal_prio
    BY <1>4, <2>3 DEF normal_prio
  <2> QED
    BY <2>2, <2>3, <2>5, <2>6 DEF Agree
<1> QED
  BY <1>3, <1>4

\* The policy that a call asks for, and what its parameters have to be.
Asked(t, a) == IF a.policy = "SETPARAM" THEN t.policy ELSE a.policy

LEMMA ParamsAgree ==
  ASSUME NEW t \in Fields, NEW a \in AttrFields, Rt(Asked(t, a)) <=> a.prio # 0
  PROVE  LET u == SetschedulerParams(t, a) IN
         /\ u \in Fields /\ u.policy = Asked(t, a) /\ u.rt_priority = a.prio
         /\ u.static_prio = IF Fair(u.policy) THEN NICE_TO_PRIO(a.nice) ELSE t.static_prio
         /\ u.prio = t.prio /\ u.class = t.class /\ u.normal_prio = normal_prio(u)
         /\ u.dl_bw = IF Dl(u.policy) THEN a.bw ELSE t.dl_bw
<1> DEFINE v == [t EXCEPT !.policy = Asked(t, a),
                          !.dl_bw = IF Dl(Asked(t, a)) THEN a.bw ELSE @,
                          !.static_prio = IF Fair(Asked(t, a)) THEN NICE_TO_PRIO(a.nice) ELSE @,
                          !.rt_priority = a.prio]
           u == [v EXCEPT !.normal_prio = normal_prio(v)]
<1>0. NICE_TO_PRIO(a.nice) \in StaticPrio /\ Asked(t, a) \in Policies
  BY PrioRange DEF AttrFields, Fields, Asked
<1>1. /\ v \in Fields /\ v.policy = Asked(t, a) /\ v.rt_priority = a.prio
      /\ v.static_prio = IF Fair(Asked(t, a)) THEN NICE_TO_PRIO(a.nice) ELSE t.static_prio
      /\ v.prio = t.prio /\ v.class = t.class
      /\ v.dl_bw = IF Dl(Asked(t, a)) THEN a.bw ELSE t.dl_bw
  BY <1>0 DEF Fields, AttrFields
<1>2. SetschedulerParams(t, a) = u
  BY DEF SetschedulerParams, Asked
<1> HIDE DEF v
<1>3. normal_prio(v) \in Prio
  BY <1>1, NormalPrioType DEF Fields
<1>4. /\ u \in Fields /\ u.policy = v.policy /\ u.rt_priority = v.rt_priority
      /\ u.static_prio = v.static_prio /\ u.prio = v.prio /\ u.class = v.class
      /\ u.normal_prio = normal_prio(v) /\ u.dl_bw = v.dl_bw
  BY <1>1, <1>3 DEF Fields
<1> HIDE DEF u
<1>5. normal_prio(u) = normal_prio(v)
  BY <1>4 DEF normal_prio
<1> QED
  BY <1>1, <1>2, <1>4, <1>5

\* A boosted task only stores its parameters; any other gets priority and class, too,
\* and forgets its bandwidth if it leaves the deadline class.
LEMMA SetschedulerAgrees ==
  ASSUME NEW t \in Fields, NEW a \in AttrFields, Rt(Asked(t, a)) <=> a.prio # 0,
         NEW u \in {StoreParams(t, a), Setscheduler(t, a)}
  PROVE  /\ u \in Fields /\ u.policy = Asked(t, a) /\ u.rt_priority = a.prio
         /\ u.static_prio = IF Fair(u.policy) THEN NICE_TO_PRIO(a.nice) ELSE t.static_prio
         /\ Agree(t) => Agree(u)
         /\ Dl(u.policy) => u.dl_bw = a.bw
         /\ ~Dl(u.policy) => \/ u.dl_bw = t.dl_bw
                             \/ u.dl_bw = 0 /\ t.class = "dl"
<1> DEFINE v == SetschedulerParams(t, a)
<1>1. /\ v \in Fields /\ v.policy = Asked(t, a) /\ v.rt_priority = a.prio
      /\ v.static_prio = IF Fair(v.policy) THEN NICE_TO_PRIO(a.nice) ELSE t.static_prio
      /\ v.prio = t.prio /\ v.class = t.class /\ v.normal_prio = normal_prio(v)
      /\ v.dl_bw = IF Dl(v.policy) THEN a.bw ELSE t.dl_bw
  BY ParamsAgree
<1>2. CASE u = StoreParams(t, a)
  BY <1>1, <1>2 DEF StoreParams, Agree
<1>3. CASE u = Setscheduler(t, a)
  <2> DEFINE w == [v EXCEPT !.prio = normal_prio(v), !.class = ClassOf(normal_prio(v))]
  <2>1. u = CheckClassChanged(w, t)
    BY <1>3 DEF Setscheduler
  <2> HIDE DEF v
  <2>2. /\ w \in Fields /\ w.policy = v.policy /\ w.rt_priority = v.rt_priority
        /\ w.static_prio = v.static_prio /\ w.normal_prio = v.normal_prio
        /\ w.class = ClassOf(w.prio) /\ w.prio = normal_prio(v) /\ w.dl_bw = v.dl_bw
    BY <1>1, ClassType DEF Fields
  <2> HIDE DEF w
  <2>3. /\ u \in Fields /\ u.policy = w.policy /\ u.rt_priority = w.rt_priority
        /\ u.static_prio = w.static_prio /\ u.normal_prio = w.normal_prio
        /\ u.class = ClassOf(u.prio) /\ u.class = w.class
        /\ u.dl_bw = IF t.class = "dl" /\ w.class # "dl" THEN 0 ELSE w.dl_bw
    BY <2>1, <2>2, ClassChanged
  <2>4. normal_prio(u) = normal_prio(v)
    BY <2>2, <2>3 DEF normal_prio
  <2>5. Dl(u.policy) => w.class = "dl"
    BY <2>2, <2>3 DEF normal_prio, ClassOf
  <2>6. Agree(t) => Agree(u)
    BY <1>1, <2>2, <2>3, <2>4 DEF Agree
  <2> QED
    BY <1>1, <2>2, <2>3, <2>5, <2>6
<1> QED
  BY <1>2, <1>3

\* A task that becomes or stays a deadline task, and is not boosted, is in that class.
LEMMA SetschedulerClass ==
  ASSUME NEW t \in Fields, NEW a \in AttrFields, Dl(Setscheduler(t, a).policy),
         Rt(Asked(t, a)) <=> a.prio # 0
  PROVE  Setscheduler(t, a).class = "dl"
<1> DEFINE v == SetschedulerParams(t, a)
           w == [v EXCEPT !.prio = normal_prio(v), !.class = ClassOf(normal_prio(v))]
<1>1. v \in Fields
  BY ParamsAgree
<1>2. Setscheduler(t, a) = CheckClassChanged(w, t)
  BY DEF Setscheduler
<1> HIDE DEF v
<1>3. w \in Fields /\ w.policy = v.policy /\ w.class = ClassOf(normal_prio(v))
  <2>1. normal_prio(v) \in Prio
    BY <1>1, NormalPrioType DEF Fields
  <2> QED
    BY <1>1, <2>1, ClassType DEF Fields
<1> HIDE DEF w
<1>4. Dl(v.policy)
  BY <1>2, <1>3, ClassChanged
<1>5. ClassOf(normal_prio(v)) = "dl"
  BY <1>4 DEF normal_prio, ClassOf
<1> QED
  BY <1>2, <1>3, <1>5, ClassChanged

\* The child that sched_fork lets go.
LEMMA ForkAgrees ==
  ASSUME NEW t \in Fields, NEW pr \in Prio, Agree(t)
  PROVE  LET v == ResetOnFork([t EXCEPT !.dl_bw = 0, !.prio = pr])
             u == [v EXCEPT !.class = ClassOf(v.prio)] IN
         /\ u \in Fields /\ Agree(u)
         /\ u.policy = t.policy \/ u.policy = "NORMAL"
         /\ u.rt_priority = t.rt_priority \/ u.rt_priority = 0
         /\ u.static_prio = t.static_prio \/ u.static_prio = NICE_TO_PRIO(0)
         /\ u.dl_bw = 0
<1> DEFINE s == [t EXCEPT !.dl_bw = 0, !.prio = pr]
           v == ResetOnFork(s)
           u == [v EXCEPT !.class = ClassOf(v.prio)]
<1>0. NICE_TO_PRIO(0) \in StaticPrio /\ 0 \in 0 .. MAX_RT_PRIO - 1
  BY Ranges, PrioRange
<1>1. /\ s \in Fields /\ s.policy = t.policy /\ s.static_prio = t.static_prio
      /\ s.rt_priority = t.rt_priority /\ s.normal_prio = t.normal_prio /\ s.dl_bw = 0
  BY DEF Fields
<1> HIDE DEF s
<1>2. /\ v \in Fields
      /\ Rt(v.policy) <=> v.rt_priority # 0
      /\ v.normal_prio = normal_prio(v)
      /\ v.policy = t.policy \/ v.policy = "NORMAL"
      /\ v.rt_priority = t.rt_priority \/ v.rt_priority = 0
      /\ v.static_prio = t.static_prio \/ v.static_prio = NICE_TO_PRIO(0)
      /\ v.dl_bw = 0
  <2>1. CASE ~s.reset
    BY <1>1, <2>1 DEF ResetOnFork, Agree, normal_prio
  <2>2. CASE s.reset /\ Fair(s.policy)
    <3> DEFINE w == [s EXCEPT !.static_prio = IF task_nice(s) < 0 THEN NICE_TO_PRIO(0) ELSE @]
    <3>1. v = [w EXCEPT !.prio = w.static_prio, !.normal_prio = w.static_prio, !.reset = FALSE]
      BY <2>2 DEF ResetOnFork
    <3>2. /\ w \in Fields /\ w.policy = s.policy /\ w.rt_priority = s.rt_priority
          /\ w.static_prio = s.static_prio \/ w.static_prio = NICE_TO_PRIO(0)
          /\ w.dl_bw = 0
      BY <1>0, <1>1 DEF Fields
    <3> HIDE DEF w, v
    <3>3. w.static_prio \in Prio
      BY <3>2, PrioRange DEF Fields
    <3>4. /\ v \in Fields /\ v.policy = w.policy /\ v.rt_priority = w.rt_priority
          /\ v.static_prio = w.static_prio /\ v.normal_prio = w.static_prio
          /\ v.dl_bw = 0
      BY <3>1, <3>2, <3>3 DEF Fields
    <3> QED
      BY <1>1, <2>2, <3>2, <3>4 DEF Agree, normal_prio
  <2>3. CASE s.reset /\ ~Fair(s.policy)
    <3> DEFINE w == [s EXCEPT !.policy = "NORMAL", !.static_prio = NICE_TO_PRIO(0),
                              !.rt_priority = 0]
    <3>1. v = [w EXCEPT !.prio = w.static_prio, !.normal_prio = w.static_prio, !.reset = FALSE]
      BY <2>3 DEF ResetOnFork
    <3>2. /\ w \in Fields /\ w.policy = "NORMAL" /\ w.rt_priority = 0
          /\ w.static_prio = NICE_TO_PRIO(0) /\ w.dl_bw = 0
      BY <1>0, <1>1, Ranges DEF Fields
    <3> HIDE DEF w, v
    <3>3. w.static_prio \in Prio
      BY <3>2, PrioRange DEF Fields
    <3>4. /\ v \in Fields /\ v.policy = w.policy /\ v.rt_priority = w.rt_priority
          /\ v.static_prio = w.static_prio /\ v.normal_prio = w.static_prio
          /\ v.dl_bw = 0
      BY <3>1, <3>2, <3>3 DEF Fields
    <3> QED
      BY <1>1, <2>3, <3>2, <3>4 DEF normal_prio
  <2> QED
    BY <2>1, <2>2, <2>3
<1> HIDE DEF v
<1>3. /\ u \in Fields /\ u.policy = v.policy /\ u.rt_priority = v.rt_priority
      /\ u.static_prio = v.static_prio /\ u.normal_prio = v.normal_prio
      /\ u.class = ClassOf(u.prio) /\ u.dl_bw = 0
  BY <1>2, ClassType DEF Fields
<1> HIDE DEF u
<1>4. normal_prio(u) = normal_prio(v)
  BY <1>3 DEF normal_prio
<1>5. /\ u \in Fields /\ Agree(u)
      /\ u.policy = t.policy \/ u.policy = "NORMAL"
      /\ u.rt_priority = t.rt_priority \/ u.rt_priority = 0
      /\ u.static_prio = t.static_prio \/ u.static_prio = NICE_TO_PRIO(0)
      /\ u.dl_bw = 0
  BY <1>2, <1>3, <1>4 DEF Agree
<1> QED
  BY <1>5 DEF u, v, s

-----------------------------------------------------------------------------
(* The invariant                                                           *)

\* The fields of every task that exists agree, also while it is forked and when it is dead.
Agreed == \A p \in Task : life[p] # "fresh" => Agree(task[p])

\* A call is about a task that exists.
Named(k) == k.pc # "none" => k.task \in Task /\ life[k.task] \in {"live", "dead"}

\* What a call has found out: its policy is the one it asks for, or the one it read for
\* want of one, and the priority fits it.
Known(k) ==
    /\ k.pc \in {"check", "lock"} =>
          IF k.attr.policy = "SETPARAM" THEN k.old = k.policy ELSE k.policy = k.attr.policy
    /\ k.pc = "lock" => (Rt(k.policy) <=> k.attr.prio # 0)

CallsSound == \A c \in Caller : Named(call[c]) /\ Known(call[c])

\* A task that is forked has a parent.
Children == \A q \in Task : life[q] = "forking" => parent[q] \in Task

PInv == TypeOK /\ Agreed /\ CallsSound /\ Children

\* Nobody leaves the tasks that can be called upon.
LifeGoesOn == \A p \in Task : life[p] \in {"live", "dead"} => life'[p] \in {"live", "dead"}

\* A call that is set to a sound one.
LEMMA CallKept ==
  ASSUME PInv, LifeGoesOn, NEW c \in Caller, NEW k \in CallFields, Named(k), Known(k),
         call' = [call EXCEPT ![c] = k]
  PROVE  CallsSound' /\ call' \in [Caller -> CallFields]
<1>1. call \in [Caller -> CallFields] /\ CallsSound
  BY DEF PInv, TypeOK
<1>2. \A d \in Caller : Named(call[d]) => (Named(call[d])' \/ d = c)
  BY <1>1 DEF Named, LifeGoesOn, CallsSound
<1>3. Named(call[c])'
  BY <1>1 DEF Named, LifeGoesOn
<1>4. \A d \in Caller : Known(call'[d])
  BY <1>1 DEF CallsSound
<1> QED
  BY <1>1, <1>2, <1>3, <1>4 DEF CallsSound, Known

LEMMA CallsStay ==
  ASSUME PInv, LifeGoesOn, UNCHANGED call
  PROVE  CallsSound' /\ call' \in [Caller -> CallFields]
BY DEF PInv, TypeOK, CallsSound, Named, Known, LifeGoesOn

\* A task that is changed so that its fields agree.
LEMMA TaskKept ==
  ASSUME PInv, UNCHANGED life, NEW p \in Task, NEW u \in Fields,
         Agree(task[p]) => Agree(u), task' = [task EXCEPT ![p] = u]
  PROVE  Agreed' /\ task' \in [Task -> Fields]
<1>1. task \in [Task -> Fields] /\ Agreed
  BY DEF PInv, TypeOK
<1>2. \A q \in Task : life[q] # "fresh" => Agree(task'[q])
  BY <1>1 DEF Agreed
<1> QED
  BY <1>1, <1>2 DEF Agreed, Agree

LEMMA TasksStay ==
  ASSUME PInv, UNCHANGED <<life, task>>
  PROVE  Agreed' /\ task' \in [Task -> Fields]
BY DEF PInv, TypeOK, Agreed

LEMMA NoCallType ==
  /\ NoAttr \in AttrFields /\ NoCall \in CallFields /\ Known(NoCall) /\ Named(NoCall)
  /\ NoCall.pc = "none"
BY Ranges DEF NoCall, NoAttr, CallFields, AttrFields, Known, Named

\* A step that changes nothing but the call it belongs to.
Silent == UNCHANGED <<task, life, parent, piVars, bwVars, history>>

LEMMA OnlyCall ==
  ASSUME PInv, Silent, calls' \in 0 .. MaxCall,
         NEW c \in Caller, NEW k \in CallFields, Named(k), Known(k),
         call' = [call EXCEPT ![c] = k]
  PROVE  PInv'
<1>1. LifeGoesOn
  BY DEF Silent, LifeGoesOn
<1>2. CallsSound' /\ call' \in [Caller -> CallFields]
  BY <1>1, CallKept
<1>3. Agreed' /\ Children'
  BY DEF PInv, Silent, Agreed, Children
<1> QED
  BY <1>2, <1>3 DEF PInv, TypeOK, Silent, piVars, bwVars, history

-----------------------------------------------------------------------------
(* Calls, without a lock                                                   *)

LEMMA MaxCallNat == MaxCall \in Nat
BY SchedPolicyAssumption

LEMMA EnterKeeps ==
  ASSUME PInv, NEW c \in Caller, NEW p \in Task, NEW a \in AttrFields, Enter(c, p, a)
  PROVE  PInv'
<1> DEFINE k == [NoCall EXCEPT !.pc = "recheck", !.task = p, !.attr = a]
<1>1. k \in CallFields /\ k.pc = "recheck" /\ k.task = p
  BY NoCallType DEF CallFields
<1>2. Silent /\ calls' \in 0 .. MaxCall /\ call' = [call EXCEPT ![c] = k]
  BY MaxCallNat DEF Enter, Silent, PInv, TypeOK
<1>3. Named(k) /\ Known(k)
  <2> HIDE DEF k
  <2> QED
    BY <1>1 DEF Enter, Named, Known
<1> HIDE DEF k
<1> QED
  BY <1>1, <1>2, <1>3, OnlyCall

LEMMA SetschedulerKeeps ==
  ASSUME PInv, NEW c \in Caller, NEW p \in Task, NEW a \in Attr,
         SysSchedSetscheduler(c, p, a) \/ SysSchedSetattr(c, p, a)
  PROVE  PInv'
<1>1. a \in AttrFields
  BY SchedPolicyAssumption
<1>2. CASE SysSchedSetscheduler(c, p, a)
  <2> DEFINE b == [a EXCEPT !.nice = task_nice(task[p]), !.bw = 0, !.valid = FALSE]
  <2>1. task_nice(task[p]) \in MIN_NICE .. MAX_NICE
    BY NiceRange DEF PInv, TypeOK
  <2>2. b \in AttrFields
    BY <1>1, <2>1 DEF AttrFields
  <2>3. Enter(c, p, b)
    BY <1>2 DEF SysSchedSetscheduler
  <2> HIDE DEF b
  <2> QED
    BY <2>2, <2>3, EnterKeeps
<1>3. CASE SysSchedSetattr(c, p, a)
  BY <1>1, <1>3, EnterKeeps DEF SysSchedSetattr
<1> QED
  BY <1>2, <1>3

LEMMA NiceCallKeeps ==
  ASSUME PInv, NEW c \in Caller, NEW p \in Task, NEW n \in Nices, SysNice(c, p, n)
  PROVE  PInv'
<1> DEFINE k == [NoCall EXCEPT !.pc = "nice", !.task = p, !.attr = [NoAttr EXCEPT !.nice = n]]
<1>1. n \in MIN_NICE .. MAX_NICE
  BY SchedPolicyAssumption
<1>2. [NoAttr EXCEPT !.nice = n] \in AttrFields
  BY <1>1, NoCallType DEF AttrFields
<1>3. k \in CallFields /\ k.pc = "nice" /\ k.task = p
  BY <1>2, NoCallType DEF CallFields
<1>4. Silent /\ calls' \in 0 .. MaxCall /\ call' = [call EXCEPT ![c] = k]
  BY MaxCallNat DEF SysNice, Silent, PInv, TypeOK
<1>5. Named(k) /\ Known(k)
  <2> HIDE DEF k
  <2> QED
    BY <1>3 DEF SysNice, Named, Known
<1> HIDE DEF k
<1> QED
  BY <1>3, <1>4, <1>5, OnlyCall

LEMMA RecheckKeeps ==
  ASSUME PInv, NEW c \in Caller, Recheck(c)
  PROVE  PInv'
<1> DEFINE o == call[c]
           set == o.attr.policy = "SETPARAM"
           k == [o EXCEPT !.pc = "check",
                          !.policy = IF set THEN task[o.task].policy ELSE o.attr.policy,
                          !.old = IF set THEN task[o.task].policy ELSE "none",
                          !.reset = IF set THEN task[o.task].reset ELSE o.attr.reset]
<1>1. Silent /\ calls' \in 0 .. MaxCall /\ call' = [call EXCEPT ![c] = k]
  BY DEF Recheck, Silent, PInv, TypeOK
<1>2. o \in CallFields /\ o.task \in Task /\ life[o.task] \in {"live", "dead"}
  BY DEF Recheck, PInv, TypeOK, CallsSound, Named
<1>3. task[o.task] \in Fields
  BY <1>2 DEF PInv, TypeOK
<1> HIDE DEF o
<1>4. /\ task[o.task].policy \in Policies /\ task[o.task].reset \in BOOLEAN
      /\ o.attr.policy \in Policies \cup {"SETPARAM"} /\ o.attr.reset \in BOOLEAN
  BY <1>2, <1>3 DEF Fields, CallFields, AttrFields
<1>5. k \in CallFields
  BY <1>2, <1>4 DEF CallFields
<1>6. /\ k.pc = "check" /\ k.task = o.task /\ k.attr = o.attr
      /\ k.policy = IF set THEN task[o.task].policy ELSE o.attr.policy
      /\ k.old = IF set THEN task[o.task].policy ELSE "none"
  BY <1>2 DEF CallFields
<1> HIDE DEF k
<1>7. Named(k) /\ Known(k)
  BY <1>2, <1>6 DEF Named, Known
<1> QED
  BY <1>1, <1>5, <1>7, OnlyCall

LEMMA CheckKeeps ==
  ASSUME PInv, NEW c \in Caller, Check(c)
  PROVE  PInv'
<1> DEFINE o == call[c]
           k == [o EXCEPT !.pc = "lock"]
<1>1. /\ Silent /\ calls' \in 0 .. MaxCall /\ o.pc = "check"
      /\ call' = [call EXCEPT ![c] = NoCall] \/ (Valid(o) /\ call' = [call EXCEPT ![c] = k])
  BY DEF Check, Silent, PInv, TypeOK
<1>2. o \in CallFields /\ Named(o) /\ Known(o)
  BY DEF PInv, TypeOK, CallsSound
<1> HIDE DEF o
<1>3. /\ k \in CallFields /\ k.pc = "lock" /\ k.task = o.task /\ k.attr = o.attr
      /\ k.policy = o.policy /\ k.old = o.old
  BY <1>2 DEF CallFields
<1> HIDE DEF k
<1>4. Valid(o) => Named(k) /\ Known(k)
  BY <1>1, <1>2, <1>3 DEF Named, Known, Valid
<1> QED
  BY <1>1, <1>3, <1>4, NoCallType, OnlyCall

LEMMA RefusedKeeps ==
  ASSUME PInv, NEW c \in Caller, SetRefused(c)
  PROVE  PInv'
<1> DEFINE o == call[c]
           k == [o EXCEPT !.pc = "recheck"]
<1>1. /\ Silent /\ calls' \in 0 .. MaxCall /\ o.pc = "lock"
      /\ call' = [call EXCEPT ![c] = NoCall] \/ call' = [call EXCEPT ![c] = k]
  BY DEF SetRefused, Return, Silent, PInv, TypeOK
<1>2. o \in CallFields /\ Named(o)
  BY DEF PInv, TypeOK, CallsSound
<1> HIDE DEF o
<1>3. k \in CallFields /\ k.pc = "recheck" /\ k.task = o.task
  BY <1>2 DEF CallFields
<1> HIDE DEF k
<1>4. Named(k) /\ Known(k)
  BY <1>1, <1>2, <1>3 DEF Named, Known
<1> QED
  BY <1>1, <1>3, <1>4, NoCallType, OnlyCall

-----------------------------------------------------------------------------
(* Calls, under the locks                                                  *)

\* The call of c has returned, or goes on at "adjust".
LEMMA CallEnds ==
  ASSUME PInv, UNCHANGED life, NEW c \in Caller, call[c].pc # "none",
         Return(c) \/ call' = [call EXCEPT ![c].pc = "adjust"]
  PROVE  CallsSound' /\ call' \in [Caller -> CallFields]
<1> DEFINE k == [call[c] EXCEPT !.pc = "adjust"]
<1>1. LifeGoesOn
  BY DEF LifeGoesOn
<1>2. call[c] \in CallFields /\ Named(call[c])
  BY DEF PInv, TypeOK, CallsSound
<1>3. call' = [call EXCEPT ![c] = NoCall] \/ call' = [call EXCEPT ![c] = k]
  BY DEF Return
<1>4. k \in CallFields /\ k.pc = "adjust" /\ k.task = call[c].task
  BY <1>2 DEF CallFields
<1> HIDE DEF k
<1>5. Named(k) /\ Known(k)
  BY <1>2, <1>4 DEF Named, Known
<1> QED
  BY <1>1, <1>3, <1>4, <1>5, NoCallType, CallKept

\* The task of a call, and what the call knows.
LEMMA CallTask ==
  ASSUME PInv, NEW c \in Caller, call[c].pc # "none"
  PROVE  /\ call[c] \in CallFields /\ call[c].task \in Task /\ task[call[c].task] \in Fields
         /\ Known(call[c]) /\ call[c].attr \in AttrFields /\ call[c].reset \in BOOLEAN
         /\ life[call[c].task] \in {"live", "dead"} /\ call[c].policy \in Policies
BY DEF PInv, TypeOK, CallsSound, Named, CallFields

\* The reset flag has nothing to do with the other fields.
LEMMA ResetAgrees ==
  ASSUME NEW t \in Fields, NEW r \in BOOLEAN
  PROVE  LET u == [t EXCEPT !.reset = r] IN
         /\ u \in Fields /\ u.policy = t.policy /\ u.static_prio = t.static_prio
         /\ u.rt_priority = t.rt_priority /\ u.prio = t.prio
         /\ u.class = t.class /\ u.dl_bw = t.dl_bw
         /\ Agree(t) => Agree(u)
<1> DEFINE u == [t EXCEPT !.reset = r]
<1>1. /\ u \in Fields /\ u.policy = t.policy /\ u.static_prio = t.static_prio
      /\ u.rt_priority = t.rt_priority /\ u.normal_prio = t.normal_prio
      /\ u.prio = t.prio /\ u.class = t.class /\ u.dl_bw = t.dl_bw
  BY DEF Fields
<1> HIDE DEF u
<1>2. Agree(t) => Agree(u)
  BY <1>1 DEF Agree, normal_prio
<1> QED
  BY <1>1, <1>2 DEF u

LEMMA NothingKeeps ==
  ASSUME PInv, NEW c \in Caller, SetNothing(c)
  PROVE  PInv'
<1> DEFINE p == call[c].task
           u == [task[p] EXCEPT !.reset = call[c].reset]
<1>1. /\ call[c].pc = "lock" /\ task' = [task EXCEPT ![p] = u] /\ Return(c)
      /\ UNCHANGED <<life, parent, piVars, bwVars, calls, history>>
  BY DEF SetNothing
<1>2. p \in Task /\ task[p] \in Fields /\ call[c].reset \in BOOLEAN
  BY <1>1, CallTask
<1>3. u \in Fields /\ (Agree(task[p]) => Agree(u))
  BY <1>2, ResetAgrees
<1> HIDE DEF u, p
<1>4. Agreed' /\ task' \in [Task -> Fields]
  BY <1>1, <1>2, <1>3, TaskKept
<1>5. CallsSound' /\ call' \in [Caller -> CallFields]
  BY <1>1, CallEnds
<1> QED
  BY <1>1, <1>4, <1>5 DEF PInv, TypeOK, Children, piVars, bwVars, history

\* The bandwidth that an accepted call takes, and what it leaves allocated.
LEMMA TotalType ==
  ASSUME PInv, NEW t \in Fields, NEW a \in AttrFields, NEW po
  PROVE  DlTotal(t, po, a) \in 0 .. Width - 1 /\ DlTaken(t, po, a) \in Int
<1>1. Width \in Nat \ {0} /\ total_bw \in 0 .. Width - 1 /\ t.dl_bw \in Nat /\ a.bw \in Nat
  BY SchedPolicyAssumption DEF PInv, TypeOK, Fields, AttrFields
<1>2. DlTaken(t, po, a) \in Int
  BY <1>1 DEF DlTaken, DlBw
<1>3. total_bw + DlTaken(t, po, a) \in Int
  BY <1>1, <1>2
<1> QED
  BY <1>1, <1>2, <1>3, ModRange DEF DlTotal

\* The task of an accepted call is set to fields that agree: the policy is still the one
\* the priority was checked against.
LEMMA AcceptedTask ==
  ASSUME PInv, NEW c \in Caller, SetAccepted(c)
  PROVE  \E u \in Fields :
            LET k == call[c] IN
            /\ task' = [task EXCEPT ![k.task] = u]
            /\ Agree(task[k.task]) => Agree(u)
            /\ u.policy = k.policy /\ u.rt_priority = k.attr.prio
            /\ u.static_prio = IF Fair(k.policy) THEN NICE_TO_PRIO(k.attr.nice)
                               ELSE task[k.task].static_prio
            /\ Dl(k.policy) => /\ u.dl_bw = k.attr.bw
                               /\ u.class = "dl" \/ Boosted(k.task, k.attr)
            /\ ~Dl(k.policy) => \/ u.dl_bw = task[k.task].dl_bw
                                \/ u.dl_bw = 0 /\ task[k.task].class = "dl"
<1> DEFINE k == call[c]
           t == task[k.task]
           v == [t EXCEPT !.reset = k.reset]
<1>1. /\ k.pc = "lock" /\ ~PolicyMoved(k)
      /\ \/ Boosted(k.task, k.attr) /\ task' = [task EXCEPT ![k.task] = StoreParams(v, k.attr)]
         \/ task' = [task EXCEPT ![k.task] = Setscheduler(v, k.attr)]
  BY DEF SetAccepted
<1>2. /\ k \in CallFields /\ k.task \in Task /\ t \in Fields
      /\ Known(k) /\ k.attr \in AttrFields /\ k.reset \in BOOLEAN
  BY <1>1, CallTask
<1>3. PICK u \in {StoreParams(v, k.attr), Setscheduler(v, k.attr)} :
            /\ task' = [task EXCEPT ![k.task] = u]
            /\ Boosted(k.task, k.attr) \/ u = Setscheduler(v, k.attr)
  BY <1>1
<1>4. /\ v \in Fields /\ v.policy = t.policy /\ v.static_prio = t.static_prio
      /\ v.class = t.class /\ v.dl_bw = t.dl_bw
      /\ Agree(t) => Agree(v)
  BY <1>2, ResetAgrees
<1>5. Asked(v, k.attr) = k.policy
  BY <1>1, <1>2, <1>4 DEF Asked, Known, PolicyMoved, CallFields
<1>6. Rt(k.policy) <=> k.attr.prio # 0
  BY <1>1, <1>2 DEF Known
<1> HIDE DEF v, t, k
<1>7. /\ u \in Fields /\ u.policy = k.policy /\ u.rt_priority = k.attr.prio
      /\ u.static_prio = IF Fair(u.policy) THEN NICE_TO_PRIO(k.attr.nice) ELSE v.static_prio
      /\ Agree(v) => Agree(u)
  BY <1>2, <1>3, <1>4, <1>5, <1>6, SetschedulerAgrees
<1>8. /\ Dl(k.policy) => /\ u.dl_bw = k.attr.bw
                         /\ u.class = "dl" \/ Boosted(k.task, k.attr)
      /\ ~Dl(k.policy) => \/ u.dl_bw = t.dl_bw
                          \/ u.dl_bw = 0 /\ t.class = "dl"
  <2>1. /\ Dl(u.policy) => u.dl_bw = k.attr.bw
        /\ ~Dl(u.policy) => \/ u.dl_bw = v.dl_bw
                            \/ u.dl_bw = 0 /\ v.class = "dl"
    BY <1>2, <1>3, <1>4, <1>5, <1>6, SetschedulerAgrees
  <2>2. Dl(u.policy) /\ u = Setscheduler(v, k.attr) => u.class = "dl"
    BY <1>2, <1>4, <1>5, <1>6, <1>7, SetschedulerClass
  <2> QED
    BY <1>3, <1>4, <1>7, <2>1, <2>2
<1> QED
  BY <1>3, <1>4, <1>7, <1>8 DEF t, k

LEMMA AcceptedKeeps ==
  ASSUME PInv, NEW c \in Caller, SetAccepted(c)
  PROVE  PInv'
<1> DEFINE p == call[c].task
<1>1. /\ call[c].pc = "lock"
      /\ Return(c) \/ call' = [call EXCEPT ![c].pc = "adjust"]
      /\ UNCHANGED <<life, parent, piVars, bw, sysctl, handler, calls>>
      /\ Help(c, p)
  BY DEF SetAccepted
<1>2. p \in Task /\ task[p] \in Fields /\ call[c].attr \in AttrFields
  BY <1>1, CallTask
<1>3. Agreed' /\ task' \in [Task -> Fields]
  <2>1. PICK u \in Fields : /\ task' = [task EXCEPT ![p] = u]
                            /\ Agree(task[p]) => Agree(u)
    BY AcceptedTask
  <2> HIDE DEF p
  <2> QED
    BY <1>1, <1>2, <2>1, TaskKept
<1>4. CallsSound' /\ call' \in [Caller -> CallFields]
  BY <1>1, CallEnds
<1>5. total_bw' \in 0 .. Width - 1
  <2>1. total_bw' = total_bw \/ total_bw' = DlTotal(task[p], call[c].policy, call[c].attr)
    BY DEF SetAccepted
  <2> QED
    BY <1>2, <2>1, TotalType DEF PInv, TypeOK
<1>6. lost' \in Int
  <2>1. \/ lost' = lost
        \/ lost' = lost + DlTaken(task[p], call[c].policy, call[c].attr)
    BY DEF SetAccepted
  <2> QED
    BY <1>2, <2>1, TotalType DEF PInv, TypeOK
<1>7. late' \in BOOLEAN /\ kept' \in BOOLEAN /\ helped' \subseteq Task
  BY <1>1, <1>2 DEF SetAccepted, Help, PInv, TypeOK
<1> QED
  BY <1>1, <1>3, <1>4, <1>5, <1>6, <1>7 DEF PInv, TypeOK, Children, piVars

LEMMA NiceSetKeeps ==
  ASSUME PInv, NEW c \in Caller, NiceSet(c)
  PROVE  PInv'
<1> DEFINE p == call[c].task
           u == SetUserNice(task[p], call[c].attr.nice)
<1>1. /\ call[c].pc = "nice" /\ task' = [task EXCEPT ![p] = u] /\ Return(c) /\ Help(c, p)
      /\ UNCHANGED <<life, parent, piVars, bwVars, calls, lost, late, kept>>
  BY DEF NiceSet
<1>2. p \in Task /\ task[p] \in Fields /\ call[c].attr \in AttrFields
  BY <1>1, CallTask
<1>3. call[c].attr.nice \in MIN_NICE .. MAX_NICE
  BY <1>2 DEF AttrFields
<1>4. u \in Fields /\ (Agree(task[p]) => Agree(u))
  BY <1>2, <1>3, NiceAgrees
<1> HIDE DEF u, p
<1>5. Agreed' /\ task' \in [Task -> Fields]
  BY <1>1, <1>2, <1>4, TaskKept
<1>6. CallsSound' /\ call' \in [Caller -> CallFields]
  BY <1>1, CallEnds
<1> QED
  BY <1>1, <1>2, <1>5, <1>6 DEF PInv, TypeOK, Children, piVars, bwVars, Help

-----------------------------------------------------------------------------
(* Boosts                                                                  *)

LEMMA BlockKeeps ==
  ASSUME PInv, NEW w \in Task, NEW p \in Task, Block(w, p)
  PROVE  PInv'
<1> DEFINE u == AdjustPrio(task[p], Waiters(p) \cup {w}, wprio')
<1>1. /\ blocked_on' = [blocked_on EXCEPT ![w] = p]
      /\ wprio' = [wprio EXCEPT ![w] = task[w].prio]
      /\ task' = [task EXCEPT ![p] = u]
      /\ UNCHANGED <<life, parent, bwVars, call, calls, history>>
  BY DEF Block
<1>2. /\ task[p] \in Fields /\ task[w].prio \in Prio /\ wprio \in [Task -> Prio]
      /\ blocked_on \in [Task -> Task \cup {NoTask}]
  BY DEF PInv, TypeOK, Fields
<1>3. /\ wprio' \in [Task -> Prio] /\ blocked_on' \in [Task -> Task \cup {NoTask}]
      /\ Waiters(p) \cup {w} \in SUBSET Task
  BY <1>1, <1>2 DEF Waiters
<1>4. u \in Fields /\ (Agree(task[p]) => Agree(u))
  BY <1>2, <1>3, AdjustAgrees
<1> HIDE DEF u
<1>5. Agreed' /\ task' \in [Task -> Fields]
  BY <1>1, <1>4, TaskKept
<1>6. CallsSound' /\ call' \in [Caller -> CallFields]
  BY <1>1, CallsStay DEF LifeGoesOn
<1> QED
  BY <1>1, <1>3, <1>5, <1>6 DEF PInv, TypeOK, Children, bwVars, history

LEMMA UnblockKeeps ==
  ASSUME PInv, NEW w \in Task, Unblock(w)
  PROVE  PInv'
<1> DEFINE p == blocked_on[w]
           u == AdjustPrio(task[p], Waiters(p) \ {w}, wprio)
<1>1. /\ p # NoTask /\ blocked_on' = [blocked_on EXCEPT ![w] = NoTask]
      /\ task' = [task EXCEPT ![p] = u]
      /\ UNCHANGED <<life, parent, wprio, bwVars, call, calls, history>>
  BY DEF Unblock
<1>2. /\ p \in Task /\ task[p] \in Fields /\ wprio \in [Task -> Prio]
      /\ blocked_on \in [Task -> Task \cup {NoTask}]
  BY <1>1 DEF PInv, TypeOK
<1>3. /\ blocked_on' \in [Task -> Task \cup {NoTask}]
      /\ Waiters(p) \ {w} \in SUBSET Task
  BY <1>1, <1>2 DEF Waiters
<1>4. u \in Fields /\ (Agree(task[p]) => Agree(u))
  BY <1>2, <1>3, AdjustAgrees
<1> HIDE DEF u, p
<1>5. Agreed' /\ task' \in [Task -> Fields]
  BY <1>1, <1>2, <1>4, TaskKept
<1>6. CallsSound' /\ call' \in [Caller -> CallFields]
  BY <1>1, CallsStay DEF LifeGoesOn
<1> QED
  BY <1>1, <1>3, <1>5, <1>6 DEF PInv, TypeOK, Children, bwVars, history

\* Either nothing moves, or the waiter is queued anew and its owner adjusted.
LEMMA AdjustPiTask ==
  ASSUME PInv, NEW c \in Caller, AdjustPi(c)
  PROVE  /\ wprio' \in [Task -> Prio]
         /\ \/ task' = task
            \/ \E p \in Task, u \in Fields :
                 /\ task' = [task EXCEPT ![p] = u]
                 /\ Agree(task[p]) => Agree(u)
                 /\ u.policy = task[p].policy /\ u.static_prio = task[p].static_prio
                 /\ u.rt_priority = task[p].rt_priority /\ u.dl_bw \in {0, task[p].dl_bw}
                 /\ Agree(task[p]) /\ Dl(u.policy) =>
                       u.class = "dl" /\ u.dl_bw = task[p].dl_bw
<1> DEFINE w == call[c].task
           p == blocked_on[w]
           u == AdjustPrio(task[p], Waiters(p), wprio')
<1>1. /\ call[c].pc = "adjust"
      /\ \/ task' = task /\ wprio' = wprio
         \/ /\ p # NoTask /\ wprio' = [wprio EXCEPT ![w] = task[w].prio]
            /\ task' = [task EXCEPT ![p] = u]
  BY DEF AdjustPi
<1>2. /\ w \in Task /\ task[w].prio \in Prio /\ wprio \in [Task -> Prio]
      /\ blocked_on \in [Task -> Task \cup {NoTask}] /\ task \in [Task -> Fields]
  BY <1>1, CallTask DEF PInv, TypeOK, Fields
<1>3. wprio' \in [Task -> Prio]
  BY <1>1, <1>2
<1>4. CASE p # NoTask /\ task' = [task EXCEPT ![p] = u]
  <2>1. p \in Task /\ task[p] \in Fields /\ Waiters(p) \in SUBSET Task
    BY <1>2, <1>4 DEF Waiters
  <2>2. /\ u \in Fields /\ (Agree(task[p]) => Agree(u))
        /\ u.policy = task[p].policy /\ u.static_prio = task[p].static_prio
        /\ u.rt_priority = task[p].rt_priority /\ u.dl_bw \in {0, task[p].dl_bw}
        /\ Agree(task[p]) /\ Dl(u.policy) => u.class = "dl" /\ u.dl_bw = task[p].dl_bw
    BY <1>3, <2>1, AdjustAgrees
  <2> HIDE DEF u, p
  <2> QED
    BY <1>3, <1>4, <2>1, <2>2
<1> QED
  BY <1>1, <1>3, <1>4

LEMMA AdjustPiKeeps ==
  ASSUME PInv, NEW c \in Caller, AdjustPi(c)
  PROVE  PInv'
<1>1. /\ call[c].pc = "adjust" /\ Return(c)
      /\ UNCHANGED <<life, parent, blocked_on, bwVars, calls, history>>
  BY DEF AdjustPi
<1>2. Agreed' /\ task' \in [Task -> Fields]
  <2>1. CASE task' = task
    BY <1>1, <2>1, TasksStay
  <2>2. CASE task' # task
    <3>1. PICK p \in Task, u \in Fields :
                  (Agree(task[p]) => Agree(u)) /\ task' = [task EXCEPT ![p] = u]
      BY <2>2, AdjustPiTask
    <3>2. UNCHANGED life
      BY <1>1
    <3> QED
      BY <3>1, <3>2, TaskKept
  <2> QED
    BY <2>1, <2>2
<1>3. CallsSound' /\ call' \in [Caller -> CallFields]
  BY <1>1, CallEnds
<1>4. wprio' \in [Task -> Prio]
  BY AdjustPiTask
<1> QED
  BY <1>1, <1>2, <1>3, <1>4 DEF PInv, TypeOK, Children, bwVars, history

-----------------------------------------------------------------------------
(* Fork, exit, and the limit                                               *)

LEMMA DupKeeps ==
  ASSUME PInv, NEW p \in Task, NEW q \in Task, DupTask(p, q)
  PROVE  PInv'
<1>1. /\ life[p] = "live" /\ life[q] = "fresh"
      /\ task' = [task EXCEPT ![q] = task[p]]
      /\ life' = [life EXCEPT ![q] = "forking"] /\ parent' = [parent EXCEPT ![q] = p]
      /\ helped' = IF p \in helped THEN helped \cup {q} ELSE helped
      /\ UNCHANGED <<piVars, bwVars, call, calls, lost, late, kept>>
  BY DEF DupTask
<1>2. TypeOK /\ Agreed /\ Children
  BY DEF PInv
<1>3. LifeGoesOn
  BY <1>1, <1>2 DEF LifeGoesOn, TypeOK
<1>4. CallsSound' /\ call' \in [Caller -> CallFields]
  BY <1>1, <1>3, CallsStay
<1>5. \A r \in Task : life'[r] # "fresh" => Agree(task'[r])
  BY <1>1, <1>2 DEF TypeOK, Agreed
<1>6. Children'
  BY <1>1, <1>2 DEF TypeOK, Children
<1>7. Agreed'
  BY <1>5 DEF Agreed, Agree
<1> QED
  BY <1>1, <1>2, <1>4, <1>6, <1>7 DEF PInv, TypeOK, piVars, bwVars

\* A fork that succeeds leaves a task whose fields agree.
LEMMA ForkTask ==
  ASSUME PInv, NEW q \in Task, SchedFork(q)
  PROVE  /\ life[q] = "forking" /\ parent[q] \in Task
         /\ \/ /\ task' = [task EXCEPT ![q] = First[q]]
               /\ life' = [life EXCEPT ![q] = "fresh"] /\ helped' = helped \ {q}
            \/ /\ life' = [life EXCEPT ![q] = "live"]
               /\ helped' = IF parent[q] \in helped THEN helped \cup {q} ELSE helped
               /\ \E u \in Fields :
                    /\ task' = [task EXCEPT ![q] = u] /\ Agree(u)
                    /\ u.policy = task[q].policy \/ u.policy = "NORMAL"
                    /\ u.rt_priority = task[q].rt_priority \/ u.rt_priority = 0
                    /\ \/ u.static_prio = task[q].static_prio
                       \/ u.static_prio = NICE_TO_PRIO(0)
                    /\ u.dl_bw = 0
<1> DEFINE pr == task[parent[q]].normal_prio
           v == ResetOnFork([task[q] EXCEPT !.dl_bw = 0, !.prio = pr])
           u == [v EXCEPT !.class = ClassOf(v.prio)]
<1>1. life[q] = "forking" /\ parent[q] \in Task
  BY DEF SchedFork, PInv, Children
<1>2. task[q] \in Fields /\ Agree(task[q]) /\ pr \in Prio
  <2>1. task[parent[q]] \in Fields
    BY <1>1 DEF PInv, TypeOK
  <2> QED
    BY <1>1, <2>1 DEF PInv, TypeOK, Agreed, Fields
<1>3. \/ /\ task' = [task EXCEPT ![q] = First[q]]
         /\ life' = [life EXCEPT ![q] = "fresh"] /\ helped' = helped \ {q}
      \/ /\ life' = [life EXCEPT ![q] = "live"] /\ task' = [task EXCEPT ![q] = u]
         /\ helped' = IF parent[q] \in helped THEN helped \cup {q} ELSE helped
  BY DEF SchedFork
<1> HIDE DEF pr
<1>4. /\ u \in Fields /\ Agree(u)
      /\ u.policy = task[q].policy \/ u.policy = "NORMAL"
      /\ u.rt_priority = task[q].rt_priority \/ u.rt_priority = 0
      /\ u.static_prio = task[q].static_prio \/ u.static_prio = NICE_TO_PRIO(0)
      /\ u.dl_bw = 0
  BY <1>2, ForkAgrees
<1> HIDE DEF v, u
<1> QED
  BY <1>1, <1>3, <1>4

LEMMA ForkKeeps ==
  ASSUME PInv, NEW q \in Task, SchedFork(q)
  PROVE  PInv'
<1>1. /\ life[q] = "forking" /\ parent' = [parent EXCEPT ![q] = NoTask]
      /\ UNCHANGED <<piVars, bwVars, call, calls, lost, late, kept>>
  BY DEF SchedFork
<1>2. TypeOK /\ Agreed /\ Children
  BY DEF PInv
<1>3. First[q] \in Fields
  BY SchedPolicyAssumption
<1>4. /\ life' \in [Task -> {"fresh", "forking", "live", "dead"}]
      /\ LifeGoesOn /\ helped' \subseteq Task /\ life'[q] \in {"fresh", "live"}
      /\ \A r \in Task : r # q => life'[r] = life[r]
  BY <1>1, <1>2, ForkTask DEF TypeOK, LifeGoesOn
<1>5. CallsSound' /\ call' \in [Caller -> CallFields]
  BY <1>1, <1>4, CallsStay
<1>6. /\ task' \in [Task -> Fields]
      /\ \A r \in Task : life'[r] # "fresh" => Agree(task'[r])
  <2>1. CASE task' = [task EXCEPT ![q] = First[q]] /\ life' = [life EXCEPT ![q] = "fresh"]
    BY <1>2, <1>3, <2>1 DEF TypeOK, Agreed
  <2>2. CASE \E u \in Fields : task' = [task EXCEPT ![q] = u] /\ Agree(u)
    BY <1>1, <1>2, <1>4, <2>2 DEF TypeOK, Agreed
  <2> QED
    BY <2>1, <2>2, ForkTask
<1>7. Agreed'
  BY <1>6 DEF Agreed, Agree
<1>8. Children' /\ parent' \in [Task -> Task \cup {NoTask}]
  BY <1>1, <1>2, <1>4 DEF TypeOK, Children
<1> QED
  BY <1>1, <1>2, <1>4, <1>5, <1>6, <1>7, <1>8 DEF PInv, TypeOK, piVars, bwVars

LEMMA DeadKeeps ==
  ASSUME PInv, NEW p \in Task, TaskDead(p)
  PROVE  PInv'
<1>1. /\ life[p] = "live" /\ life' = [life EXCEPT ![p] = "dead"]
      /\ total_bw' = total_bw \/ total_bw' = (total_bw - task[p].dl_bw) % Width
      /\ UNCHANGED <<task, parent, piVars, bw, sysctl, handler, call, calls, history>>
  BY DEF TaskDead
<1>2. TypeOK /\ Agreed /\ Children
  BY DEF PInv
<1>3. LifeGoesOn /\ life' \in [Task -> {"fresh", "forking", "live", "dead"}]
  BY <1>1, <1>2 DEF LifeGoesOn, TypeOK
<1>4. CallsSound' /\ call' \in [Caller -> CallFields]
  BY <1>1, <1>3, CallsStay
<1>5. total_bw' \in 0 .. Width - 1
  <2>1. Width \in Nat \ {0} /\ total_bw \in 0 .. Width - 1 /\ task[p].dl_bw \in Nat
    BY <1>2, SchedPolicyAssumption DEF TypeOK, Fields
  <2> QED
    BY <1>1, <2>1
<1>6. \A r \in Task : life'[r] # "fresh" => Agree(task[r])
  BY <1>1, <1>2 DEF TypeOK, Agreed
<1>7. Agreed' /\ Children'
  BY <1>1, <1>2, <1>6 DEF TypeOK, Children, Agreed, Agree
<1> QED
  BY <1>1, <1>2, <1>3, <1>4, <1>5, <1>7 DEF PInv, TypeOK, piVars, history

LEMMA LimitKeeps ==
  ASSUME PInv, (\E l \in Limits : DlGlobalConstraints(l)) \/ DlDoGlobal
  PROVE  PInv'
<1>1. /\ UNCHANGED <<task, life, parent, piVars, total_bw, call, history>>
      /\ sysctl' \in Limits \cup {sysctl} /\ bw' \in {bw, sysctl} /\ handler' \in {"none", "do"}
      /\ calls' \in 0 .. MaxCall
  BY MaxCallNat DEF DlGlobalConstraints, DlDoGlobal, PInv, TypeOK
<1>2. Limits \subseteq -1 .. BW_UNIT
  BY SchedPolicyAssumption
<1>3. CallsSound' /\ call' \in [Caller -> CallFields]
  BY <1>1, CallsStay DEF LifeGoesOn
<1>4. Agreed' /\ task' \in [Task -> Fields]
  BY <1>1, TasksStay
<1> QED
  BY <1>1, <1>2, <1>3, <1>4 DEF PInv, TypeOK, Children, piVars, history

-----------------------------------------------------------------------------
LEMMA PInvInit == Init => PInv
<1> SUFFICES ASSUME Init PROVE PInv
  OBVIOUS
<1>1. First \in [Task -> Fields] /\ \A p \in Boot : Agree(First[p])
  BY SchedPolicyAssumption
<1>2. 0 \in Prio
  BY Ranges DEF Prio, NICE_TO_PRIO
<1>3. /\ Width \in Nat \ {0} /\ MaxCall \in Nat
      /\ FirstLimit \in -1 .. BW_UNIT
  BY SchedPolicyAssumption
<1>4. TypeOK
  <2>1. /\ task \in [Task -> Fields] /\ life \in [Task -> {"fresh", "forking", "live", "dead"}]
        /\ parent \in [Task -> Task \cup {NoTask}] /\ blocked_on \in [Task -> Task \cup {NoTask}]
        /\ wprio \in [Task -> Prio]
    BY <1>1, <1>2 DEF Init
  <2>2. /\ total_bw \in 0 .. Width - 1 /\ bw \in -1 .. BW_UNIT /\ sysctl \in -1 .. BW_UNIT
        /\ handler \in {"none", "do"} /\ calls \in 0 .. MaxCall
    BY <1>3 DEF Init
  <2>3. call \in [Caller -> CallFields]
    BY NoCallType DEF Init
  <2>4. helped \subseteq Task /\ lost \in Int
    BY DEF Init
  <2>5. late \in BOOLEAN /\ kept \in BOOLEAN
    BY DEF Init
  <2> QED
    BY <2>1, <2>2, <2>3, <2>4, <2>5 DEF TypeOK
<1>5. Agreed /\ Children
  BY <1>1 DEF Init, Agreed, Children
<1>6. CallsSound
  BY NoCallType DEF Init, CallsSound
<1> QED
  BY <1>4, <1>5, <1>6 DEF PInv

LEMMA PInvStep == PInv /\ [Next]_vars => PInv'
<1> SUFFICES ASSUME PInv, [Next]_vars PROVE PInv'
  OBVIOUS
<1>1. CASE UNCHANGED vars
  <2>1. CallsSound' /\ Agreed' /\ Children'
    BY <1>1, CallsStay, TasksStay DEF vars, LifeGoesOn, PInv, Children
  <2> QED
    BY <1>1, <2>1 DEF vars, piVars, bwVars, history, PInv, TypeOK
<1>2. ASSUME NEW c \in Caller, Calls(c)
      PROVE  PInv'
  BY <1>2, SetschedulerKeeps, NiceCallKeeps, RecheckKeeps, CheckKeeps, NothingKeeps,
     RefusedKeeps, AcceptedKeeps, NiceSetKeeps, AdjustPiKeeps DEF Calls
<1>3. ASSUME NEW w \in Task, Unblock(w) \/ SchedFork(w) \/ TaskDead(w)
      PROVE  PInv'
  BY <1>3, UnblockKeeps, ForkKeeps, DeadKeeps
<1>4. ASSUME NEW p \in Task, NEW q \in Task, Block(p, q) \/ DupTask(p, q)
      PROVE  PInv'
  BY <1>4, BlockKeeps, DupKeeps
<1> QED
  BY <1>1, <1>2, <1>3, <1>4, LimitKeeps DEF Next

LEMMA PInvAlways == Spec => []PInv
BY PInvInit, PInvStep, PTL DEF Spec

\* Every variable keeps its type through every interleaving of the calls, boosts, forks
\* and exits: priorities stay in range, and the allocated bandwidth in its width.
THEOREM PolicyTypes == Spec => []TypeOK
BY PInvAlways, PTL DEF PInv

\* sched_setparam checks its argument against a policy it has read without a lock; as
\* the policy is looked at again under the locks, only real-time tasks ever have a
\* real-time priority.
THEOREM RtPrioritySafety == Spec => []RtPriorityKept
<1>1. PInv => RtPriorityKept
  BY DEF PInv, Agreed, Agree, RtPriorityKept, Live
<1> QED
  BY <1>1, PInvAlways, PTL

\* However setscheduler, nice, boosts and forks interleave, a task is in the class of
\* its priority and its normal_prio is what its policy and parameters yield.
THEOREM PrioSafety == Spec => []PrioConsistent
<1>1. PInv => PrioConsistent
  BY DEF PInv, Agreed, Agree, PrioConsistent, Live
<1> QED
  BY <1>1, PInvAlways, PTL

-----------------------------------------------------------------------------
(* The limits                                                              *)

\* Fields that nobody has to help a task to.
Within(t) == /\ RtPrioReached(t.rt_priority) /\ NiceReached(task_nice(t))
             /\ Dl(t.policy) => \E q \in Boot : Dl(First[q].policy)

\* What a caller that is not capable has been allowed, and has yet to store.
Allowed(k) ==
    /\ k.pc = "lock" => /\ Rt(k.policy) => RtPrioReached(k.attr.prio)
                        /\ Fair(k.policy) => NiceReached(k.attr.nice)
                        /\ ~Dl(k.policy)
    /\ k.pc = "nice" => NiceReached(k.attr.nice)

\* The checks were made against a task that may have been helped since, or changed by
\* others: what was allowed then is within the limits at any time.
TasksWithin == \A p \in Task : life[p] # "fresh" /\ p \notin helped => Within(task[p])
CallsAllowed == \A c \in Caller : c \in Capable \/ call[c].task \in helped \/ Allowed(call[c])

LInv == TasksWithin /\ CallsAllowed

\* Worse values are reached wherever better ones are.
LEMMA ReachedBelow ==
  /\ \A i, j \in Int : j <= i /\ RtPrioReached(i) => RtPrioReached(j)
  /\ \A m, n \in Int : m <= n /\ NiceReached(m) => NiceReached(n)
  /\ RtPrioReached(0) /\ NiceReached(0)
<1>1. /\ RLIMIT_RTPRIO \in Nat /\ RLIMIT_NICE \in Int /\ Boot \subseteq Task
      /\ First \in [Task -> Fields]
  BY SchedPolicyAssumption
<1>2. \A q \in Boot : First[q].rt_priority \in Int /\ First[q].static_prio \in Int
  <2> SUFFICES ASSUME NEW q \in Boot
               PROVE  First[q].rt_priority \in Int /\ First[q].static_prio \in Int
    OBVIOUS
  <2>1. First[q] \in Fields
    BY <1>1
  <2> QED
    BY <2>1, PrioRange, Ranges DEF Fields
<1>3. \A i, j \in Int : j <= i /\ RtPrioReached(i) => RtPrioReached(j)
  BY <1>1, <1>2 DEF RtPrioReached
<1>4. \A m, n \in Int : m <= n /\ NiceReached(m) => NiceReached(n)
  BY <1>1, <1>2, Ranges DEF NiceReached, NICE_TO_PRIO
<1> QED
  BY <1>1, <1>3, <1>4 DEF RtPrioReached, NiceReached

LEMMA NicePrio ==
  ASSUME NEW t, NEW n \in Int, t.static_prio = NICE_TO_PRIO(n)
  PROVE  task_nice(t) = n
BY Ranges DEF task_nice, NICE_TO_PRIO

LEMMA SameWithin ==
  ASSUME NEW t, NEW u, u.policy = t.policy, u.static_prio = t.static_prio,
         u.rt_priority = t.rt_priority
  PROVE  Within(t) => Within(u)
BY DEF Within, task_nice

\* One task is changed, one call moves on; nobody is forgotten to have been helped.
LEMMA TaskWithin ==
  ASSUME PInv, LInv, UNCHANGED life, helped \subseteq helped', NEW p \in Task, NEW u,
         task' = [task EXCEPT ![p] = u], p \in helped' \/ (Within(task[p]) => Within(u))
  PROVE  TasksWithin'
<1>1. task \in [Task -> Fields] /\ TasksWithin
  BY DEF PInv, TypeOK, LInv
<1>2. \A q \in Task : life'[q] # "fresh" /\ q \notin helped' => Within(task'[q])
  BY <1>1 DEF TasksWithin
<1> QED
  BY <1>2 DEF TasksWithin, Within, RtPrioReached, NiceReached, task_nice, NICE_TO_PRIO

LEMMA TasksStayWithin ==
  ASSUME LInv, UNCHANGED <<life, task>>, helped \subseteq helped'
  PROVE  TasksWithin'
<1>1. \A q \in Task : life'[q] # "fresh" /\ q \notin helped' => Within(task'[q])
  BY DEF TasksWithin, LInv
<1> QED
  BY <1>1 DEF TasksWithin, Within, RtPrioReached, NiceReached, task_nice, NICE_TO_PRIO

LEMMA CallAllowed ==
  ASSUME PInv, LInv, helped \subseteq helped', NEW c \in Caller, NEW k,
         call' = [call EXCEPT ![c] = k], c \in Capable \/ k.task \in helped' \/ Allowed(k)
  PROVE  CallsAllowed'
<1>1. call \in [Caller -> CallFields] /\ CallsAllowed
  BY DEF PInv, TypeOK, LInv
<1>2. \A d \in Caller : d \in Capable \/ call'[d].task \in helped' \/ Allowed(call'[d])
  BY <1>1 DEF CallsAllowed
<1> QED
  BY <1>2 DEF CallsAllowed, Allowed, RtPrioReached, NiceReached, NICE_TO_PRIO

LEMMA CallsStayAllowed ==
  ASSUME LInv, UNCHANGED call, \A c \in Caller : call[c].task \in helped =>
                                   call[c].task \in helped' \/ Allowed(call[c])
  PROVE  CallsAllowed'
<1>1. \A d \in Caller : d \in Capable \/ call'[d].task \in helped' \/ Allowed(call'[d])
  BY DEF CallsAllowed, LInv
<1> QED
  BY <1>1 DEF CallsAllowed, Allowed, RtPrioReached, NiceReached, NICE_TO_PRIO

LEMMA NoCallAllowed == Allowed(NoCall)
BY NoCallType DEF Allowed

\* Steps of a call that leave every task alone.
LEMMA EntryAllowed ==
  ASSUME PInv, LInv, NEW c \in Caller, NEW p \in Task, NEW a, Enter(c, p, a)
  PROVE  LInv'
<1> DEFINE k == [NoCall EXCEPT !.pc = "recheck", !.task = p, !.attr = a]
<1>1. /\ call' = [call EXCEPT ![c] = k] /\ UNCHANGED <<life, task, helped>>
  BY DEF Enter, history
<1>2. k.pc = "recheck"
  BY NoCallType DEF CallFields
<1> HIDE DEF k
<1>3. Allowed(k)
  BY <1>2 DEF Allowed
<1> QED
  BY <1>1, <1>3, CallAllowed, TasksStayWithin DEF LInv

LEMMA NiceCallAllowed ==
  ASSUME PInv, LInv, NEW c \in Caller, NEW p \in Task, NEW n \in Nices, SysNice(c, p, n)
  PROVE  LInv'
<1> DEFINE a == [NoAttr EXCEPT !.nice = n]
           k == [NoCall EXCEPT !.pc = "nice", !.task = p, !.attr = a]
<1>1. /\ call' = [call EXCEPT ![c] = k] /\ UNCHANGED <<life, task, helped>>
      /\ life[p] = "live"
      /\ n > task_nice(task[p]) \/ can_nice(n) \/ c \in Capable
  BY DEF SysNice, history
<1>2. a.nice = n
  BY NoCallType DEF AttrFields
<1> HIDE DEF a
<1>3. k.pc = "nice" /\ k.task = p /\ k.attr = a
  BY NoCallType DEF CallFields
<1> HIDE DEF k
<1>4. n \in Int /\ task_nice(task[p]) \in Int /\ RLIMIT_NICE \in Int
  <2>1. n \in MIN_NICE .. MAX_NICE /\ RLIMIT_NICE \in Int
    BY SchedPolicyAssumption
  <2>2. task_nice(task[p]) \in MIN_NICE .. MAX_NICE
    BY NiceRange DEF PInv, TypeOK
  <2> QED
    BY <2>1, <2>2, Ranges
<1>5. p \in helped \/ NiceReached(task_nice(task[p]))
  BY <1>1 DEF LInv, TasksWithin, Within
<1>6. p \in helped \/ c \in Capable \/ NiceReached(n)
  <2>1. CASE can_nice(n)
    BY <2>1 DEF can_nice, NiceReached
  <2>2. CASE n > task_nice(task[p])
    BY <1>4, <1>5, <2>2, ReachedBelow
  <2> QED
    BY <1>1, <2>1, <2>2
<1>7. c \in Capable \/ k.task \in helped' \/ Allowed(k)
  BY <1>1, <1>2, <1>3, <1>6 DEF Allowed
<1> QED
  BY <1>1, <1>7, CallAllowed, TasksStayWithin DEF LInv

LEMMA CheckAllowed ==
  ASSUME PInv, LInv, NEW c \in Caller, Check(c)
  PROVE  LInv'
<1> DEFINE o == call[c]
           t == task[o.task]
           k == [o EXCEPT !.pc = "lock"]
<1>1. /\ o.pc = "check" /\ UNCHANGED <<life, task, helped>>
      /\ \/ call' = [call EXCEPT ![c] = NoCall]
         \/ /\ call' = [call EXCEPT ![c] = k]
            /\ c \in Capable \/ Permitted(o, t)
  BY DEF Check, history
<1>2. /\ o \in CallFields /\ o.task \in Task /\ t \in Fields /\ o.attr \in AttrFields
      /\ life[o.task] \in {"live", "dead"}
  BY <1>1, CallTask
<1>3. o.task \in helped \/ Within(t)
  BY <1>2 DEF LInv, TasksWithin
<1>4. /\ t.rt_priority \in Int /\ task_nice(t) \in Int /\ o.attr.prio \in Int
      /\ o.attr.nice \in Int
  <2>1. task_nice(t) \in MIN_NICE .. MAX_NICE
    BY <1>2, NiceRange
  <2>2. t.rt_priority \in 0 .. MAX_RT_PRIO - 1
    BY <1>2 DEF Fields
  <2>3. o.attr.prio \in 0 .. MAX_RT_PRIO - 1 /\ o.attr.nice \in MIN_NICE .. MAX_NICE
    BY <1>2 DEF AttrFields
  <2> QED
    BY <2>1, <2>2, <2>3, Ranges
<1> HIDE DEF o, t
<1>5. k.pc = "lock" /\ k.task = o.task /\ k.attr = o.attr /\ k.policy = o.policy
  BY <1>2 DEF CallFields
<1> HIDE DEF k
<1>6. ASSUME Permitted(o, t), Within(t)
      PROVE  Allowed(k)
  <2>1. Rt(o.policy) => RtPrioReached(o.attr.prio)
    <3> SUFFICES ASSUME Rt(o.policy) PROVE RtPrioReached(o.attr.prio)
      OBVIOUS
    <3>1. o.attr.prio <= t.rt_priority \/ o.attr.prio <= RLIMIT_RTPRIO
      BY <1>6 DEF Permitted
    <3> QED
      BY <1>4, <1>6, <3>1, ReachedBelow DEF Within, RtPrioReached
  <2>2. Fair(o.policy) => NiceReached(o.attr.nice)
    <3> SUFFICES ASSUME Fair(o.policy) PROVE NiceReached(o.attr.nice)
      OBVIOUS
    <3>1. o.attr.nice >= task_nice(t) \/ o.attr.nice >= RLIMIT_NICE
      BY <1>6 DEF Permitted, can_nice
    <3>2. CASE o.attr.nice >= RLIMIT_NICE
      BY <3>2 DEF NiceReached
    <3>3. CASE o.attr.nice >= task_nice(t)
      BY <1>4, <1>6, <3>3, ReachedBelow DEF Within
    <3> QED
      BY <3>1, <3>2, <3>3
  <2>3. ~Dl(o.policy)
    BY <1>6 DEF Permitted
  <2> QED
    BY <1>5, <2>1, <2>2, <2>3 DEF Allowed
<1>7. TasksWithin'
  BY <1>1, TasksStayWithin
<1>8. CASE call' = [call EXCEPT ![c] = NoCall]
  BY <1>1, <1>7, <1>8, NoCallAllowed, CallAllowed DEF LInv
<1>9. CASE call' = [call EXCEPT ![c] = k] /\ (c \in Capable \/ Permitted(o, t))
  BY <1>1, <1>3, <1>5, <1>6, <1>7, <1>9, CallAllowed DEF LInv
<1> QED
  BY <1>1, <1>8, <1>9

\* A call that starts again has nothing to store yet.
LEMMA AgainAllowed ==
  ASSUME PInv, LInv, NEW c \in Caller, Recheck(c) \/ SetRefused(c)
  PROVE  LInv'
<1>1. PICK k : /\ call' = [call EXCEPT ![c] = k]
               /\ Allowed(k)
  <2>1. call[c] \in CallFields
    BY DEF PInv, TypeOK
  <2>2. CASE Recheck(c)
    <3>1. PICK po, old, r : call' = [call EXCEPT ![c] =
                [call[c] EXCEPT !.pc = "check", !.policy = po, !.old = old, !.reset = r]]
      BY <2>2 DEF Recheck
    <3> DEFINE k == [call[c] EXCEPT !.pc = "check", !.policy = po, !.old = old, !.reset = r]
    <3>2. k.pc = "check"
      BY <2>1 DEF CallFields
    <3> HIDE DEF k
    <3>3. Allowed(k)
      BY <3>2 DEF Allowed
    <3> QED
      BY <3>1, <3>3 DEF k
  <2>3. CASE SetRefused(c)
    <3> DEFINE k == [call[c] EXCEPT !.pc = "recheck"]
    <3>1. call' = [call EXCEPT ![c] = k] \/ call' = [call EXCEPT ![c] = NoCall]
      BY <2>3 DEF SetRefused, Return
    <3>2. k.pc = "recheck"
      BY <2>1 DEF CallFields
    <3> HIDE DEF k
    <3>3. Allowed(k)
      BY <3>2 DEF Allowed
    <3> QED
      BY <3>1, <3>3, NoCallAllowed
  <2> QED
    BY <2>2, <2>3
<1>2. UNCHANGED <<life, task, helped>>
  BY DEF Recheck, SetRefused, history
<1> QED
  BY <1>1, <1>2, CallAllowed, TasksStayWithin DEF LInv

\* Steps that change a task under the locks.
LEMMA LockedAllowed ==
  ASSUME PInv, LInv, NEW c \in Caller, SetNothing(c) \/ NiceSet(c) \/ SetAccepted(c)
  PROVE  LInv'
<1> DEFINE o == call[c]
           t == task[o.task]
<1>1. /\ o.pc # "none" /\ UNCHANGED life
      /\ Return(c) \/ call' = [call EXCEPT ![c].pc = "adjust"]
      /\ helped \subseteq helped'
  BY DEF SetNothing, NiceSet, SetAccepted, Help, history
<1>2. /\ o \in CallFields /\ o.task \in Task /\ t \in Fields /\ o.attr \in AttrFields
      /\ life[o.task] \in {"live", "dead"} /\ Known(o) /\ o.policy \in Policies
      /\ o.reset \in BOOLEAN
  BY <1>1, CallTask
<1>3. CallsAllowed'
  <2> DEFINE k == [o EXCEPT !.pc = "adjust"]
  <2>1. call' = [call EXCEPT ![c] = k] \/ call' = [call EXCEPT ![c] = NoCall]
    BY <1>1 DEF Return
  <2> HIDE DEF o
  <2>2. k.pc = "adjust"
    BY <1>2 DEF CallFields
  <2> HIDE DEF k
  <2>3. Allowed(k)
    BY <2>2 DEF Allowed
  <2> QED
    BY <1>1, <2>1, <2>3, NoCallAllowed, CallAllowed
<1>4. o.attr.nice \in MIN_NICE .. MAX_NICE /\ o.attr.nice \in Int
  BY <1>2, Ranges DEF AttrFields
<1>5. c \in Capable \/ o.task \in helped \/ Allowed(o)
  BY DEF LInv, CallsAllowed
<1>6. CASE SetNothing(c)
  <2> DEFINE u == [t EXCEPT !.reset = o.reset]
  <2>1. task' = [task EXCEPT ![o.task] = u]
    BY <1>6 DEF SetNothing
  <2> HIDE DEF o, t
  <2>2. /\ u.policy = t.policy /\ u.static_prio = t.static_prio
        /\ u.rt_priority = t.rt_priority
    BY <1>2, ResetAgrees
  <2> HIDE DEF u
  <2>3. Within(t) => Within(u)
    BY <2>2, SameWithin
  <2> QED
    BY <1>1, <1>2, <1>3, <2>1, <2>3, TaskWithin DEF LInv, t
<1>7. CASE NiceSet(c)
  <2> DEFINE u == SetUserNice(t, o.attr.nice)
  <2>1. task' = [task EXCEPT ![o.task] = u] /\ o.pc = "nice" /\ Help(c, o.task)
    BY <1>7 DEF NiceSet
  <2> HIDE DEF o, t
  <2>2. /\ u.policy = t.policy /\ u.static_prio = NICE_TO_PRIO(o.attr.nice)
        /\ u.rt_priority = t.rt_priority
    BY <1>2, <1>4, NiceAgrees
  <2> HIDE DEF u
  <2>3. task_nice(u) = o.attr.nice
    BY <1>4, <2>2, NicePrio
  <2>4. o.task \in helped' \/ (Within(t) => Within(u))
    BY <1>1, <1>5, <2>1, <2>2, <2>3 DEF Help, Within, Allowed
  <2> QED
    BY <1>1, <1>2, <1>3, <2>1, <2>4, TaskWithin DEF LInv, t
<1>8. CASE SetAccepted(c)
  <2>1. o.pc = "lock" /\ Help(c, o.task)
    BY <1>8 DEF SetAccepted
  <2>2. PICK u \in Fields :
            /\ task' = [task EXCEPT ![o.task] = u]
            /\ u.policy = o.policy /\ u.rt_priority = o.attr.prio
            /\ u.static_prio = IF Fair(o.policy) THEN NICE_TO_PRIO(o.attr.nice)
                               ELSE t.static_prio
    BY <1>8, AcceptedTask
  <2> HIDE DEF o, t
  <2>3. c \in Capable => o.task \in helped'
    BY <2>1 DEF Help
  <2>4. ASSUME Allowed(o), Within(t)
        PROVE  Within(u)
    <3>1. RtPrioReached(u.rt_priority)
      BY <1>2, <2>1, <2>2, <2>4, ReachedBelow DEF Allowed, Known
    <3>2. CASE Fair(o.policy)
      <4>1. task_nice(u) = o.attr.nice
        BY <1>4, <2>2, <3>2, NicePrio
      <4> QED
        BY <2>1, <2>2, <2>4, <3>1, <3>2, <4>1 DEF Allowed, Within
    <3>3. CASE ~Fair(o.policy)
      <4>1. task_nice(u) = task_nice(t)
        BY <2>2, <3>3 DEF task_nice
      <4> QED
        BY <2>1, <2>2, <2>4, <3>1, <4>1 DEF Allowed, Within
    <3> QED
      BY <3>2, <3>3
  <2>5. o.task \in helped' \/ (Within(t) => Within(u))
    BY <1>1, <1>5, <2>3, <2>4
  <2> QED
    BY <1>1, <1>2, <1>3, <2>2, <2>5, TaskWithin DEF LInv, t
<1> QED
  BY <1>6, <1>7, <1>8

\* Boosts change neither policy nor parameters.
LEMMA BoostAllowed ==
  ASSUME PInv, LInv, \/ \E c \in Caller : AdjustPi(c)
                     \/ \E w \in Task : Unblock(w)
                     \/ \E w, p \in Task : Block(w, p)
  PROVE  LInv'
<1>1. UNCHANGED <<life, helped>>
  BY DEF AdjustPi, Unblock, Block, history
<1>2. CallsAllowed'
  <2>1. CASE UNCHANGED call
    BY <1>1, <2>1, CallsStayAllowed
  <2>2. CASE \E c \in Caller : AdjustPi(c)
    <3>1. PICK c \in Caller : call' = [call EXCEPT ![c] = NoCall]
      BY <2>2 DEF AdjustPi, Return
    <3> QED
      BY <1>1, <3>1, NoCallAllowed, CallAllowed
  <2> QED
    BY <2>1, <2>2 DEF Unblock, Block
<1> DEFINE OnlyPrio ==
              \E p \in Task, u \in Fields :
                 /\ task' = [task EXCEPT ![p] = u]
                 /\ u.policy = task[p].policy /\ u.static_prio = task[p].static_prio
                 /\ u.rt_priority = task[p].rt_priority
<1>3. task' = task \/ OnlyPrio
  <2>1. CASE \E c \in Caller : AdjustPi(c)
    BY <2>1, AdjustPiTask
  <2>2. ASSUME NEW w \in Task, Unblock(w)
        PROVE  OnlyPrio
    <3> DEFINE p == blocked_on[w]
               W == Waiters(p) \ {w}
               u == AdjustPrio(task[p], W, wprio)
    <3>1. p # NoTask /\ task' = [task EXCEPT ![p] = u]
      BY <2>2 DEF Unblock
    <3>2. p \in Task /\ task[p] \in Fields /\ wprio \in [Task -> Prio] /\ W \in SUBSET Task
      BY <3>1 DEF PInv, TypeOK, Waiters
    <3> HIDE DEF p, W
    <3>3. /\ u \in Fields /\ u.policy = task[p].policy
          /\ u.static_prio = task[p].static_prio /\ u.rt_priority = task[p].rt_priority
      BY <3>2, AdjustAgrees
    <3> QED
      BY <3>1, <3>2, <3>3
  <2>3. ASSUME NEW w \in Task, NEW p \in Task, Block(w, p)
        PROVE  OnlyPrio
    <3> DEFINE W == Waiters(p) \cup {w}
               u == AdjustPrio(task[p], W, wprio')
    <3>1. task' = [task EXCEPT ![p] = u] /\ wprio' = [wprio EXCEPT ![w] = task[w].prio]
      BY <2>3 DEF Block
    <3>2. task[p] \in Fields /\ wprio' \in [Task -> Prio] /\ W \in SUBSET Task
      BY <3>1 DEF PInv, TypeOK, Waiters, Fields
    <3> HIDE DEF W
    <3>3. /\ u \in Fields /\ u.policy = task[p].policy
          /\ u.static_prio = task[p].static_prio /\ u.rt_priority = task[p].rt_priority
      BY <3>2, AdjustAgrees
    <3> QED
      BY <3>1, <3>2, <3>3
  <2> QED
    BY <2>1, <2>2, <2>3
<1>4. TasksWithin'
  <2>1. CASE task' = task
    BY <1>1, <2>1, TasksStayWithin
  <2>2. ASSUME NEW p \in Task, NEW u \in Fields, task' = [task EXCEPT ![p] = u],
               u.policy = task[p].policy, u.static_prio = task[p].static_prio,
               u.rt_priority = task[p].rt_priority
        PROVE  TasksWithin'
    BY <1>1, <2>2, SameWithin, TaskWithin
  <2> QED
    BY <1>3, <2>1, <2>2
<1> QED
  BY <1>2, <1>4 DEF LInv

\* A child is helped when its parent was at either of the two steps of fork; only a
\* child that is given up, of which no call knows, is forgotten.
LEMMA ForkAllowed ==
  ASSUME PInv, LInv, \/ \E p, q \in Task : DupTask(p, q)
                     \/ \E q \in Task : SchedFork(q)
  PROVE  LInv'
<1>1. /\ task \in [Task -> Fields] /\ life \in [Task -> {"fresh", "forking", "live", "dead"}]
      /\ call \in [Caller -> CallFields]
  BY DEF PInv, TypeOK
<1>2. UNCHANGED call
  BY DEF DupTask, SchedFork
<1>3. ASSUME NEW p \in Task, NEW q \in Task, DupTask(p, q)
      PROVE  LInv'
  <2>1. /\ life[p] = "live" /\ life[q] = "fresh" /\ task' = [task EXCEPT ![q] = task[p]]
        /\ life' = [life EXCEPT ![q] = "forking"]
        /\ helped' = IF p \in helped THEN helped \cup {q} ELSE helped
    BY <1>3 DEF DupTask
  <2>2. \A r \in Task : life'[r] # "fresh" /\ r \notin helped' => Within(task'[r])
    BY <1>1, <2>1 DEF LInv, TasksWithin
  <2>3. TasksWithin'
    BY <2>2 DEF TasksWithin, Within, RtPrioReached, NiceReached, task_nice, NICE_TO_PRIO
  <2> QED
    BY <1>2, <2>1, <2>3, CallsStayAllowed DEF LInv
<1>4. ASSUME NEW q \in Task, SchedFork(q)
      PROVE  LInv'
  <2>1. life[q] = "forking" /\ helped \ {q} \subseteq helped'
    BY <1>4, ForkTask
  <2>2. CallsAllowed'
    <3>1. \A c \in Caller : call[c].pc # "none" => call[c].task # q
      BY <2>1 DEF PInv, CallsSound, Named
    <3>2. \A c \in Caller : call[c].task = q => Allowed(call[c])
      BY <3>1 DEF Allowed
    <3> QED
      BY <1>2, <2>1, <3>2, CallsStayAllowed
  <2>3. CASE task' = [task EXCEPT ![q] = First[q]] /\ life' = [life EXCEPT ![q] = "fresh"]
    <3>1. \A r \in Task : life'[r] # "fresh" /\ r \notin helped' => Within(task'[r])
      BY <1>1, <2>1, <2>3 DEF LInv, TasksWithin
    <3> QED
      BY <2>2, <3>1
         DEF LInv, TasksWithin, Within, RtPrioReached, NiceReached, task_nice, NICE_TO_PRIO
  <2>4. ASSUME NEW u \in Fields, task' = [task EXCEPT ![q] = u],
               life' = [life EXCEPT ![q] = "live"], helped \subseteq helped',
               u.policy = task[q].policy \/ u.policy = "NORMAL",
               u.rt_priority = task[q].rt_priority \/ u.rt_priority = 0,
               u.static_prio = task[q].static_prio \/ u.static_prio = NICE_TO_PRIO(0)
        PROVE  LInv'
    <3>1. Within(task[q]) => Within(u)
      <4>1. task_nice(u) = task_nice(task[q]) \/ task_nice(u) = 0
        BY <2>4, NicePrio DEF task_nice
      <4> QED
        BY <2>4, <4>1, ReachedBelow DEF Within
    <3>2. \A r \in Task : life'[r] # "fresh" /\ r \notin helped' => Within(task'[r])
      BY <1>1, <2>1, <2>4, <3>1 DEF LInv, TasksWithin
    <3> QED
      BY <2>2, <3>2
         DEF LInv, TasksWithin, Within, RtPrioReached, NiceReached, task_nice, NICE_TO_PRIO
  <2> QED
    BY <1>4, <2>3, <2>4, ForkTask
<1> QED
  BY <1>3, <1>4

LEMMA LInvInit == Init => LInv
<1> SUFFICES ASSUME Init PROVE LInv
  OBVIOUS
<1>1. First \in [Task -> Fields] /\ Boot \subseteq Task
  BY SchedPolicyAssumption
<1>2. \A p \in Boot : Within(First[p])
  <2> SUFFICES ASSUME NEW p \in Boot PROVE Within(First[p])
    OBVIOUS
  <2>1. First[p].rt_priority \in Int /\ First[p].static_prio \in Int
    <3>1. First[p] \in Fields
      BY <1>1
    <3> QED
      BY <3>1, PrioRange, Ranges DEF Fields
  <2>2. NICE_TO_PRIO(task_nice(First[p])) = First[p].static_prio
    BY <2>1, Ranges DEF task_nice, NICE_TO_PRIO
  <2> QED
    BY <2>1, <2>2 DEF Within, RtPrioReached, NiceReached
<1>3. TasksWithin
  BY <1>2 DEF Init, TasksWithin
<1>4. CallsAllowed
  BY NoCallAllowed DEF Init, CallsAllowed
<1> QED
  BY <1>3, <1>4 DEF LInv

LEMMA LInvStep == PInv /\ LInv /\ [Next]_vars => LInv'
<1> SUFFICES ASSUME PInv, LInv, [Next]_vars PROVE LInv'
  OBVIOUS
<1>1. CASE UNCHANGED <<task, life, call, helped>>
  BY <1>1, TasksStayWithin, CallsStayAllowed DEF LInv
<1>2. ASSUME NEW c \in Caller, Calls(c)
      PROVE  LInv'
  <2>1. ASSUME NEW p \in Task, NEW a \in Attr,
               SysSchedSetscheduler(c, p, a) \/ SysSchedSetattr(c, p, a)
        PROVE  LInv'
    BY <2>1, EntryAllowed DEF SysSchedSetscheduler, SysSchedSetattr
  <2> QED
    BY <1>2, <2>1, NiceCallAllowed, CheckAllowed, AgainAllowed, LockedAllowed, BoostAllowed
       DEF Calls
<1>3. CASE \/ \E w \in Task : TaskDead(w)
           \/ \E l \in Limits : DlGlobalConstraints(l)
           \/ DlDoGlobal
  <2>1. /\ UNCHANGED <<task, call, helped>>
        /\ \A p \in Task : life[p] = "fresh" => life'[p] = "fresh"
    BY <1>3 DEF TaskDead, DlGlobalConstraints, DlDoGlobal, history, PInv, TypeOK
  <2>2. \A q \in Task : life'[q] # "fresh" /\ q \notin helped' => Within(task'[q])
    BY <2>1 DEF LInv, TasksWithin
  <2>3. TasksWithin'
    BY <2>2 DEF TasksWithin, Within, RtPrioReached, NiceReached, task_nice, NICE_TO_PRIO
  <2> QED
    BY <2>1, <2>3, CallsStayAllowed DEF LInv
<1>4. CASE UNCHANGED vars
  BY <1>1, <1>4 DEF vars, history
<1> QED
  BY <1>2, <1>3, <1>4, BoostAllowed, ForkAllowed DEF Next

\* The permission of a call is checked before it has a lock, against a task that others
\* change meanwhile.  Still no sequence of calls, boosts and forks brings a task that no
\* capable caller has changed beyond its limits and what the first tasks had.
THEOREM LimitSafety == Spec => []CallersLimited
<1>1. LInv => CallersLimited
  BY DEF LInv, TasksWithin, Within, CallersLimited, Live
<1>2. Spec => []LInv
  BY LInvInit, LInvStep, PInvAlways, PTL DEF Spec
<1> QED
  BY <1>1, <1>2, PTL
-----------------------------------------------------------------------------
(* The bandwidth of deadline tasks                                         *)

Used(p) == life[p] \in {"live", "dead"}

\* What a task holds, dead or alive, and what all of them hold.
Claim(t) == IF Dl(t.policy) THEN t.dl_bw ELSE 0
Claimed == [p \in Task |-> IF Used(p) THEN Claim(task[p]) ELSE 0]

\* A task has bandwidth only under the policy, unless one kept it; it is in the class
\* then, or is boosted and will be when its waiters change.
BwTask(p) ==
    /\ ~kept /\ task[p].dl_bw # 0 => Dl(task[p].policy)
    /\ Dl(task[p].policy) /\ task[p].dl_bw # 0 => task[p].class = "dl" \/ Waiters(p) # {}
    /\ task[p].dl_bw <= BW_UNIT

BwTasks == \A p \in Task : Used(p) => BwTask(p)

\* A call asks for no more than a CPU once it has been checked.
BwAsked(k) == /\ k.attr.valid => k.attr.bw <= BW_UNIT
              /\ k.pc = "lock" /\ Dl(k.policy) => k.attr.valid

BwCalls == \A c \in Caller : BwAsked(call[c])

\* What the counter stands for, were it not to wrap.
Total == lost + SumFunctionOnSet(Held, Task)

\* Within the limit, and within a new limit that has been checked.
Limited(n) ==
    ~late => /\ bw # -1 => n <= bw * CPUs
             /\ handler = "do" /\ sysctl # -1 => n <= sysctl * CPUs

Count == ~kept => /\ total_bw = Total % Width
                  /\ Total <= SumFunctionOnSet(Claimed, Task)
                  /\ Limited(Total)

BwInv == BwTasks /\ BwCalls /\ Count

LEMMA BwConstants ==
  /\ BW_UNIT \in Nat /\ CPUs \in Nat \ {0} /\ Width \in Nat \ {0} /\ IsFiniteSet(Task)
  /\ Cardinality(Task) \in Nat /\ BW_UNIT * Cardinality(Task) < Width
BY SchedPolicyAssumption, BandwidthAssumption, FS_CardinalityType

LEMMA ClaimType ==
  ASSUME NEW t \in Fields
  PROVE  Claim(t) \in Nat /\ Claim(t) <= t.dl_bw
BY DEF Claim, Fields

\* The sums are numbers, and what all tasks hold fits in the width of the count.
LEMMA SumsTyped ==
  ASSUME TypeOK
  PROVE  /\ \A p \in Task : Held[p] \in Int /\ Claimed[p] \in Int /\ Held[p] <= Claimed[p]
         /\ SumFunctionOnSet(Held, Task) \in Int /\ SumFunctionOnSet(Claimed, Task) \in Int
         /\ Total \in Int
<1>1. \A p \in Task : Held[p] \in Int /\ Claimed[p] \in Int /\ Held[p] <= Claimed[p]
  <2> SUFFICES ASSUME NEW p \in Task
               PROVE  Held[p] \in Int /\ Claimed[p] \in Int /\ Held[p] <= Claimed[p]
    OBVIOUS
  <2>1. task[p] \in Fields
    BY DEF TypeOK
  <2>2. Claim(task[p]) \in Nat
    BY <2>1, ClaimType
  <2> QED
    BY <2>2 DEF Held, Claimed, Claim, Live, Used
<1>2. SumFunctionOnSet(Held, Task) \in Int /\ SumFunctionOnSet(Claimed, Task) \in Int
  BY <1>1, BwConstants, SumType
<1> QED
  BY <1>1, <1>2 DEF Total, TypeOK

LEMMA ClaimedSmall ==
  ASSUME TypeOK, BwTasks, NEW p \in Task
  PROVE  Claimed[p] \in Int /\ Claimed[p] <= BW_UNIT
<1>1. task[p] \in Fields /\ (Used(p) => task[p].dl_bw <= BW_UNIT) /\ BW_UNIT \in Nat
  BY BwConstants DEF TypeOK, BwTasks, BwTask
<1>2. Claim(task[p]) \in Nat /\ Claim(task[p]) <= task[p].dl_bw /\ task[p].dl_bw \in Nat
  BY <1>1, ClaimType DEF Fields
<1>3. Claimed[p] = IF Used(p) THEN Claim(task[p]) ELSE 0
  BY DEF Claimed
<1> HIDE DEF Claim, Claimed
<1> QED
  BY <1>1, <1>2, <1>3

LEMMA Fits ==
  ASSUME NEW f, \A p \in Task : f[p] \in Int /\ f[p] <= BW_UNIT
  PROVE  SumFunctionOnSet(f, Task) < Width
<1>1. SumFunctionOnSet(f, Task) <= BW_UNIT * Cardinality(Task)
  BY BwConstants, SumBound
<1>2. BW_UNIT * Cardinality(Task) \in Int /\ SumFunctionOnSet(f, Task) \in Int
  BY BwConstants, SumType
<1> QED
  BY <1>1, <1>2, BwConstants

LEMMA ClaimedFits ==
  ASSUME TypeOK, BwTasks
  PROVE  SumFunctionOnSet(Claimed, Task) < Width
BY ClaimedSmall, Fits

\* A step that leaves the count alone and what the tasks hold.
LEMMA CountStays ==
  ASSUME Count, UNCHANGED <<bwVars, lost, late, kept>>, Held' = Held, Claimed' = Claimed
  PROVE  Count'
BY DEF Count, Total, Limited, bwVars

\* A step that leaves the tasks alone.
LEMMA TasksQuiet ==
  ASSUME UNCHANGED <<task, life, blocked_on, kept>>
  PROVE  /\ Held' = Held /\ Claimed' = Claimed
         /\ BwTasks => BwTasks'
BY DEF Held, Claimed, Live, Used, Claim, BwTasks, BwTask, Waiters

\* A step that changes one task, and neither its policy nor its claim.
LEMMA OneTask ==
  ASSUME PInv, BwTasks, UNCHANGED <<life, kept>>, NEW p \in Task, NEW u \in Fields,
         task' = [task EXCEPT ![p] = u],
         u.policy = task[p].policy, u.dl_bw \in {0, task[p].dl_bw},
         Used(p) /\ Dl(u.policy) =>
            /\ u.dl_bw = task[p].dl_bw
            /\ u.class = "dl" \/ (u.class = task[p].class /\ Waiters(p) \subseteq Waiters(p)'),
         \A q \in Task \ {p} : Waiters(q) \subseteq Waiters(q)'
  PROVE  BwTasks' /\ Held' = Held /\ Claimed' = Claimed
<1>1. task \in [Task -> Fields] /\ life' = life
  BY DEF PInv, TypeOK
<1>2. \A q \in Task : task'[q] = IF q = p THEN u ELSE task[q]
  BY <1>1
<1>3. \A q \in Task : Used(q) => Claim(task'[q]) = Claim(task[q])
  BY <1>2 DEF Claim
<1>4. \A q \in Task : Used(q)' = Used(q) /\ Live(q)' = Live(q) /\ (Live(q) => Used(q))
  BY <1>1 DEF Used, Live
<1>5. Claimed' = Claimed
  BY <1>3, <1>4 DEF Claimed, Claim
<1>6. Held' = Held
  <2>1. Held = [q \in Task |-> IF Live(q) THEN Claim(task[q]) ELSE 0]
    BY DEF Held, Claim
  <2>2. Held' = [q \in Task |-> IF Live(q)' THEN Claim(task'[q]) ELSE 0]
    BY DEF Held, Claim
  <2> QED
    BY <1>3, <1>4, <2>1, <2>2
<1>7. ASSUME NEW q \in Task, Used(q) PROVE BwTask(q)'
  <2>1. BwTask(q)
    BY <1>7 DEF BwTasks
  <2>2. CASE q # p
    <3>1. task'[q] = task[q] /\ Waiters(q) \subseteq Waiters(q)'
      BY <1>2, <2>2
    <3> QED
      BY <2>1, <3>1 DEF BwTask
  <2>3. CASE q = p
    <3>1. task'[q] = u /\ u.dl_bw <= BW_UNIT
      BY <1>2, <2>1, <2>3, BwConstants DEF BwTask
    <3>2. u.dl_bw # 0 => task[p].dl_bw # 0
      OBVIOUS
    <3> QED
      BY <1>7, <2>1, <2>3, <3>1, <3>2 DEF BwTask
  <2> QED
    BY <2>2, <2>3
<1> QED
  BY <1>4, <1>5, <1>6, <1>7 DEF BwTasks

LEMMA OneCall ==
  ASSUME PInv, BwCalls, NEW c \in Caller, NEW k, BwAsked(k), call' = [call EXCEPT ![c] = k]
  PROVE  BwCalls'
<1>1. call \in [Caller -> CallFields]
  BY DEF PInv, TypeOK
<1>2. \A d \in Caller : call'[d] = IF d = c THEN k ELSE call[d]
  BY <1>1
<1>3. \A d \in Caller : BwAsked(call'[d])
  BY <1>2 DEF BwCalls
<1> QED
  BY <1>3 DEF BwCalls, BwAsked

\* A call that has returned, or goes on to adjust, asks for nothing more.
LEMMA CallOver ==
  ASSUME PInv, BwCalls, NEW c \in Caller, call[c].pc # "none",
         Return(c) \/ call' = [call EXCEPT ![c].pc = "adjust"]
  PROVE  BwCalls'
<1> DEFINE k == [call[c] EXCEPT !.pc = "adjust"]
<1>1. call' = [call EXCEPT ![c] = NoCall] \/ call' = [call EXCEPT ![c] = k]
  BY DEF Return
<1>2. k.attr = call[c].attr /\ k.pc = "adjust"
  BY CallTask DEF CallFields
<1> HIDE DEF k
<1>3. BwAsked(k) /\ BwAsked(NoCall)
  BY <1>2 DEF BwAsked, BwCalls, NoCall, NoAttr
<1> QED
  BY <1>1, <1>3, OneCall

\* The steps without a lock leave all of it alone.
LEMMA BwSilent ==
  ASSUME BwInv, Silent, BwCalls'
  PROVE  BwInv'
<1>1. UNCHANGED <<task, life, blocked_on, kept, lost, late, bwVars>>
  BY DEF Silent, piVars, history
<1>2. Held' = Held /\ Claimed' = Claimed /\ BwTasks'
  BY <1>1, TasksQuiet DEF BwInv
<1> QED
  BY <1>1, <1>2, CountStays DEF BwInv

LEMMA BwEntered ==
  ASSUME PInv, BwInv, NEW c \in Caller, NEW p \in Task, NEW a \in AttrFields,
         ~a.valid \/ a.bw <= BW_UNIT, Enter(c, p, a)
  PROVE  BwInv'
<1> DEFINE k == [NoCall EXCEPT !.pc = "recheck", !.task = p, !.attr = a]
<1>1. k.pc = "recheck" /\ k.attr = a
  BY NoCallType DEF CallFields
<1>2. Silent /\ call' = [call EXCEPT ![c] = k]
  BY DEF Enter, Silent
<1> HIDE DEF k
<1>3. BwAsked(k)
  BY <1>1 DEF BwAsked
<1> QED
  BY <1>2, <1>3, OneCall, BwSilent DEF BwInv

LEMMA BwEnter ==
  ASSUME PInv, BwInv, NEW c \in Caller, NEW p \in Task,
         \/ \E a \in Attr : SysSchedSetscheduler(c, p, a) \/ SysSchedSetattr(c, p, a)
         \/ \E n \in Nices : SysNice(c, p, n)
  PROVE  BwInv'
<1>2. ASSUME NEW a \in Attr, SysSchedSetscheduler(c, p, a)
      PROVE  BwInv'
  <2> DEFINE b == [a EXCEPT !.nice = task_nice(task[p]), !.bw = 0, !.valid = FALSE]
  <2>1. task_nice(task[p]) \in MIN_NICE .. MAX_NICE /\ a \in AttrFields
    BY NiceRange, SchedPolicyAssumption DEF PInv, TypeOK
  <2>2. b \in AttrFields /\ ~b.valid
    BY <2>1 DEF AttrFields
  <2>3. Enter(c, p, b)
    BY <1>2 DEF SysSchedSetscheduler
  <2> HIDE DEF b
  <2> QED
    BY <2>2, <2>3, BwEntered
<1>3. ASSUME NEW a \in Attr, SysSchedSetattr(c, p, a)
      PROVE  BwInv'
  <2>1. a \in AttrFields /\ (~a.valid \/ a.bw <= BW_UNIT)
    BY SchedPolicyAssumption, BandwidthAssumption
  <2>2. Enter(c, p, a)
    BY <1>3 DEF SysSchedSetattr
  <2> QED
    BY <2>1, <2>2, BwEntered
<1>4. ASSUME NEW n \in Nices, SysNice(c, p, n)
      PROVE  BwInv'
  <2> DEFINE a == [NoAttr EXCEPT !.nice = n]
             k == [NoCall EXCEPT !.pc = "nice", !.task = p, !.attr = a]
  <2>1. a.valid = FALSE
    BY DEF NoAttr
  <2> HIDE DEF a
  <2>2. k.pc = "nice" /\ k.attr = a
    BY NoCallType DEF CallFields
  <2>3. Silent /\ call' = [call EXCEPT ![c] = k]
    BY <1>4 DEF SysNice, Silent, a
  <2> HIDE DEF k
  <2>4. BwAsked(k)
    BY <2>1, <2>2 DEF BwAsked
  <2> QED
    BY <2>3, <2>4, OneCall, BwSilent DEF BwInv
<1> QED
  BY <1>2, <1>3, <1>4

\* A call passes the check only if what it asks for is valid.
LEMMA BwLockless ==
  ASSUME PInv, BwInv, NEW c \in Caller, Recheck(c) \/ Check(c) \/ SetRefused(c)
  PROVE  BwInv'
<1> DEFINE o == call[c]
<1>1. o.pc # "none" /\ Silent
  BY DEF Recheck, Check, SetRefused, Silent
<1>2. o \in CallFields /\ BwAsked(o) /\ BwCalls /\ BwAsked(NoCall)
  BY <1>1, CallTask DEF BwInv, BwCalls, BwAsked, NoCall, NoAttr
<1>3. CASE Recheck(c)
  <2> DEFINE set == o.attr.policy = "SETPARAM"
             k == [o EXCEPT !.pc = "check",
                            !.policy = IF set THEN task[o.task].policy ELSE o.attr.policy,
                            !.old = IF set THEN task[o.task].policy ELSE "none",
                            !.reset = IF set THEN task[o.task].reset ELSE o.attr.reset]
  <2>1. call' = [call EXCEPT ![c] = k]
    BY <1>3 DEF Recheck
  <2> HIDE DEF o
  <2>2. k.pc = "check" /\ k.attr = o.attr
    BY <1>2 DEF CallFields
  <2> HIDE DEF k
  <2> QED
    BY <1>1, <1>2, <2>1, <2>2, OneCall, BwSilent DEF BwAsked
<1>4. CASE Check(c)
  <2> DEFINE k == [o EXCEPT !.pc = "lock"]
  <2>1. call' = [call EXCEPT ![c] = NoCall] \/ (Valid(o) /\ call' = [call EXCEPT ![c] = k])
    BY <1>4 DEF Check
  <2> HIDE DEF o
  <2>2. k.pc = "lock" /\ k.attr = o.attr /\ k.policy = o.policy
    BY <1>2 DEF CallFields
  <2> HIDE DEF k
  <2>3. Valid(o) => BwAsked(k)
    BY <1>2, <2>2 DEF BwAsked, Valid
  <2> QED
    BY <1>1, <1>2, <2>1, <2>3, OneCall, BwSilent
<1>5. CASE SetRefused(c)
  <2> DEFINE k == [o EXCEPT !.pc = "recheck"]
  <2>1. call' = [call EXCEPT ![c] = NoCall] \/ call' = [call EXCEPT ![c] = k]
    BY <1>5 DEF SetRefused, Return
  <2> HIDE DEF o
  <2>2. k.pc = "recheck" /\ k.attr = o.attr
    BY <1>2 DEF CallFields
  <2> HIDE DEF k
  <2> QED
    BY <1>1, <1>2, <2>1, <2>2, OneCall, BwSilent DEF BwAsked
<1> QED
  BY <1>3, <1>4, <1>5

\* A nice value, or the reset flag, has nothing to do with the bandwidth.
LEMMA BwOther ==
  ASSUME PInv, BwInv, NEW c \in Caller, SetNothing(c) \/ NiceSet(c)
  PROVE  BwInv'
<1> DEFINE p == call[c].task
<1>1. /\ call[c].pc # "none" /\ Return(c)
      /\ UNCHANGED <<life, blocked_on, bwVars, lost, late, kept>>
  BY DEF SetNothing, NiceSet, piVars, history
<1>2. p \in Task /\ task[p] \in Fields /\ call[c].attr \in AttrFields /\ call[c].reset \in BOOLEAN
  BY <1>1, CallTask
<1>3. \E u \in Fields : /\ task' = [task EXCEPT ![p] = u]
                        /\ u.policy = task[p].policy /\ u.class = task[p].class
                        /\ u.dl_bw = task[p].dl_bw
  <2>1. CASE SetNothing(c)
    <3>1. task' = [task EXCEPT ![p].reset = call[c].reset]
      BY <2>1 DEF SetNothing
    <3>2. task' = [task EXCEPT ![p] = [task[p] EXCEPT !.reset = call[c].reset]]
      BY <3>1
    <3> HIDE DEF p
    <3> QED
      BY <1>2, <3>2, ResetAgrees
  <2>2. CASE NiceSet(c)
    <3>1. task' = [task EXCEPT ![p] = SetUserNice(task[p], call[c].attr.nice)]
      BY <2>2 DEF NiceSet
    <3>2. call[c].attr.nice \in MIN_NICE .. MAX_NICE
      BY <1>2 DEF AttrFields
    <3> HIDE DEF p
    <3> QED
      BY <1>2, <3>1, <3>2, NiceAgrees
  <2> QED
    BY <2>1, <2>2
<1>4. \A q \in Task : Waiters(q)' = Waiters(q)
  BY <1>1 DEF Waiters
<1> HIDE DEF p
<1>5. BwTasks' /\ Held' = Held /\ Claimed' = Claimed
  BY <1>1, <1>2, <1>3, <1>4, OneTask DEF BwInv
<1>6. BwCalls'
  BY <1>1, CallOver DEF BwInv
<1> QED
  BY <1>1, <1>5, <1>6, CountStays DEF BwInv

\* A boost and its end bring a deadline task into its class; the others keep or forget
\* a bandwidth that is not theirs.
LEMMA BwBoost ==
  ASSUME PInv, BwInv,
         \/ \E w, p \in Task : Block(w, p)
         \/ \E w \in Task : Unblock(w)
         \/ \E c \in Caller : AdjustPi(c)
  PROVE  BwInv'
<1>1. UNCHANGED <<life, bwVars, lost, late, kept>>
  BY DEF Block, Unblock, AdjustPi, history
<1>2. ASSUME NEW p \in Task, NEW u \in Fields, task' = [task EXCEPT ![p] = u],
             u.policy = task[p].policy, u.dl_bw \in {0, task[p].dl_bw},
             Agree(task[p]) /\ Dl(u.policy) => u.class = "dl" /\ u.dl_bw = task[p].dl_bw,
             \A q \in Task \ {p} : Waiters(q) \subseteq Waiters(q)'
      PROVE  BwTasks' /\ Held' = Held /\ Claimed' = Claimed
  <2>1. Used(p) => Agree(task[p])
    BY DEF Used, PInv, Agreed
  <2> QED
    BY <1>1, <1>2, <2>1, OneTask DEF BwInv
<1>3. ASSUME NEW w \in Task, NEW p \in Task, Block(w, p)
      PROVE  BwInv'
  <2> DEFINE u == AdjustPrio(task[p], Waiters(p) \cup {w}, wprio')
  <2>1. /\ blocked_on[w] = NoTask /\ blocked_on' = [blocked_on EXCEPT ![w] = p]
        /\ wprio' = [wprio EXCEPT ![w] = task[w].prio]
        /\ task' = [task EXCEPT ![p] = u] /\ UNCHANGED call
    BY <1>3 DEF Block
  <2>2. /\ task[p] \in Fields /\ task[w].prio \in Prio /\ wprio \in [Task -> Prio]
        /\ blocked_on \in [Task -> Task \cup {NoTask}] /\ NoTask \notin Task
    BY SchedPolicyAssumption DEF PInv, TypeOK, Fields
  <2>3. wprio' \in [Task -> Prio] /\ Waiters(p) \cup {w} \in SUBSET Task
    BY <2>1, <2>2 DEF Waiters
  <2>4. /\ u \in Fields /\ u.policy = task[p].policy /\ u.dl_bw \in {0, task[p].dl_bw}
        /\ Agree(task[p]) /\ Dl(u.policy) => u.class = "dl" /\ u.dl_bw = task[p].dl_bw
    BY <2>2, <2>3, AdjustAgrees
  <2> HIDE DEF u
  <2>5. \A q \in Task \ {p} : Waiters(q) \subseteq Waiters(q)'
    BY <2>1, <2>2 DEF Waiters
  <2>6. BwTasks' /\ Held' = Held /\ Claimed' = Claimed
    BY <1>2, <2>1, <2>4, <2>5
  <2> QED
    BY <1>1, <2>1, <2>6, CountStays DEF BwInv, BwCalls, BwAsked
<1>4. ASSUME NEW w \in Task, Unblock(w)
      PROVE  BwInv'
  <2>0. PICK p \in Task : p = blocked_on[w]
    BY <1>4 DEF Unblock, PInv, TypeOK
  <2> DEFINE u == AdjustPrio(task[p], Waiters(p) \ {w}, wprio)
  <2>1. /\ blocked_on' = [blocked_on EXCEPT ![w] = NoTask]
        /\ task' = [task EXCEPT ![p] = u] /\ UNCHANGED call
    BY <1>4, <2>0 DEF Unblock
  <2>2. /\ task[p] \in Fields /\ wprio \in [Task -> Prio]
        /\ blocked_on \in [Task -> Task \cup {NoTask}]
    BY DEF PInv, TypeOK
  <2>3. Waiters(p) \ {w} \in SUBSET Task
    BY DEF Waiters
  <2>4. /\ u \in Fields /\ u.policy = task[p].policy /\ u.dl_bw \in {0, task[p].dl_bw}
        /\ Agree(task[p]) /\ Dl(u.policy) => u.class = "dl" /\ u.dl_bw = task[p].dl_bw
    BY <2>2, <2>3, AdjustAgrees
  <2>5. \A q \in Task \ {p} : Waiters(q) \subseteq Waiters(q)'
    BY <2>0, <2>1, <2>2 DEF Waiters
  <2> HIDE DEF u
  <2>6. BwTasks' /\ Held' = Held /\ Claimed' = Claimed
    BY <1>2, <2>1, <2>2, <2>4, <2>5
  <2> QED
    BY <1>1, <2>1, <2>6, CountStays DEF BwInv, BwCalls, BwAsked
<1>5. ASSUME NEW c \in Caller, AdjustPi(c)
      PROVE  BwInv'
  <2>1. call[c].pc # "none" /\ Return(c) /\ UNCHANGED blocked_on
    BY <1>5 DEF AdjustPi
  <2>2. \A q \in Task : Waiters(q)' = Waiters(q)
    BY <2>1 DEF Waiters
  <2>3. CASE task' = task
    <3>1. Held' = Held /\ Claimed' = Claimed /\ BwTasks'
      BY <1>1, <2>1, <2>3, TasksQuiet DEF BwInv
    <3> QED
      BY <1>1, <2>1, <3>1, CallOver, CountStays DEF BwInv
  <2>4. CASE task' # task
    <3>1. PICK p \in Task, u \in Fields :
                 /\ task' = [task EXCEPT ![p] = u]
                 /\ u.policy = task[p].policy /\ u.dl_bw \in {0, task[p].dl_bw}
                 /\ Agree(task[p]) /\ Dl(u.policy) =>
                       u.class = "dl" /\ u.dl_bw = task[p].dl_bw
      BY <1>5, <2>4, AdjustPiTask
    <3>2. BwTasks' /\ Held' = Held /\ Claimed' = Claimed
      BY <1>2, <2>2, <3>1
    <3> QED
      BY <1>1, <2>1, <3>2, CallOver, CountStays DEF BwInv
  <2> QED
    BY <2>3, <2>4
<1> QED
  BY <1>3, <1>4, <1>5

\* A task that is being forked has no bandwidth, and none when it comes to life.
LEMMA BwFork ==
  ASSUME PInv, BwInv,
         (\E p, q \in Task : DupTask(p, q)) \/ (\E q \in Task : SchedFork(q))
  PROVE  BwInv'
<1>1. UNCHANGED <<blocked_on, bwVars, call, lost, late, kept>>
  BY DEF DupTask, SchedFork, piVars
<1>2. task \in [Task -> Fields] /\ life \in [Task -> {"fresh", "forking", "live", "dead"}]
  BY DEF PInv, TypeOK
<1>3. PICK q \in Task :
         /\ life[q] \in {"fresh", "forking"}
         /\ \A r \in Task \ {q} : task'[r] = task[r] /\ life'[r] = life[r]
         /\ life'[q] \in {"fresh", "forking"} \/ (life'[q] = "live" /\ task'[q].dl_bw = 0)
  <2>1. ASSUME NEW p \in Task, NEW q \in Task, DupTask(p, q)
        PROVE  /\ life[q] = "fresh" /\ life'[q] = "forking"
               /\ \A r \in Task \ {q} : task'[r] = task[r] /\ life'[r] = life[r]
    BY <1>2, <2>1 DEF DupTask
  <2>2. ASSUME NEW q \in Task, SchedFork(q)
        PROVE  /\ life[q] = "forking"
               /\ \A r \in Task \ {q} : task'[r] = task[r] /\ life'[r] = life[r]
               /\ life'[q] = "fresh" \/ (life'[q] = "live" /\ task'[q].dl_bw = 0)
    <3>1. CASE /\ task' = [task EXCEPT ![q] = First[q]] /\ life' = [life EXCEPT ![q] = "fresh"]
      BY ZenonT(45), <1>2, <2>2, <3>1, ForkTask
    <3>2. CASE /\ life' = [life EXCEPT ![q] = "live"]
               /\ \E u \in Fields : task' = [task EXCEPT ![q] = u] /\ u.dl_bw = 0
      BY ZenonT(45), <1>2, <2>2, <3>2, ForkTask
    <3> QED
      BY <2>2, <3>1, <3>2, ForkTask
  <2> QED
    BY <2>1, <2>2
<1>4. \A r \in Task : Waiters(r)' = Waiters(r)
  BY <1>1 DEF Waiters
<1>5. \A r \in Task \ {q} : Used(r)' = Used(r) /\ Live(r)' = Live(r)
  BY <1>3 DEF Used, Live
<1>6. ~Used(q) /\ ~Live(q) /\ (Used(q)' => Live(q)' /\ task'[q].dl_bw = 0) /\ (Live(q)' => Used(q)')
  BY <1>3 DEF Used, Live
<1>7. \A r \in Task : Claimed'[r] = Claimed[r] /\ Held'[r] = Held[r]
  BY <1>3, <1>5, <1>6 DEF Claimed, Claim, Held
<1>8. Claimed' = Claimed /\ Held' = Held
  BY <1>7 DEF Claimed, Held
<1>9. ASSUME NEW r \in Task, Used(r)' PROVE BwTask(r)'
  <2>1. CASE r = q
    BY <1>6, <1>9, <2>1, BwConstants DEF BwTask
  <2>2. CASE r # q
    <3>1. task'[r] = task[r] /\ BwTask(r)
      BY <1>3, <1>5, <1>9, <2>2 DEF BwInv, BwTasks
    <3> QED
      BY <1>1, <1>4, <3>1 DEF BwTask
  <2> QED
    BY <2>1, <2>2
<1>10. BwTasks' /\ BwCalls'
  BY <1>1, <1>9 DEF BwTasks, BwInv, BwCalls, BwAsked
<1> QED
  BY <1>1, <1>8, <1>10, CountStays DEF BwInv

\* The counter follows what it stands for, although it wraps.
LEMMA CountMore ==
  ASSUME NEW n \in Int, NEW m, NEW d \in Int, m = n + d,
         NEW x, x = n % Width, NEW y, y = (x + d) % Width
  PROVE  y = m % Width
<1>1. ((n % Width) + d) % Width = (n + d) % Width
  BY BwConstants, ModEarly
<1> QED
  BY <1>1

LEMMA CountLess ==
  ASSUME NEW n \in Int, NEW m, NEW d \in Int, m = n - d,
         NEW x, x = n % Width, NEW y, y = (x - d) % Width
  PROVE  y = m % Width
<1>1. x \in Int /\ -d \in Int
  BY BwConstants, ModRange
<1>2. n + (-d) = n - d /\ x + (-d) = x - d
  BY <1>1
<1>3. y = (x + (-d)) % Width /\ m = n + (-d)
  BY <1>2
<1> QED
  BY <1>1, <1>3, CountMore

\* The dead task gives back what it holds: one with bandwidth is in the class, as nobody
\* waits for it.
LEMMA BwDead ==
  ASSUME PInv, BwInv, NEW p \in Task, TaskDead(p)
  PROVE  BwInv'
<1>1. /\ life[p] = "live" /\ Waiters(p) = {} /\ life' = [life EXCEPT ![p] = "dead"]
      /\ total_bw' = IF task[p].class = "dl" THEN (total_bw - task[p].dl_bw) % Width ELSE total_bw
      /\ UNCHANGED <<task, blocked_on, bw, sysctl, handler, call, lost, late, kept>>
  BY DEF TaskDead, piVars, history
<1>2. life \in [Task -> {"fresh", "forking", "live", "dead"}] /\ task[p] \in Fields /\ TypeOK
  BY DEF PInv, TypeOK
<1>3. \A r \in Task : /\ Used(r)' = Used(r) /\ Waiters(r)' = Waiters(r)
                      /\ Live(r)' = (Live(r) /\ r # p)
  BY <1>1, <1>2 DEF Used, Live, Waiters
<1>4. BwTasks' /\ BwCalls'
  BY <1>1, <1>3 DEF BwInv, BwTasks, BwTask, BwCalls, BwAsked
<1>5. Claimed' = Claimed
  BY <1>1, <1>3 DEF Claimed, Claim
<1>6. Held' = [Held EXCEPT ![p] = 0]
  BY <1>1, <1>3 DEF Held
<1>7. ASSUME ~kept
      PROVE  Held[p] = IF task[p].class = "dl" THEN task[p].dl_bw ELSE 0
  <2>1. BwTask(p)
    BY <1>1 DEF BwInv, BwTasks, Used
  <2>2. Held[p] = IF Dl(task[p].policy) THEN task[p].dl_bw ELSE 0
    BY <1>1 DEF Held, Live
  <2> QED
    BY <1>1, <1>7, <2>1, <2>2 DEF BwTask
<1>8. /\ SumFunctionOnSet(Held', Task) = SumFunctionOnSet(Held, Task) - Held[p]
      /\ Held[p] \in Nat
  <2>1. \A r \in Task : Held[r] \in Int /\ Held'[r] \in Int /\ (r # p => Held'[r] = Held[r])
    BY <1>2, <1>6, SumsTyped DEF Held
  <2>2. SumFunctionOnSet(Held', Task) = SumFunctionOnSet(Held, Task) - Held[p] + Held'[p]
    BY <2>1, BwConstants, SumChange
  <2>3. Held'[p] = 0 /\ Held[p] \in Nat
    BY <1>2, <1>6 DEF Held, Fields
  <2> QED
    BY <1>2, <2>2, <2>3, SumsTyped
<1>9. Total' = Total - Held[p] /\ Total \in Int
  BY <1>1, <1>2, <1>8, SumsTyped DEF Total, TypeOK
<1>10. Count'
  <2> SUFFICES ASSUME ~kept PROVE Count'
    BY <1>1 DEF Count
  <2>1. /\ total_bw = Total % Width /\ Total <= SumFunctionOnSet(Claimed, Task) /\ Limited(Total)
        /\ SumFunctionOnSet(Claimed, Task) \in Int
    BY <1>2, SumsTyped DEF BwInv, Count
  <2>2. total_bw' = Total' % Width
    <3>1. CASE task[p].class = "dl"
      <4>1. total_bw' = (total_bw - Held[p]) % Width
        BY <1>1, <1>7, <3>1
      <4>2. PICK n \in Int, d \in Int : n = Total /\ d = Held[p]
        BY <1>8, <1>9
      <4>3. PICK x, y, m : x = total_bw /\ y = total_bw' /\ m = Total'
        OBVIOUS
      <4>4. m = n - d /\ x = n % Width /\ y = (x - d) % Width
        BY <1>9, <2>1, <4>1, <4>2, <4>3
      <4>5. y = m % Width
        BY <4>4, CountLess
      <4> QED
        BY <4>3, <4>5
    <3>2. CASE task[p].class # "dl"
      BY <1>1, <1>7, <1>9, <2>1, <3>2
    <3> QED
      BY <3>1, <3>2
  <2>3. Total' <= SumFunctionOnSet(Claimed', Task)
    BY <1>5, <1>8, <1>9, <2>1
  <2>4. Limited(Total)'
    <3>1. Total' <= Total /\ Total' \in Int
      BY <1>8, <1>9
    <3>2. bw * CPUs \in Int /\ sysctl * CPUs \in Int
      BY <1>2, BwConstants DEF TypeOK
    <3> QED
      BY <1>1, <1>9, <2>1, <3>1, <3>2 DEF Limited
  <2> QED
    BY <2>2, <2>3, <2>4 DEF Count
<1> QED
  BY <1>4, <1>10 DEF BwInv

LEMMA Grows ==
  ASSUME NEW l \in Nat, NEW n \in Nat \ {0}
  PROVE  l <= l * n /\ l * n \in Nat
OBVIOUS

\* A new limit covers what is allocated, and goes on doing so until it is in force.
LEMMA BwLimit ==
  ASSUME PInv, BwInv, (\E l \in Limits : DlGlobalConstraints(l)) \/ DlDoGlobal
  PROVE  BwInv'
<1>1. UNCHANGED <<task, life, blocked_on, total_bw, call, lost, late, kept>>
  BY DEF DlGlobalConstraints, DlDoGlobal, piVars, history
<1>2. Held' = Held /\ Claimed' = Claimed /\ BwTasks' /\ BwCalls'
  BY <1>1, TasksQuiet DEF BwInv, BwCalls, BwAsked
<1>3. Total' = Total
  BY <1>1, <1>2 DEF Total
<1>4. ASSUME ~kept PROVE Limited(Total)'
  <2>1. /\ total_bw = Total % Width /\ Total <= SumFunctionOnSet(Claimed, Task)
        /\ Limited(Total) /\ TypeOK /\ BwTasks
    BY <1>4 DEF BwInv, Count, PInv
  <2>2. Total \in Int /\ Total < Width
    BY <2>1, SumsTyped, ClaimedFits, BwConstants
  <2>3. Total <= total_bw
    <3>1. CASE Total >= 0
      BY <2>1, <2>2, <3>1, BwConstants, ModRange
    <3>2. CASE Total < 0
      BY <2>1, <2>2, <3>2 DEF TypeOK
    <3> QED
      BY <2>2, <3>1, <3>2
  <2>4. ASSUME NEW l \in Limits, DlGlobalConstraints(l) PROVE Limited(Total)'
    <3>1. UNCHANGED bw /\ sysctl' = l /\ to_ratio(l) >= total_bw
      BY <2>4 DEF DlGlobalConstraints
    <3>2. l \in Int /\ l >= -1
      BY SchedPolicyAssumption, BwConstants
    <3>3. ASSUME l # -1 PROVE Total <= l * CPUs
      <4>1. Total <= l /\ l \in Nat
        BY <2>1, <2>2, <2>3, <3>1, <3>2, <3>3 DEF to_ratio, TypeOK
      <4>2. l <= l * CPUs /\ l * CPUs \in Int
        BY <4>1, BwConstants, Grows
      <4> QED
        BY <2>2, <4>1, <4>2
    <3> QED
      BY <1>1, <1>3, <2>1, <3>1, <3>3 DEF Limited
  <2>5. ASSUME DlDoGlobal PROVE Limited(Total)'
    <3>1. handler = "do" /\ bw' = sysctl /\ handler' = "none" /\ UNCHANGED sysctl
      BY <2>5 DEF DlDoGlobal
    <3> QED
      BY <1>1, <1>3, <2>1, <3>1 DEF Limited
  <2> QED
    BY <2>4, <2>5
<1>5. Count'
  BY <1>1, <1>2, <1>3, <1>4 DEF Count, BwInv
<1> QED
  BY <1>2, <1>5 DEF BwInv

\* A call k on p, which was t, has left u: what the task claims more than before is what
\* the counter takes, and it was admitted.
Took(k, p, t, u) ==
    LET d == Claim(u) - Claim(t)
    IN  /\ d \in Int
        /\ \/ /\ total_bw' = DlTotal(t, k.policy, k.attr) /\ d = DlTaken(t, k.policy, k.attr)
              /\ lost' = IF life[p] = "dead" THEN lost + d ELSE lost
           \/ d = 0 /\ UNCHANGED <<total_bw, lost>>
        /\ \/ d <= 0
           \/ /\ Dl(k.policy) /\ d = k.attr.bw - Claim(t)
              /\ ~__dl_overflow(Claim(t), k.attr.bw)

\* So it is whether the task is boosted or not, as long as none keeps what it should
\* forget.
LEMMA Taken ==
  ASSUME PInv, BwInv, NEW c \in Caller, NEW p \in Task, p = call[c].task,
         SetAccepted(c), ~kept'
  PROVE  BwTask(p)' /\ Took(call[c], p, task[p], task'[p])
<1>0. PICK k \in CallFields, t \in Fields : k = call[c] /\ t = task[p]
  BY DEF PInv, TypeOK
<1>1. PICK u \in Fields :
         /\ task' = [task EXCEPT ![p] = u] /\ u.policy = k.policy
         /\ Dl(k.policy) => u.dl_bw = k.attr.bw /\ (u.class = "dl" \/ Boosted(p, k.attr))
         /\ ~Dl(k.policy) => u.dl_bw = t.dl_bw \/ (u.dl_bw = 0 /\ t.class = "dl")
  BY <1>0, AcceptedTask
<1>2. task \in [Task -> Fields]
  BY DEF PInv, TypeOK
<1>3. task'[p] = u
  BY <1>1, <1>2
<1>4. /\ k.pc = "lock" /\ UNCHANGED <<life, blocked_on>>
      /\ kept' = (kept \/ (Dl(t.policy) /\ ~Dl(k.policy) /\ u.dl_bw # 0))
      /\ \/ /\ DlAdmits(t, k.policy, k.attr) /\ total_bw' = DlTotal(t, k.policy, k.attr)
            /\ lost' = IF life[p] = "dead" THEN lost + DlTaken(t, k.policy, k.attr) ELSE lost
         \/ ~Dl(k.policy) /\ t.prio >= 0 /\ UNCHANGED <<total_bw, lost>>
  BY <1>0, <1>3 DEF SetAccepted, piVars
<1>5. BwTask(p) /\ Agree(t) /\ BwAsked(k) /\ ~kept
  <2>1. Used(p) /\ life[p] # "fresh"
    BY <1>0, <1>4, CallTask DEF Used
  <2> QED
    BY <1>0, <1>4, <2>1 DEF BwInv, BwTasks, BwCalls, PInv, Agreed
<1>6. k.attr.bw \in Nat /\ t.dl_bw \in Nat /\ u.dl_bw \in Nat /\ BW_UNIT \in Nat
  BY BwConstants DEF CallFields, AttrFields, Fields
<1>7. t.dl_bw # 0 => Dl(t.policy) /\ (t.class = "dl" \/ Waiters(p) # {})
  BY <1>0, <1>5 DEF BwTask
<1>8. t.prio >= 0 => t.class # "dl"
  BY <1>5 DEF Agree, ClassOf, Fields, Prio
<1>9. Boosted(p, k.attr) => Waiters(p) # {}
  BY DEF Boosted, TopWaiters
<1>10. Waiters(p)' = Waiters(p)
  BY <1>4 DEF Waiters
<1>11. /\ ~Dl(k.policy) => (u.dl_bw = 0)
       /\ Dl(k.policy) => k.attr.bw <= BW_UNIT
  BY <1>1, <1>4, <1>5, <1>6, <1>7 DEF BwAsked
<1>12. BwTask(p)'
  BY <1>1, <1>3, <1>6, <1>9, <1>10, <1>11 DEF BwTask
<1>13. Claim(u) = DlBw(k.policy, k.attr) /\ Claim(t) = t.dl_bw
  BY <1>1, <1>7, <1>11 DEF Claim, DlBw
<1> DEFINE d == Claim(u) - Claim(t)
<1>14. d \in Int /\ d = DlTaken(t, k.policy, k.attr)
  <2>1. Dl(t.policy) \/ t.dl_bw = 0
    BY <1>7
  <2>2. DlBw(k.policy, k.attr) \in Nat
    BY <1>6 DEF DlBw
  <2> QED
    BY <1>6, <1>13, <2>1, <2>2 DEF DlTaken
<1>15. ~Dl(k.policy) => Claim(u) = 0 /\ d <= 0
  BY <1>6, <1>13 DEF DlBw
<1>16. ~Dl(k.policy) /\ t.prio >= 0 => d = 0
  <2>1. ~Dl(k.policy) /\ t.prio >= 0 => t.dl_bw = 0
    BY <1>1, <1>8, <1>11
  <2> QED
    BY <1>6, <1>13, <1>15, <2>1
<1>17. \/ d <= 0
       \/ /\ Dl(k.policy) /\ d = k.attr.bw - Claim(t)
          /\ ~__dl_overflow(Claim(t), k.attr.bw)
  <2>1. CASE ~Dl(k.policy)
    BY <1>15, <2>1
  <2>2. CASE Dl(k.policy)
    <3>1. DlBw(k.policy, k.attr) = k.attr.bw /\ DlAdmits(t, k.policy, k.attr)
      BY <1>4, <2>2 DEF DlBw
    <3>2. CASE k.attr.bw = t.dl_bw
      BY <1>6, <1>13, <3>1, <3>2
    <3>3. CASE k.attr.bw # t.dl_bw
      <4>1. ~__dl_overflow(IF Dl(t.policy) THEN t.dl_bw ELSE 0, k.attr.bw)
        BY <2>2, <3>1, <3>3 DEF DlAdmits
      <4>2. (IF Dl(t.policy) THEN t.dl_bw ELSE 0) = Claim(t)
        BY DEF Claim
      <4> QED
        BY <1>13, <2>2, <3>1, <4>1, <4>2
    <3> QED
      BY <3>2, <3>3
  <2> QED
    BY <2>1, <2>2
<1>18. \/ /\ total_bw' = DlTotal(t, k.policy, k.attr)
          /\ lost' = IF life[p] = "dead" THEN lost + d ELSE lost
       \/ d = 0 /\ UNCHANGED <<total_bw, lost>>
  BY <1>4, <1>14, <1>16
<1>19. Took(k, p, t, u)
  BY <1>14, <1>17, <1>18 DEF Took
<1> QED
  BY <1>0, <1>3, <1>12, <1>19

LEMMA BwAccepted ==
  ASSUME PInv, PInv', BwInv, NEW c \in Caller, SetAccepted(c)
  PROVE  BwInv'
<1>a. call[c].pc # "none"
  BY DEF SetAccepted
<1>0. PICK p \in Task, po \in Policies, a \in AttrFields :
         p = call[c].task /\ po = call[c].policy /\ a = call[c].attr
  BY <1>a, CallTask
<1>1. /\ call[c].pc # "none" /\ UNCHANGED <<life, blocked_on, bw, sysctl, handler>>
      /\ Return(c) \/ call' = [call EXCEPT ![c].pc = "adjust"]
      /\ late' = (late \/ (handler = "do" /\ Dl(po))) /\ (kept => kept')
  BY <1>0 DEF SetAccepted, piVars
<1>2. BwCalls'
  BY <1>1, CallOver DEF BwInv
<1>3. PICK u \in Fields :
         /\ task' = [task EXCEPT ![p] = u]
         /\ Dl(po) => u.dl_bw = a.bw /\ (u.class = "dl" \/ Boosted(p, a))
         /\ u.policy = po
         /\ ~Dl(po) => u.dl_bw = task[p].dl_bw \/ u.dl_bw = 0
  BY <1>0, AcceptedTask
<1>4. task \in [Task -> Fields] /\ TypeOK /\ TypeOK'
  BY DEF PInv, TypeOK
<1>5. \A q \in Task : task'[q] = IF q = p THEN u ELSE task[q]
  BY <1>3, <1>4
<1>6. \A q \in Task : /\ Used(q)' = Used(q) /\ Live(q)' = Live(q) /\ Waiters(q)' = Waiters(q)
  BY <1>1 DEF Used, Live, Waiters
<1>7. BwTasks'
  <2> SUFFICES ASSUME NEW q \in Task, Used(q) PROVE BwTask(q)'
    BY <1>6 DEF BwTasks
  <2>0. BwTask(q)
    BY DEF BwInv, BwTasks
  <2>1. CASE q # p
    BY <1>1, <1>5, <1>6, <2>0, <2>1 DEF BwTask
  <2>2. CASE q = p /\ ~kept'
    BY <1>0, <2>2, Taken
  <2>3. CASE q = p /\ kept'
    <3>1. Boosted(p, a) => Waiters(p) # {}
      BY DEF Boosted, TopWaiters
    <3>2. BwAsked(call[c]) /\ call[c].pc = "lock"
      BY DEF BwInv, BwCalls, SetAccepted
    <3>3. u.dl_bw <= BW_UNIT
      BY <1>0, <1>3, <2>0, <2>3, <3>2, BwConstants DEF BwTask, BwAsked
    <3>4. Dl(u.policy) => u.class = "dl" \/ Waiters(p) # {}
      BY <1>3, <3>1
    <3> QED
      BY <1>5, <1>6, <2>3, <3>3, <3>4 DEF BwTask
  <2> QED
    BY <2>1, <2>2, <2>3
<1>8. Count'
  <2> SUFFICES ASSUME ~kept' PROVE Count'
    BY DEF Count
  <2>1. /\ total_bw = Total % Width /\ Total <= SumFunctionOnSet(Claimed, Task)
        /\ Limited(Total) /\ Total \in Int /\ lost \in Int
        /\ SumFunctionOnSet(Claimed, Task) \in Int /\ SumFunctionOnSet(Held, Task) \in Int
    BY <1>1, <1>4, SumsTyped DEF BwInv, Count, TypeOK
  <2>2. PICK d, x \in Int :
           /\ d = Claim(u) - Claim(task[p]) /\ x = Claim(task[p]) /\ d \in Int
           /\ \/ /\ total_bw' = DlTotal(task[p], po, a) /\ d = DlTaken(task[p], po, a)
                 /\ lost' = IF life[p] = "dead" THEN lost + d ELSE lost
              \/ d = 0 /\ UNCHANGED <<total_bw, lost>>
           /\ \/ d <= 0
              \/ Dl(po) /\ d = a.bw - x /\ ~__dl_overflow(x, a.bw)
    <3>1. task'[p] = u /\ Claim(task[p]) \in Int
      BY <1>4, <1>5, ClaimType
    <3>2. Took(call[c], p, task[p], u)
      BY <1>0, <3>1, Taken
    <3> QED
      BY <1>0, <3>1, <3>2 DEF Took
  <2>3. Used(p) /\ (life[p] = "dead" <=> ~Live(p))
    BY <1>0, <1>1, CallTask DEF Used, Live
  <2>4. /\ Claimed'[p] = Claimed[p] + d
        /\ Held'[p] = IF Live(p) THEN Held[p] + d ELSE Held[p]
        /\ \A q \in Task \ {p} : Claimed'[q] = Claimed[q] /\ Held'[q] = Held[q]
    <3>1. Claimed'[p] = Claim(u) /\ Claimed[p] = Claim(task[p])
      BY <1>5, <1>6, <2>3 DEF Claimed
    <3>2. \A q \in Task : Held[q] = IF Live(q) THEN Claim(task[q]) ELSE 0
      BY DEF Held, Claim
    <3>3. \A q \in Task : Held'[q] = IF Live(q)' THEN Claim(task'[q]) ELSE 0
      BY DEF Held, Claim
    <3>4. Claim(u) = Claim(task[p]) + d
      <4>1. Claim(u) \in Int /\ Claim(task[p]) \in Int
        BY <1>4, ClaimType
      <4> QED
        BY <2>2, <4>1
    <3>5. \A q \in Task \ {p} : Claimed'[q] = Claimed[q]
      BY <1>5, <1>6 DEF Claimed
    <3> QED
      BY <1>5, <1>6, <3>1, <3>2, <3>3, <3>4, <3>5
  <2>5. \A q \in Task : /\ Held[q] \in Int /\ Claimed[q] \in Int
                        /\ Held'[q] \in Int /\ Claimed'[q] \in Int
    BY <1>4, <2>2, <2>4, SumsTyped
  <2>6. /\ SumFunctionOnSet(Claimed', Task)
             = SumFunctionOnSet(Claimed, Task) - Claimed[p] + Claimed'[p]
        /\ SumFunctionOnSet(Held', Task) = SumFunctionOnSet(Held, Task) - Held[p] + Held'[p]
    BY <2>4, <2>5, BwConstants, SumChange
  <2>7. SumFunctionOnSet(Claimed', Task) = SumFunctionOnSet(Claimed, Task) + d
    BY <2>1, <2>2, <2>4, <2>5, <2>6
  <2>8. Total' = Total + d
    <3>1. Total = lost + SumFunctionOnSet(Held, Task) /\ Total' = lost' + SumFunctionOnSet(Held', Task)
      BY DEF Total
    <3>2. CASE Live(p)
      <4>1. SumFunctionOnSet(Held', Task) = SumFunctionOnSet(Held, Task) + d /\ lost' = lost
        BY <2>1, <2>2, <2>3, <2>4, <2>5, <2>6, <3>2
      <4> QED
        BY <2>1, <2>2, <3>1, <4>1
    <3>3. CASE ~Live(p)
      <4>1. SumFunctionOnSet(Held', Task) = SumFunctionOnSet(Held, Task) /\ lost' = lost + d
        BY <2>1, <2>2, <2>3, <2>4, <2>5, <2>6, <3>3
      <4> QED
        BY <2>1, <2>2, <3>1, <4>1
    <3> QED
      BY <3>2, <3>3
  <2>9. PICK n \in Int, m \in Int : n = Total /\ m = Total'
    BY <2>1, <2>2, <2>8
  <2>9a. PICK y, z : y = total_bw /\ z = total_bw'
    OBVIOUS
  <2>10. z = m % Width
    <3>1. CASE total_bw' = DlTotal(task[p], po, a) /\ d = DlTaken(task[p], po, a)
      <4>1. z = (y + d) % Width
        BY <2>9, <2>9a, <3>1 DEF DlTotal
      <4>2. m = n + d /\ y = n % Width
        BY <2>1, <2>8, <2>9, <2>9a
      <4> QED
        BY <2>2, <4>1, <4>2, CountMore
    <3>2. CASE d = 0 /\ total_bw' = total_bw
      BY <2>1, <2>8, <2>9, <2>9a, <3>2
    <3> QED
      BY <2>2, <3>1, <3>2
  <2>11. Total' <= SumFunctionOnSet(Claimed', Task) /\ m < Width
    <3>1. Total' <= SumFunctionOnSet(Claimed', Task)
      BY <2>1, <2>2, <2>7, <2>8
    <3>2. SumFunctionOnSet(Claimed', Task) < Width
      <4>1. Claimed'[p] = Claim(u)
        BY <1>5, <1>6, <2>3 DEF Claimed
      <4>2. u.dl_bw <= BW_UNIT /\ Claim(u) \in Nat /\ Claim(u) <= u.dl_bw
        BY <1>5, <1>6, <1>7, <2>3, ClaimType DEF BwTasks, BwTask
      <4>3. u.dl_bw \in Int /\ BW_UNIT \in Int
        BY BwConstants DEF Fields
      <4>4. Claimed'[p] \in Int /\ Claimed'[p] <= BW_UNIT
        BY <4>1, <4>2, <4>3
      <4>5. BwTasks
        BY DEF BwInv
      <4>6. \A q \in Task : Claimed'[q] \in Int /\ Claimed'[q] <= BW_UNIT
        BY <1>4, <2>4, <4>4, <4>5, ClaimedSmall
      <4>7. PICK f : f = Claimed'
        OBVIOUS
      <4>8. SumFunctionOnSet(f, Task) < Width
        BY <4>6, <4>7, Fits
      <4> QED
        BY <4>7, <4>8
    <3>3. SumFunctionOnSet(Claimed', Task) \in Int
      BY <2>1, <2>2, <2>7
    <3> QED
      BY <2>9, <2>9a, <3>1, <3>2, <3>3, BwConstants
  <2>12. Limited(Total)'
    <3> SUFFICES ASSUME ~late'
                 PROVE  /\ bw # -1 => m <= bw * CPUs
                        /\ handler = "do" /\ sysctl # -1 => m <= sysctl * CPUs
      BY <1>1, <2>9, <2>9a DEF Limited
    <3>1. /\ bw # -1 => n <= bw * CPUs
          /\ handler = "do" /\ sysctl # -1 => n <= sysctl * CPUs
      BY <1>1, <2>1, <2>9, <2>9a DEF Limited
    <3>2. m = n + d /\ bw * CPUs \in Int /\ sysctl * CPUs \in Int
      BY <1>4, <2>8, <2>9, <2>9a, BwConstants DEF TypeOK
    <3>3. CASE d <= 0
      BY <2>2, <3>1, <3>2, <3>3
    <3>4. CASE Dl(po) /\ d = a.bw - x /\ ~__dl_overflow(x, a.bw) /\ ~(d <= 0)
      <4>1. handler # "do"
        BY <1>1, <3>4
      <4>2. ASSUME bw # -1 PROVE m <= bw * CPUs
        <5>1. ~(bw * CPUs < (total_bw - x + a.bw) % Width)
          BY <3>4, <4>2 DEF __dl_overflow
        <5>2. total_bw \in Int /\ a.bw \in Int
          BY <1>4, BwConstants DEF TypeOK, AttrFields
        <5>3. total_bw - x + a.bw = total_bw + d
          BY <2>2, <3>4, <5>2
        <5>4. total_bw' = (total_bw + d) % Width
          BY <2>2, <3>4 DEF DlTotal
        <5>5. ~(bw * CPUs < z)
          BY <2>9, <2>9a, <5>1, <5>3, <5>4
        <5>6. CASE m >= 0
          <6>1. m \in 0 .. Width - 1 /\ Width \in Nat \ {0}
            BY <2>11, <5>6, BwConstants
          <6>2. z = m
            BY <2>10, <6>1, ModRange
          <6> QED
            BY <3>2, <5>5, <6>2
        <5>7. CASE m < 0
          <6>1. bw \in Nat
            BY <1>4, <4>2, BwConstants DEF TypeOK
          <6>2. bw * CPUs \in Nat
            BY <6>1, BwConstants, Grows
          <6> QED
            BY <5>7, <6>2
        <5> QED
          BY <5>6, <5>7
      <4> QED
        BY <4>1, <4>2
    <3> QED
      BY <2>2, <3>3, <3>4
  <2> QED
    BY <2>9, <2>9a, <2>10, <2>11, <2>12 DEF Count
<1> QED
  BY <1>2, <1>7, <1>8 DEF BwInv

LEMMA BwInvInit == Init => BwInv
<1> SUFFICES ASSUME Init PROVE BwInv
  OBVIOUS
<1>1. /\ task = First /\ life = [p \in Task |-> IF p \in Boot THEN "live" ELSE "fresh"]
      /\ total_bw = 0 /\ bw = FirstLimit /\ handler = "none" /\ lost = 0
      /\ call = [c \in Caller |-> NoCall]
  BY DEF Init
<1>2. /\ First \in [Task -> Fields] /\ \A p \in Boot : Agree(First[p]) /\ First[p].dl_bw = 0
      /\ FirstLimit \in -1 .. BW_UNIT
  BY SchedPolicyAssumption
<1>3. \A p \in Task : Used(p) \/ Live(p) => task[p].dl_bw = 0
  BY <1>1, <1>2 DEF Used, Live
<1>4. BwTasks
  BY <1>3, BwConstants DEF BwTasks, BwTask
<1>5. BwCalls
  BY <1>1 DEF BwCalls, BwAsked, NoCall, NoAttr
<1>6. \A p \in Task : Held[p] = 0 /\ Claimed[p] = 0
  BY <1>3 DEF Held, Claimed, Claim
<1>7. SumFunctionOnSet(Held, Task) = 0 /\ SumFunctionOnSet(Claimed, Task) = 0
  BY <1>6, BwConstants, SumZero
<1>8. Total = 0
  BY <1>1, <1>7 DEF Total
<1>9. bw # -1 => bw \in Nat
  BY <1>1, <1>2, BwConstants
<1>10. Limited(Total)
  <2>1. bw # -1 => bw * CPUs \in Nat
    BY <1>9, BwConstants, Grows
  <2> QED
    BY <1>1, <1>8, <2>1 DEF Limited
<1>11. 0 % Width = 0
  BY BwConstants, ModRange
<1>12. Count
  BY <1>1, <1>7, <1>8, <1>10, <1>11 DEF Count
<1> QED
  BY <1>4, <1>5, <1>12 DEF BwInv

LEMMA BwInvStep == PInv /\ PInv' /\ BwInv /\ [Next]_vars => BwInv'
<1> SUFFICES ASSUME PInv, PInv', BwInv, [Next]_vars PROVE BwInv'
  OBVIOUS
<1>1. CASE UNCHANGED vars
  <2>1. Silent /\ UNCHANGED call
    BY <1>1 DEF vars, Silent
  <2>2. BwCalls'
    BY <2>1 DEF BwInv, BwCalls, BwAsked
  <2> QED
    BY <2>1, <2>2, BwSilent
<1>2. ASSUME NEW c \in Caller, Calls(c)
      PROVE  BwInv'
  BY <1>2, BwEnter, BwLockless, BwOther, BwBoost, BwAccepted DEF Calls
<1>3. ASSUME NEW w \in Task, Unblock(w) \/ SchedFork(w) \/ TaskDead(w)
      PROVE  BwInv'
  BY <1>3, BwBoost, BwFork, BwDead
<1>4. ASSUME NEW p \in Task, NEW q \in Task, Block(p, q) \/ DupTask(p, q)
      PROVE  BwInv'
  BY <1>4, BwBoost, BwFork
<1> QED
  BY <1>1, <1>2, <1>3, <1>4, BwLimit DEF Next

LEMMA BwInvAlways == Spec => []BwInv
BY BwInvInit, BwInvStep, PInvAlways, PTL DEF Spec

\* The counter of the root domain is exact, in its width, whatever calls, boosts, forks
\* and exits come between: what dl_overflow adds and task_dead_dl takes back is what the
\* tasks in use hold.  A task that has kept its bandwidth ends this.
THEOREM BandwidthSafety == Spec => []BandwidthExact
<1>1. BwInv => BandwidthExact
  BY DEF BwInv, Count, Total, BandwidthExact
<1> QED
  BY <1>1, BwInvAlways, PTL

\* So the admitted tasks stay within the limit, across changes of the limit as long as
\* none comes in between a check of the new one and its use.
THEOREM BoundSafety == Spec => []BandwidthBounded
<1>1. PInv /\ BwInv => BandwidthBounded
  <2> SUFFICES ASSUME PInv, BwInv, bw # -1, ~late, ~kept, lost = 0
               PROVE  total_bw <= bw * CPUs
    BY DEF BandwidthBounded
  <2>1. /\ TypeOK /\ BwTasks /\ total_bw = Total % Width
        /\ Total <= SumFunctionOnSet(Claimed, Task) /\ Total <= bw * CPUs
    BY DEF PInv, BwInv, Count, Limited
  <2>2. Total = SumFunctionOnSet(Held, Task) /\ Total \in Int
        /\ SumFunctionOnSet(Claimed, Task) \in Int /\ SumFunctionOnSet(Claimed, Task) < Width
    BY <2>1, SumsTyped, ClaimedFits DEF Total
  <2>3. 0 <= SumFunctionOnSet(Held, Task)
    <3> DEFINE none == [p \in Task |-> 0]
    <3>1. \A p \in Task : none[p] = 0 /\ none[p] \in Int /\ Held[p] \in Int /\ none[p] <= Held[p]
      BY <2>1 DEF Held, TypeOK, Fields
    <3> HIDE DEF none
    <3>2. SumFunctionOnSet(none, Task) = 0 /\ SumFunctionOnSet(none, Task) <= SumFunctionOnSet(Held, Task)
      BY <3>1, BwConstants, SumZero, SumMonotonic
    <3> QED
      BY <3>2
  <2>4. Total \in 0 .. Width - 1
    BY <2>1, <2>2, <2>3, BwConstants
  <2>5. Total % Width = Total
    BY <2>2, <2>4, BwConstants, ModRange
  <2> QED
    BY <2>1, <2>5
<1> QED
  BY <1>1, PInvAlways, BwInvAlways, PTL
=============================================================================
