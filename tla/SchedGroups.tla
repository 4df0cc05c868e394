----------------------------- MODULE SchedGroups -----------------------------
(***************************************************************************)
(* Task groups in assg4/core.c: the tree of groups, the real-time and the  *)
(* CFS bandwidth of each, the global real-time limit, and the tasks that   *)
(* move between groups.                                                    *)
(*                                                                         *)
(* A writer of a cgroup file reads the half of the bandwidth it does not   *)
(* write without a lock; the walk of the tree and the assignment follow    *)
(* under a mutex.  The walk is one step: what it reads of groups changes   *)
(* under that mutex alone, but tasks, the tree and the sysctls move on     *)
(* between the walk and the assignment.  hierarchical_quota is scratch     *)
(* space that every walk computes afresh from the root, so it is not kept. *)
(* RUNTIME_INF is -1.  There are no autogroups.                            *)
(***************************************************************************)
EXTENDS Integers, FiniteSets, FiniteSetsExt, Functions

CONSTANTS Group, Root, NoGroup, Task, NoTask, CPU,
          Writer,                  \* threads that write cgroup files
          FirstParent,             \* the tree at the start
          FirstGroup,              \* the group of each task, NoGroup if not created
          FirstRt,                 \* the tasks that are real-time at the start
          FirstBandwidth,          \* of the root group and the sysctls
          RtRuntimes, RtPeriods, CfsQuotas, CfsPeriods,  \* values written
          SysRuntimes, SysPeriods,
          CfsDefault,              \* default_cfs_period
          min_cfs_quota_period, max_cfs_quota_period,
          DlTotal,                 \* bandwidth of the deadline tasks
          UNIT,                    \* the ratio of a whole CPU
          MaxCalls                 \* bound on calls and writes of all kinds

\* What the constants are assumed to be: the groups at the start are a tree.
SchedGroupsAssumption ==
    /\ IsFiniteSet(Group) /\ Root \in Group /\ NoGroup \notin Group /\ NoTask \notin Task
    /\ FirstParent \in [Group -> Group \cup {NoGroup}] /\ FirstParent[Root] = NoGroup
    /\ \A g \in Group : FirstParent[g] \in Group \ {Root} => FirstParent[FirstParent[g]] # NoGroup
    /\ \E depth \in [Group -> 0 .. Cardinality(Group)] :
            \A g \in Group : FirstParent[g] # NoGroup => depth[FirstParent[g]] < depth[g]
    /\ FirstGroup \in [Task -> Group \cup {NoGroup}] /\ FirstRt \subseteq Task
    /\ FirstBandwidth \in [period : Nat \ {0}, runtime : Nat]
    /\ FirstBandwidth.runtime <= FirstBandwidth.period
    /\ RtRuntimes \cup CfsQuotas \cup SysRuntimes \subseteq Nat \cup {-1}
    /\ RtPeriods \cup CfsPeriods \cup SysPeriods \cup {CfsDefault, DlTotal, MaxCalls} \subseteq Nat
    /\ UNIT \in Nat \ {0} /\ min_cfs_quota_period \in Nat \ {0} /\ max_cfs_quota_period \in Nat

VARIABLES
    parent,           \* tg->parent of a group in the tree, NoGroup of others
    rt, cfs,          \* rt_bandwidth and cfs_bandwidth of a group
    enabled,          \* enabled[g][c]: runtime_enabled of the cfs_rq of g on c
    cfs_used,         \* cfs_bandwidth_used, a counter of users
    sysctl,           \* sched_rt_period_us and sched_rt_runtime_us
    handler,          \* sched_rt_handler: its place and what undo restores
    refused,          \* history: the largest limit that was taken back
    op,               \* op[w]: place and locals of the call of writer w
    life,             \* of a task
    forker,           \* the parent of a task that is being forked
    isRt,             \* rt_task
    css, group,       \* the cgroup of a task, and its sched_task_group
    attach,           \* the attach under way: cgroup_mutex admits one
    calls             \* how many of them were begun, for the bound

bwVars    == <<rt, cfs, enabled, cfs_used>>
limitVars == <<sysctl, handler, refused>>
taskVars  == <<life, forker, isRt, css, group, attach>>
vars      == <<parent, bwVars, limitVars, op, taskVars, calls>>

Online == {g \in Group : g = Root \/ parent[g] # NoGroup}
Children(g) == {x \in Group : parent[x] = g}

NoBw == [period |-> 0, runtime |-> 0]
NoOp == [pc |-> "none", group |-> NoGroup, bw |-> NoBw, todo |-> {}]
NoAttach == [pc |-> "none", task |-> NoTask, group |-> NoGroup]

Init ==
    /\ parent = FirstParent
    /\ rt = [g \in Group |-> [FirstBandwidth EXCEPT !.runtime = IF g = Root THEN @ ELSE 0]]
    /\ cfs = [g \in Group |-> [period |-> CfsDefault, runtime |-> -1]]
    /\ enabled = [g \in Group |-> [c \in CPU |-> FALSE]] /\ cfs_used = 0
    /\ sysctl = FirstBandwidth /\ refused = 0
    /\ handler = [pc |-> "none", old |-> FirstBandwidth]
    /\ op = [w \in Writer |-> NoOp] /\ calls = 0
    /\ life = [p \in Task |-> IF FirstGroup[p] = NoGroup THEN "new" ELSE "live"]
    /\ forker = [p \in Task |-> NoTask] /\ isRt = [p \in Task |-> p \in FirstRt]
    /\ css = FirstGroup /\ group = FirstGroup /\ attach = NoAttach

to_ratio(b) == IF b.runtime = -1 THEN UNIT
               ELSE IF b.period = 0 THEN 0 ELSE (b.runtime * UNIT) \div b.period

\* The bandwidths b, if group tg had bw.
With(b, tg, bw) == [g \in Group |-> IF g = tg THEN bw ELSE b[g]]

\* What the bandwidths b give to the groups right below g.
ChildRatios(b, g) == SumFunctionOnSet([x \in Group |-> to_ratio(b[x])], Children(g))

-----------------------------------------------------------------------------
(* Real-time bandwidth                                                     *)

rt_bandwidth_enabled == sysctl.runtime >= 0

\* Only tasks in the task list are seen.
tg_has_rt_tasks(g) ==
    \E p \in Task : life[p] \notin {"new", "forking"} /\ isRt[p] /\ group[p] = g

\* Mutation: the new value does not count in the sum over its siblings.
RtSchedulableAlone(tg, bw) ==
    \A g \in Online :
        LET b == IF g = tg THEN bw ELSE rt[g]
        IN  /\ b.runtime <= b.period
            /\ ~(rt_bandwidth_enabled /\ b.runtime = 0 /\ tg_has_rt_tasks(g))
            /\ to_ratio(b) <= to_ratio(sysctl)
            /\ ChildRatios(rt, g) <= to_ratio(b)

\* __rt_schedulable: tg_rt_schedulable holds all over the tree when tg has bw.
RtSchedulable(tg, bw) ==
    LET b == With(rt, tg, bw)
    IN  \A g \in Online :
            /\ b[g].runtime <= b[g].period
            /\ ~(rt_bandwidth_enabled /\ b[g].runtime = 0 /\ tg_has_rt_tasks(g))
            /\ to_ratio(b[g]) <= to_ratio(sysctl)
            /\ ChildRatios(b, g) <= to_ratio(b[g])

Start(w, g, place, bw) ==
    /\ op[w].pc = "none" /\ g \in Online /\ calls < MaxCalls
    /\ op' = [op EXCEPT ![w] = [NoOp EXCEPT !.pc = place, !.group = g, !.bw = bw]]
    /\ calls' = calls + 1
    /\ UNCHANGED <<parent, bwVars, limitVars, taskVars>>

SchedGroupSetRtRuntime(w, g, r) == Start(w, g, "rt", [rt[g] EXCEPT !.runtime = r])

SchedGroupSetRtPeriod(w, g, p) == p # 0 /\ Start(w, g, "rt", [rt[g] EXCEPT !.period = p])

\* rt_constraints_mutex
RtMutexFree == \A w \in Writer : op[w].pc # "rtSet"

RtRefused(w) ==
    /\ op[w].pc = "rt" /\ RtMutexFree /\ ~RtSchedulable(op[w].group, op[w].bw)
    /\ op' = [op EXCEPT ![w] = NoOp]
    /\ UNCHANGED <<parent, bwVars, limitVars, taskVars, calls>>

RtChecked(w) ==
    /\ op[w].pc = "rt" /\ RtMutexFree /\ RtSchedulable(op[w].group, op[w].bw)
    /\ op' = [op EXCEPT ![w].pc = "rtSet"]
    /\ UNCHANGED <<parent, bwVars, limitVars, taskVars, calls>>

RtSet(w) ==
    /\ op[w].pc = "rtSet"
    /\ rt' = [rt EXCEPT ![op[w].group] = op[w].bw]
    /\ op' = [op EXCEPT ![w] = NoOp]
    /\ UNCHANGED <<parent, cfs, enabled, cfs_used, limitVars, taskVars, calls>>

-----------------------------------------------------------------------------
(* sched_rt_handler                                                        *)

\* The value is in the sysctl, for everyone to see, before it is checked.
HandlerWrite(new) ==
    /\ handler.pc = "none" /\ calls < MaxCalls
    /\ handler' = [pc |-> "validate", old |-> sysctl]
    /\ sysctl' = new
    /\ calls' = calls + 1
    /\ UNCHANGED <<parent, bwVars, refused, op, taskVars>>

HandlerStep(from, ok, to) ==
    /\ handler.pc = from
    /\ handler' = [handler EXCEPT !.pc = IF ok THEN to ELSE "undo"]
    /\ UNCHANGED <<parent, bwVars, sysctl, refused, op, taskVars, calls>>

sched_rt_global_validate ==
    sysctl.period > 0 /\ (sysctl.runtime # -1 => sysctl.runtime <= sysctl.period)

HandlerValidate == HandlerStep("validate", sched_rt_global_validate, "rt")

HandlerRt == RtMutexFree /\ HandlerStep("rt", RtSchedulable(NoGroup, NoBw), "dl")

\* What follows changes def_rt_bandwidth and the limits of the root domains.
HandlerDl == HandlerStep("dl", to_ratio(sysctl) >= DlTotal, "none")

HandlerUndo ==
    /\ handler.pc = "undo"
    /\ sysctl' = handler.old /\ handler' = [handler EXCEPT !.pc = "none"]
    /\ refused' = Max({refused, to_ratio(sysctl)})
    /\ UNCHANGED <<parent, bwVars, op, taskVars, calls>>

-----------------------------------------------------------------------------
(* CFS bandwidth                                                           *)

\* Mutation: a group without a limit of its own does not pass its parent's on.
CfsSchedulableParent(tg, bw) ==
    LET b == With(cfs, tg, bw)
    IN  \A g \in Online \ {Root} :
            b[g].runtime # -1 /\ b[parent[g]].runtime # -1 =>
                to_ratio(b[g]) <= to_ratio(b[parent[g]])

\* From the root down a group has its own limit or, without one, that of its parent.
Quotas(b) ==
    LET hierarchical_quota[g \in Online] ==
            IF g = Root THEN -1
            ELSE IF b[g].runtime = -1 THEN hierarchical_quota[parent[g]] ELSE to_ratio(b[g])
    IN  hierarchical_quota

\* __cfs_schedulable: a limit of its own may not be larger.
CfsSchedulable(tg, bw) ==
    LET b == With(cfs, tg, bw)
        hierarchical_quota == Quotas(b)
    IN  \A g \in Online \ {Root} :
            b[g].runtime # -1 /\ hierarchical_quota[parent[g]] # -1 =>
                to_ratio(b[g]) <= hierarchical_quota[parent[g]]

\* tg_set_cfs_bandwidth before it takes its mutex.
CfsStart(w, g, bw) ==
    /\ g # Root
    /\ bw.runtime = -1 \/ bw.runtime >= min_cfs_quota_period
    /\ bw.period \in min_cfs_quota_period .. max_cfs_quota_period
    /\ Start(w, g, "cfs", bw)

TgSetCfsQuota(w, g, q) == CfsStart(w, g, [cfs[g] EXCEPT !.runtime = q])

TgSetCfsPeriod(w, g, p) == CfsStart(w, g, [cfs[g] EXCEPT !.period = p])

\* cfs_constraints_mutex
CfsMutexFree == \A w \in Writer : op[w].pc \notin {"cfsSet", "cfsOn", "cfsOff", "cfsDec"}

CfsRefused(w) ==
    /\ op[w].pc = "cfs" /\ CfsMutexFree /\ ~CfsSchedulable(op[w].group, op[w].bw)
    /\ op' = [op EXCEPT ![w] = NoOp]
    /\ UNCHANGED <<parent, bwVars, limitVars, taskVars, calls>>

\* The users of the accounting are counted before there is a limit ...
CfsChecked(w) ==
    LET g == op[w].group
    IN  /\ op[w].pc = "cfs" /\ CfsMutexFree /\ CfsSchedulable(g, op[w].bw)
        /\ op' = [op EXCEPT ![w].pc = "cfsSet"]
        /\ cfs_used' = cfs_used + (IF op[w].bw.runtime # -1 /\ cfs[g].runtime = -1
                                   THEN 1 ELSE 0)
        /\ UNCHANGED <<parent, rt, cfs, enabled, limitVars, taskVars, calls>>

\* Mutation: ... and are gone with it, while run queues still have theirs.
CfsSetEarly(w) ==
    LET g == op[w].group
        on == op[w].bw.runtime # -1
        was == cfs[g].runtime # -1
    IN  /\ op[w].pc = "cfsSet"
        /\ cfs' = [cfs EXCEPT ![g] = op[w].bw]
        /\ cfs_used' = cfs_used - (IF was /\ ~on THEN 1 ELSE 0)
        /\ op' = [op EXCEPT ![w].pc = IF on THEN "cfsOn" ELSE "cfsOff", ![w].todo = CPU]
        /\ UNCHANGED <<parent, rt, enabled, limitVars, taskVars, calls>>

CfsSet(w) ==
    LET g == op[w].group
        on == op[w].bw.runtime # -1
        was == cfs[g].runtime # -1
    IN  /\ op[w].pc = "cfsSet"
        /\ cfs' = [cfs EXCEPT ![g] = op[w].bw]
        /\ op' = [op EXCEPT ![w].pc = IF on THEN "cfsOn" ELSE IF was THEN "cfsDec"
                                      ELSE "cfsOff",
                            ![w].todo = CPU]
        /\ UNCHANGED <<parent, rt, enabled, cfs_used, limitVars, taskVars, calls>>

\* The loop over the run queues, each under its lock.
CfsRq(w, c) ==
    /\ c \in op[w].todo
    /\ op' = [op EXCEPT ![w].todo = @ \ {c}]
    /\ enabled' = [enabled EXCEPT ![op[w].group][c] = op[w].pc = "cfsOn"]
    /\ UNCHANGED <<parent, rt, cfs, cfs_used, limitVars, taskVars, calls>>

\* ... and no longer when no run queue has one.
CfsDone(w) ==
    /\ op[w].pc \in {"cfsOn", "cfsOff", "cfsDec"} /\ op[w].todo = {}
    /\ op' = [op EXCEPT ![w] = NoOp]
    /\ cfs_used' = cfs_used - (IF op[w].pc = "cfsDec" THEN 1 ELSE 0)
    /\ UNCHANGED <<parent, rt, cfs, enabled, limitVars, taskVars, calls>>

-----------------------------------------------------------------------------
(* The tree                                                                *)

\* The period of def_rt_bandwidth, which changes with the last write accepted.
DefPeriod == IF handler.pc = "none" THEN sysctl.period ELSE handler.old.period

\* sched_create_group and sched_online_group.
CssOnline(g, p) ==
    /\ calls < MaxCalls /\ g \notin Online /\ p \in Online
    /\ parent' = [parent EXCEPT ![g] = p] /\ calls' = calls + 1
    /\ rt' = [rt EXCEPT ![g] = [period |-> DefPeriod, runtime |-> 0]]
    /\ cfs' = [cfs EXCEPT ![g] = [period |-> CfsDefault, runtime |-> -1]]
    /\ enabled' = [enabled EXCEPT ![g] = [c \in CPU |-> FALSE]]
    /\ UNCHANGED <<cfs_used, limitVars, op, taskVars>>

\* sched_offline_group: cgroups removes an empty group whose files are closed.
CssOffline(g) ==
    /\ calls < MaxCalls /\ g \in Online \ {Root} /\ Children(g) = {}
    /\ \A p \in Task : life[p] = "new" \/ g \notin {css[p], group[p]}
    /\ attach.group # g /\ \A w \in Writer : op[w].group # g
    /\ parent' = [parent EXCEPT ![g] = NoGroup] /\ calls' = calls + 1
    /\ UNCHANGED <<bwVars, limitVars, op, taskVars>>

-----------------------------------------------------------------------------
(* Tasks                                                                   *)

\* Mutation: a child stays in the group it was copied with.
SchedMoveTaskNotNew(p) ==
    group' = IF life[p] = "listed" THEN group ELSE [group EXCEPT ![p] = css[p]]

\* Under task_rq_lock, whatever the call is for: the cgroup of the moment counts.
SchedMoveTask(p) == group' = [group EXCEPT ![p] = css[p]]

InUse(p) == life[p] \in {"live", "listed"}

\* sched_rt_can_attach
CanAttach(p, g) ==
    /\ attach.pc = "none" /\ InUse(p) /\ g \in Online \ {css[p]} /\ calls < MaxCalls
    /\ ~(isRt[p] /\ rt[g].runtime = 0)
    /\ attach' = [pc |-> "css", task |-> p, group |-> g]
    /\ calls' = calls + 1
    /\ UNCHANGED <<parent, bwVars, limitVars, op, life, forker, isRt, css, group>>

\* cgroups moves the task, unless it is exiting, and calls attach.
CssSet ==
    LET p == attach.task
    IN  /\ attach.pc = "css"
        /\ css' = IF InUse(p) THEN [css EXCEPT ![p] = attach.group] ELSE css
        /\ attach' = IF InUse(p) THEN [attach EXCEPT !.pc = "move"] ELSE NoAttach
        /\ UNCHANGED <<parent, bwVars, limitVars, op, life, forker, isRt, group, calls>>

Attach ==
    /\ attach.pc = "move" /\ SchedMoveTask(attach.task)
    /\ attach' = NoAttach
    /\ UNCHANGED <<parent, bwVars, limitVars, op, life, forker, isRt, css, calls>>

\* The child q of p: a copy at first, out of the task list.  Until it is listed
\* its css is the parent's, standing for the group that is pinned for it.
DupTask(p, q) ==
    /\ life[p] = "live" /\ life[q] = "new" /\ calls < MaxCalls
    /\ life' = [life EXCEPT ![q] = "forking"] /\ forker' = [forker EXCEPT ![q] = p]
    /\ isRt' = [isRt EXCEPT ![q] = isRt[p]]
    /\ group' = [group EXCEPT ![q] = group[p]] /\ css' = [css EXCEPT ![q] = css[p]]
    /\ calls' = calls + 1
    /\ UNCHANGED <<parent, bwVars, limitVars, op, attach>>

\* cgroup_post_fork: the child joins the cgroup its parent is in by now.
PostFork(q) ==
    /\ life[q] = "forking"
    /\ life' = [life EXCEPT ![q] = "listed"]
    /\ css' = [css EXCEPT ![q] = css[forker[q]]]
    /\ UNCHANGED <<parent, bwVars, limitVars, op, forker, isRt, group, attach, calls>>

\* copy_process fails: cpu_cgroup_exit returns at once.
ForkFails(q) ==
    /\ life[q] = "forking"
    /\ life' = [life EXCEPT ![q] = "new"] /\ isRt' = [isRt EXCEPT ![q] = FALSE]
    /\ css' = [css EXCEPT ![q] = NoGroup] /\ group' = [group EXCEPT ![q] = NoGroup]
    /\ forker' = [forker EXCEPT ![q] = NoTask]
    /\ UNCHANGED <<parent, bwVars, limitVars, op, attach, calls>>

\* cpu_cgroup_fork
CgroupFork(q) ==
    /\ life[q] = "listed" /\ SchedMoveTask(q)
    /\ life' = [life EXCEPT ![q] = "live"] /\ forker' = [forker EXCEPT ![q] = NoTask]
    /\ UNCHANGED <<parent, bwVars, limitVars, op, isRt, css, attach, calls>>

\* cgroup_exit sends the task to the root, then calls cpu_cgroup_exit.
ExitCss(p) ==
    /\ life[p] = "live" /\ calls < MaxCalls /\ \A q \in Task : forker[q] # p
    /\ life' = [life EXCEPT ![p] = "exiting"] /\ css' = [css EXCEPT ![p] = Root]
    /\ calls' = calls + 1
    /\ UNCHANGED <<parent, bwVars, limitVars, op, forker, isRt, group, attach>>

CgroupExit(p) ==
    /\ life[p] = "exiting" /\ SchedMoveTask(p)
    /\ life' = [life EXCEPT ![p] = "exited"]
    /\ UNCHANGED <<parent, bwVars, limitVars, op, forker, isRt, css, attach, calls>>

\* sched_setscheduler to and from a real-time policy, under task_rq_lock.
SetPolicy(p, r) ==
    /\ InUse(p) /\ isRt[p] # r /\ calls < MaxCalls
    /\ ~(rt_bandwidth_enabled /\ r /\ rt[group[p]].runtime = 0)
    /\ isRt' = [isRt EXCEPT ![p] = r] /\ calls' = calls + 1
    /\ UNCHANGED <<parent, bwVars, limitVars, op, life, forker, css, group, attach>>

-----------------------------------------------------------------------------
Files(w) ==
    \/ \E g \in Group, r \in RtRuntimes : SchedGroupSetRtRuntime(w, g, r)
    \/ \E g \in Group, p \in RtPeriods : SchedGroupSetRtPeriod(w, g, p)
    \/ \E g \in Group, q \in CfsQuotas : TgSetCfsQuota(w, g, q)
    \/ \E g \in Group, p \in CfsPeriods : TgSetCfsPeriod(w, g, p)
    \/ RtRefused(w) \/ RtChecked(w) \/ RtSet(w)
    \/ CfsRefused(w) \/ CfsChecked(w) \/ CfsSet(w) \/ CfsDone(w)
    \/ \E c \in CPU : CfsRq(w, c)

Handler ==
    \/ \E r \in SysRuntimes : HandlerWrite([sysctl EXCEPT !.runtime = r])
    \/ \E p \in SysPeriods : HandlerWrite([sysctl EXCEPT !.period = p])
    \/ HandlerValidate \/ HandlerRt \/ HandlerDl \/ HandlerUndo

Tasks ==
    \/ \E p \in Task, g \in Group : CanAttach(p, g)
    \/ CssSet \/ Attach
    \/ \E p, q \in Task : DupTask(p, q)
    \/ \E p \in Task : PostFork(p) \/ ForkFails(p) \/ CgroupFork(p) \/ ExitCss(p) \/ CgroupExit(p)
    \/ \E p \in Task, r \in BOOLEAN : SetPolicy(p, r)

Next ==
    \/ \E w \in Writer : Files(w)
    \/ Handler \/ Tasks
    \/ \E g, p \in Group : CssOnline(g, p)
    \/ \E g \in Group : CssOffline(g)

Spec == Init /\ [][Next]_vars

-----------------------------------------------------------------------------
(* Properties                                                              *)

Bandwidth == [period : Nat, runtime : Nat \cup {-1}]

\* Every variable has its type; the count of CFS limits does not go below 0.
TypeOK ==
    /\ parent \in [Group -> Group \cup {NoGroup}] /\ parent[Root] = NoGroup
    /\ {rt, cfs} \subseteq [Group -> Bandwidth] /\ sysctl \in Bandwidth
    /\ enabled \in [Group -> [CPU -> BOOLEAN]] /\ {cfs_used, refused} \subseteq Nat
    /\ handler \in [pc : {"none", "validate", "rt", "dl", "undo"}, old : Bandwidth]
    /\ op \in [Writer -> [pc : {"none", "rt", "rtSet", "cfs", "cfsSet", "cfsOn", "cfsOff",
                               "cfsDec"},
                          group : Group \cup {NoGroup}, bw : Bandwidth, todo : SUBSET CPU]]
    /\ life \in [Task -> {"new", "forking", "listed", "live", "exiting", "exited"}]
    /\ forker \in [Task -> Task \cup {NoTask}] /\ isRt \in [Task -> BOOLEAN]
    /\ {css, group} \subseteq [Task -> Group \cup {NoGroup}]
    /\ attach.task \in Task \cup {NoTask} /\ attach.group \in Group \cup {NoGroup}

\* The real-time bandwidth of the groups below a group never adds up to more
\* than its own, however writers with stale halves and new groups interleave.
RtSums == \A g \in Online : ChildRatios(rt, g) <= to_ratio(rt[g])

\* "Nobody can have more than the global setting allows": between writes of the
\* sysctls every group is within them, or within a larger setting that was in the
\* sysctls while it was checked and then taken back.
RtBelowGlobal ==
    handler.pc = "none" =>
        \A g \in Online : to_ratio(rt[g]) <= Max({to_ratio(sysctl), refused})

\* What tg_rt_schedulable promises of the tree and of the global limit.
RtNested == RtSums /\ RtBelowGlobal

\* "Ensure we don't starve existing RT tasks", "Do not allow realtime tasks into
\* groups that have no runtime assigned": a real-time task has some runtime.
NoStarvedRt ==
    handler.pc = "none" /\ rt_bandwidth_enabled =>
        \A p \in Task : life[p] = "live" /\ isRt[p] => rt[group[p]].runtime # 0

Ancestors[g \in Group] ==
    IF parent[g] = NoGroup THEN {} ELSE {parent[g]} \cup Ancestors[parent[g]]

\* No CFS limit is larger than that of any group above, limits that are passed
\* on by a group without one included.
CfsNested ==
    \A g \in Online : \A a \in Ancestors[g] :
        cfs[g].runtime # -1 /\ cfs[a].runtime # -1 => to_ratio(cfs[g]) <= to_ratio(cfs[a])

\* "off->on must occur before making related changes, and on->off must occur
\* afterwards": each group that has a limit, or a run queue with one, is counted.
UsedCovers ==
    cfs_used >= Cardinality({g \in Online : \/ cfs[g].runtime # -1
                                            \/ \E c \in CPU : enabled[g][c]})

\* A task that nobody is moving is scheduled in the group its cgroup says,
\* although attach, fork and exit set the one and then move it in two steps.
SettledGroup ==
    \A p \in Task : life[p] \in {"live", "exited"} /\ attach.task # p => group[p] = css[p]
=============================================================================
