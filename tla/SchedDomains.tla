---------------------------- MODULE SchedDomains ----------------------------
(***************************************************************************)
(* Scheduling domains, root domains and CPU hotplug of assg4/core.c:       *)
(* partition_sched_domains builds and attaches domain trees to the run     *)
(* queues while the load balancer walks them under RCU, the notifiers of   *)
(* CPU hotplug and of suspend call it, and the sysctl tables point into    *)
(* the attached domains.                                                   *)
(*                                                                         *)
(* Objects on the heap are named by the build that allocated them: the     *)
(* domain of CPU c at level l of build n is <<n, l, c>>, the shared group  *)
(* and the group capacity likewise, the private group of an overlapping    *)
(* domain for sibling i is <<n, l, c, i>>, the root domain of build n is n *)
(* and def_root_domain is 0.  An object is allocated iff it is in the      *)
(* domain of its heap function.                                            *)
(***************************************************************************)
EXTENDS Integers, Sequences, FiniteSets, FiniteSetsExt, Functions, SequencesExt, TLC

CONSTANTS
    CPU,          \* CPU numbers 0..n; CPU 0 never goes down
    Topologies,   \* [default: levels, node: CPU -> node, dist: distances]
    Cpusets,      \* partitions the cpuset configuration may ask for
    Isolated,     \* cpu_isolated_map
    Readers,      \* walks of the domain tree under rcu_read_lock
    MaxFail,      \* bound on the allocations that fail
    MaxBuild,     \* bound on the builds whose memory is not freed yet
    MaxOps        \* bound on requests and failures together

ASSUME DomainsAssumption ==
    /\ 0 \in CPU /\ CPU \subseteq Nat /\ IsFiniteSet(CPU)
    /\ Isolated \subseteq CPU
    /\ Cpusets \subseteq SUBSET [mask : SUBSET CPU, relax : Int]
    /\ \A cf \in Cpusets : \A d, e \in cf : d # e => d.mask \cap e.mask = {}
    /\ "up" \notin Readers
    /\ MaxFail \in Nat /\ MaxBuild \in Nat /\ MaxOps \in Nat

VARIABLES
    topo,         \* the machine, and what sched_init_numa found out about it
    numa,         \* sched_domains_numa_masks: level -> node -> CPUs
    online, active,
    heap,         \* sched_domain, sched_group, sched_group_capacity objects
    rds,          \* root domains
    rq,           \* per CPU: sd, rd, online, top (sd_llc and its siblings)
    pend,         \* call_rcu: objects and the readers they wait for
    hold,         \* what each reader holds
    cur,          \* doms_cur with dattr_cur
    ctl,          \* domains the registered sysctl tables point into
    up,           \* the thread that holds the hotplug lock
    conf, work,   \* cpuset configuration; its work item is queued
    frozen,       \* num_cpus_frozen
    sleep,        \* suspend: phase and frozen_cpus
    ops,          \* requests so far
    fails         \* allocations that failed so far

vars == <<topo, numa, online, active, heap, rds, rq, pend, hold, cur, ctl, up,
          conf, work, frozen, sleep, ops, fails>>
machine == <<topo, numa, online, active>>
world == <<conf, work, frozen, sleep, ops, fails>>

NULL == <<>>
Unregistered == [reg |-> FALSE, sds |-> {}]
First(S) == IF S = {} THEN -1 ELSE Min(S)

-----------------------------------------------------------------------------
(* sched_init_numa: the distances beyond the local one, nearest first, and  *)
(* for each of them the CPUs within that distance of each node.             *)

Node(t) == DOMAIN t.dist

NumaDistances(t) == SetToSortSeq({d \in Range(t.dist[0]) : d > t.dist[0][0]}, <)

NumaMasks(t) ==
    LET dist == NumaDistances(t)
    IN [i \in DOMAIN dist |-> [j \in Node(t) |->
           {c \in CPU : t.dist[j][t.node[c]] <= dist[i]}]]

\* sched_domains_numa_masks_set: the CPU joins the masks of the nodes near it.
NumaSet(c) ==
    LET dist == NumaDistances(topo)
    IN [i \in DOMAIN numa |-> [j \in Node(topo) |->
           IF topo.dist[j][topo.node[c]] <= dist[i] THEN numa[i][j] \cup {c} ELSE numa[i][j]]]

NumaClear(c) == [i \in DOMAIN numa |-> [j \in Node(topo) |-> numa[i][j] \ {c}]]

-----------------------------------------------------------------------------
(* Flags of a domain.                                                       *)

GroupFlags == {"LOAD_BALANCE", "BALANCE_NEWIDLE", "BALANCE_FORK", "BALANCE_EXEC",
               "SHARE_CPUCAPACITY", "SHARE_PKG_RESOURCES"}
ReclaimDistance == 30

NLevels == Len(topo.default) + Len(numa)
Levels == [l \in 1..NLevels |-> l]
IsNuma(l) == l > Len(topo.default)
LevelMask(l, c) == IF IsNuma(l) THEN numa[l - Len(topo.default)][topo.node[c]]
                   ELSE topo.default[l].mask[c]

SdInit(l) ==
    LET base == {"LOAD_BALANCE", "BALANCE_NEWIDLE", "BALANCE_EXEC", "BALANCE_FORK", "WAKE_AFFINE"}
        far == NumaDistances(topo)[l - Len(topo.default)] > ReclaimDistance
    IN IF IsNuma(l)
       THEN (base \ (IF far THEN {"BALANCE_EXEC", "BALANCE_FORK", "WAKE_AFFINE"} ELSE {}))
            \cup {"NUMA", "SERIALIZE", "OVERLAP"}
       ELSE LET given == topo.default[l].flags
            IN base \cup given \cup (IF given = {} THEN {"PREFER_SIBLING"} ELSE {})

SetDomainAttribute(flags, relax, level) ==
    CASE relax < 0 -> flags
      [] relax >= 0 /\ relax < level -> flags \ {"BALANCE_WAKE", "BALANCE_NEWIDLE"}
      [] OTHER -> flags \cup {"BALANCE_WAKE", "BALANCE_NEWIDLE"}

-----------------------------------------------------------------------------
(* build_sched_domains up to the attach loop.  Everything here is private   *)
(* to the builder, so it is one step; s(l, c) is the span of c at level l,  *)
(* top[c] the level at which the whole map is covered and the loop stops.   *)

Spans(map) == [l \in 1..NLevels |-> [c \in map |->
                  map \cap UNION {LevelMask(i, c) : i \in 1..l}]]

TopLevels(map, s) ==
    [c \in map |-> Min({l \in 1..NLevels : s[l][c] = map} \cup {NLevels})]

\* get_group: the CPU whose group stands for that of c.
GetGroup(s, top, l, c) == IF l > 1 /\ l <= top[c] THEN First(s[l - 1][c]) ELSE c

\* The CPUs on which the group loop stops: the first one not covered yet, and
\* so on; part[i] is what the group of i covers.
Seeds(part, todo) ==
    LET visit(seeds, i) ==
            IF \E k \in DOMAIN seeds : i \in part[seeds[k]] THEN seeds ELSE Append(seeds, i)
    IN FoldLeft(visit, <<>>, SetToSortSeq(todo, <))

RingNext(ids, k) == ids[(k % Len(ids)) + 1]

\* build_sched_groups for the first CPU c of a span: groups shared by the CPUs
\* of the span, each counting the domains that start at it.
SharedGroups(n, map, s, top, l, c) ==
    LET grp == [i \in s[l][c] |-> GetGroup(s, top, l, i)]
        part == [i \in s[l][c] |-> {j \in s[l][c] : grp[j] = grp[i]}]
        seeds == Seeds(part, s[l][c])
        ids == [k \in DOMAIN seeds |-> <<n, l, grp[seeds[k]]>>]
    IN [id \in Range(ids) |->
           LET k == CHOOSE j \in DOMAIN ids : ids[j] = id
           IN [cpus |-> part[seeds[k]], next |-> RingNext(ids, k), sgc |-> id,
               ref |-> Cardinality({j \in map : l <= top[j] /\ GetGroup(s, top, l, j) = id[3]})]]

\* build_overlap_sched_groups: private groups, one for each sibling that has a
\* domain at this level and is not covered by the group of an earlier one.
Seniors(s, top, l, c) ==
    LET part == [i \in s[l][c] |-> IF l > 1 THEN s[l - 1][i] ELSE {i}]
    IN Seeds(part, {i \in s[l][c] : l <= top[i]})

OverlapGroups(n, s, top, l, c) ==
    LET seeds == Seniors(s, top, l, c)
        ids == [k \in DOMAIN seeds |-> <<n, l, c, seeds[k]>>]
    IN [id \in Range(ids) |->
           LET k == CHOOSE j \in DOMAIN ids : ids[j] = id
           IN [cpus |-> IF l > 1 THEN s[l - 1][id[4]] ELSE {id[4]},
               next |-> RingNext(ids, k), sgc |-> <<n, l, id[4]>>, ref |-> 0]]

\* sched_group_mask of a capacity, filled in by build_group_mask when the first
\* domain, in CPU order, counts itself; a shared group's mask is all CPUs.
GroupMask(s, top, l, i) ==
    IF IsNuma(l)
    THEN LET users == {c \in DOMAIN top : l <= top[c] /\ i \in Range(Seniors(s, top, l, c))}
         IN IF users = {} THEN {} ELSE {j \in s[l][Min(users)] : l <= top[j]}
    ELSE CPU

GroupBalanceCpu(cpus, mask) == First(cpus \cap mask)

\* sd->groups of an overlapping domain: the last group that c balances, or else
\* the first that contains it.
OverlapFirst(n, s, top, l, c) ==
    LET seeds == Seniors(s, top, l, c)
        cpus(k) == IF l > 1 THEN s[l - 1][seeds[k]] ELSE {seeds[k]}
        mine == {k \in DOMAIN seeds : GroupBalanceCpu(cpus(k), GroupMask(s, top, l, seeds[k])) = c}
        with == {k \in DOMAIN seeds : c \in cpus(k)}
    IN CASE mine # {} -> <<n, l, c, seeds[Max(mine)]>>
         [] mine = {} /\ with # {} -> <<n, l, c, seeds[Min(with)]>>
         [] OTHER -> NULL

\* The chain of domains of every CPU of the map (sd_init, build_sched_domain);
\* the levels above top[c] stay as they were allocated.
BuiltDomains(n, map, relax, s, top) ==
    [id \in {<<n, l, c>> : l \in 1..NLevels, c \in map} |->
        LET l == id[2]
            c == id[3]
        IN IF l > top[c]
           THEN [span |-> {}, flags |-> {}, parent |-> NULL, child |-> NULL, groups |-> NULL]
           ELSE [span |-> s[l][c],
                 flags |-> SetDomainAttribute(SdInit(l), relax, l - 1),
                 parent |-> IF l < top[c] THEN <<n, l + 1, c>> ELSE NULL,
                 child |-> IF l > 1 THEN <<n, l - 1, c>> ELSE NULL,
                 groups |-> IF IsNuma(l) THEN OverlapFirst(n, s, top, l, c)
                            ELSE <<n, l, GetGroup(s, top, l, c)>>]]

\* The groups: as allocated by __sdt_alloc, as built for shared levels, and the
\* private ones of the CPUs in done.
BuiltGroups(n, map, s, top, done) ==
    LET shared == {x \in {<<l, c>> : l \in 1..NLevels, c \in map} :
                      ~IsNuma(x[1]) /\ x[1] <= top[x[2]] /\ x[2] = First(s[x[1]][x[2]])}
        private == {x \in {<<l, c>> : l \in 1..NLevels, c \in done} :
                      IsNuma(x[1]) /\ x[1] <= top[x[2]]}
        plain == [id \in {<<n, l, c>> : l \in 1..NLevels, c \in map} |->
                     [cpus |-> {}, next |-> id, sgc |-> NULL, ref |-> 0]]
        g1 == FoldSet(LAMBDA x, f : SharedGroups(n, map, s, top, x[1], x[2]) @@ f, plain, shared)
    IN FoldSet(LAMBDA x, f : OverlapGroups(n, s, top, x[1], x[2]) @@ f, g1, private)

\* The capacities, with their reference counts for claim_allocations.
BuiltCapacities(n, map, s, top, groups) ==
    [id \in {<<n, l, c>> : l \in 1..NLevels, c \in map} |->
        [ref |-> IF IsNuma(id[2]) THEN Cardinality({g \in DOMAIN groups : groups[g].sgc = id})
                 ELSE IF \E g \in DOMAIN groups : groups[g].sgc = id THEN 1 ELSE 0,
         mask |-> GroupMask(s, top, id[2], id[3])]]

\* Mutation: groups nobody starts at are claimed as well.
ClaimedAll(top, sg, sgc) ==
    LET ids == {id \in DOMAIN sgc : id[2] > top[id[3]]}
    IN [sd |-> ids, sg |-> ids, sgc |-> ids]

\* claim_allocations: what stays in the sd_data arrays, to be freed at the end.
Unclaimed(top, sg, sgc) ==
    LET ids == DOMAIN sgc
        inChain(id) == id[2] <= top[id[3]]
    IN [sd |-> {id \in ids : ~inChain(id)},
        sg |-> {id \in ids : ~inChain(id) \/ sg[id].ref = 0},
        sgc |-> {id \in ids : ~inChain(id) \/ sgc[id].ref = 0}]

-----------------------------------------------------------------------------
(* Freeing.  The heap notes a free of what is not allocated.                *)

Without(f, S) == Restrict(f, DOMAIN f \ S)

\* The allocated groups of the ring that g is in: one for each CPU at most.
Ring(h, g) ==
    LET further(seen, c) == seen \cup ({h.sg[k].next : k \in seen} \cap DOMAIN h.sg)
    IN FoldSet(LAMBDA c, seen : further(seen, c), {g} \cap DOMAIN h.sg, CPU)

\* __sdt_free: the arrays' contents and the private groups of their domains.
SdtFree(h, left) ==
    LET rings == UNION {Ring(h, h.sd[id].groups) :
                           id \in {i \in left.sd : "OVERLAP" \in h.sd[i].flags}}
    IN [sd |-> Without(h.sd, left.sd), sg |-> Without(h.sg, left.sg \cup rings),
        sgc |-> Without(h.sgc, left.sgc),
        bad |-> h.bad \/ ~(/\ left.sd \subseteq DOMAIN h.sd
                           /\ left.sg \subseteq DOMAIN h.sg
                           /\ left.sgc \subseteq DOMAIN h.sgc)]

\* __free_domain_allocs: what is left of an allocation, whichever way the build ended.
FreeDomainAllocs(h, left) == SdtFree(h, left)

\* Mutation: the first domain freed takes the shared group with it.
FreeUncounted(h, id) ==
    LET g == h.sd[id].groups
    IN [h EXCEPT !.sd = Without(@, {id}), !.sg = Without(@, {g}),
                 !.sgc = IF g \in DOMAIN h.sg THEN Without(@, {h.sg[g].sgc}) ELSE @]

\* free_sched_domain, with free_sched_groups for an overlapping domain.
FreeSchedDomain(h, id) ==
    LET sd == h.sd[id]
        ring == IF "OVERLAP" \in sd.flags THEN Ring(h, sd.groups) ELSE {sd.groups}
        caps == {h.sg[g].sgc : g \in ring}
        sg1 == [g \in DOMAIN h.sg |-> IF g \in ring THEN [h.sg[g] EXCEPT !.ref = @ - 1] ELSE h.sg[g]]
        sgc1 == [k \in DOMAIN h.sgc |-> IF k \in caps THEN [h.sgc[k] EXCEPT !.ref = @ - 1] ELSE h.sgc[k]]
    IN IF id \notin DOMAIN h.sd \/ ~ring \subseteq DOMAIN h.sg THEN [h EXCEPT !.bad = TRUE]
       ELSE IF "OVERLAP" \in sd.flags
       THEN [h EXCEPT !.sd = Without(@, {id}), !.sg = Without(@, ring),
                      !.sgc = Without(sgc1, {k \in caps : sgc1[k].ref = 0})]
       ELSE LET last == {g \in ring : sg1[g].ref = 0}
            IN [h EXCEPT !.sd = Without(@, {id}), !.sg = Without(sg1, last),
                         !.sgc = Without(@, {h.sg[g].sgc : g \in last})]

InRead == {r \in Readers : hold[r] # NULL}

\* Mutation: the updater is not itself in a read section.
CallRcuBare(objs, func, by) == {[obj |-> o, func |-> func, wait |-> InRead] : o \in objs}

\* call_rcu: func is called for the object when the readers of the moment, the
\* updater too, have left.
CallRcu(objs, func, by) == {[obj |-> o, func |-> func, wait |-> InRead \cup by] : o \in objs}

\* The end of a grace period runs the callbacks that wait for nobody.
GracePeriod ==
    LET due == {p \in pend : p.wait = {}}
        of(func) == {p.obj : p \in {x \in due : x.func = func}}
    IN /\ due # {}
       /\ heap' = FoldSet(LAMBDA o, h : FreeSchedDomain(h, o), heap, of("free_sched_domain"))
       /\ rds' = Without(rds, of("free_rootdomain"))
       /\ pend' = pend \ due
       /\ UNCHANGED <<machine, rq, hold, cur, ctl, up, world>>

\* A walk of the domains of some CPU begins; without domains it ends at once.
ReadLock(r) ==
    /\ hold[r] = NULL
    /\ \E c \in {d \in CPU : rq[d].rd # 0} : hold' = [hold EXCEPT ![r] = [sd |-> rq[c].sd, rd |-> rq[c].rd]]
    /\ UNCHANGED <<machine, heap, rds, rq, pend, cur, ctl, up, world>>

Waited(ps, who) == {[p EXCEPT !.wait = @ \ {who}] : p \in ps}

ReadUnlock(r) ==
    /\ hold[r] # NULL
    /\ hold' = [hold EXCEPT ![r] = NULL]
    /\ pend' = Waited(pend, r)
    /\ UNCHANGED <<machine, heap, rds, rq, cur, ctl, up, world>>

-----------------------------------------------------------------------------
(* cpu_attach_domain.                                                       *)

SdDegenerate(h, id) ==
    LET sd == h.sd[id]
    IN \/ Cardinality(sd.span) = 1
       \/ /\ sd.flags \cap GroupFlags # {} => sd.groups = h.sg[sd.groups].next
          /\ "WAKE_AFFINE" \notin sd.flags

\* Mutation: a parent with more CPUs is cut out as well.
SdParentDegenerateSpan(h, id, p) ==
    \/ SdDegenerate(h, p)
    \/ h.sd[p].flags \subseteq h.sd[id].flags

SdParentDegenerate(h, id, p) ==
    LET one == h.sd[p].groups = h.sg[h.sd[p].groups].next
        dropped == GroupFlags \cup {"PREFER_SIBLING"}
                   \cup (IF Cardinality(Node(topo)) = 1 THEN {"SERIALIZE"} ELSE {})
        pflags == h.sd[p].flags \ (IF one THEN dropped ELSE {})
    IN \/ SdDegenerate(h, p)
       \/ /\ h.sd[id].span = h.sd[p].span
          /\ pflags \subseteq h.sd[id].flags

\* The loop that cuts the domains that do not contribute out of the chain.
\* It has one round for each domain above id, so it ends within NLevels.
Prune(h, id) ==
    LET round(cut, l) ==
            LET p == cut.heap.sd[cut.at].parent
                pp == cut.heap.sd[p].parent
                h1 == [cut.heap EXCEPT !.sd[cut.at].parent = pp,
                                       !.sd[cut.at].flags = @ \cup (cut.heap.sd[p].flags \cap {"PREFER_SIBLING"})]
            IN IF cut.at = NULL \/ p = NULL THEN cut
               ELSE IF ~SdParentDegenerate(cut.heap, cut.at, p) THEN [cut EXCEPT !.at = p]
               ELSE [cut EXCEPT !.heap = IF pp = NULL THEN h1 ELSE [h1 EXCEPT !.sd[pp].child = cut.at],
                                !.dead = @ \cup {p}]
    IN FoldLeft(round, [heap |-> h, at |-> id, dead |-> {}], Levels)

\* The pruned chain: its base, the heap and the domains that were cut out.
Pruned(id) ==
    LET cut == Prune(heap, id)
        sd == cut.heap.sd[id]
    IN IF id = NULL \/ ~SdDegenerate(cut.heap, id)
       THEN [heap |-> cut.heap, dead |-> cut.dead, base |-> id]
       ELSE [heap |-> IF sd.parent = NULL THEN cut.heap
                      ELSE [cut.heap EXCEPT !.sd[sd.parent].child = NULL],
             dead |-> cut.dead \cup {id}, base |-> sd.parent]

\* set_rq_online and set_rq_offline for the rq of c in root domain table d.
SetRqOnline(d, q, c) ==
    [rds |-> [d EXCEPT ![q[c].rd].online = IF q[c].online THEN @ ELSE @ \cup {c}],
     rq |-> [q EXCEPT ![c].online = TRUE]]
SetRqOffline(d, q, c) ==
    [rds |-> [d EXCEPT ![q[c].rd].online = IF q[c].online THEN @ \ {c} ELSE @],
     rq |-> [q EXCEPT ![c].online = FALSE]]

\* Mutation: the rq is not taken offline in the root domain it leaves.
AttachStillOnline(c, new) ==
    LET old == rq[c].rd
        left == [rds EXCEPT ![old].span = @ \ {c}, ![old].refcount = @ - 1]
        into == [left EXCEPT ![new].refcount = @ + 1, ![new].span = @ \cup {c}]
        on == SetRqOnline(into, [rq EXCEPT ![c].rd = new], c)
    IN [rds |-> on.rds, rq |-> on.rq, dead |-> IF left[old].refcount = 0 THEN {old} ELSE {}]

\* rq_attach_root: leave the old root domain, count in the new one.
RqAttachRoot(c, new) ==
    LET old == rq[c].rd
        off == IF c \in rds[old].online THEN SetRqOffline(rds, rq, c) ELSE [rds |-> rds, rq |-> rq]
        left == [off.rds EXCEPT ![old].span = @ \ {c}, ![old].refcount = @ - 1]
        into == [left EXCEPT ![new].refcount = @ + 1, ![new].span = @ \cup {c}]
        q == [off.rq EXCEPT ![c].rd = new]
        on == IF c \in active THEN SetRqOnline(into, q, c) ELSE [rds |-> into, rq |-> q]
    IN [rds |-> on.rds, rq |-> on.rq, dead |-> IF left[old].refcount = 0 THEN {old} ELSE {}]

\* The allocated domains of a chain, from its base to the top.
Chain(h, base) ==
    LET further(chain, l) ==
            LET id == IF chain = <<>> THEN base ELSE h.sd[Last(chain)].parent
            IN IF id \in DOMAIN h.sd THEN Append(chain, id) ELSE chain
    IN FoldLeft(further, <<>>, Levels)

\* update_top_cache_domain: the highest domain of the run of domains that share
\* a cache, its parent, its size and the CPU that names it.
TopCache(h, c, base) ==
    LET chain == Chain(h, base)
        shares == {k \in DOMAIN chain : \A j \in 1..k : "SHARE_PKG_RESOURCES" \in h.sd[chain[j]].flags}
        nodes == {k \in DOMAIN chain : "NUMA" \in h.sd[chain[k]].flags}
        llc == chain[Max(shares)]
    IN IF shares = {}
       THEN [llc |-> NULL, busy |-> NULL, size |-> 1, id |-> c,
             numa |-> IF nodes = {} THEN NULL ELSE chain[Min(nodes)]]
       ELSE [llc |-> llc, busy |-> h.sd[llc].parent, size |-> Cardinality(h.sd[llc].span),
             id |-> Min(h.sd[llc].span), numa |-> IF nodes = {} THEN NULL ELSE chain[Min(nodes)]]

-----------------------------------------------------------------------------
(* partition_sched_domains, by the thread that holds the hotplug lock.      *)

NoSdd == [sd |-> {}, sg |-> {}, sgc |-> {}]
NoUp == [pc |-> "idle", n |-> 0, left |-> {}, base |-> NULL, old |-> NULL, detach |-> {},
         build |-> {}, doms |-> {}, sdd |-> NoSdd, then |-> "done", cpu |-> 0, fr |-> FALSE]

\* Mutation: a domain that is destroyed for doms_new == NULL still counts as current.
PartitionOpsKeep(new, null) ==
    [detach |-> {d \in cur : d.mask # {} /\ (null \/ d \notin new)},
     build |-> {d \in new : d.mask # {} /\ d \notin cur}]

\* The domains to destroy and to build; with doms_new == NULL no current domain
\* is kept.  Masks match with their attributes (dattrs_equal).  The loops over the
\* CPUs of an empty mask do nothing.
PartitionOps(new, null) ==
    [detach |-> {d \in cur : d.mask # {} /\ (null \/ d \notin new)},
     build |-> {d \in new : d.mask # {} /\ (null \/ d \notin cur)}]

PartitionStart(new, null, u) ==
    /\ up' = [u EXCEPT !.pc = "ops", !.doms = new,
                       !.detach = PartitionOps(new, null).detach, !.build = PartitionOps(new, null).build]
    /\ ctl' = Unregistered

\* The single partition fallback_doms over the active CPUs.
FallbackDoms(act) == {[mask |-> act \ Isolated, relax |-> -1]}

DetachStart ==
    /\ up.pc = "ops"
    /\ \E dom \in up.detach :
         up' = [up EXCEPT !.pc = "root", !.n = 0, !.left = dom.mask, !.detach = @ \ {dom}]
    /\ UNCHANGED <<machine, heap, rds, rq, pend, hold, cur, ctl, world>>

\* An allocation fails.
Failing == fails < MaxFail /\ ops + fails < MaxOps /\ fails' = fails + 1

FreeBuilds ==
    (1..MaxBuild) \ (DOMAIN rds \cup {id[1] : id \in DOMAIN heap.sd \cup DOMAIN heap.sg})
BuildNow(dom) == up.pc = "ops" /\ up.detach = {} /\ dom \in up.build /\ FreeBuilds # {}

\* alloc_rootdomain: no rq is attached yet.
NewRootDomain == [refcount |-> 0, span |-> {}, online |-> {}]

BuildStart(dom) ==
    /\ BuildNow(dom)
    /\ LET n == Min(FreeBuilds)
           s == Spans(dom.mask)
           top == TopLevels(dom.mask, s)
           sg == BuiltGroups(n, dom.mask, s, top, dom.mask)
           sgc == BuiltCapacities(n, dom.mask, s, top, sg)
       IN /\ heap' = [heap EXCEPT !.sd = BuiltDomains(n, dom.mask, dom.relax, s, top) @@ @,
                                  !.sg = sg @@ @, !.sgc = sgc @@ @]
          /\ rds' = [d \in DOMAIN rds \cup {n} |-> IF d = n THEN NewRootDomain ELSE rds[d]]
          /\ up' = [up EXCEPT !.pc = "root", !.n = n, !.left = dom.mask, !.build = @ \ {dom},
                              !.sdd = Unclaimed(top, sg, sgc)]
    /\ UNCHANGED <<machine, rq, pend, hold, cur, ctl, world>>

\* A build that runs out of memory: in __sdt_alloc or for the root domain, or in
\* build_overlap_sched_groups when the groups of the CPUs below c are built.
BuildNoMem(dom) ==
    /\ Failing
    /\ BuildNow(dom)
    /\ \E c \in dom.mask :
         LET n == Min(FreeBuilds)
             done == {d \in dom.mask : d < c}
             s == Spans(dom.mask)
             top == TopLevels(dom.mask, s)
             sd == BuiltDomains(n, dom.mask, dom.relax, s, top)
             sg == BuiltGroups(n, dom.mask, s, top, done)
             ids == DOMAIN sd
             h == [heap EXCEPT
                     !.sd = [id \in ids |-> IF id[3] \in done \/ ~IsNuma(id[2]) THEN sd[id]
                                            ELSE [sd[id] EXCEPT !.groups = NULL]] @@ @,
                     !.sg = sg @@ @,
                     !.sgc = BuiltCapacities(n, dom.mask, s, top, sg) @@ @]
         IN heap' = FreeDomainAllocs(h, [sd |-> ids, sg |-> ids, sgc |-> ids])
    /\ up' = [up EXCEPT !.build = @ \ {dom}]
    /\ UNCHANGED <<machine, rds, rq, pend, hold, cur, ctl, conf, work, frozen, sleep, ops>>

AttachRoot ==
    /\ up.pc = "root"
    /\ LET c == Min(up.left)
           cut == Pruned(IF up.n = 0 THEN NULL ELSE <<up.n, 1, c>>)
           root == RqAttachRoot(c, up.n)
       IN /\ heap' = cut.heap
          /\ rds' = root.rds
          /\ rq' = root.rq
          /\ pend' = pend \cup CallRcu(cut.dead, "free_sched_domain", {"up"})
                        \cup CallRcu(root.dead, "free_rootdomain", {})
          /\ up' = [up EXCEPT !.pc = "assign", !.base = cut.base]
    /\ UNCHANGED <<machine, hold, cur, ctl, world>>

AttachAssign ==
    /\ up.pc = "assign"
    /\ LET c == Min(up.left)
       IN /\ rq' = [rq EXCEPT ![c].sd = up.base]
          /\ up' = [up EXCEPT !.pc = "destroy", !.old = rq[c].sd]
    /\ UNCHANGED <<machine, heap, rds, pend, hold, cur, ctl, world>>

\* destroy_sched_domains for the old chain, then update_top_cache_domain.  After
\* the last CPU the updater leaves its read section, and a build frees what it
\* has not used (__free_domain_allocs).
AttachEnd ==
    /\ up.pc = "destroy"
    /\ LET c == Min(up.left)
           last == up.left = {c}
           gone == pend \cup CallRcu(Range(Chain(heap, up.old)), "free_sched_domain", {"up"})
       IN /\ pend' = IF last THEN Waited(gone, "up") ELSE gone
          /\ rq' = [rq EXCEPT ![c].top = TopCache(heap, c, rq[c].sd)]
          /\ heap' = IF last THEN FreeDomainAllocs(heap, up.sdd) ELSE heap
          /\ up' = [up EXCEPT !.left = @ \ {c}, !.base = NULL, !.old = NULL,
                              !.pc = IF last THEN "ops" ELSE "root",
                              !.n = IF last THEN 0 ELSE @,
                              !.sdd = IF last THEN NoSdd ELSE @]
    /\ UNCHANGED <<machine, rds, hold, cur, ctl, world>>

\* register_sched_domain_sysctl: for every CPU a table for each domain of its chain,
\* whose entries point into the domain.
SchedDomainSysctl ==
    [reg |-> TRUE, sds |-> UNION {Range(Chain(heap, rq[c].sd)) : c \in CPU}]

\* The new partition is remembered and the sysctl tables are built anew, unless
\* there is no memory for them (sd_alloc_ctl_cpu_table, register_sched_domain_sysctl).
PartitionEnd ==
    /\ up.pc = "ops" /\ up.detach = {} /\ up.build = {}
    /\ cur' = up.doms
    /\ \/ ctl' = SchedDomainSysctl /\ UNCHANGED fails
       \/ Failing /\ ctl' = Unregistered
    /\ up' = IF up.then = "done" THEN NoUp
             ELSE [NoUp EXCEPT !.pc = up.then, !.cpu = up.cpu, !.fr = up.fr]
    /\ UNCHANGED <<machine, heap, rds, rq, pend, hold, conf, work, frozen, sleep, ops>>

-----------------------------------------------------------------------------
(* Cpusets (external), CPU hotplug and suspend.                             *)

\* generate_sched_domains: the configured sets, as far as they are active.
Generate(cf, act) ==
    {d \in {[mask |-> (e.mask \cap act) \ Isolated, relax |-> e.relax] : e \in cf} : d.mask # {}}

Free == up.pc = "idle"
Request == Free /\ sleep.phase = "awake" /\ ops + fails < MaxOps /\ ops' = ops + 1

ConfigureCpusets ==
    /\ Request
    /\ conf' \in Cpusets \ {conf}
    /\ PartitionStart(Generate(conf', active), FALSE, NoUp)
    /\ UNCHANGED <<machine, heap, rds, rq, pend, hold, cur, work, frozen, sleep, fails>>

CpusetWork ==
    /\ Free /\ work
    /\ work' = FALSE
    /\ PartitionStart(Generate(conf, active), FALSE, NoUp)
    /\ UNCHANGED <<machine, heap, rds, rq, pend, hold, cur, conf, frozen, sleep, ops, fails>>

\* Mutation: only the last CPU of a resume brings the cpusets back, not one that
\* comes online or fails to go down at any other time.
ActiveResumeOnly(c, fr, act, then) ==
    /\ frozen' = IF fr THEN frozen - 1 ELSE frozen
    /\ work' = (work \/ (fr /\ frozen' = 0))
    /\ PartitionStart(FallbackDoms(act), TRUE, [NoUp EXCEPT !.then = then, !.cpu = c, !.fr = fr])

\* cpuset_cpu_active for CPU_ONLINE and CPU_DOWN_FAILED, frozen or not: only the
\* last operation of a resume looks at the cpusets again.
CpusetCpuActive(c, fr, act, then) ==
    /\ frozen' = IF fr THEN frozen - 1 ELSE frozen
    /\ work' = (work \/ ~fr \/ frozen' = 0)
    /\ PartitionStart(FallbackDoms(act), TRUE, [NoUp EXCEPT !.then = then, !.cpu = c, !.fr = fr])

CpusetCpuInactive(c, fr, act) ==
    /\ frozen' = IF fr THEN frozen + 1 ELSE frozen
    /\ work' = (work \/ ~fr)
    /\ PartitionStart(FallbackDoms(act), TRUE, [NoUp EXCEPT !.then = "dying", !.cpu = c, !.fr = fr])

\* A refused suspend starts to resume at once.
Resuming(fr) == IF fr THEN [sleep EXCEPT !.phase = "resume"] ELSE sleep

\* CPU_DOWN_PREPARE: sched_cpu_inactive, then cpuset_cpu_inactive.
DownPrepare(c, fr) ==
    /\ active' = active \ {c}
    /\ CpusetCpuInactive(c, fr, active')
    /\ UNCHANGED <<topo, numa, online, heap, rds, rq, pend, hold, cur, conf, sleep, fails>>

\* The deadline bandwidth does not fit without c (-EBUSY), or a notifier of
\* another subsystem, which runs before these two, says no: those that ran get
\* CPU_DOWN_FAILED, cpuset_cpu_active among them.
DownRefused(c, fr) ==
    /\ CpusetCpuActive(c, fr, active, "done")
    /\ sleep' = Resuming(fr)
    /\ UNCHANGED <<machine, heap, rds, rq, pend, hold, cur, conf, fails>>

CpuDown(c) == c \in online \ {0} /\ Request /\ (DownPrepare(c, FALSE) \/ DownRefused(c, FALSE))

\* CPU_DYING in the stopper: the rq leaves the online mask of its root domain;
\* CPU_DEAD: the CPU leaves the NUMA masks.
CpuDying ==
    /\ up.pc = "dying"
    /\ LET off == SetRqOffline(rds, rq, up.cpu)
       IN rds' = off.rds /\ rq' = off.rq
    /\ online' = online \ {up.cpu}
    /\ numa' = NumaClear(up.cpu)
    /\ sleep' = IF up.fr THEN [sleep EXCEPT !.cpus = @ \cup {up.cpu}] ELSE sleep
    /\ up' = NoUp
    /\ UNCHANGED <<topo, active, heap, pend, hold, cur, ctl, conf, work, frozen, ops, fails>>

\* take_cpu_down fails: CPU_DOWN_FAILED to everyone (sched_cpu_active first).
DownFailed ==
    /\ up.pc = "dying"
    /\ active' = active \cup {up.cpu}
    /\ CpusetCpuActive(up.cpu, up.fr, active', "done")
    /\ sleep' = Resuming(up.fr)
    /\ UNCHANGED <<topo, numa, online, heap, rds, rq, pend, hold, cur, conf, ops, fails>>

\* set_cpu_online makes the CPU active as well; sched_domains_numa_masks_update
\* runs before cpuset_cpu_active.
BringUp(c, fr) ==
    /\ online' = online \cup {c}
    /\ active' = active \cup {c}
    /\ numa' = NumaSet(c)
    /\ CpusetCpuActive(c, fr, active', "online")
    /\ UNCHANGED <<topo, heap, rds, rq, pend, hold, cur, conf, fails>>

CpuUp(c) == c \in CPU \ online /\ Request /\ BringUp(c, FALSE) /\ UNCHANGED sleep

\* migration_call for CPU_ONLINE, the last of the notifiers here.
MigrationOnline ==
    /\ up.pc = "online"
    /\ LET on == SetRqOnline(rds, rq, up.cpu)
       IN rds' = on.rds /\ rq' = on.rq
    /\ up' = NoUp
    /\ UNCHANGED <<machine, heap, pend, hold, cur, ctl, world>>

Suspend ==
    /\ Request
    /\ sleep' = [phase |-> "suspend", cpus |-> {}]
    /\ UNCHANGED <<machine, heap, rds, rq, pend, hold, cur, ctl, up, conf, work, frozen, fails>>

\* disable_nonboot_cpus and enable_nonboot_cpus, CPU by CPU.
SuspendCpu ==
    /\ Free /\ sleep.phase = "suspend" /\ online # {0}
    /\ LET c == Min(online \ {0})
       IN DownPrepare(c, TRUE) \/ DownRefused(c, TRUE)
    /\ UNCHANGED ops

Asleep ==
    /\ Free /\ sleep.phase = "suspend" /\ online = {0}
    /\ sleep' = [sleep EXCEPT !.phase = "resume"]
    /\ UNCHANGED <<machine, heap, rds, rq, pend, hold, cur, ctl, up, conf, work, frozen, ops, fails>>

ResumeCpu ==
    /\ Free /\ sleep.phase = "resume" /\ sleep.cpus # {}
    /\ BringUp(Min(sleep.cpus), TRUE)
    /\ sleep' = [sleep EXCEPT !.cpus = @ \ {Min(@)}]
    /\ UNCHANGED ops

Awake ==
    /\ Free /\ sleep.phase = "resume" /\ sleep.cpus = {}
    /\ sleep' = [sleep EXCEPT !.phase = "awake"]
    /\ UNCHANGED <<machine, heap, rds, rq, pend, hold, cur, ctl, up, conf, work, frozen, ops, fails>>

-----------------------------------------------------------------------------
NoTop(c) == [llc |-> NULL, busy |-> NULL, size |-> 1, id |-> c, numa |-> NULL]

\* sched_init has attached every rq to def_root_domain; sched_init_smp is about
\* to build the first domain, with or without the memory for the NUMA levels.
Init ==
    /\ topo \in Topologies
    /\ \/ fails = 0 /\ numa = NumaMasks(topo)
       \/ fails = 1 /\ numa = <<>> /\ NumaMasks(topo) # <<>> /\ MaxFail > 0
    /\ online = CPU /\ active = CPU
    /\ heap = [sd |-> <<>>, sg |-> <<>>, sgc |-> <<>>, bad |-> FALSE]
    /\ rds = [d \in {0} |-> [refcount |-> 1 + Cardinality(CPU), span |-> CPU, online |-> CPU]]
    /\ rq = [c \in CPU |-> [sd |-> NULL, rd |-> 0, online |-> TRUE, top |-> NoTop(c)]]
    /\ pend = {} /\ hold = [r \in Readers |-> NULL]
    /\ cur = {} /\ ctl = Unregistered
    /\ up = [NoUp EXCEPT !.pc = "ops", !.doms = FallbackDoms(CPU), !.build = FallbackDoms(CPU)]
    /\ conf \in {cf \in Cpusets : Generate(cf, CPU) = FallbackDoms(CPU)}
    /\ work = FALSE /\ frozen = 0
    /\ sleep = [phase |-> "awake", cpus |-> {}]
    /\ ops = 0

Next ==
    \/ GracePeriod
    \/ \E r \in Readers : ReadLock(r) \/ ReadUnlock(r)
    \/ DetachStart \/ \E dom \in up.build : BuildStart(dom) \/ BuildNoMem(dom)
    \/ AttachRoot \/ AttachAssign \/ AttachEnd
    \/ PartitionEnd
    \/ ConfigureCpusets \/ CpusetWork
    \/ \E c \in CPU : CpuDown(c) \/ CpuUp(c)
    \/ CpuDying \/ DownFailed \/ MigrationOnline
    \/ Suspend \/ SuspendCpu \/ Asleep \/ ResumeCpu \/ Awake

Spec == Init /\ [][Next]_vars

-----------------------------------------------------------------------------
(* Properties.                                                              *)

AttachedTo(c) == Range(Chain(heap, rq[c].sd))

\* sched_domain_debug_one finds no error in the domain, and the pointers to it
\* and from it are to allocated objects.
SchedDomainDebugOne(id, c) ==
    LET sd == heap.sd[id]
        ring == Ring(heap, sd.groups)
    IN /\ "LOAD_BALANCE" \in sd.flags
       /\ c \in sd.span
       /\ sd.groups # NULL
       /\ \A g \in ring : /\ heap.sg[g].next \in DOMAIN heap.sg
                          /\ heap.sg[g].sgc \in DOMAIN heap.sgc
                          /\ heap.sg[g].cpus # {}
       /\ c \in heap.sg[sd.groups].cpus
       /\ "OVERLAP" \notin sd.flags =>
            \A g, k \in ring : g # k => heap.sg[g].cpus \cap heap.sg[k].cpus = {}
       /\ UNION {heap.sg[g].cpus : g \in ring} = sd.span
       /\ sd.parent # NULL => /\ sd.parent \in DOMAIN heap.sd
                              /\ sd.span \subseteq heap.sd[sd.parent].span
                              /\ heap.sd[sd.parent].child = id
       /\ id = rq[c].sd => sd.child = NULL

\* What a run queue points to is always sound: the checks of sched_domain_debug
\* hold of every attached domain, also while other CPUs are being detached, and
\* no pointer in a chain or in a ring of groups leads to freed memory.
DomainsSound ==
    \A c \in CPU :
        /\ rq[c].sd \in DOMAIN heap.sd \cup {NULL}
        /\ \A id \in AttachedTo(c) : SchedDomainDebugOne(id, c)

LiveChain(base) ==
    /\ base \in DOMAIN heap.sd \cup {NULL}
    /\ \A id \in Range(Chain(heap, base)) :
         /\ heap.sd[id].groups \in DOMAIN heap.sg
         /\ heap.sg[heap.sd[id].groups].sgc \in DOMAIN heap.sgc
         /\ heap.sd[id].parent \in DOMAIN heap.sd \cup {NULL}

\* Memory that someone still uses is not freed: neither the domains, with the
\* groups they start at, that a reader can reach from the rq->sd it has read,
\* nor the domains whose fields the registered sysctl tables point to.
UsersSafe ==
    /\ \A r \in Readers : hold[r] # NULL => LiveChain(hold[r].sd)
    /\ ctl.sds \subseteq DOMAIN heap.sd

\* Every root domain knows its run queues: span, online mask and reference count
\* agree with what the run queues point to, so the BUG_ONs of migration_call
\* hold; between operations no offline CPU is marked online in a root domain, and
\* every online CPU of a built domain is.  A root domain whose dl_bw a reader holds
\* is not freed, although its last run queue may have left since the reader found it.
RootDomainsAgree ==
    /\ \A c \in CPU : rq[c].rd \in DOMAIN rds
    /\ \A r \in Readers : hold[r] # NULL => hold[r].rd \in DOMAIN rds
    /\ \A d \in DOMAIN rds :
         LET mine == {c \in CPU : rq[c].rd = d}
         IN /\ rds[d].span = mine
            /\ rds[d].online = {c \in mine : rq[c].online}
            /\ rds[d].refcount = Cardinality(mine) + (IF d = 0 THEN 1 ELSE 0)
    /\ Free => \A c \in CPU : /\ rq[c].online => c \in online
                              /\ c \in online /\ rq[c].rd # 0 => rq[c].online

\* Nothing is freed twice and nothing is lost: when no operation is under way
\* and no callback is pending, the allocated objects are exactly those that the
\* run queues reach, also after an allocation that failed halfway.
HeapExact ==
    /\ ~heap.bad
    /\ Free /\ pend = {} =>
         LET sds == UNION {AttachedTo(c) : c \in CPU}
             sgs == UNION {Ring(heap, heap.sd[id].groups) : id \in sds}
         IN /\ DOMAIN heap.sd = sds
            /\ DOMAIN heap.sg = sgs
            /\ DOMAIN heap.sgc = {heap.sg[g].sgc : g \in sgs}
            /\ DOMAIN rds = {rq[c].rd : c \in CPU} \cup {0}

\* What the domains of c can span of its set: all of it, or its node's part when
\* sched_init_numa had no memory.
Widest(c, mask) ==
    IF numa = <<>> THEN mask \cap topo.default[Len(topo.default)].mask[c] ELSE mask

\* Between operations the root domains are those that doms_cur asks for, all or
\* nothing: the CPUs of a set share one with no other CPU, or, when its build had
\* no memory, all of them are in the default root domain; all other CPUs are, too.
PartitionRoots ==
    Free =>
      /\ \A i, j \in cur : i # j => i.mask \cap j.mask = {}
      /\ \A dom \in cur :
           \/ \A c \in dom.mask : rq[c].rd # 0 /\ rds[rq[c].rd].span = dom.mask
           \/ fails > 0 /\ \A c \in dom.mask : rq[c].rd = 0
      /\ \A c \in CPU \ UNION {dom.mask : dom \in cur} : rq[c].rd = 0

\* Between operations a CPU in a root domain of its own set has domains, of which
\* the topmost spans the set, unless it is alone; the other CPUs have none.  The
\* cached sd_llc, sd_busy and sd_numa pointers match the attached chains, and
\* cpus_share_cache is symmetric.
PartitionRealised ==
    Free =>
      /\ \A dom \in cur : \A c \in dom.mask :
           IF rq[c].rd = 0 \/ Widest(c, dom.mask) = {c} THEN rq[c].sd = NULL
           ELSE \E id \in AttachedTo(c) : heap.sd[id].parent = NULL
                     /\ heap.sd[id].span = Widest(c, dom.mask)
      /\ \A c \in CPU \ UNION {dom.mask : dom \in cur} : rq[c].sd = NULL
      /\ \A c \in CPU :
           /\ rq[c].top = TopCache(heap, c, rq[c].sd)
           /\ \A d \in CPU : rq[c].top.id = rq[d].top.id
                 <=> (c = d \/ (rq[c].top.llc # NULL /\ d \in heap.sd[rq[c].top.llc].span))

\* Outside a suspend, once no operation and no cpuset work is pending and the
\* count of frozen CPUs is back at zero, the domains are the configured ones
\* again, however many CPUs went down, failed to or came back in between.
CpusetFollowed ==
    Free /\ sleep.phase = "awake" /\ ~work /\ frozen = 0 => cur = Generate(conf, active)

\* The comments of cpuset_cpu_active: the last CPU that a resume brings online
\* restores the original domains by considering the cpuset configuration.
CpusetRestored ==
    Free /\ sleep.phase = "awake" /\ ~work => cur = Generate(conf, active)
=============================================================================
