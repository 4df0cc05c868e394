-------------------------- MODULE SchedGroupsProofs --------------------------
EXTENDS SchedGroups, SumTheorems

-----------------------------------------------------------------------------
(* Ratios                                                                  *)

\* A ratio is a natural number.
LEMMA RatioType ==
  ASSUME SchedGroupsAssumption, NEW b \in Bandwidth
  PROVE  to_ratio(b) \in Nat
<1>1. b.period \in Nat /\ (b.runtime # -1 => b.runtime \in Nat)
  BY DEF Bandwidth
<1>2. UNIT \in Nat
  BY DEF SchedGroupsAssumption
<1>3. \A m \in Nat, n \in Nat : n # 0 => m \div n \in Nat
  OBVIOUS
<1>4. b.runtime # -1 => b.runtime * UNIT \in Nat
  BY <1>1, <1>2
<1> QED
  BY <1>1, <1>2, <1>3, <1>4 DEF to_ratio

\* No runtime, no ratio.
LEMMA NoRatio ==
  ASSUME SchedGroupsAssumption, NEW b \in Bandwidth, b.runtime = 0
  PROVE  to_ratio(b) = 0
<1>1. 0 * UNIT = 0 /\ \A n \in Nat : n # 0 => 0 \div n = 0
  BY DEF SchedGroupsAssumption
<1> QED
  BY <1>1 DEF to_ratio, Bandwidth

-----------------------------------------------------------------------------
(* Trees                                                                   *)

In(par) == {g \in Group : g = Root \/ par[g] # NoGroup}
Below(par, g) == {x \in Group : par[x] = g}
Above(par) == CHOOSE f :
    f = [g \in Group |-> IF par[g] = NoGroup THEN {} ELSE {par[g]} \cup f[par[g]]]

\* A depth of each group, and a bound on all of them.
Deeper(par, depth, max) ==
    \A g \in Group : depth[g] < max /\ (par[g] # NoGroup => depth[par[g]] < depth[g])

IsTree(par) ==
    /\ par \in [Group -> Group \cup {NoGroup}] /\ par[Root] = NoGroup
    /\ \A g \in Group : par[g] # NoGroup => par[g] \in In(par)
    /\ \E depth \in [Group -> Nat], max \in Nat : Deeper(par, depth, max)

\* Induction from the roots down.
LEMMA TreeInduction ==
  ASSUME NEW par, IsTree(par), NEW Q,
         \A g \in Group : par[g] = NoGroup \/ par[g] \in Q => g \in Q
  PROVE  Group \subseteq Q
<1> PICK depth \in [Group -> Nat], max \in Nat : Deeper(par, depth, max)
  BY DEF IsTree
<1>0. par \in [Group -> Group \cup {NoGroup}]
  BY DEF IsTree
<1> SUFFICES ASSUME Group \ Q # {} PROVE FALSE
  OBVIOUS
<1> DEFINE depths == {depth[g] : g \in Group \ Q}
<1>1. PICK n \in depths : \A m \in depths : n <= m
  <2>1. depths \subseteq Nat /\ depths # {}
    OBVIOUS
  <2> QED
    BY <2>1, Least
<1>2. PICK g \in Group \ Q : depth[g] = n
  BY <1>1
<1>3. par[g] \in Group \ Q /\ depth[par[g]] < n
  BY <1>0, <1>2 DEF Deeper
<1>4. depth[par[g]] \in depths /\ depth[par[g]] \in Nat /\ n \in Nat
  BY <1>2, <1>3
<1> QED
  BY <1>1, <1>3, <1>4

\* f takes a step along each parent.
Follows(par, V, base, step, f) ==
    /\ f \in [Group -> V]
    /\ \A g \in Group : f[g] = IF par[g] = NoGroup THEN base ELSE step[g][f[par[g]]]

\* A function may be defined along the parents.
LEMMA TreeRecursion ==
  ASSUME SchedGroupsAssumption, NEW par, IsTree(par),
         NEW V, NEW base \in V, NEW step \in [Group -> [V -> V]]
  PROVE  \E f : Follows(par, V, base, step, f)
<1> PICK depth \in [Group -> Nat], max \in Nat : Deeper(par, depth, max)
  BY DEF IsTree
<1>0. par \in [Group -> Group \cup {NoGroup}] /\ NoGroup \notin Group
  BY DEF IsTree, SchedGroupsAssumption
<1> DEFINE Level(n) == {g \in Group : depth[g] < n}
           Defines(f, n) == \A g \in Level(n) :
                f[g] = IF par[g] = NoGroup THEN base ELSE step[g][f[par[g]]]
           Q == {n \in Nat : \E f \in [Group -> V] : Defines(f, n)}
<1>1. 0 \in Q
  <2>1. Level(0) = {}
    OBVIOUS
  <2>2. [g \in Group |-> base] \in [Group -> V] /\ Defines([g \in Group |-> base], 0)
    BY <2>1
  <2>3. \E f \in [Group -> V] : Defines(f, 0)
    <3> HIDE DEF Defines
    <3> QED
      BY <2>2
  <2> QED
    BY <2>3
<1>2. ASSUME NEW n \in Nat, n \in Q PROVE n + 1 \in Q
  <2>1. PICK f \in [Group -> V] : Defines(f, n)
    BY <1>2
  <2> DEFINE h == [g \in Group |-> IF par[g] = NoGroup THEN base ELSE step[g][f[par[g]]]]
  <2>2. h \in [Group -> V]
    <3>1. ASSUME NEW g \in Group PROVE h[g] \in V
      <4>1. par[g] # NoGroup => f[par[g]] \in V /\ step[g] \in [V -> V]
        BY <1>0
      <4> QED
        BY <4>1
    <3> QED
      BY <3>1
  <2>3. ASSUME NEW g \in Level(n) PROVE h[g] = f[g]
    BY <2>1
  <2>4. ASSUME NEW g \in Level(n + 1), par[g] # NoGroup PROVE par[g] \in Level(n)
    BY <1>0, <2>4 DEF Deeper
  <2>5. Defines(h, n + 1)
    BY <1>0, <2>3, <2>4
  <2>6. \E k \in [Group -> V] : Defines(k, n + 1)
    <3> HIDE DEF h, Defines
    <3> QED
      BY <2>2, <2>5
  <2> QED
    BY <2>6
<1>3. \A n \in Nat : n \in Q
  <2> HIDE DEF Q
  <2> QED
    BY <1>1, <1>2, NatSetInduction
<1>4. Level(max) = Group
  BY DEF Deeper
<1>5. PICK f \in [Group -> V] : Defines(f, max)
  BY <1>3
<1>6. Follows(par, V, base, step, f)
  BY <1>4, <1>5 DEF Follows
<1> QED
  BY <1>6

\* What is above a group.
LEMMA AboveIs ==
  ASSUME SchedGroupsAssumption, NEW par, IsTree(par)
  PROVE  \A g \in Group :
            /\ Above(par)[g] \subseteq Group
            /\ Above(par)[g] = IF par[g] = NoGroup THEN {} ELSE {par[g]} \cup Above(par)[par[g]]
<1> PICK depth \in [Group -> Nat], max \in Nat : Deeper(par, depth, max)
  BY DEF IsTree
<1> DEFINE R(f) == f = [g \in Group |-> IF par[g] = NoGroup THEN {}
                                        ELSE {par[g]} \cup f[par[g]]]
<1>1. par \in [Group -> Group \cup {NoGroup}] /\ NoGroup \notin Group
  BY DEF IsTree, SchedGroupsAssumption
<1> DEFINE total == [g \in Group |-> IF par[g] = NoGroup THEN [v \in SUBSET Group |-> {}]
                                     ELSE [v \in SUBSET Group |-> {par[g]} \cup v]]
<1>3. total \in [Group -> [SUBSET Group -> SUBSET Group]]
  <2>1. ASSUME NEW g \in Group PROVE total[g] \in [SUBSET Group -> SUBSET Group]
    <3>1. CASE par[g] = NoGroup
      <4>1. total[g] = [v \in SUBSET Group |-> {}]
        BY <3>1
      <4> QED
        BY <4>1
    <3>2. CASE par[g] # NoGroup
      <4>1. total[g] = [v \in SUBSET Group |-> {par[g]} \cup v] /\ par[g] \in Group
        BY <1>1, <3>2
      <4> QED
        BY <4>1
    <3> QED
      BY <3>1, <3>2
  <2> QED
    BY <2>1
<1>4. ASSUME NEW g \in Group, par[g] # NoGroup, NEW v \in SUBSET Group
      PROVE  total[g][v] = {par[g]} \cup v
  BY <1>4
<1>5. PICK f \in [Group -> SUBSET Group] :
        \A g \in Group : f[g] = IF par[g] = NoGroup THEN {} ELSE total[g][f[par[g]]]
  <2> HIDE DEF total
  <2>1. PICK V, base, step : V = SUBSET Group /\ base = {} /\ step = total
    OBVIOUS
  <2>2. base \in V /\ step \in [Group -> [V -> V]]
    BY <1>3, <2>1
  <2>3. PICK f : Follows(par, V, base, step, f)
    BY <2>2, TreeRecursion
  <2> QED
    BY <2>1, <2>3 DEF Follows
<1>6. \A g \in Group : f[g] = IF par[g] = NoGroup THEN {} ELSE {par[g]} \cup f[par[g]]
  <2> HIDE DEF total
  <2> QED
    BY <1>1, <1>4, <1>5
<1>7. R(f)
  BY <1>6
<1>8. R(Above(par))
  <2> HIDE DEF R
  <2>1. R(CHOOSE k : R(k))
    BY <1>7
  <2> USE DEF R
  <2> QED
    BY <2>1 DEF Above
<1>9. \A g \in Group :
        Above(par)[g] = IF par[g] = NoGroup THEN {} ELSE {par[g]} \cup Above(par)[par[g]]
  BY <1>8
<1> DEFINE Q == {g \in Group : Above(par)[g] \subseteq Group}
<1>10. \A g \in Group : par[g] = NoGroup \/ par[g] \in Q => g \in Q
  <2> HIDE DEF R
  <2> QED
    BY <1>1, <1>9
<1>11. Group \subseteq Q
  <2> HIDE DEF Q
  <2> QED
    BY <1>1, <1>10, TreeInduction
<1> QED
  BY <1>9, <1>11
-----------------------------------------------------------------------------
(* CFS quotas                                                              *)

Limited(b, g) == b[g].runtime # -1

\* CfsNested for any tree and any bandwidths.
NestedIn(par, b) ==
    \A g \in In(par) : \A a \in Above(par)[g] :
        Limited(b, g) /\ Limited(b, a) => to_ratio(b[g]) <= to_ratio(b[a])

\* The walk computes the quotas it is said to compute.
LEMMA QuotasIs ==
  ASSUME SchedGroupsAssumption, IsTree(parent), NEW b \in [Group -> Bandwidth]
  PROVE  \A g \in Online :
            Quotas(b)[g] = IF g = Root THEN -1
                           ELSE IF b[g].runtime = -1 THEN Quotas(b)[parent[g]]
                           ELSE to_ratio(b[g])
<1> DEFINE R(f) == f = [g \in Online |-> IF g = Root THEN -1
                                         ELSE IF b[g].runtime = -1 THEN f[parent[g]]
                                         ELSE to_ratio(b[g])]
           move == [g \in Group |-> [v \in Int |-> IF b[g].runtime = -1 THEN v
                                                   ELSE to_ratio(b[g])]]
<1>1. move \in [Group -> [Int -> Int]]
  <2>1. ASSUME NEW g \in Group PROVE to_ratio(b[g]) \in Int
    <3>1. b[g] \in Bandwidth
      OBVIOUS
    <3> QED
      BY <3>1, RatioType
  <2> QED
    BY <2>1
<1>2. \A g \in Group, v \in Int :
        move[g][v] = IF b[g].runtime = -1 THEN v ELSE to_ratio(b[g])
  OBVIOUS
<1>3. PICK f : Follows(parent, Int, -1, move, f)
  <2> HIDE DEF move
  <2>1. PICK base, step : base = -1 /\ step = move
    OBVIOUS
  <2>2. base \in Int /\ step \in [Group -> [Int -> Int]]
    BY <1>1, <2>1
  <2>3. \E f : Follows(parent, Int, base, step, f)
    BY <2>2, TreeRecursion
  <2> QED
    BY <2>1, <2>3
<1> DEFINE h == [g \in Online |-> f[g]]
<1>4. ASSUME NEW g \in Online
      PROVE  h[g] = IF g = Root THEN -1 ELSE IF b[g].runtime = -1 THEN h[parent[g]]
                    ELSE to_ratio(b[g])
  <2>1. g \in Group /\ parent[Root] = NoGroup
    BY DEF Online, IsTree
  <2>2. g # Root => parent[g] # NoGroup /\ parent[g] \in Online /\ parent[g] \in Group
    BY DEF Online, IsTree, In
  <2>3. g # Root => f[g] = move[g][f[parent[g]]] /\ f[parent[g]] \in Int
    <3> HIDE DEF move
    <3> QED
      BY <1>3, <2>1, <2>2 DEF Follows
  <2>4. f[Root] = -1
    BY <1>3, <2>1, SchedGroupsAssumption DEF Follows, SchedGroupsAssumption
  <2>5. h[g] = f[g] /\ (g # Root => h[parent[g]] = f[parent[g]])
    BY <2>2
  <2> HIDE DEF h, move
  <2> QED
    BY <1>2, <2>1, <2>3, <2>4, <2>5
<1>5. R(h)
  <2>1. h = [g \in Online |-> h[g]]
    OBVIOUS
  <2> HIDE DEF h
  <2> QED
    BY <1>4, <2>1
<1>6. R(Quotas(b))
  <2>1. \E k : R(k)
    <3> HIDE DEF R, h
    <3> QED
      BY <1>5
  <2>2. R(CHOOSE k : R(k))
    <3> HIDE DEF R
    <3> QED
      BY <2>1
  <2> QED
    BY <2>2 DEF Quotas
<1> QED
  BY <1>6

\* What __cfs_schedulable lets through is nested, for a walk from the root down.
LEMMA CfsSchedulableNests ==
  ASSUME SchedGroupsAssumption, IsTree(parent), cfs \in [Group -> Bandwidth],
         ~Limited(cfs, Root), NEW tg \in Group \ {Root}, NEW bw \in Bandwidth,
         CfsSchedulable(tg, bw)
  PROVE  NestedIn(parent, With(cfs, tg, bw))
<1>1. PICK b \in [Group -> Bandwidth] : b = With(cfs, tg, bw)
  BY DEF With
<1>2. ~Limited(b, Root)
  BY <1>1, SchedGroupsAssumption DEF With, Limited, SchedGroupsAssumption
<1>3. PICK q : q = Quotas(b)
  OBVIOUS
<1>4. \A g \in Online : q[g] = IF g = Root THEN -1
                               ELSE IF ~Limited(b, g) THEN q[parent[g]] ELSE to_ratio(b[g])
  BY <1>3, QuotasIs DEF Limited
<1>5. \A g \in Online \ {Root} :
        Limited(b, g) /\ q[parent[g]] # -1 => to_ratio(b[g]) <= q[parent[g]]
  BY <1>1, <1>3 DEF CfsSchedulable, Limited
<1>6. \A g \in Online \ {Root} : parent[g] # NoGroup /\ parent[g] \in Online
  BY DEF Online, IsTree, In
<1>7. parent[Root] = NoGroup /\ Online \subseteq Group
  BY DEF IsTree, Online
<1>8. \A g \in Group : to_ratio(b[g]) \in Nat
  <2>1. \A g \in Group : b[g] \in Bandwidth
    OBVIOUS
  <2> QED
    BY <2>1, RatioType
<1> DEFINE Over(g) == {g} \cup Above(parent)[g]
           Good(g) == /\ q[g] \in Int
                      /\ \A a \in Over(g) : Limited(b, a) => q[g] # -1 /\ q[g] <= to_ratio(b[a])
           Q == {g \in Group : g \in Online => Good(g)}
<1>9. \A g \in Group :
        /\ Above(parent)[g] \subseteq Group
        /\ Above(parent)[g] = IF parent[g] = NoGroup THEN {}
                              ELSE {parent[g]} \cup Above(parent)[parent[g]]
  BY AboveIs
<1>10. ASSUME NEW g \in Group, g \in Online, parent[g] = NoGroup \/ parent[g] \in Q PROVE Good(g)
  <2>1. CASE g = Root
    <3>1. q[g] = -1
      BY <1>4, <1>10, <2>1
    <3>2. Over(g) = {Root}
      BY <1>7, <1>9, <1>10, <2>1
    <3> HIDE DEF Over
    <3> QED
      BY <1>2, <3>1, <3>2
  <2>2. CASE g # Root
    <3>1. Good(parent[g])
      BY <1>6, <1>10, <2>2
    <3>2. Over(g) = {g} \cup Over(parent[g])
      BY <1>6, <1>9, <1>10, <2>2
    <3>3. CASE Limited(b, g)
      <4>1. q[g] = to_ratio(b[g]) /\ to_ratio(b[g]) \in Nat
        BY <1>4, <1>8, <1>10, <2>2, <3>3
      <4>2. q[parent[g]] # -1 => to_ratio(b[g]) <= q[parent[g]]
        BY <1>5, <1>10, <2>2, <3>3
      <4>3. ASSUME NEW a \in Over(parent[g]), Limited(b, a) PROVE q[g] <= to_ratio(b[a])
        <5>1. a \in Group
          BY <1>6, <1>7, <1>9, <1>10, <2>2
        <5>2. to_ratio(b[a]) \in Nat /\ q[parent[g]] \in Int
          BY <1>8, <3>1, <5>1
        <5>3. q[parent[g]] # -1 /\ q[parent[g]] <= to_ratio(b[a])
          BY <3>1, <4>3
        <5> QED
          BY <4>1, <4>2, <5>2, <5>3
      <4> HIDE DEF Over
      <4> QED
        BY <3>2, <4>1, <4>3
    <3>4. CASE ~Limited(b, g)
      <4>1. q[g] = q[parent[g]]
        BY <1>4, <1>10, <2>2, <3>4
      <4> HIDE DEF Over
      <4> QED
        BY <3>1, <3>2, <3>4, <4>1
    <3> QED
      BY <3>3, <3>4
  <2> QED
    BY <2>1, <2>2
<1>11. Group \subseteq Q
  <2>1. \A g \in Group : parent[g] = NoGroup \/ parent[g] \in Q => g \in Q
    <3> HIDE DEF Good
    <3> QED
      BY <1>10
  <2> HIDE DEF Q
  <2> QED
    BY <2>1, TreeInduction
<1>12. ASSUME NEW g \in Online, NEW a \in Above(parent)[g], Limited(b, g), Limited(b, a)
       PROVE  to_ratio(b[g]) <= to_ratio(b[a])
  <2>1. g \in Group /\ g # Root
    BY <1>7, <1>9, <1>12
  <2>2. Good(parent[g]) /\ a \in Over(parent[g])
    BY <1>6, <1>7, <1>9, <1>11, <1>12, <2>1
  <2>3. q[parent[g]] \in Int /\ q[parent[g]] # -1 /\ q[parent[g]] <= to_ratio(b[a])
    BY <1>12, <2>2
  <2>4. to_ratio(b[g]) <= q[parent[g]]
    BY <1>5, <1>12, <2>1, <2>3
  <2>5. to_ratio(b[g]) \in Nat /\ to_ratio(b[a]) \in Nat
    BY <1>8, <1>9, <1>12, <2>1
  <2> QED
    BY <2>3, <2>4, <2>5
<1>13. In(parent) = Online
  BY DEF In, Online
<1> QED
  BY <1>1, <1>12, <1>13 DEF NestedIn
-----------------------------------------------------------------------------
(* Leaves that come and go                                                 *)

\* Above a group in the tree are groups in the tree.
LEMMA AboveInTree ==
  ASSUME SchedGroupsAssumption, NEW par, IsTree(par)
  PROVE  \A g \in Group : Above(par)[g] \subseteq In(par)
<1> DEFINE Q == {g \in Group : Above(par)[g] \subseteq In(par)}
<1>1. \A g \in Group : par[g] = NoGroup \/ (par[g] \in Group /\ par[g] \in In(par))
  BY DEF IsTree
<1>2. ASSUME NEW g \in Group, par[g] = NoGroup \/ par[g] \in Q PROVE g \in Q
  <2>1. Above(par)[g] = IF par[g] = NoGroup THEN {} ELSE {par[g]} \cup Above(par)[par[g]]
    BY AboveIs
  <2> QED
    BY <1>1, <1>2, <2>1
<1>3. Group \subseteq Q
  <2> HIDE DEF Q
  <2> QED
    BY <1>2, TreeInduction
<1> QED
  BY <1>3

\* par2 is the tree par with the new group g below p, or without its leaf g.
Adds(par, g, p, par2) ==
    IsTree(par) /\ g \in Group \ In(par) /\ p \in In(par) /\ par2 = [par EXCEPT ![g] = p]
Cuts(par, g, par2) ==
    /\ IsTree(par) /\ g \in In(par) \ {Root} /\ Below(par, g) = {}
    /\ par2 = [par EXCEPT ![g] = NoGroup]

\* What is then around the groups.
Added(par, g, p, par2) ==
    /\ IsTree(par2) /\ In(par2) = In(par) \cup {g}
    /\ \A x \in In(par) : Above(par2)[x] = Above(par)[x]
    /\ Below(par2, g) = {} /\ Below(par2, p) = Below(par, p) \cup {g}
    /\ \A x \in In(par) \ {p} : Below(par2, x) = Below(par, x)
Cut(par, g, par2) ==
    /\ IsTree(par2) /\ In(par2) = In(par) \ {g}
    /\ \A x \in In(par2) : Above(par2)[x] = Above(par)[x]
    /\ \A x \in In(par2) : Below(par2, x) = Below(par, x) \ {g}

\* sched_create_group hangs a new group into the tree.
LEMMA AddLeaf ==
  ASSUME SchedGroupsAssumption, NEW par, NEW g, NEW p, NEW par2, Adds(par, g, p, par2)
  PROVE  Added(par, g, p, par2)
<1> IsTree(par) /\ g \in Group \ In(par) /\ p \in In(par) /\ par2 = [par EXCEPT ![g] = p]
  BY DEF Adds
<1>1. /\ par \in [Group -> Group \cup {NoGroup}] /\ par[Root] = NoGroup
      /\ \A x \in Group : par[x] # NoGroup => par[x] \in In(par)
      /\ par[g] = NoGroup /\ g # Root /\ p \in Group /\ p # NoGroup /\ p # g
      /\ Root \in Group /\ NoGroup \notin Group
  BY DEF IsTree, In, SchedGroupsAssumption
<1>2. par2 \in [Group -> Group \cup {NoGroup}] /\ par2[g] = p
      /\ \A x \in Group \ {g} : par2[x] = par[x]
  BY <1>1
<1>3. In(par2) = In(par) \cup {g}
  BY <1>1, <1>2 DEF In
<1>4. \A x \in Group : par2[x] # g
  BY <1>1, <1>2
<1>5. IsTree(par2)
  <2>1. PICK depth \in [Group -> Nat], max \in Nat : Deeper(par, depth, max)
    BY DEF IsTree
  <2> DEFINE deep == [depth EXCEPT ![g] = max]
  <2>2. deep \in [Group -> Nat] /\ max + 1 \in Nat
    OBVIOUS
  <2>3. deep[g] = max /\ \A x \in Group \ {g} : deep[x] = depth[x]
    OBVIOUS
  <2>4. ASSUME NEW x \in Group
        PROVE  deep[x] < max + 1 /\ (par2[x] # NoGroup => deep[par2[x]] < deep[x])
    <3>1. \A y \in Group : depth[y] \in Nat /\ depth[y] < max
      BY <2>1 DEF Deeper
    <3>2. CASE x = g
      <4>1. par2[x] = p /\ deep[p] = depth[p] /\ depth[p] < max
        BY <1>1, <1>2, <2>3, <3>1, <3>2
      <4> QED
        BY <2>3, <3>2, <4>1
    <3>3. CASE x # g
      <4>1. deep[x] = depth[x] /\ depth[x] \in Nat /\ depth[x] < max
        BY <2>3, <3>1, <3>3
      <4>2. par2[x] # NoGroup => /\ par2[x] = par[x] /\ par[x] \in Group \ {g}
                                 /\ depth[par[x]] < depth[x]
        BY <1>1, <1>2, <1>4, <2>1, <3>3 DEF Deeper
      <4> HIDE DEF deep
      <4> QED
        BY <2>3, <4>1, <4>2
    <3> QED
      BY <3>2, <3>3
  <2>5. \E d \in [Group -> Nat], m \in Nat : Deeper(par2, d, m)
    <3>1. Deeper(par2, deep, max + 1)
      BY <2>4 DEF Deeper
    <3> HIDE DEF deep
    <3> QED
      BY <2>2, <3>1
  <2>6. \A x \in Group : par2[x] # NoGroup => par2[x] \in In(par2)
    BY <1>1, <1>2, <1>3
  <2> QED
    BY <1>1, <1>2, <2>5, <2>6 DEF IsTree
<1>6. \A x \in In(par) : Above(par2)[x] = Above(par)[x]
  <2> DEFINE Q == {x \in Group : x # g => Above(par2)[x] = Above(par)[x]}
  <2>1. ASSUME NEW x \in Group, par[x] = NoGroup \/ par[x] \in Q PROVE x \in Q
    <3>1. CASE x # g /\ par[x] = NoGroup
      BY <1>2, <1>5, <3>1, AboveIs
    <3>2. CASE x # g /\ par[x] # NoGroup
      <4>1. Above(par2)[x] = {par[x]} \cup Above(par2)[par[x]]
        BY <1>2, <1>5, <3>2, AboveIs
      <4>2. Above(par)[x] = {par[x]} \cup Above(par)[par[x]]
        BY <3>2, AboveIs
      <4> QED
        BY <1>2, <1>4, <2>1, <3>2, <4>1, <4>2
    <3> QED
      BY <3>1, <3>2
  <2>2. Group \subseteq Q
    <3> HIDE DEF Q
    <3> QED
      BY <2>1, TreeInduction
  <2> QED
    BY <2>2 DEF In
<1>7. /\ Below(par2, g) = {} /\ Below(par2, p) = Below(par, p) \cup {g}
      /\ \A x \in In(par) \ {p} : Below(par2, x) = Below(par, x)
  <2>1. \A x \in In(par) : x # NoGroup /\ x # g
    BY <1>1 DEF In
  <2> QED
    BY <1>1, <1>2, <1>4, <2>1 DEF Below
<1> QED
  BY <1>3, <1>5, <1>6, <1>7 DEF Added

\* sched_offline_group takes a group without children out of the tree.
LEMMA CutLeaf ==
  ASSUME SchedGroupsAssumption, NEW par, NEW g, NEW par2, Cuts(par, g, par2)
  PROVE  Cut(par, g, par2)
<1> IsTree(par) /\ g \in In(par) \ {Root} /\ Below(par, g) = {}
    /\ par2 = [par EXCEPT ![g] = NoGroup]
  BY DEF Cuts
<1>1. /\ par \in [Group -> Group \cup {NoGroup}] /\ par[Root] = NoGroup /\ g \in Group
      /\ \A x \in Group : par[x] # NoGroup => par[x] \in In(par)
      /\ Root \in Group /\ NoGroup \notin Group
  BY DEF IsTree, In, SchedGroupsAssumption
<1>2. par2 \in [Group -> Group \cup {NoGroup}] /\ par2[g] = NoGroup
      /\ \A x \in Group \ {g} : par2[x] = par[x]
  BY <1>1
<1>3. In(par2) = In(par) \ {g}
  BY <1>1, <1>2 DEF In
<1>4. \A x \in Group : par[x] # g
  BY DEF Below
<1>5. IsTree(par2)
  <2>1. PICK depth \in [Group -> Nat], max \in Nat : Deeper(par, depth, max)
    BY DEF IsTree
  <2>2. Deeper(par2, depth, max)
    BY <1>2, <2>1 DEF Deeper
  <2>3. \A x \in Group : par2[x] # NoGroup => par2[x] \in In(par2)
    BY <1>1, <1>2, <1>3, <1>4
  <2> QED
    BY <1>1, <1>2, <2>2, <2>3 DEF IsTree
<1>6. \A x \in In(par2) : Above(par2)[x] = Above(par)[x]
  <2> DEFINE Q == {x \in Group : x # g => Above(par2)[x] = Above(par)[x]}
  <2>1. ASSUME NEW x \in Group, par[x] = NoGroup \/ par[x] \in Q PROVE x \in Q
    <3>1. CASE x # g /\ par[x] = NoGroup
      BY <1>2, <1>5, <3>1, AboveIs
    <3>2. CASE x # g /\ par[x] # NoGroup
      <4>1. Above(par2)[x] = {par[x]} \cup Above(par2)[par[x]]
        BY <1>2, <1>5, <3>2, AboveIs
      <4>2. Above(par)[x] = {par[x]} \cup Above(par)[par[x]]
        BY <3>2, AboveIs
      <4> QED
        BY <1>4, <2>1, <3>2, <4>1, <4>2
    <3> QED
      BY <3>1, <3>2
  <2>2. Group \subseteq Q
    <3> HIDE DEF Q
    <3> QED
      BY <2>1, TreeInduction
  <2> QED
    BY <1>3, <2>2 DEF In
<1>7. \A x \in In(par2) : Below(par2, x) = Below(par, x) \ {g}
  <2>1. \A x \in In(par2) : x # NoGroup
    BY <1>1 DEF In
  <2> QED
    BY <1>2, <2>1 DEF Below
<1> QED
  BY <1>3, <1>5, <1>6, <1>7 DEF Cut
-----------------------------------------------------------------------------
(* Bandwidths on a tree that changes                                       *)

Ratios(b) == [x \in Group |-> to_ratio(b[x])]

\* RtSums for any tree and any bandwidths.
SumsIn(par, b) ==
    \A g \in In(par) : SumFunctionOnSet(Ratios(b), Below(par, g)) <= to_ratio(b[g])

LEMMA RatiosType ==
  ASSUME SchedGroupsAssumption, NEW b \in [Group -> Bandwidth]
  PROVE  \A x \in Group : Ratios(b)[x] = to_ratio(b[x]) /\ to_ratio(b[x]) \in Nat
<1>1. \A x \in Group : b[x] \in Bandwidth
  OBVIOUS
<1> QED
  BY <1>1, RatioType DEF Ratios

LEMMA BelowFinite ==
  ASSUME SchedGroupsAssumption, NEW par, NEW g
  PROVE  IsFiniteSet(Below(par, g)) /\ Below(par, g) \subseteq Group
<1>1. Below(par, g) \subseteq Group /\ IsFiniteSet(Group)
  BY DEF Below, SchedGroupsAssumption
<1> QED
  BY <1>1, FS_Subset

\* A new group has no share yet.
LEMMA SumsAdd ==
  ASSUME SchedGroupsAssumption, NEW par, NEW g, NEW p, NEW par2, Adds(par, g, p, par2),
         NEW b \in [Group -> Bandwidth], NEW c \in [Group -> Bandwidth],
         \A x \in Group \ {g} : c[x] = b[x], c[g].runtime = 0, SumsIn(par, b)
  PROVE  SumsIn(par2, c)
<1> IsTree(par) /\ g \in Group \ In(par) /\ p \in In(par)
  BY DEF Adds
<1>1. /\ In(par2) = In(par) \cup {g} /\ Below(par2, g) = {}
      /\ Below(par2, p) = Below(par, p) \cup {g}
      /\ \A x \in In(par) \ {p} : Below(par2, x) = Below(par, x)
  BY AddLeaf DEF Added
<1>2. /\ \A x \in Group : Ratios(b)[x] = to_ratio(b[x]) /\ to_ratio(b[x]) \in Nat
      /\ \A x \in Group : Ratios(c)[x] = to_ratio(c[x]) /\ to_ratio(c[x]) \in Nat
  BY RatiosType
<1>3. to_ratio(c[g]) = 0
  <2>1. c[g] \in Bandwidth
    OBVIOUS
  <2> QED
    BY <2>1, NoRatio
<1>4. \A x \in Group \ {g} : to_ratio(c[x]) = to_ratio(b[x])
  OBVIOUS
<1>5. par[g] = NoGroup
  BY DEF In
<1>6. In(par) \subseteq Group /\ NoGroup \notin In(par)
  BY SchedGroupsAssumption DEF In, SchedGroupsAssumption
<1>7. ASSUME NEW x \in In(par)
      PROVE  /\ SumFunctionOnSet(Ratios(c), Below(par, x)) = SumFunctionOnSet(Ratios(b), Below(par, x))
             /\ SumFunctionOnSet(Ratios(c), Below(par, x)) \in Int
  <2>1. g \notin Below(par, x)
    BY <1>5, <1>6 DEF Below
  <2>2. IsFiniteSet(Below(par, x)) /\ Below(par, x) \subseteq Group
    BY BelowFinite
  <2>3. \A y \in Below(par, x) : Ratios(c)[y] \in Int /\ Ratios(b)[y] = Ratios(c)[y]
    BY <1>2, <1>4, <2>1, <2>2
  <2> QED
    BY <2>2, <2>3, SumEqual, SumType
<1>8. SumFunctionOnSet(Ratios(c), Below(par2, p)) = SumFunctionOnSet(Ratios(c), Below(par, p))
  <2>1. g \notin Below(par, p)
    BY <1>5, <1>6 DEF Below
  <2>2. IsFiniteSet(Below(par, p)) /\ \A y \in Below(par, p) \cup {g} : Ratios(c)[y] \in Int
    BY <1>2, BelowFinite
  <2>3. SumFunctionOnSet(Ratios(c), Below(par, p) \cup {g})
          = SumFunctionOnSet(Ratios(c), Below(par, p)) + Ratios(c)[g]
    BY <2>1, <2>2, SumAdd
  <2>4. Ratios(c)[g] = 0
    BY <1>2, <1>3
  <2> QED
    BY <1>1, <1>7, <2>3, <2>4
<1>9. ASSUME NEW x \in In(par2)
      PROVE  SumFunctionOnSet(Ratios(c), Below(par2, x)) <= to_ratio(c[x])
  <2>1. CASE x = g
    BY <1>1, <1>3, <2>1, SumEmpty
  <2>2. CASE x = p
    BY <1>4, <1>6, <1>7, <1>8, <2>2 DEF SumsIn
  <2>3. CASE x # g /\ x # p
    <3>1. x \in In(par) /\ Below(par2, x) = Below(par, x)
      BY <1>1, <1>9, <2>3
    <3> QED
      BY <1>4, <1>6, <1>7, <2>3, <3>1 DEF SumsIn
  <2> QED
    BY <2>1, <2>2, <2>3
<1> QED
  BY <1>9 DEF SumsIn

\* A group that goes leaves its share.
LEMMA SumsCut ==
  ASSUME SchedGroupsAssumption, NEW par, NEW g, NEW par2, Cuts(par, g, par2),
         NEW b \in [Group -> Bandwidth], SumsIn(par, b)
  PROVE  SumsIn(par2, b)
<1> IsTree(par) /\ g \in In(par) \ {Root} /\ Below(par, g) = {}
  BY DEF Cuts
<1>1. /\ In(par2) = In(par) \ {g}
      /\ \A x \in In(par2) : Below(par2, x) = Below(par, x) \ {g}
  BY CutLeaf DEF Cut
<1>2. \A x \in Group : Ratios(b)[x] = to_ratio(b[x]) /\ to_ratio(b[x]) \in Nat
  BY RatiosType
<1>3. ASSUME NEW x \in In(par2)
      PROVE  SumFunctionOnSet(Ratios(b), Below(par2, x)) <= to_ratio(b[x])
  <2>1. SumFunctionOnSet(Ratios(b), Below(par, x)) <= to_ratio(b[x])
    BY <1>1 DEF SumsIn
  <2>2. IsFiniteSet(Below(par, x)) /\ Below(par, x) \subseteq Group
    BY BelowFinite
  <2>3. x \in Group
    BY <1>1, SchedGroupsAssumption DEF In, SchedGroupsAssumption
  <2>4. CASE g \notin Below(par, x)
    <3>1. Below(par2, x) = Below(par, x)
      BY <1>1, <2>4
    <3> QED
      BY <2>1, <3>1
  <2>5. CASE g \in Below(par, x)
    <3>1. \A y \in Below(par, x) : Ratios(b)[y] \in Int
      BY <1>2, <2>2
    <3>2. /\ SumFunctionOnSet(Ratios(b), Below(par, x))
                = Ratios(b)[g] + SumFunctionOnSet(Ratios(b), Below(par, x) \ {g})
          /\ SumFunctionOnSet(Ratios(b), Below(par, x)) \in Int
      BY <2>2, <2>5, <3>1, SumRemove
    <3>3. SumFunctionOnSet(Ratios(b), Below(par, x) \ {g}) \in Int
      <4>1. IsFiniteSet(Below(par, x) \ {g})
        BY <2>2, FS_RemoveElement
      <4> QED
        BY <3>1, <4>1, SumType
    <3>4. Ratios(b)[g] \in Nat /\ to_ratio(b[x]) \in Nat
      BY <1>2, <2>2, <2>3, <2>5
    <3>5. SumFunctionOnSet(Ratios(b), Below(par, x) \ {g}) <= to_ratio(b[x])
      BY <2>1, <3>2, <3>3, <3>4
    <3>6. Below(par2, x) = Below(par, x) \ {g}
      BY <1>1
    <3> QED
      BY <3>5, <3>6
  <2> QED
    BY <2>4, <2>5
<1> QED
  BY <1>3 DEF SumsIn

\* A new group has no limit yet.
LEMMA NestedAdd ==
  ASSUME SchedGroupsAssumption, NEW par, NEW g, NEW p, NEW par2, Adds(par, g, p, par2),
         NEW b, NEW c, \A x \in Group \ {g} : c[x] = b[x], ~Limited(c, g), NestedIn(par, b)
  PROVE  NestedIn(par2, c)
<1> IsTree(par) /\ g \in Group \ In(par) /\ p \in In(par)
  BY DEF Adds
<1>1. /\ In(par2) = In(par) \cup {g}
      /\ \A x \in In(par) : Above(par2)[x] = Above(par)[x]
  BY AddLeaf DEF Added
<1>2. In(par) \subseteq Group \ {g}
  BY SchedGroupsAssumption DEF In, SchedGroupsAssumption
<1>3. \A x \in In(par) : Above(par)[x] \subseteq In(par)
  BY <1>2, AboveInTree
<1>4. \A x \in In(par) : c[x] = b[x]
  BY <1>2
<1> QED
  BY <1>1, <1>3, <1>4 DEF NestedIn, Limited

\* The other limits stay as they are when a group goes.
LEMMA NestedCut ==
  ASSUME SchedGroupsAssumption, NEW par, NEW g, NEW par2, Cuts(par, g, par2),
         NEW b, NestedIn(par, b)
  PROVE  NestedIn(par2, b)
<1> IsTree(par) /\ g \in In(par) \ {Root} /\ Below(par, g) = {}
  BY DEF Cuts
<1>1. /\ In(par2) = In(par) \ {g}
      /\ \A x \in In(par2) : Above(par2)[x] = Above(par)[x]
  BY CutLeaf DEF Cut
<1> QED
  BY <1>1 DEF NestedIn
-----------------------------------------------------------------------------
(* Types                                                                   *)

Places == {"none", "rt", "rtSet", "cfs", "cfsSet", "cfsOn", "cfsOff", "cfsDec"}
OpRecord == [pc : Places, group : Group \cup {NoGroup}, bw : Bandwidth, todo : SUBSET CPU]
HandlerRecord == [pc : {"none", "validate", "rt", "dl", "undo"}, old : Bandwidth]
AttachRecord == [pc : {"none", "css", "move"}, task : Task \cup {NoTask},
                 group : Group \cup {NoGroup}]

\* TypeOK, but for the sign of cfs_used, and more of the attach under way.
Types ==
    /\ rt \in [Group -> Bandwidth] /\ cfs \in [Group -> Bandwidth] /\ sysctl \in Bandwidth
    /\ enabled \in [Group -> [CPU -> BOOLEAN]] /\ cfs_used \in Int /\ refused \in Nat
    /\ handler \in HandlerRecord /\ op \in [Writer -> OpRecord]

TaskTypes ==
    /\ life \in [Task -> {"new", "forking", "listed", "live", "exiting", "exited"}]
    /\ forker \in [Task -> Task \cup {NoTask}] /\ isRt \in [Task -> BOOLEAN]
    /\ css \in [Task -> Group \cup {NoGroup}] /\ group \in [Task -> Group \cup {NoGroup}]
    /\ attach \in AttachRecord /\ (attach.pc # "none" => attach.task \in Task)

\* A half that is written leaves a bandwidth.
LEMMA BandwidthHalf ==
  ASSUME NEW b \in Bandwidth
  PROVE  /\ \A r \in Nat \cup {-1} : /\ [b EXCEPT !.runtime = r] \in Bandwidth
                                     /\ [b EXCEPT !.runtime = r].runtime = r
         /\ \A p \in Nat : [b EXCEPT !.period = p] \in Bandwidth
<1>1. b.period \in Nat /\ b.runtime \in Nat \cup {-1} /\ b = [period |-> b.period, runtime |-> b.runtime]
  BY DEF Bandwidth
<1>2. ASSUME NEW r \in Nat \cup {-1}
      PROVE  [b EXCEPT !.runtime = r] = [period |-> b.period, runtime |-> r]
  BY <1>1
<1>3. ASSUME NEW p \in Nat
      PROVE  [b EXCEPT !.period = p] = [period |-> p, runtime |-> b.runtime]
  BY <1>1
<1> QED
  BY <1>1, <1>2, <1>3 DEF Bandwidth

\* Where the call of w is after a step, and that no other call moves.
OpTo(w, pc, g, bw, todo) ==
    /\ op' \in [Writer -> OpRecord]
    /\ op'[w].pc = pc /\ op'[w].group = g /\ op'[w].bw = bw /\ op'[w].todo = todo
    /\ \A v \in Writer \ {w} : op'[v] = op[v]

LEMMA OpUpdate ==
  ASSUME op \in [Writer -> OpRecord], NEW w \in Writer, NEW r \in OpRecord,
         op' = [op EXCEPT ![w] = r]
  PROVE  OpTo(w, r.pc, r.group, r.bw, r.todo)
BY DEF OpTo

\* A call begins.
LEMMA OpStart ==
  ASSUME Types, NEW w \in Writer, NEW g \in Group, NEW place \in Places, NEW bw \in Bandwidth,
         Start(w, g, place, bw)
  PROVE  OpTo(w, place, g, bw, {})
<1> DEFINE r == [NoOp EXCEPT !.pc = place, !.group = g, !.bw = bw]
<1>1. NoOp \in OpRecord /\ NoOp.todo = {}
  BY DEF NoOp, NoBw, OpRecord, Places, Bandwidth
<1>2. r \in OpRecord /\ r.pc = place /\ r.group = g /\ r.bw = bw /\ r.todo = {}
  BY <1>1 DEF OpRecord
<1>3. op' = [op EXCEPT ![w] = r]
  BY DEF Start
<1> QED
  <2> HIDE DEF r
  <2> QED
    BY <1>2, <1>3, OpUpdate DEF Types

\* A call ends.
LEMMA OpEnd ==
  ASSUME Types, NEW w \in Writer, op' = [op EXCEPT ![w] = NoOp]
  PROVE  OpTo(w, "none", NoGroup, NoBw, {})
<1>1. NoOp = [pc |-> "none", group |-> NoGroup, bw |-> NoBw, todo |-> {}]
  BY DEF NoOp
<1>2. NoBw \in Bandwidth
  BY DEF NoBw, Bandwidth
<1>3. NoOp \in OpRecord
  BY <1>1, <1>2 DEF OpRecord, Places
<1>4. OpTo(w, NoOp.pc, NoOp.group, NoOp.bw, NoOp.todo)
  BY <1>3, OpUpdate DEF Types
<1> QED
  BY <1>1, <1>4

\* A call goes on.
LEMMA OpGoes ==
  ASSUME Types, NEW w \in Writer, NEW place \in Places, NEW todo \in SUBSET CPU,
         op' = [op EXCEPT ![w] = [op[w] EXCEPT !.pc = place, !.todo = todo]]
  PROVE  OpTo(w, place, op[w].group, op[w].bw, todo)
<1>1. op[w] \in OpRecord
  BY DEF Types
<1> DEFINE r == [op[w] EXCEPT !.pc = place, !.todo = todo]
<1>2. r \in OpRecord /\ r.pc = place /\ r.group = op[w].group /\ r.bw = op[w].bw /\ r.todo = todo
  BY <1>1 DEF OpRecord
<1>3. op' = [op EXCEPT ![w] = r]
  OBVIOUS
<1> QED
  <2> HIDE DEF r
  <2> QED
    BY <1>2, <1>3, OpUpdate DEF Types

\* The steps of the writers of files.
FileStep(w) ==
    \/ \E g \in Group, bw \in Bandwidth : Start(w, g, "rt", bw)
    \/ \E g \in Group \ {Root}, bw \in Bandwidth : Start(w, g, "cfs", bw)
    \/ RtRefused(w) \/ RtChecked(w) \/ RtSet(w)
    \/ CfsRefused(w) \/ CfsChecked(w) \/ CfsSet(w) \/ CfsDone(w)
    \/ \E c \in CPU : CfsRq(w, c)

LEMMA FileSteps ==
  ASSUME SchedGroupsAssumption, Types, NEW w \in Writer, Files(w)
  PROVE  FileStep(w)
<1>1. /\ RtRuntimes \subseteq Nat \cup {-1} /\ CfsQuotas \subseteq Nat \cup {-1}
      /\ RtPeriods \subseteq Nat /\ CfsPeriods \subseteq Nat
  BY DEF SchedGroupsAssumption
<1>2. \A g \in Group : rt[g] \in Bandwidth /\ cfs[g] \in Bandwidth
  BY DEF Types
<1>3. ASSUME NEW g \in Group, NEW r \in RtRuntimes, SchedGroupSetRtRuntime(w, g, r) PROVE FileStep(w)
  <2>1. [rt[g] EXCEPT !.runtime = r] \in Bandwidth
    BY <1>1, <1>2, BandwidthHalf
  <2> QED
    BY <1>3, <2>1 DEF SchedGroupSetRtRuntime, FileStep
<1>4. ASSUME NEW g \in Group, NEW p \in RtPeriods, SchedGroupSetRtPeriod(w, g, p) PROVE FileStep(w)
  <2>1. [rt[g] EXCEPT !.period = p] \in Bandwidth
    BY <1>1, <1>2, BandwidthHalf
  <2> QED
    BY <1>4, <2>1 DEF SchedGroupSetRtPeriod, FileStep
<1>5. ASSUME NEW g \in Group, NEW q \in CfsQuotas, TgSetCfsQuota(w, g, q) PROVE FileStep(w)
  <2>1. [cfs[g] EXCEPT !.runtime = q] \in Bandwidth
    BY <1>1, <1>2, BandwidthHalf
  <2> QED
    BY <1>5, <2>1 DEF TgSetCfsQuota, CfsStart, FileStep
<1>6. ASSUME NEW g \in Group, NEW p \in CfsPeriods, TgSetCfsPeriod(w, g, p) PROVE FileStep(w)
  <2>1. [cfs[g] EXCEPT !.period = p] \in Bandwidth
    BY <1>1, <1>2, BandwidthHalf
  <2> QED
    BY <1>6, <2>1 DEF TgSetCfsPeriod, CfsStart, FileStep
<1> QED
  BY <1>3, <1>4, <1>5, <1>6 DEF Files, FileStep

\* Where CfsSet takes it.
AfterSet(w) == IF op[w].bw.runtime # -1 THEN "cfsOn"
               ELSE IF Limited(cfs, op[w].group) THEN "cfsDec" ELSE "cfsOff"

\* Where each of these steps takes the call.
LEMMA FileOps ==
  ASSUME Types, NEW w \in Writer
  PROVE  /\ RtRefused(w) \/ RtSet(w) \/ CfsRefused(w) \/ CfsDone(w) =>
                OpTo(w, "none", NoGroup, NoBw, {})
         /\ RtChecked(w) => OpTo(w, "rtSet", op[w].group, op[w].bw, op[w].todo)
         /\ CfsChecked(w) => OpTo(w, "cfsSet", op[w].group, op[w].bw, op[w].todo)
         /\ CfsSet(w) => OpTo(w, AfterSet(w), op[w].group, op[w].bw, CPU)
         /\ \A c \in CPU : CfsRq(w, c) =>
                OpTo(w, op[w].pc, op[w].group, op[w].bw, op[w].todo \ {c})
<1>1. op[w] \in OpRecord /\ op[w].pc \in Places /\ op[w].todo \in SUBSET CPU
  BY DEF Types, OpRecord
<1>2. \A place \in Places :
        [op EXCEPT ![w].pc = place]
            = [op EXCEPT ![w] = [op[w] EXCEPT !.pc = place, !.todo = op[w].todo]]
  <2> TAKE place \in Places
  <2>1. [op[w] EXCEPT !.pc = place] = [op[w] EXCEPT !.pc = place, !.todo = op[w].todo]
    BY <1>1 DEF OpRecord
  <2> QED
    BY <2>1
<1>3. \A todo \in SUBSET CPU :
        [op EXCEPT ![w].todo = todo]
            = [op EXCEPT ![w] = [op[w] EXCEPT !.pc = op[w].pc, !.todo = todo]]
  <2> TAKE todo \in SUBSET CPU
  <2>1. [op[w] EXCEPT !.todo = todo] = [op[w] EXCEPT !.pc = op[w].pc, !.todo = todo]
    BY <1>1 DEF OpRecord
  <2> QED
    BY <2>1
<1>4. {"rtSet", "cfsSet"} \subseteq Places /\ AfterSet(w) \in Places /\ CPU \in SUBSET CPU
  BY DEF Places, AfterSet
<1>5. RtRefused(w) \/ RtSet(w) \/ CfsRefused(w) \/ CfsDone(w) => OpTo(w, "none", NoGroup, NoBw, {})
  BY OpEnd DEF RtRefused, RtSet, CfsRefused, CfsDone
<1>6. RtChecked(w) => OpTo(w, "rtSet", op[w].group, op[w].bw, op[w].todo)
  BY <1>1, <1>2, <1>4, OpGoes DEF RtChecked
<1>7. CfsChecked(w) => OpTo(w, "cfsSet", op[w].group, op[w].bw, op[w].todo)
  BY <1>1, <1>2, <1>4, OpGoes DEF CfsChecked
<1>8. ASSUME CfsSet(w) PROVE OpTo(w, AfterSet(w), op[w].group, op[w].bw, CPU)
  <2>1. op' = [op EXCEPT ![w].pc = AfterSet(w), ![w].todo = CPU]
    BY <1>8 DEF CfsSet, AfterSet, Limited
  <2>2. op' = [op EXCEPT ![w] = [op[w] EXCEPT !.pc = AfterSet(w), !.todo = CPU]]
    BY <2>1
  <2> QED
    BY <1>4, <2>2, OpGoes
<1>9. ASSUME NEW c \in CPU, CfsRq(w, c)
      PROVE  OpTo(w, op[w].pc, op[w].group, op[w].bw, op[w].todo \ {c})
  <2>1. op' = [op EXCEPT ![w].todo = op[w].todo \ {c}]
    BY <1>9 DEF CfsRq
  <2>2. op[w].todo \ {c} \in SUBSET CPU
    BY <1>1
  <2> QED
    BY <1>1, <1>3, <2>1, <2>2, OpGoes
<1> QED
  BY <1>5, <1>6, <1>7, <1>8, <1>9

\* What the other steps are, as far as bandwidths and the tree matter.
TaskStep == UNCHANGED <<parent, bwVars, limitVars, op>>

LEMMA TaskSteps ==
  ASSUME Tasks
  PROVE  TaskStep
BY DEF Tasks, TaskStep, CanAttach, CssSet, Attach, DupTask, PostFork, ForkFails, CgroupFork,
       ExitCss, CgroupExit, SetPolicy, bwVars, limitVars

HandlerMove ==
    \/ \E new \in Bandwidth : HandlerWrite(new)
    \/ HandlerValidate \/ HandlerRt \/ HandlerDl \/ HandlerUndo

LEMMA HandlerSteps ==
  ASSUME SchedGroupsAssumption, Types, Handler
  PROVE  HandlerMove
<1>1. SysRuntimes \subseteq Nat \cup {-1} /\ SysPeriods \subseteq Nat /\ sysctl \in Bandwidth
  BY DEF SchedGroupsAssumption, Types
<1>2. ASSUME NEW r \in SysRuntimes, HandlerWrite([sysctl EXCEPT !.runtime = r]) PROVE HandlerMove
  BY <1>1, <1>2, BandwidthHalf DEF HandlerMove
<1>3. ASSUME NEW p \in SysPeriods, HandlerWrite([sysctl EXCEPT !.period = p]) PROVE HandlerMove
  BY <1>1, <1>3, BandwidthHalf DEF HandlerMove
<1> QED
  BY <1>2, <1>3 DEF Handler, HandlerMove

\* The larger of two limits.
LEMMA MaxOfTwo ==
  ASSUME NEW a \in Nat, NEW b \in Nat
  PROVE  Max({a, b}) \in Nat /\ a <= Max({a, b}) /\ b <= Max({a, b}) /\ Max({a, b}) \in {a, b}
<1>1. \E x \in {a, b} : \A y \in {a, b} : x >= y
  <2>1. CASE a >= b
    BY <2>1
  <2>2. CASE b >= a
    BY <2>2
  <2> QED
    BY <2>1, <2>2
<1> QED
  BY <1>1 DEF Max

\* Every step keeps the types.
LEMMA TypesStep ==
  ASSUME SchedGroupsAssumption, Types, [Next]_vars
  PROVE  Types'
<1>1. ASSUME NEW w \in Writer, Files(w) PROVE Types'
  <2>1. FileStep(w)
    BY <1>1, FileSteps
  <2>2. op' \in [Writer -> OpRecord]
    <3>1. \A g \in Group, bw \in Bandwidth, place \in {"rt", "cfs"} :
            Start(w, g, place, bw) => OpTo(w, place, g, bw, {})
      BY SMTT(45), OpStart DEF Places
    <3> QED
      BY <2>1, <3>1, FileOps DEF FileStep, OpTo
  <2>3. UNCHANGED limitVars
    BY <2>1 DEF FileStep, Start, RtRefused, RtChecked, RtSet, CfsRefused, CfsChecked, CfsSet,
                CfsDone, CfsRq
  <2>4. op[w].bw \in Bandwidth
    BY DEF Types, OpRecord
  <2>5. rt' \in [Group -> Bandwidth]
    <3>1. CASE RtSet(w)
      BY <2>4, <3>1 DEF Types, RtSet
    <3> QED
      BY <2>1, <3>1 DEF Types, FileStep, Start, RtRefused, RtChecked, CfsRefused, CfsChecked,
                        CfsSet, CfsDone, CfsRq, bwVars
  <2>6. cfs' \in [Group -> Bandwidth]
    <3>1. CASE CfsSet(w)
      BY <2>4, <3>1 DEF Types, CfsSet
    <3> QED
      BY <2>1, <3>1 DEF Types, FileStep, Start, RtRefused, RtChecked, RtSet, CfsRefused,
                        CfsChecked, CfsDone, CfsRq, bwVars
  <2>7. enabled' \in [Group -> [CPU -> BOOLEAN]]
    <3>1. CASE \E c \in CPU : CfsRq(w, c)
      <4>1. PICK c \in CPU : CfsRq(w, c)
        BY <3>1
      <4>2. (op[w].pc = "cfsOn") \in BOOLEAN
        OBVIOUS
      <4>3. PICK v \in BOOLEAN : v = (op[w].pc = "cfsOn")
        BY <4>2
      <4>4. enabled' = [enabled EXCEPT ![op[w].group][c] = v]
        BY <4>1, <4>3 DEF CfsRq
      <4> QED
        BY <4>4 DEF Types
    <3> QED
      BY <2>1, <3>1 DEF Types, FileStep, Start, RtRefused, RtChecked, RtSet, CfsRefused,
                        CfsChecked, CfsSet, CfsDone, bwVars
  <2>8. cfs_used' \in Int
    <3>1. CASE CfsChecked(w)
      BY <3>1 DEF Types, CfsChecked
    <3>2. CASE CfsDone(w)
      BY <3>2 DEF Types, CfsDone
    <3>3. CASE ~CfsChecked(w) /\ ~CfsDone(w)
      BY <2>1, <3>3 DEF Types, FileStep, Start, RtRefused, RtChecked, RtSet, CfsRefused,
                        CfsSet, CfsRq, bwVars
    <3> QED
      BY <3>1, <3>2, <3>3
  <2> QED
    BY <2>2, <2>3, <2>5, <2>6, <2>7, <2>8 DEF Types, limitVars
<1>2. ASSUME Handler PROVE Types'
  <2>1. HandlerMove
    BY <1>2, HandlerSteps
  <2>2. UNCHANGED <<parent, bwVars, op>>
    BY <2>1 DEF HandlerMove, HandlerWrite, HandlerValidate, HandlerRt, HandlerDl, HandlerStep,
                HandlerUndo
  <2>3. handler \in HandlerRecord /\ handler.old \in Bandwidth /\ sysctl \in Bandwidth
    BY DEF Types, HandlerRecord
  <2>4. CASE \E new \in Bandwidth : HandlerWrite(new)
    BY <2>2, <2>3, <2>4 DEF Types, HandlerWrite, HandlerRecord, bwVars
  <2>5. ASSUME NEW from, NEW ok, NEW to \in {"none", "rt", "dl"}, HandlerStep(from, ok, to)
        PROVE  Types'
    <3>1. PICK place \in {"none", "rt", "dl", "undo"} : handler' = [handler EXCEPT !.pc = place]
      BY <2>5 DEF HandlerStep
    <3>2. handler' \in HandlerRecord
      BY <2>3, <3>1 DEF HandlerRecord
    <3> QED
      BY <2>2, <2>5, <3>2 DEF Types, HandlerStep, bwVars
  <2>6. CASE HandlerValidate \/ HandlerRt \/ HandlerDl
    BY <2>5, <2>6 DEF HandlerValidate, HandlerRt, HandlerDl
  <2>7. CASE HandlerUndo
    <3>1. refused' \in Nat
      <4>1. refused \in Nat /\ to_ratio(sysctl) \in Nat
        BY <2>3, RatioType DEF Types
      <4> QED
        BY <2>7, <4>1, MaxOfTwo DEF HandlerUndo
    <3>2. handler' \in HandlerRecord
      BY <2>3, <2>7 DEF HandlerUndo, HandlerRecord
    <3> QED
      BY <2>2, <2>3, <2>7, <3>1, <3>2 DEF Types, HandlerUndo, bwVars
  <2> QED
    BY <2>1, <2>4, <2>6, <2>7 DEF HandlerMove
<1>3. ASSUME NEW g \in Group, NEW p \in Group, CssOnline(g, p) PROVE Types'
  <2>1. [period |-> DefPeriod, runtime |-> 0] \in Bandwidth
    <3>1. sysctl.period \in Nat /\ handler.old.period \in Nat
      BY DEF Types, HandlerRecord, Bandwidth
    <3> QED
      BY <3>1 DEF DefPeriod, Bandwidth
  <2>2. [period |-> CfsDefault, runtime |-> -1] \in Bandwidth
    BY DEF Bandwidth, SchedGroupsAssumption
  <2>3. rt' \in [Group -> Bandwidth]
    BY <1>3, <2>1 DEF CssOnline, Types
  <2>4. cfs' \in [Group -> Bandwidth]
    BY <1>3, <2>2 DEF CssOnline, Types
  <2>5. enabled' \in [Group -> [CPU -> BOOLEAN]]
    BY <1>3 DEF CssOnline, Types
  <2> QED
    BY <1>3, <2>3, <2>4, <2>5 DEF CssOnline, Types, limitVars
<1>4. CASE (\E g \in Group : CssOffline(g)) \/ Tasks \/ UNCHANGED vars
  BY <1>4, TaskSteps DEF CssOffline, TaskStep, Types, vars, bwVars, limitVars
<1> QED
  BY <1>1, <1>2, <1>3, <1>4 DEF Next
-----------------------------------------------------------------------------
(* The tree and the calls                                                  *)

LEMMA TreeNames ==
  /\ Online = In(parent) /\ Ancestors = Above(parent)
  /\ \A g : Children(g) = Below(parent, g)
BY DEF Online, In, Ancestors, Above, Children, Below

\* What CssOnline and CssOffline do to the tree.
LEMMA OnlineAdds ==
  ASSUME SchedGroupsAssumption, IsTree(parent), NEW g \in Group, NEW p \in Group, CssOnline(g, p)
  PROVE  Adds(parent, g, p, parent') /\ Added(parent, g, p, parent')
<1>1. Adds(parent, g, p, parent')
  BY TreeNames DEF CssOnline, Adds
<1>2. \A par2 : Adds(parent, g, p, par2) => Added(parent, g, p, par2)
  BY AddLeaf
<1> QED
  BY <1>1, <1>2

LEMMA OfflineCuts ==
  ASSUME SchedGroupsAssumption, IsTree(parent), NEW g \in Group, CssOffline(g)
  PROVE  Cuts(parent, g, parent') /\ Cut(parent, g, parent')
<1>1. Cuts(parent, g, parent')
  BY TreeNames DEF CssOffline, Cuts
<1>2. \A par2 : Cuts(parent, g, par2) => Cut(parent, g, par2)
  BY CutLeaf
<1> QED
  BY <1>1, <1>2

\* The other steps leave the tree alone.
LEMMA TreeUnchanged ==
  ASSUME SchedGroupsAssumption, Types, [Next]_vars
  PROVE  \/ \E g \in Group, p \in Group : CssOnline(g, p)
         \/ \E g \in Group : CssOffline(g)
         \/ parent' = parent
<1>1. ASSUME NEW w \in Writer, Files(w) PROVE parent' = parent
  <2>1. FileStep(w)
    BY <1>1, FileSteps
  <2> QED
    BY <2>1 DEF FileStep, Start, RtRefused, RtChecked, RtSet, CfsRefused, CfsChecked, CfsSet,
                CfsDone, CfsRq
<1>2. ASSUME Handler PROVE parent' = parent
  <2>1. HandlerMove
    BY <1>2, HandlerSteps
  <2> QED
    BY <2>1 DEF HandlerMove, HandlerWrite, HandlerValidate, HandlerRt, HandlerDl, HandlerStep,
                HandlerUndo
<1>3. CASE Tasks \/ UNCHANGED vars
  BY <1>3, TaskSteps DEF TaskStep, vars
<1> QED
  BY SMTT(45), <1>1, <1>2, <1>3 DEF Next

\* The groups stay a tree.
LEMMA TreeStep ==
  ASSUME SchedGroupsAssumption, Types, IsTree(parent), [Next]_vars
  PROVE  IsTree(parent')
<1>1. ASSUME NEW g \in Group, NEW p \in Group, CssOnline(g, p) PROVE IsTree(parent')
  BY <1>1, OnlineAdds DEF Added
<1>2. ASSUME NEW g \in Group, CssOffline(g) PROVE IsTree(parent')
  BY <1>2, OfflineCuts DEF Cut
<1> QED
  BY <1>1, <1>2, TreeUnchanged

CfsPlaces == {"cfsSet", "cfsOn", "cfsOff", "cfsDec"}

\* A call is for a group that stays, and each mutex has one holder.
OpInv ==
    /\ \A w \in Writer : /\ op[w].pc # "none" => op[w].group \in In(parent)
                         /\ op[w].pc \in {"cfs"} \cup CfsPlaces => op[w].group # Root
    /\ \A v, w \in Writer : /\ op[v].pc = "rtSet" /\ op[w].pc = "rtSet" => v = w
                            /\ op[v].pc \in CfsPlaces /\ op[w].pc \in CfsPlaces => v = w

\* A step of w alone: it is enough to look at where w is afterwards.
LEMMA OpInvMove ==
  ASSUME OpInv, In(parent') = In(parent), NEW w \in Writer, NEW pc, NEW g, NEW bw, NEW todo,
         OpTo(w, pc, g, bw, todo), pc # "none" => g \in In(parent),
         pc \in {"cfs"} \cup CfsPlaces => g # Root,
         pc = "rtSet" => RtMutexFree,
         pc \in CfsPlaces => op[w].pc \in CfsPlaces \/ CfsMutexFree
  PROVE  OpInv'
<1>1. op'[w].pc = pc /\ op'[w].group = g /\ \A v \in Writer \ {w} : op'[v] = op[v]
  BY DEF OpTo
<1>2. \A v \in Writer : /\ op'[v].pc # "none" => op'[v].group \in In(parent)
                        /\ op'[v].pc \in {"cfs"} \cup CfsPlaces => op'[v].group # Root
  BY <1>1 DEF OpInv
<1>3. ASSUME NEW u \in Writer, NEW v \in Writer, op'[u].pc = "rtSet", op'[v].pc = "rtSet"
      PROVE  u = v
  BY <1>1, <1>3 DEF OpInv, RtMutexFree
<1>4. ASSUME NEW u \in Writer, NEW v \in Writer, op'[u].pc \in CfsPlaces, op'[v].pc \in CfsPlaces
      PROVE  u = v
  BY <1>1, <1>4 DEF OpInv, CfsMutexFree, CfsPlaces
<1> QED
  BY <1>2, <1>3, <1>4 DEF OpInv

LEMMA OpInvStep ==
  ASSUME SchedGroupsAssumption, Types, IsTree(parent), OpInv, [Next]_vars
  PROVE  OpInv'
<1>1. ASSUME NEW w \in Writer, Files(w) PROVE OpInv'
  <2>1. FileStep(w)
    BY SMTT(45), <1>1, FileSteps
  <2>2. In(parent') = In(parent)
    BY <2>1 DEF FileStep, Start, RtRefused, RtChecked, RtSet, CfsRefused, CfsChecked, CfsSet,
                CfsDone, CfsRq
  <2>3. ASSUME NEW g \in Group, NEW bw \in Bandwidth, Start(w, g, "rt", bw) PROVE OpInv'
    <3>1. OpTo(w, "rt", g, bw, {}) /\ g \in In(parent)
      BY <2>3, OpStart, TreeNames DEF Places, Start
    <3> QED
      BY <2>2, <3>1, OpInvMove DEF CfsPlaces
  <2>4. ASSUME NEW g \in Group \ {Root}, NEW bw \in Bandwidth, Start(w, g, "cfs", bw) PROVE OpInv'
    <3>1. OpTo(w, "cfs", g, bw, {}) /\ g \in In(parent)
      BY <2>4, OpStart, TreeNames DEF Places, Start
    <3> QED
      BY <2>2, <3>1, OpInvMove DEF CfsPlaces
  <2>5. CASE RtRefused(w) \/ RtSet(w) \/ CfsRefused(w) \/ CfsDone(w)
    <3>1. OpTo(w, "none", NoGroup, NoBw, {})
      BY <2>5, FileOps
    <3> QED
      BY <2>2, <3>1, OpInvMove DEF CfsPlaces
  <2>6. CASE RtChecked(w)
    <3>1. OpTo(w, "rtSet", op[w].group, op[w].bw, op[w].todo) /\ RtMutexFree
      BY <2>6, FileOps DEF RtChecked
    <3>2. op[w].group \in In(parent)
      BY <2>6 DEF RtChecked, OpInv
    <3> QED
      BY <2>2, <3>1, <3>2, OpInvMove DEF CfsPlaces
  <2>7. CASE CfsChecked(w)
    <3>1. OpTo(w, "cfsSet", op[w].group, op[w].bw, op[w].todo) /\ CfsMutexFree
      BY <2>7, FileOps DEF CfsChecked
    <3>2. op[w].group \in In(parent) /\ op[w].group # Root
      BY <2>7 DEF CfsChecked, OpInv
    <3> QED
      BY <2>2, <3>1, <3>2, OpInvMove DEF CfsPlaces
  <2>8. CASE CfsSet(w)
    <3>1. OpTo(w, AfterSet(w), op[w].group, op[w].bw, CPU) /\ op[w].pc = "cfsSet"
      BY <2>8, FileOps DEF CfsSet
    <3>2. op[w].group \in In(parent) /\ op[w].group # Root
      BY <3>1 DEF CfsPlaces, OpInv
    <3>3. AfterSet(w) # "rtSet"
      BY DEF AfterSet
    <3> QED
      BY <2>2, <3>1, <3>2, <3>3, OpInvMove DEF CfsPlaces
  <2>9. ASSUME NEW c \in CPU, CfsRq(w, c) PROVE OpInv'
    <3>1. OpTo(w, op[w].pc, op[w].group, op[w].bw, op[w].todo \ {c})
      BY <2>9, FileOps
    <3>2. /\ op'[w].pc = op[w].pc /\ op'[w].group = op[w].group
          /\ \A v \in Writer \ {w} : op'[v] = op[v]
      BY <3>1 DEF OpTo
    <3>3. \A v \in Writer : op'[v].pc = op[v].pc /\ op'[v].group = op[v].group
      BY <3>2
    <3> QED
      BY <2>2, <3>3 DEF OpInv
  <2> QED
    BY <2>1, <2>3, <2>4, <2>5, <2>6, <2>7, <2>8, <2>9 DEF FileStep
<1>2. ASSUME Handler PROVE OpInv'
  <2>1. HandlerMove
    BY <1>2, HandlerSteps
  <2>2. parent' = parent /\ op' = op
    BY <2>1 DEF HandlerMove, HandlerWrite, HandlerValidate, HandlerRt, HandlerDl, HandlerStep,
                HandlerUndo
  <2> QED
    BY <2>2 DEF OpInv
<1>3. ASSUME NEW g \in Group, NEW p \in Group, CssOnline(g, p) PROVE OpInv'
  <2>1. In(parent') = In(parent) \cup {g} /\ op' = op
    BY <1>3, OnlineAdds DEF Added, CssOnline
  <2> QED
    BY <2>1 DEF OpInv
<1>4. ASSUME NEW g \in Group, CssOffline(g) PROVE OpInv'
  <2>1. In(parent') = In(parent) \ {g} /\ op' = op /\ \A w \in Writer : op[w].group # g
    BY <1>4, OfflineCuts DEF Cut, CssOffline
  <2> QED
    BY <2>1 DEF OpInv
<1>5. CASE Tasks \/ UNCHANGED vars
  <2>1. parent' = parent /\ op' = op
    BY <1>5, TaskSteps DEF TaskStep, vars
  <2> QED
    BY <2>1 DEF OpInv
<1> QED
  BY <1>1, <1>2, <1>3, <1>4, <1>5 DEF Next
-----------------------------------------------------------------------------
(* Real-time bandwidth                                                     *)

\* A ratio that was checked against the sysctls, or against what they were.
Bound(x) ==
    \/ x <= to_ratio(sysctl)
    \/ handler.pc # "dl" /\ x <= refused
    \/ handler.pc \notin {"none", "dl"} /\ x <= to_ratio(handler.old)

\* A value that was checked is as good as one that is set: the mutex is kept
\* between the walk and the assignment, and groups that come have nothing yet.
RtInv ==
    /\ SumsIn(parent, rt)
    /\ \A g \in In(parent) : Bound(to_ratio(rt[g]))
    /\ \A w \in Writer : op[w].pc = "rtSet" =>
            SumsIn(parent, With(rt, op[w].group, op[w].bw)) /\ Bound(to_ratio(op[w].bw))

LEMMA WithType ==
  ASSUME NEW b \in [Group -> Bandwidth], NEW g, NEW bw \in Bandwidth
  PROVE  With(b, g, bw) \in [Group -> Bandwidth]
BY DEF With

\* What the walk of the tree finds.
LEMMA RtSchedulableSums ==
  ASSUME NEW g, NEW bw, RtSchedulable(g, bw)
  PROVE  /\ SumsIn(parent, With(rt, g, bw))
         /\ \A x \in In(parent) : to_ratio(With(rt, g, bw)[x]) <= to_ratio(sysctl)
BY TreeNames DEF RtSchedulable, ChildRatios, SumsIn, Ratios

\* The handler moves on: what was within the limits is within them.
LEMMA BoundHandler ==
  ASSUME SchedGroupsAssumption, Types, HandlerMove, NEW x \in Nat, Bound(x),
         HandlerRt /\ RtSchedulable(NoGroup, NoBw) => x <= to_ratio(sysctl)
  PROVE  Bound(x)'
<1>1. handler \in HandlerRecord /\ handler.old \in Bandwidth /\ sysctl \in Bandwidth
  BY DEF Types, HandlerRecord
<1>2. to_ratio(sysctl) \in Nat /\ refused \in Nat /\ to_ratio(handler.old) \in Nat
  BY <1>1, RatioType DEF Types
<1>3. CASE \E new \in Bandwidth : HandlerWrite(new)
  <2>1. handler.pc = "none" /\ handler'.pc = "validate" /\ handler'.old = sysctl /\ refused' = refused
    BY <1>3 DEF HandlerWrite
  <2> QED
    BY <2>1 DEF Bound
<1>4. CASE HandlerValidate
  <2>1. /\ handler.pc = "validate" /\ handler'.pc \in {"rt", "undo"} /\ handler'.old = handler.old
        /\ UNCHANGED <<sysctl, refused>>
    BY <1>1, <1>4 DEF HandlerValidate, HandlerStep, HandlerRecord
  <2> QED
    BY <2>1 DEF Bound
<1>5. CASE HandlerRt
  <2>1. /\ handler.pc = "rt" /\ handler'.pc \in {"dl", "undo"} /\ handler'.old = handler.old
        /\ UNCHANGED <<sysctl, refused>>
        /\ handler'.pc = "dl" => RtSchedulable(NoGroup, NoBw)
    BY <1>1, <1>5 DEF HandlerRt, HandlerStep, HandlerRecord
  <2> QED
    BY <1>5, <2>1 DEF Bound
<1>6. CASE HandlerDl
  <2>1. handler.pc = "dl" /\ UNCHANGED <<sysctl, refused>>
    BY <1>6 DEF HandlerDl, HandlerStep
  <2> QED
    BY <2>1 DEF Bound
<1>7. CASE HandlerUndo
  <2>1. /\ sysctl' = handler.old /\ refused' = Max({refused, to_ratio(sysctl)})
        /\ handler'.pc = "none"
    BY <1>1, <1>7 DEF HandlerUndo, HandlerRecord
  <2>2. /\ refused' \in Nat /\ refused <= refused' /\ to_ratio(sysctl) <= refused'
    BY <1>2, <2>1, MaxOfTwo
  <2>3. to_ratio(sysctl') = to_ratio(handler.old)
    BY <2>1
  <2> QED
    BY <1>2, <2>1, <2>2, <2>3 DEF Bound
<1> QED
  BY <1>3, <1>4, <1>5, <1>6, <1>7 DEF HandlerMove

LEMMA RtInvStep ==
  ASSUME SchedGroupsAssumption, Types, IsTree(parent), OpInv, RtInv, [Next]_vars
  PROVE  RtInv'
<1>1. /\ rt \in [Group -> Bandwidth]
      /\ \A w \in Writer : op[w].bw \in Bandwidth
      /\ \A g \in Group : rt[g] \in Bandwidth
      /\ In(parent) \subseteq Group
  BY SchedGroupsAssumption DEF Types, OpRecord, In, SchedGroupsAssumption
<1>2. ASSUME NEW w \in Writer, Files(w) PROVE RtInv'
  <2>1. FileStep(w)
    BY SMTT(45), <1>2, FileSteps
  <2>2. parent' = parent /\ UNCHANGED limitVars
    BY <2>1 DEF FileStep, Start, RtRefused, RtChecked, RtSet, CfsRefused, CfsChecked, CfsSet,
                CfsDone, CfsRq
  <2>3. \A x : Bound(x)' <=> Bound(x)
    BY <2>2 DEF Bound, limitVars
  <2>4. ASSUME rt' = rt, op'[w].pc # "rtSet", \A v \in Writer \ {w} : op'[v] = op[v] PROVE RtInv'
    BY <2>2, <2>3, <2>4 DEF RtInv
  <2>5. ASSUME NEW g \in Group, NEW bw \in Bandwidth, NEW place \in {"rt", "cfs"},
               Start(w, g, place, bw)
        PROVE  RtInv'
    <3>1. OpTo(w, place, g, bw, {}) /\ rt' = rt
      BY <2>5, OpStart DEF Places, Start, bwVars
    <3> QED
      BY <2>4, <3>1 DEF OpTo
  <2>6. CASE RtRefused(w) \/ CfsRefused(w) \/ CfsDone(w)
    <3>1. OpTo(w, "none", NoGroup, NoBw, {}) /\ rt' = rt
      BY <2>6, FileOps DEF RtRefused, CfsRefused, CfsDone, bwVars
    <3> QED
      BY <2>4, <3>1 DEF OpTo
  <2>7. CASE CfsChecked(w)
    <3>1. OpTo(w, "cfsSet", op[w].group, op[w].bw, op[w].todo) /\ rt' = rt
      BY <2>7, FileOps DEF CfsChecked
    <3> QED
      BY <2>4, <3>1 DEF OpTo
  <2>8. CASE CfsSet(w)
    <3>1. OpTo(w, AfterSet(w), op[w].group, op[w].bw, CPU) /\ rt' = rt
      BY <2>8, FileOps DEF CfsSet
    <3>2. AfterSet(w) # "rtSet"
      BY DEF AfterSet
    <3> QED
      BY <2>4, <3>1, <3>2 DEF OpTo
  <2>9. ASSUME NEW c \in CPU, CfsRq(w, c) PROVE RtInv'
    <3>1. OpTo(w, op[w].pc, op[w].group, op[w].bw, op[w].todo \ {c}) /\ rt' = rt
      BY <2>9, FileOps DEF CfsRq
    <3>2. \A v \in Writer : /\ op'[v].pc = op[v].pc /\ op'[v].group = op[v].group
                            /\ op'[v].bw = op[v].bw
      BY <3>1 DEF OpTo
    <3> QED
      BY <2>2, <2>3, <3>1, <3>2 DEF RtInv
  <2>10. CASE RtChecked(w)
    <3>1. OpTo(w, "rtSet", op[w].group, op[w].bw, op[w].todo) /\ rt' = rt
      BY <2>10, FileOps DEF RtChecked, bwVars
    <3>2. op[w].group \in In(parent)
      BY <2>10 DEF RtChecked, OpInv
    <3>3. /\ SumsIn(parent, With(rt, op[w].group, op[w].bw))
          /\ \A x \in In(parent) : to_ratio(With(rt, op[w].group, op[w].bw)[x]) <= to_ratio(sysctl)
      BY <2>10, RtSchedulableSums DEF RtChecked
    <3>4. Bound(to_ratio(op[w].bw))
      <4>1. With(rt, op[w].group, op[w].bw)[op[w].group] = op[w].bw
        BY <1>1, <3>2 DEF With
      <4> QED
        BY <3>2, <3>3, <4>1 DEF Bound
    <3> QED
      BY <2>2, <2>3, <3>1, <3>3, <3>4 DEF RtInv, OpTo
  <2>11. CASE RtSet(w)
    <3>1. OpTo(w, "none", NoGroup, NoBw, {}) /\ op[w].pc = "rtSet"
      BY <2>11, FileOps DEF RtSet
    <3>2. rt' = With(rt, op[w].group, op[w].bw)
      BY <1>1, <2>11 DEF RtSet, With
    <3>3. \A v \in Writer : op'[v].pc # "rtSet"
      BY <3>1 DEF OpTo, OpInv
    <3>4. SumsIn(parent, rt')
      BY <3>1, <3>2 DEF RtInv
    <3>5. \A g \in In(parent) : Bound(to_ratio(rt'[g]))
      <4>1. \A g \in In(parent) : rt'[g] = IF g = op[w].group THEN op[w].bw ELSE rt[g]
        BY <1>1, <3>2 DEF With
      <4> QED
        BY <3>1, <4>1 DEF RtInv
    <3> QED
      BY <2>2, <2>3, <3>3, <3>4, <3>5 DEF RtInv
  <2> QED
    BY <2>1, <2>5, <2>6, <2>7, <2>8, <2>9, <2>10, <2>11 DEF FileStep
<1>3. ASSUME Handler PROVE RtInv'
  <2>1. HandlerMove
    BY <1>3, HandlerSteps
  <2>2. UNCHANGED <<parent, rt, op>>
    BY <2>1 DEF HandlerMove, HandlerWrite, HandlerValidate, HandlerRt, HandlerDl, HandlerStep,
                HandlerUndo, bwVars
  <2>3. ASSUME NEW g \in In(parent) PROVE Bound(to_ratio(rt[g]))'
    <3>1. to_ratio(rt[g]) \in Nat /\ Bound(to_ratio(rt[g]))
      BY <1>1, RatioType DEF RtInv
    <3>2. ASSUME HandlerRt, RtSchedulable(NoGroup, NoBw) PROVE to_ratio(rt[g]) <= to_ratio(sysctl)
      <4>1. With(rt, NoGroup, NoBw)[g] = rt[g]
        BY <1>1, SchedGroupsAssumption DEF With, SchedGroupsAssumption
      <4> QED
        BY <3>2, <4>1, RtSchedulableSums
    <3>3. PICK x \in Nat : x = to_ratio(rt[g])
      BY <3>1
    <3>4. Bound(x)'
      BY <2>1, <3>1, <3>2, <3>3, BoundHandler
    <3>5. x = to_ratio(rt'[g])
      BY <2>2, <3>3
    <3> QED
      BY <3>4, <3>5
  <2>4. ASSUME NEW w \in Writer, op[w].pc = "rtSet" PROVE Bound(to_ratio(op[w].bw))'
    <3>1. to_ratio(op[w].bw) \in Nat /\ Bound(to_ratio(op[w].bw))
      BY <1>1, <2>4, RatioType DEF RtInv
    <3>2. ~HandlerRt
      BY <2>4 DEF HandlerRt, RtMutexFree
    <3>3. PICK x \in Nat : x = to_ratio(op[w].bw)
      BY <3>1
    <3>4. Bound(x)'
      BY <2>1, <3>1, <3>2, <3>3, BoundHandler
    <3>5. x = to_ratio(op'[w].bw)
      BY <2>2, <3>3
    <3> QED
      BY <3>4, <3>5
  <2> QED
    BY <2>2, <2>3, <2>4 DEF RtInv
<1>4. ASSUME NEW g \in Group, NEW p \in Group, CssOnline(g, p) PROVE RtInv'
  <2>1. Adds(parent, g, p, parent') /\ Added(parent, g, p, parent')
    BY <1>4, OnlineAdds
  <2>2. op' = op /\ UNCHANGED limitVars
    BY <1>4 DEF CssOnline
  <2>3. \A x : Bound(x)' <=> Bound(x)
    BY <2>2 DEF Bound, limitVars
  <2>4. /\ rt' \in [Group -> Bandwidth] /\ rt'[g].runtime = 0
        /\ \A x \in Group \ {g} : rt'[x] = rt[x]
    <3>1. Types'
      BY <1>4, TypesStep DEF Next
    <3> QED
      BY <1>1, <1>4, <3>1 DEF CssOnline, Types
  <2>5. SumsIn(parent', rt')
    BY <1>1, <2>1, <2>4, SumsAdd DEF RtInv
  <2>6. \A x \in In(parent') : Bound(to_ratio(rt'[x]))
    <3>1. to_ratio(rt'[g]) = 0 /\ to_ratio(sysctl) \in Nat
      BY <2>4, NoRatio, RatioType DEF Types
    <3>2. Bound(to_ratio(rt'[g]))
      BY <3>1 DEF Bound
    <3> QED
      BY <1>1, <2>1, <2>4, <3>2 DEF Added, RtInv
  <2>7. ASSUME NEW w \in Writer, op[w].pc = "rtSet"
        PROVE  SumsIn(parent', With(rt', op[w].group, op[w].bw))
    <3>1. op[w].group \in In(parent) /\ op[w].group # g /\ op[w].bw \in Bandwidth
      BY <1>1, <1>4, <2>7, TreeNames DEF OpInv, CssOnline
    <3>2. PICK b \in [Group -> Bandwidth] : b = With(rt, op[w].group, op[w].bw)
      BY <1>1, WithType
    <3>3. PICK c \in [Group -> Bandwidth] : c = With(rt', op[w].group, op[w].bw)
      BY <1>1, <2>4, WithType
    <3>4. c[g].runtime = 0 /\ \A x \in Group \ {g} : c[x] = b[x]
      BY <2>4, <3>1, <3>2, <3>3 DEF With
    <3>5. SumsIn(parent, b)
      BY <2>7, <3>2 DEF RtInv
    <3>6. SumsIn(parent', c)
      BY <2>1, <3>4, <3>5, SumsAdd
    <3> QED
      BY <3>3, <3>6
  <2> QED
    BY <2>2, <2>3, <2>5, <2>6, <2>7 DEF RtInv
<1>5. ASSUME NEW g \in Group, CssOffline(g) PROVE RtInv'
  <2>1. Cuts(parent, g, parent') /\ Cut(parent, g, parent')
    BY <1>5, OfflineCuts
  <2>2. op' = op /\ rt' = rt /\ UNCHANGED limitVars
    BY <1>5 DEF CssOffline, bwVars
  <2>3. \A x : Bound(x)' <=> Bound(x)
    BY <2>2 DEF Bound, limitVars
  <2>4. SumsIn(parent', rt)
    BY <1>1, <2>1, SumsCut DEF RtInv
  <2>5. ASSUME NEW w \in Writer, op[w].pc = "rtSet"
        PROVE  SumsIn(parent', With(rt, op[w].group, op[w].bw))
    <3>1. PICK b \in [Group -> Bandwidth] : b = With(rt, op[w].group, op[w].bw)
      BY <1>1, WithType
    <3>2. SumsIn(parent, b)
      BY <2>5, <3>1 DEF RtInv
    <3>3. SumsIn(parent', b)
      BY <2>1, <3>2, SumsCut
    <3> QED
      BY <3>1, <3>3
  <2> QED
    BY <2>1, <2>2, <2>3, <2>4, <2>5 DEF RtInv, Cut
<1>6. CASE Tasks \/ UNCHANGED vars
  <2>1. UNCHANGED <<parent, rt, op, sysctl, handler, refused>>
    BY <1>6, TaskSteps DEF TaskStep, vars, bwVars, limitVars
  <2> QED
    BY <2>1 DEF RtInv, Bound
<1> QED
  BY <1>2, <1>3, <1>4, <1>5, <1>6 DEF Next
-----------------------------------------------------------------------------
(* CFS bandwidth                                                           *)

\* A value that was checked is as good as one that is set.
CfsInv ==
    /\ NestedIn(parent, cfs) /\ ~Limited(cfs, Root)
    /\ \A w \in Writer : op[w].pc = "cfsSet" => NestedIn(parent, With(cfs, op[w].group, op[w].bw))

LEMMA CfsInvStep ==
  ASSUME SchedGroupsAssumption, Types, IsTree(parent), OpInv, CfsInv, [Next]_vars
  PROVE  CfsInv'
<1>1. /\ cfs \in [Group -> Bandwidth] /\ Root \in Group
      /\ \A w \in Writer : op[w].bw \in Bandwidth
      /\ In(parent) \subseteq Group
  BY SchedGroupsAssumption DEF Types, OpRecord, In, SchedGroupsAssumption
<1>2. ASSUME NEW w \in Writer, Files(w) PROVE CfsInv'
  <2>1. FileStep(w)
    BY <1>2, FileSteps
  <2>2. parent' = parent
    BY <2>1 DEF FileStep, Start, RtRefused, RtChecked, RtSet, CfsRefused, CfsChecked, CfsSet,
                CfsDone, CfsRq
  <2>3. ASSUME cfs' = cfs, op'[w].pc # "cfsSet", \A v \in Writer \ {w} : op'[v] = op[v] PROVE CfsInv'
    BY <2>2, <2>3 DEF CfsInv
  <2>4. ASSUME NEW g \in Group, NEW bw \in Bandwidth, NEW place \in {"rt", "cfs"},
               Start(w, g, place, bw)
        PROVE  CfsInv'
    <3>1. OpTo(w, place, g, bw, {}) /\ cfs' = cfs
      BY <2>4, OpStart DEF Places, Start, bwVars
    <3> QED
      BY <2>3, <3>1 DEF OpTo
  <2>5. CASE RtRefused(w) \/ RtSet(w) \/ CfsRefused(w) \/ CfsDone(w)
    <3>1. OpTo(w, "none", NoGroup, NoBw, {}) /\ cfs' = cfs
      BY <2>5, FileOps DEF RtRefused, RtSet, CfsRefused, CfsDone, bwVars
    <3> QED
      BY <2>3, <3>1 DEF OpTo
  <2>6. CASE RtChecked(w)
    <3>1. OpTo(w, "rtSet", op[w].group, op[w].bw, op[w].todo) /\ cfs' = cfs
      BY <2>6, FileOps DEF RtChecked, bwVars
    <3> QED
      BY <2>3, <3>1 DEF OpTo
  <2>7. ASSUME NEW c \in CPU, CfsRq(w, c) PROVE CfsInv'
    <3>1. OpTo(w, op[w].pc, op[w].group, op[w].bw, op[w].todo \ {c}) /\ cfs' = cfs
      BY <2>7, FileOps DEF CfsRq
    <3>2. \A v \in Writer : /\ op'[v].pc = op[v].pc /\ op'[v].group = op[v].group
                            /\ op'[v].bw = op[v].bw
      BY <3>1 DEF OpTo
    <3> QED
      BY <2>2, <3>1, <3>2 DEF CfsInv
  <2>8. CASE CfsChecked(w)
    <3>1. OpTo(w, "cfsSet", op[w].group, op[w].bw, op[w].todo) /\ cfs' = cfs
      BY <2>8, FileOps DEF CfsChecked
    <3>2. op[w].group \in Group \ {Root}
      BY <1>1, <2>8 DEF CfsChecked, OpInv
    <3>3. NestedIn(parent, With(cfs, op[w].group, op[w].bw))
      BY <1>1, <2>8, <3>2, CfsSchedulableNests DEF CfsChecked, CfsInv
    <3> QED
      BY <2>2, <3>1, <3>3 DEF CfsInv, OpTo
  <2>9. CASE CfsSet(w)
    <3>1. OpTo(w, AfterSet(w), op[w].group, op[w].bw, CPU) /\ op[w].pc = "cfsSet"
      BY <2>9, FileOps DEF CfsSet
    <3>2. cfs' = With(cfs, op[w].group, op[w].bw)
      BY <1>1, <2>9 DEF CfsSet, With
    <3>3. \A v \in Writer : op'[v].pc # "cfsSet"
      BY <3>1 DEF OpTo, OpInv, CfsPlaces, AfterSet
    <3>4. NestedIn(parent, cfs')
      BY <3>1, <3>2 DEF CfsInv
    <3>5. ~Limited(cfs', Root)
      <4>1. op[w].group # Root
        BY <3>1 DEF OpInv, CfsPlaces
      <4> QED
        BY <1>1, <3>2, <4>1 DEF With, Limited, CfsInv
    <3> QED
      BY <2>2, <3>3, <3>4, <3>5 DEF CfsInv, Limited
  <2> QED
    BY SMTT(45), <2>1, <2>4, <2>5, <2>6, <2>7, <2>8, <2>9 DEF FileStep
<1>3. CASE Handler \/ Tasks \/ UNCHANGED vars
  <2>1. UNCHANGED <<parent, cfs, op>>
    <3>1. Handler => HandlerMove
      BY HandlerSteps
    <3> QED
      BY <1>3, <3>1, TaskSteps
      DEF HandlerMove, HandlerWrite, HandlerValidate, HandlerRt, HandlerDl, HandlerStep,
          HandlerUndo, TaskStep, vars, bwVars
  <2> QED
    BY <2>1 DEF CfsInv, Limited
<1>4. ASSUME NEW g \in Group, NEW p \in Group, CssOnline(g, p) PROVE CfsInv'
  <2>1. Adds(parent, g, p, parent') /\ g # Root
    BY <1>4, OnlineAdds DEF Adds, In
  <2>2. op' = op /\ ~Limited(cfs', g) /\ \A x \in Group \ {g} : cfs'[x] = cfs[x]
    BY <1>1, <1>4 DEF CssOnline, Limited
  <2>3. NestedIn(parent', cfs')
    <3>1. \A c : ~Limited(c, g) /\ (\A x \in Group \ {g} : c[x] = cfs[x]) => NestedIn(parent', c)
      BY <2>1, NestedAdd DEF CfsInv
    <3> QED
      BY <2>2, <3>1
  <2>4. ASSUME NEW w \in Writer, op[w].pc = "cfsSet"
        PROVE  NestedIn(parent', With(cfs', op[w].group, op[w].bw))
    <3>1. op[w].group \in In(parent) /\ op[w].group # g
      BY <1>4, <2>4, TreeNames DEF OpInv, CssOnline
    <3>2. PICK b : b = With(cfs, op[w].group, op[w].bw)
      OBVIOUS
    <3>3. PICK c : c = With(cfs', op[w].group, op[w].bw)
      OBVIOUS
    <3>4. ~Limited(c, g) /\ \A x \in Group \ {g} : c[x] = b[x]
      BY <2>2, <3>1, <3>2, <3>3 DEF With, Limited
    <3>5. NestedIn(parent, b)
      BY <2>4, <3>2 DEF CfsInv
    <3>6. NestedIn(parent', c)
      BY <2>1, <3>4, <3>5, NestedAdd
    <3> QED
      BY <3>3, <3>6
  <2>5. ~Limited(cfs', Root)
    BY <1>1, <2>1, <2>2 DEF CfsInv, Limited
  <2> QED
    BY <2>2, <2>3, <2>4, <2>5 DEF CfsInv, Limited
<1>5. ASSUME NEW g \in Group, CssOffline(g) PROVE CfsInv'
  <2>1. Cuts(parent, g, parent')
    BY <1>5, OfflineCuts
  <2>2. op' = op /\ cfs' = cfs
    BY <1>5 DEF CssOffline, bwVars
  <2>3. \A b : NestedIn(parent, b) => NestedIn(parent', b)
    BY <2>1, NestedCut
  <2> QED
    BY <2>2, <2>3 DEF CfsInv, Limited
<1> QED
  BY <1>2, <1>3, <1>4, <1>5 DEF Next

-----------------------------------------------------------------------------
(* The users of the accounting                                             *)

\* A limit that is set, or was checked and is about to be, or that run queues had
\* and that is about to be given up.
Covered ==
    {g \in In(parent) :
        \/ Limited(cfs, g)
        \/ \E c \in CPU : enabled[g][c]
        \/ \E w \in Writer : /\ op[w].group = g
                             /\ \/ op[w].pc = "cfsDec"
                                \/ op[w].pc = "cfsSet" /\ op[w].bw.runtime # -1}

\* cfs_used counts them, and who else has a run queue enabled is being seen to.
UsedInv ==
    /\ cfs_used >= Cardinality(Covered)
    /\ \A w \in Writer : /\ op[w].pc = "cfsOn" => Limited(cfs, op[w].group)
                         /\ op[w].pc \in {"cfsOff", "cfsDec"} => ~Limited(cfs, op[w].group)
    /\ \A g \in In(parent), c \in CPU :
            enabled[g][c] => \/ Limited(cfs, g)
                             \/ \E w \in Writer : /\ op[w].group = g /\ op[w].pc = "cfsDec"
                                                  /\ c \in op[w].todo

LEMMA CoveredFinite ==
  ASSUME SchedGroupsAssumption
  PROVE  IsFiniteSet(Covered) /\ IsFiniteSet(Covered') /\ Cardinality(Covered) \in Nat
         /\ Cardinality(Covered') \in Nat
<1>1. Covered \subseteq Group /\ Covered' \subseteq Group /\ IsFiniteSet(Group)
  BY SchedGroupsAssumption DEF Covered, In, SchedGroupsAssumption
<1> QED
  BY <1>1, FS_Subset, FS_CardinalityType

\* No more to count, and as many counted.
LEMMA UsedKept ==
  ASSUME SchedGroupsAssumption, Types, cfs_used >= Cardinality(Covered),
         cfs_used' = cfs_used, Covered' \subseteq Covered
  PROVE  cfs_used' >= Cardinality(Covered')
<1>1. Cardinality(Covered') <= Cardinality(Covered)
  BY CoveredFinite, FS_Subset
<1> QED
  BY <1>1, CoveredFinite DEF Types

LEMMA UsedInvStep ==
  ASSUME SchedGroupsAssumption, Types, IsTree(parent), OpInv, UsedInv, [Next]_vars
  PROVE  UsedInv'
<1>1. /\ cfs \in [Group -> Bandwidth] /\ enabled \in [Group -> [CPU -> BOOLEAN]]
      /\ cfs_used \in Int /\ In(parent) \subseteq Group /\ NoGroup \notin Group
      /\ \A w \in Writer : op[w] \in OpRecord /\ op[w].bw \in Bandwidth
  BY SchedGroupsAssumption DEF Types, OpRecord, In, SchedGroupsAssumption
<1>2. /\ cfs_used >= Cardinality(Covered)
      /\ Cardinality(Covered) \in Nat /\ Cardinality(Covered') \in Nat
      /\ IsFiniteSet(Covered) /\ IsFiniteSet(Covered')
  BY CoveredFinite DEF UsedInv
<1>3. ASSUME NEW w \in Writer, Files(w) PROVE UsedInv'
  <2>1. FileStep(w)
    BY <1>3, FileSteps
  <2>2. parent' = parent
    BY <2>1 DEF FileStep, Start, RtRefused, RtChecked, RtSet, CfsRefused, CfsChecked, CfsSet,
                CfsDone, CfsRq
  <2>3. ASSUME UNCHANGED <<cfs, enabled, cfs_used>>, op[w].pc \notin CfsPlaces,
               op'[w].pc \notin CfsPlaces, \A v \in Writer \ {w} : op'[v] = op[v]
        PROVE  UsedInv'
    <3>1. \A v \in Writer : op'[v].pc \in CfsPlaces => op'[v] = op[v]
      BY <2>3
    <3>2. Covered' \subseteq Covered
      BY <2>2, <2>3, <3>1 DEF Covered, Limited, CfsPlaces
    <3>3. cfs_used' >= Cardinality(Covered')
      BY <1>2, <2>3, <3>2, UsedKept
    <3>4. \A v \in Writer : op[v].pc \in CfsPlaces => op'[v] = op[v]
      BY <2>3
    <3> QED
      BY <2>2, <2>3, <3>1, <3>3, <3>4 DEF UsedInv, Limited, CfsPlaces
  <2>4. ASSUME NEW g \in Group, NEW bw \in Bandwidth, NEW place \in {"rt", "cfs"},
               Start(w, g, place, bw)
        PROVE  UsedInv'
    <3>1. OpTo(w, place, g, bw, {}) /\ UNCHANGED bwVars /\ op[w].pc = "none"
      BY <2>4, OpStart DEF Places, Start
    <3> QED
      BY <2>3, <3>1 DEF OpTo, bwVars, CfsPlaces
  <2>5. CASE RtRefused(w) \/ RtSet(w) \/ CfsRefused(w)
    <3>1. /\ OpTo(w, "none", NoGroup, NoBw, {}) /\ UNCHANGED <<cfs, enabled, cfs_used>>
          /\ op[w].pc \in {"rt", "rtSet", "cfs"}
      BY <2>5, FileOps DEF RtRefused, RtSet, CfsRefused, bwVars
    <3> QED
      BY <2>3, <3>1 DEF OpTo, CfsPlaces
  <2>6. CASE RtChecked(w)
    <3>1. /\ OpTo(w, "rtSet", op[w].group, op[w].bw, op[w].todo) /\ op[w].pc = "rt"
          /\ UNCHANGED bwVars
      BY <2>6, FileOps DEF RtChecked
    <3> QED
      BY <2>3, <3>1 DEF OpTo, CfsPlaces, bwVars
  <2>7. CASE CfsChecked(w)
    <3> DEFINE g == op[w].group
    <3>1. /\ OpTo(w, "cfsSet", op[w].group, op[w].bw, op[w].todo) /\ op[w].pc = "cfs"
          /\ UNCHANGED <<cfs, enabled>> /\ CfsMutexFree
      BY <2>7, FileOps DEF CfsChecked
    <3>2. g \in In(parent) /\ \A v \in Writer : op[v].pc \notin CfsPlaces
      BY <3>1 DEF OpInv, CfsMutexFree, CfsPlaces
    <3>3. /\ op'[w].pc = "cfsSet" /\ op'[w].group = g /\ op'[w].bw = op[w].bw
          /\ \A v \in Writer : v # w => op'[v].pc \notin CfsPlaces
      BY <3>1, <3>2 DEF OpTo
    <3>4. Covered' \subseteq IF op[w].bw.runtime # -1 THEN Covered \cup {g} ELSE Covered
      BY <2>2, <3>1, <3>3 DEF Covered, Limited, CfsPlaces
    <3>5. cfs_used' >= Cardinality(Covered')
      <4>1. CASE op[w].bw.runtime # -1 /\ ~Limited(cfs, g)
        <5>1. cfs_used' = cfs_used + 1
          BY <2>7, <4>1 DEF CfsChecked, Limited
        <5>2. IsFiniteSet(Covered \cup {g}) /\ Cardinality(Covered \cup {g}) <= Cardinality(Covered) + 1
              /\ Cardinality(Covered \cup {g}) \in Nat
          <6> HIDE DEF g
          <6>1. /\ IsFiniteSet(Covered \cup {g})
                /\ Cardinality(Covered \cup {g})
                    = IF g \in Covered THEN Cardinality(Covered) ELSE Cardinality(Covered) + 1
            BY <1>2, FS_AddElement
          <6> QED
            BY <1>2, <6>1
        <5>3. Cardinality(Covered') <= Cardinality(Covered \cup {g})
          BY <3>4, <4>1, <5>2, FS_Subset
        <5> QED
          BY <1>1, <1>2, <5>1, <5>2, <5>3
      <4>2. CASE op[w].bw.runtime = -1 \/ Limited(cfs, g)
        <5>1. cfs_used' = cfs_used
          BY <1>1, <2>7, <4>2 DEF CfsChecked, Limited
        <5>2. Covered' \subseteq Covered
          BY <3>2, <3>4, <4>2 DEF Covered
        <5> QED
          BY <1>2, <5>1, <5>2, UsedKept
      <4> QED
        BY <4>1, <4>2
    <3>6. \A v \in Writer : op'[v].pc \notin {"cfsOn", "cfsOff", "cfsDec"}
      BY <3>3 DEF CfsPlaces
    <3>7. \A x \in In(parent), c \in CPU : enabled[x][c] => Limited(cfs, x)
      BY <3>2 DEF UsedInv, CfsPlaces
    <3> QED
      BY <2>2, <3>1, <3>5, <3>6, <3>7 DEF UsedInv, Limited
  <2>8. CASE CfsSet(w)
    <3> DEFINE g == op[w].group
    <3>1. /\ OpTo(w, AfterSet(w), op[w].group, op[w].bw, CPU) /\ op[w].pc = "cfsSet"
          /\ UNCHANGED <<enabled, cfs_used>> /\ cfs' = [cfs EXCEPT ![g] = op[w].bw]
      BY <2>8, FileOps DEF CfsSet
    <3>2. g \in In(parent) /\ \A v \in Writer : v # w => op[v].pc \notin CfsPlaces
      BY <3>1 DEF OpInv, CfsPlaces
    <3>3. /\ op'[w].pc = AfterSet(w) /\ op'[w].group = g /\ op'[w].todo = CPU
          /\ \A v \in Writer : v # w => op'[v].pc \notin CfsPlaces
      BY <3>1, <3>2 DEF OpTo
    <3>4. /\ Limited(cfs', g) <=> op[w].bw.runtime # -1
          /\ \A x \in Group : x # g => (Limited(cfs', x) <=> Limited(cfs, x))
      BY <1>1, <3>1, <3>2 DEF Limited
    <3>5. Covered' \subseteq Covered
      <4>1. ASSUME NEW x \in In(parent), x \in Covered', x # g PROVE x \in Covered
        BY <1>1, <2>2, <3>1, <3>3, <3>4, <4>1 DEF Covered, CfsPlaces
      <4>2. ASSUME g \in Covered' PROVE g \in Covered
        <5>1. CASE op[w].bw.runtime # -1
          BY <3>1, <3>2, <5>1 DEF Covered
        <5>2. CASE Limited(cfs, g)
          BY <3>2, <5>2 DEF Covered
        <5>3. CASE op[w].bw.runtime = -1 /\ ~Limited(cfs, g)
          <6>1. op'[w].pc = "cfsOff"
            BY <3>3, <5>3 DEF AfterSet
          <6>2. \E c \in CPU : enabled[g][c]
            BY <3>1, <3>3, <3>4, <4>2, <5>3, <6>1 DEF Covered, CfsPlaces
          <6> QED
            BY <3>2, <6>2 DEF Covered
        <5> QED
          BY <5>1, <5>2, <5>3
      <4>3. Covered' \subseteq In(parent)
        BY <2>2 DEF Covered
      <4> QED
        BY <4>1, <4>2, <4>3
    <3>6. cfs_used' >= Cardinality(Covered')
      BY <1>2, <3>1, <3>5, UsedKept
    <3>7. \A v \in Writer : /\ op'[v].pc = "cfsOn" => Limited(cfs', op'[v].group)
                            /\ op'[v].pc \in {"cfsOff", "cfsDec"} => ~Limited(cfs', op'[v].group)
      BY <3>3, <3>4 DEF AfterSet, CfsPlaces
    <3>8. ASSUME NEW x \in In(parent), NEW c \in CPU, enabled'[x][c]
          PROVE  \/ Limited(cfs', x)
                 \/ \E v \in Writer : op'[v].group = x /\ op'[v].pc = "cfsDec" /\ c \in op'[v].todo
      <4>1. Limited(cfs, x)
        BY <3>1, <3>2, <3>8 DEF UsedInv, CfsPlaces
      <4>2. CASE x = g /\ op[w].bw.runtime = -1
        <5>1. op'[w].pc = "cfsDec"
          BY <3>3, <4>1, <4>2 DEF AfterSet
        <5> QED
          BY <3>3, <4>2, <5>1
      <4> QED
        BY <1>1, <3>4, <4>1, <4>2
    <3> QED
      BY <2>2, <3>6, <3>7, <3>8 DEF UsedInv, Limited
  <2>9. ASSUME NEW c \in CPU, CfsRq(w, c) PROVE UsedInv'
    <3> DEFINE g == op[w].group
    <3>1. /\ OpTo(w, op[w].pc, op[w].group, op[w].bw, op[w].todo \ {c}) /\ c \in op[w].todo
          /\ UNCHANGED <<cfs, cfs_used>>
          /\ enabled' = [enabled EXCEPT ![g][c] = (op[w].pc = "cfsOn")]
      BY <2>9, FileOps DEF CfsRq
    <3>2. \A v \in Writer : /\ op'[v].pc = op[v].pc /\ op'[v].group = op[v].group
                            /\ op'[v].bw = op[v].bw /\ (v # w => op'[v].todo = op[v].todo)
      BY <3>1 DEF OpTo
    <3>3. op'[w].todo = op[w].todo \ {c}
      BY <3>1 DEF OpTo
    <3>4. PICK on : on = (op[w].pc = "cfsOn")
      OBVIOUS
    <3>5. \A x \in Group, d \in CPU :
            enabled'[x][d] = IF x = g /\ d = c THEN on ELSE enabled[x][d]
      BY <1>1, <3>1, <3>4
    <3>6. on => Limited(cfs, g)
      BY <3>4 DEF UsedInv
    <3>7. Covered' \subseteq Covered
      <4>1. ASSUME NEW x \in In(parent), x \in Covered' PROVE x \in Covered
        <5>1. CASE \E d \in CPU : enabled'[x][d]
          <6>1. PICK d \in CPU : enabled'[x][d]
            BY <5>1
          <6>2. enabled[x][d] \/ Limited(cfs, x)
            BY <1>1, <3>5, <3>6, <6>1
          <6> QED
            BY <6>2 DEF Covered
        <5>2. CASE ~\E d \in CPU : enabled'[x][d]
          BY <2>2, <3>1, <3>2, <4>1, <5>2 DEF Covered, Limited
        <5> QED
          BY <5>1, <5>2
      <4>2. Covered' \subseteq In(parent)
        BY <2>2 DEF Covered
      <4> QED
        BY <4>1, <4>2
    <3>8. cfs_used' >= Cardinality(Covered')
      BY <1>2, <3>1, <3>7, UsedKept
    <3>9. ASSUME NEW x \in In(parent), NEW d \in CPU, enabled'[x][d]
          PROVE  \/ Limited(cfs, x)
                 \/ \E v \in Writer : op'[v].group = x /\ op'[v].pc = "cfsDec" /\ d \in op'[v].todo
      <4>1. CASE x = g /\ d = c
        BY <1>1, <3>5, <3>6, <3>9, <4>1
      <4>2. CASE ~(x = g /\ d = c)
        <5>1. enabled[x][d]
          BY <1>1, <3>5, <3>9, <4>2
        <5>2. CASE ~Limited(cfs, x)
          <6>1. PICK v \in Writer : op[v].group = x /\ op[v].pc = "cfsDec" /\ d \in op[v].todo
            BY <5>1, <5>2 DEF UsedInv
          <6>2. d \in op'[v].todo
            BY <3>2, <3>3, <4>2, <6>1
          <6> QED
            BY <3>2, <6>1, <6>2
        <5> QED
          BY <5>2
      <4> QED
        BY <4>1, <4>2
    <3>10. \A v \in Writer : /\ op'[v].pc = "cfsOn" => Limited(cfs, op'[v].group)
                             /\ op'[v].pc \in {"cfsOff", "cfsDec"} => ~Limited(cfs, op'[v].group)
      BY <3>2 DEF UsedInv
    <3> QED
      BY <2>2, <3>1, <3>8, <3>9, <3>10 DEF UsedInv, Limited
  <2>10. CASE CfsDone(w)
    <3> DEFINE g == op[w].group
    <3>1. /\ OpTo(w, "none", NoGroup, NoBw, {}) /\ UNCHANGED <<cfs, enabled>>
          /\ op[w].pc \in {"cfsOn", "cfsOff", "cfsDec"} /\ op[w].todo = {}
      BY <2>10, FileOps DEF CfsDone
    <3>2. g \in In(parent) /\ \A v \in Writer : v # w => op[v].pc \notin CfsPlaces
      BY <3>1 DEF OpInv, CfsPlaces
    <3>3. \A v \in Writer : op'[v].pc \notin CfsPlaces
      BY <3>1, <3>2 DEF OpTo, CfsPlaces
    <3>4. \A x \in In(parent), c \in CPU : enabled[x][c] => Limited(cfs, x)
      BY <3>1, <3>2 DEF UsedInv, CfsPlaces
    <3>5. Covered' \subseteq {x \in In(parent) : Limited(cfs, x)}
      BY <2>2, <3>1, <3>3, <3>4 DEF Covered, Limited, CfsPlaces
    <3>6. Covered' \subseteq Covered
      BY <3>5 DEF Covered
    <3>7. cfs_used' >= Cardinality(Covered')
      <4>1. CASE op[w].pc = "cfsDec"
        <5>1. cfs_used' = cfs_used - 1
          BY <2>10, <4>1 DEF CfsDone
        <5>2. g \in Covered /\ g \notin Covered'
          BY <3>2, <3>5, <4>1 DEF Covered, UsedInv
        <5>3. /\ IsFiniteSet(Covered \ {g})
              /\ Cardinality(Covered \ {g}) = Cardinality(Covered) - 1
          BY <1>2, <5>2, FS_RemoveElement
        <5>4. Cardinality(Covered') <= Cardinality(Covered \ {g})
          BY <3>6, <5>2, <5>3, FS_Subset
        <5> QED
          BY <1>1, <1>2, <5>1, <5>3, <5>4
      <4>2. CASE op[w].pc # "cfsDec"
        <5>1. cfs_used' = cfs_used
          BY <1>1, <2>10, <4>2 DEF CfsDone
        <5> QED
          BY <1>2, <3>6, <5>1, UsedKept
      <4> QED
        BY <4>1, <4>2
    <3> QED
      BY <2>2, <3>1, <3>3, <3>4, <3>7 DEF UsedInv, Limited, CfsPlaces
  <2> QED
    BY <2>1, <2>4, <2>5, <2>6, <2>7, <2>8, <2>9, <2>10 DEF FileStep
<1>4. CASE Handler \/ Tasks \/ UNCHANGED vars
  <2>1. UNCHANGED <<parent, cfs, enabled, cfs_used, op>>
    <3>1. Handler => HandlerMove
      BY HandlerSteps
    <3> QED
      BY <1>4, <3>1, TaskSteps
      DEF HandlerMove, HandlerWrite, HandlerValidate, HandlerRt, HandlerDl, HandlerStep,
          HandlerUndo, TaskStep, vars, bwVars
  <2>2. Covered' = Covered
    BY <2>1 DEF Covered, Limited
  <2> QED
    BY <2>1, <2>2 DEF UsedInv, Limited
<1>5. ASSUME NEW g \in Group, NEW p \in Group, CssOnline(g, p) PROVE UsedInv'
  <2>1. In(parent') = In(parent) \cup {g} /\ g \notin In(parent)
    BY <1>5, OnlineAdds DEF Added, Adds
  <2>2. /\ op' = op /\ cfs_used' = cfs_used /\ ~Limited(cfs', g)
        /\ \A x \in Group \ {g} : cfs'[x] = cfs[x] /\ enabled'[x] = enabled[x]
        /\ \A c \in CPU : ~enabled'[g][c]
    BY <1>1, <1>5 DEF CssOnline, Limited
  <2>3. \A w \in Writer : op[w].pc # "none" => op[w].group \in In(parent)
    BY DEF OpInv
  <2>4. Covered' \subseteq Covered
    BY <1>1, <2>1, <2>2, <2>3 DEF Covered, Limited
  <2>5. cfs_used' >= Cardinality(Covered')
    BY <1>2, <2>2, <2>4, UsedKept
  <2>6. \A w \in Writer : op[w].pc # "none" => (Limited(cfs', op[w].group) <=> Limited(cfs, op[w].group))
    BY <1>1, <2>1, <2>2, <2>3 DEF Limited
  <2>7. \A w \in Writer : /\ op'[w].pc = "cfsOn" => Limited(cfs', op'[w].group)
                          /\ op'[w].pc \in {"cfsOff", "cfsDec"} => ~Limited(cfs', op'[w].group)
    BY <2>2, <2>6 DEF UsedInv
  <2>8. ASSUME NEW x \in In(parent'), NEW c \in CPU, enabled'[x][c]
        PROVE  \/ Limited(cfs', x)
               \/ \E w \in Writer : op'[w].group = x /\ op'[w].pc = "cfsDec" /\ c \in op'[w].todo
    BY <1>1, <2>1, <2>2, <2>8 DEF UsedInv, Limited
  <2> QED
    BY <2>5, <2>7, <2>8 DEF UsedInv, Limited
<1>6. ASSUME NEW g \in Group, CssOffline(g) PROVE UsedInv'
  <2>1. In(parent') = In(parent) \ {g}
    BY <1>6, OfflineCuts DEF Cut
  <2>2. UNCHANGED <<cfs, enabled, cfs_used, op>>
    BY <1>6 DEF CssOffline, bwVars
  <2>3. Covered' \subseteq Covered
    BY <2>1, <2>2 DEF Covered, Limited
  <2>4. cfs_used' >= Cardinality(Covered')
    BY <1>2, <2>2, <2>3, UsedKept
  <2> QED
    BY <2>1, <2>2, <2>4 DEF UsedInv, Limited
<1> QED
  BY <1>3, <1>4, <1>5, <1>6 DEF Next
-----------------------------------------------------------------------------
(* Tasks                                                                   *)

\* A task that is being forked has a parent.
TaskInv == TaskTypes /\ \A q \in Task : life[q] = "forking" => forker[q] \in Task

\* SettledGroup, also for a task whose attach has not reached its cgroup yet.
GroupInv ==
    \A p \in Task : life[p] \in {"live", "exited"} /\ ~(attach.pc = "move" /\ attach.task = p) =>
        group[p] = css[p]

LEMMA TasksUnchanged ==
  ASSUME SchedGroupsAssumption, Types, [Next]_vars
  PROVE  Tasks \/ UNCHANGED taskVars
<1>1. ASSUME NEW w \in Writer, Files(w) PROVE UNCHANGED taskVars
  <2>1. FileStep(w)
    BY <1>1, FileSteps
  <2> QED
    BY <2>1 DEF FileStep, Start, RtRefused, RtChecked, RtSet, CfsRefused, CfsChecked, CfsSet,
                CfsDone, CfsRq
<1>2. ASSUME Handler PROVE UNCHANGED taskVars
  <2>1. HandlerMove
    BY <1>2, HandlerSteps
  <2> QED
    BY <2>1 DEF HandlerMove, HandlerWrite, HandlerValidate, HandlerRt, HandlerDl, HandlerStep,
                HandlerUndo
<1> QED
  BY SMTT(45), <1>1, <1>2 DEF Next, CssOnline, CssOffline, vars

LEMMA TaskInvStep ==
  ASSUME SchedGroupsAssumption, Types, TaskInv, [Next]_vars
  PROVE  TaskInv'
<1>1. /\ life \in [Task -> {"new", "forking", "listed", "live", "exiting", "exited"}]
      /\ forker \in [Task -> Task \cup {NoTask}] /\ isRt \in [Task -> BOOLEAN]
      /\ css \in [Task -> Group \cup {NoGroup}] /\ group \in [Task -> Group \cup {NoGroup}]
      /\ attach \in AttachRecord /\ (attach.pc # "none" => attach.task \in Task)
      /\ \A q \in Task : life[q] = "forking" => forker[q] \in Task
      /\ Root \in Group
  BY DEF TaskInv, TaskTypes, SchedGroupsAssumption
<1>2. NoAttach \in AttachRecord /\ NoAttach.pc = "none"
  BY DEF NoAttach, AttachRecord
<1>3. ASSUME NEW p \in Task, NEW g \in Group, CanAttach(p, g) PROVE TaskInv'
  BY <1>1, <1>3 DEF CanAttach, TaskInv, TaskTypes, AttachRecord
<1>4. CASE CssSet
  <2>1. attach' \in AttachRecord /\ (attach'.pc # "none" => attach'.task \in Task)
    BY <1>1, <1>2, <1>4 DEF CssSet, AttachRecord
  <2>2. css' \in [Task -> Group \cup {NoGroup}]
    BY <1>1, <1>4 DEF CssSet, AttachRecord
  <2> QED
    BY <1>1, <1>4, <2>1, <2>2 DEF CssSet, TaskInv, TaskTypes
<1>5. CASE Attach
  BY <1>1, <1>2, <1>5 DEF Attach, SchedMoveTask, TaskInv, TaskTypes
<1>6. ASSUME NEW p \in Task, NEW q \in Task, DupTask(p, q) PROVE TaskInv'
  BY <1>1, <1>6 DEF DupTask, TaskInv, TaskTypes
<1>7. ASSUME NEW q \in Task, PostFork(q) PROVE TaskInv'
  <2>1. css[forker[q]] \in Group \cup {NoGroup}
    BY <1>1, <1>7 DEF PostFork
  <2> QED
    BY <1>1, <1>7, <2>1 DEF PostFork, TaskInv, TaskTypes
<1>8. ASSUME NEW q \in Task, ForkFails(q) PROVE TaskInv'
  BY <1>1, <1>8 DEF ForkFails, TaskInv, TaskTypes
<1>9. ASSUME NEW q \in Task, CgroupFork(q) PROVE TaskInv'
  BY <1>1, <1>9 DEF CgroupFork, SchedMoveTask, TaskInv, TaskTypes
<1>10. ASSUME NEW p \in Task, ExitCss(p) PROVE TaskInv'
  BY <1>1, <1>10 DEF ExitCss, TaskInv, TaskTypes
<1>11. ASSUME NEW p \in Task, CgroupExit(p) PROVE TaskInv'
  BY <1>1, <1>11 DEF CgroupExit, SchedMoveTask, TaskInv, TaskTypes
<1>12. ASSUME NEW p \in Task, NEW r \in BOOLEAN, SetPolicy(p, r) PROVE TaskInv'
  BY <1>1, <1>12 DEF SetPolicy, TaskInv, TaskTypes
<1>13. CASE UNCHANGED taskVars
  BY <1>1, <1>13 DEF taskVars, TaskInv, TaskTypes
<1> QED
  BY <1>3, <1>4, <1>5, <1>6, <1>7, <1>8, <1>9, <1>10, <1>11, <1>12, <1>13, TasksUnchanged DEF Tasks

LEMMA GroupInvStep ==
  ASSUME SchedGroupsAssumption, Types, TaskInv, GroupInv, [Next]_vars
  PROVE  GroupInv'
<1>1. /\ life \in [Task -> {"new", "forking", "listed", "live", "exiting", "exited"}]
      /\ css \in [Task -> Group \cup {NoGroup}] /\ group \in [Task -> Group \cup {NoGroup}]
      /\ attach \in AttachRecord /\ (attach.pc # "none" => attach.task \in Task)
  BY DEF TaskInv, TaskTypes
<1>2. NoAttach.pc = "none"
  BY DEF NoAttach
<1>3. ASSUME NEW p \in Task, NEW g \in Group, CanAttach(p, g) PROVE GroupInv'
  BY <1>3 DEF CanAttach, GroupInv
<1>4. CASE CssSet
  <2>1. CASE InUse(attach.task)
    BY <1>1, <1>4, <2>1 DEF CssSet, GroupInv, AttachRecord
  <2>2. CASE ~InUse(attach.task)
    BY <1>2, <1>4, <2>2 DEF CssSet, GroupInv
  <2> QED
    BY <2>1, <2>2
<1>5. CASE Attach
  BY <1>1, <1>2, <1>5 DEF Attach, SchedMoveTask, GroupInv
<1>6. ASSUME NEW p \in Task, NEW q \in Task, DupTask(p, q) PROVE GroupInv'
  BY <1>1, <1>6 DEF DupTask, GroupInv
<1>7. ASSUME NEW q \in Task, PostFork(q) PROVE GroupInv'
  BY <1>1, <1>7 DEF PostFork, GroupInv
<1>8. ASSUME NEW q \in Task, ForkFails(q) PROVE GroupInv'
  BY <1>1, <1>8 DEF ForkFails, GroupInv
<1>9. ASSUME NEW q \in Task, CgroupFork(q) PROVE GroupInv'
  BY <1>1, <1>9 DEF CgroupFork, SchedMoveTask, GroupInv
<1>10. ASSUME NEW p \in Task, ExitCss(p) PROVE GroupInv'
  BY <1>1, <1>10 DEF ExitCss, GroupInv
<1>11. ASSUME NEW p \in Task, CgroupExit(p) PROVE GroupInv'
  BY <1>1, <1>11 DEF CgroupExit, SchedMoveTask, GroupInv
<1>12. ASSUME NEW p \in Task, NEW r \in BOOLEAN, SetPolicy(p, r) PROVE GroupInv'
  BY <1>12 DEF SetPolicy, GroupInv
<1>13. CASE UNCHANGED taskVars
  BY <1>13 DEF taskVars, GroupInv
<1> QED
  BY <1>3, <1>4, <1>5, <1>6, <1>7, <1>8, <1>9, <1>10, <1>11, <1>12, <1>13, TasksUnchanged DEF Tasks

-----------------------------------------------------------------------------
(* The theorems                                                            *)

IInv == /\ Types /\ TaskInv /\ IsTree(parent) /\ OpInv
        /\ RtInv /\ CfsInv /\ UsedInv /\ GroupInv

\* The first tree.
LEMMA FirstTree ==
  ASSUME SchedGroupsAssumption
  PROVE  IsTree(FirstParent)
<1>1. PICK depth \in [Group -> 0 .. Cardinality(Group)] :
        \A g \in Group : FirstParent[g] # NoGroup => depth[FirstParent[g]] < depth[g]
  BY DEF SchedGroupsAssumption
<1>2. Cardinality(Group) \in Nat
  BY FS_CardinalityType DEF SchedGroupsAssumption
<1>3. depth \in [Group -> Nat] /\ Cardinality(Group) + 1 \in Nat
  BY <1>2
<1>4. Deeper(FirstParent, depth, Cardinality(Group) + 1)
  BY <1>1, <1>2 DEF Deeper
<1>5. \A g \in Group : FirstParent[g] # NoGroup => FirstParent[g] \in In(FirstParent)
  BY DEF SchedGroupsAssumption, In
<1> QED
  BY <1>3, <1>4, <1>5 DEF IsTree, SchedGroupsAssumption

LEMMA InitIInv ==
  ASSUME SchedGroupsAssumption, Init
  PROVE  IInv
<1>1. /\ FirstBandwidth \in Bandwidth /\ FirstBandwidth.runtime \in Nat
      /\ FirstBandwidth = [period |-> FirstBandwidth.period, runtime |-> FirstBandwidth.runtime]
      /\ Root \in Group /\ CfsDefault \in Nat
  BY DEF SchedGroupsAssumption, Bandwidth
<1>2. [FirstBandwidth EXCEPT !.runtime = 0] \in Bandwidth
      /\ [FirstBandwidth EXCEPT !.runtime = 0].runtime = 0
      /\ [FirstBandwidth EXCEPT !.runtime = FirstBandwidth.runtime] = FirstBandwidth
  BY <1>1, BandwidthHalf
<1>3. \A g \in Group :
        rt[g] = IF g = Root THEN FirstBandwidth ELSE [FirstBandwidth EXCEPT !.runtime = 0]
  BY <1>1, <1>2 DEF Init
<1>4. rt \in [Group -> Bandwidth]
  <2>1. rt = [g \in Group |-> rt[g]]
    BY DEF Init
  <2> QED
    BY <1>1, <1>2, <1>3, <2>1
<1>5. cfs \in [Group -> Bandwidth] /\ \A g \in Group : ~Limited(cfs, g)
  BY <1>1 DEF Init, Bandwidth, Limited
<1>6. NoOp \in OpRecord /\ NoOp.pc = "none"
  BY DEF NoOp, NoBw, OpRecord, Places, Bandwidth
<1>7. Types
  <2>1. handler \in HandlerRecord
    BY <1>1 DEF Init, HandlerRecord
  <2> QED
    BY <1>1, <1>4, <1>5, <1>6, <2>1 DEF Types, Init
<1>8. TaskInv
  BY DEF Init, TaskInv, TaskTypes, NoAttach, AttachRecord, SchedGroupsAssumption
<1>9. IsTree(parent)
  BY FirstTree DEF Init
<1>10. \A w \in Writer : op[w].pc = "none"
  BY <1>6 DEF Init
<1>11. OpInv
  BY <1>10 DEF OpInv, CfsPlaces
<1>12. In(parent) \subseteq Group
  BY <1>1 DEF In
<1>13. \A g \in Group : to_ratio(rt[g]) \in Nat /\ (g # Root => to_ratio(rt[g]) = 0)
  BY <1>1, <1>2, <1>3, RatioType, NoRatio
<1>14. RtInv
  <2>1. ASSUME NEW g \in In(parent)
        PROVE  SumFunctionOnSet(Ratios(rt), Below(parent, g)) <= to_ratio(rt[g])
    <3>1. Root \notin Below(parent, g)
      BY <1>9, <1>12, SchedGroupsAssumption DEF Below, IsTree, SchedGroupsAssumption
    <3>2. \A x \in Below(parent, g) : Ratios(rt)[x] = 0
      BY <1>13, <3>1 DEF Ratios, Below
    <3>3. SumFunctionOnSet(Ratios(rt), Below(parent, g)) = 0
      BY <3>2, BelowFinite, SumZero
    <3> QED
      BY <1>12, <1>13, <3>3
  <2>2. ASSUME NEW g \in In(parent) PROVE Bound(to_ratio(rt[g]))
    <3>1. sysctl = FirstBandwidth /\ rt[Root] = FirstBandwidth /\ to_ratio(rt[Root]) \in Nat
      BY <1>1, <1>3, <1>13 DEF Init
    <3>2. to_ratio(rt[g]) <= to_ratio(sysctl)
      BY <1>12, <1>13, <3>1
    <3> QED
      BY <3>2 DEF Bound
  <2> QED
    BY <1>10, <2>1, <2>2 DEF RtInv, SumsIn
<1>15. CfsInv
  BY <1>1, <1>5, <1>10, <1>12 DEF CfsInv, NestedIn
<1>16. UsedInv
  <2>1. \A g \in Group, c \in CPU : ~enabled[g][c]
    BY DEF Init
  <2>2. Covered = {}
    BY <1>5, <1>10, <1>12, <2>1 DEF Covered
  <2>3. cfs_used >= Cardinality(Covered)
    BY <2>2, FS_EmptySet DEF Init
  <2> QED
    BY <1>10, <1>12, <2>1, <2>3 DEF UsedInv
<1>17. GroupInv
  BY DEF Init, GroupInv
<1> QED
  BY <1>7, <1>8, <1>9, <1>11, <1>14, <1>15, <1>16, <1>17 DEF IInv

LEMMA IInvStep ==
  ASSUME SchedGroupsAssumption, IInv, [Next]_vars
  PROVE  IInv'
<1>1. IsTree(parent)'
  BY TreeStep DEF IInv
<1> QED
  BY <1>1, TypesStep, TaskInvStep, OpInvStep, RtInvStep, CfsInvStep, UsedInvStep, GroupInvStep
  DEF IInv

\* What holds at first and is kept by every step holds always.
LEMMA Invariance ==
  ASSUME SchedGroupsAssumption
  PROVE  Spec => []IInv
<1>1. Init => IInv
  BY InitIInv
<1>2. IInv /\ [Next]_vars => IInv'
  BY IInvStep
<1> QED
  BY <1>1, <1>2, PTL DEF Spec

\* Every variable has its type, and the count of CFS users does not go below 0:
\* tg_set_cfs_bandwidth takes away only what it, or a call before it, added.
THEOREM GroupsTypes ==
  ASSUME SchedGroupsAssumption
  PROVE  Spec => []TypeOK
<1>1. IInv => TypeOK
  <2> SUFFICES ASSUME IInv PROVE TypeOK
    OBVIOUS
  <2>1. cfs_used \in Nat
    BY CoveredFinite DEF IInv, Types, UsedInv
  <2>2. attach.task \in Task \cup {NoTask} /\ attach.group \in Group \cup {NoGroup}
    BY DEF IInv, TaskInv, TaskTypes, AttachRecord
  <2>3. parent \in [Group -> Group \cup {NoGroup}] /\ parent[Root] = NoGroup
    BY DEF IInv, IsTree
  <2> QED
    BY <2>1, <2>2, <2>3
    DEF IInv, Types, TaskInv, TaskTypes, TypeOK, OpRecord, Places, HandlerRecord
<1> QED
  BY <1>1, Invariance, PTL

\* __rt_schedulable is enough: the real-time shares of the groups below a group
\* never add up to more than its own, and between writes of the sysctls no share
\* is larger than a limit it was checked against.
THEOREM RtNestedSafety ==
  ASSUME SchedGroupsAssumption
  PROVE  Spec => []RtNested
<1>1. IInv => RtNested
  <2> SUFFICES ASSUME IInv PROVE RtNested
    OBVIOUS
  <2>1. RtSums
    BY TreeNames DEF IInv, RtInv, SumsIn, Ratios, RtSums, ChildRatios
  <2>2. ASSUME handler.pc = "none", NEW g \in Online
        PROVE  to_ratio(rt[g]) <= Max({to_ratio(sysctl), refused})
    <3>1. g \in Group /\ g \in In(parent)
      BY TreeNames, SchedGroupsAssumption DEF In, SchedGroupsAssumption
    <3>2. /\ to_ratio(rt[g]) \in Nat /\ to_ratio(sysctl) \in Nat /\ refused \in Nat
      BY <3>1, RatioType DEF IInv, Types
    <3>3. to_ratio(rt[g]) <= to_ratio(sysctl) \/ to_ratio(rt[g]) <= refused
      BY <2>2, <3>1 DEF IInv, RtInv, Bound
    <3>4. /\ Max({to_ratio(sysctl), refused}) \in Nat
          /\ to_ratio(sysctl) <= Max({to_ratio(sysctl), refused})
          /\ refused <= Max({to_ratio(sysctl), refused})
      BY <3>2, MaxOfTwo
    <3> QED
      BY <3>2, <3>3, <3>4
  <2> QED
    BY <2>1, <2>2 DEF RtNested, RtBelowGlobal
<1> QED
  BY <1>1, Invariance, PTL

\* __cfs_schedulable is enough: no CFS limit is larger than one anywhere above it.
THEOREM CfsNestedSafety ==
  ASSUME SchedGroupsAssumption
  PROVE  Spec => []CfsNested
<1>1. IInv => CfsNested
  BY TreeNames DEF IInv, CfsInv, NestedIn, Limited, CfsNested
<1> QED
  BY <1>1, Invariance, PTL

\* cfs_bandwidth_used counts every group with a limit and every group with a run
\* queue that still has one.
THEOREM UsedCoversSafety ==
  ASSUME SchedGroupsAssumption
  PROVE  Spec => []UsedCovers
<1>1. IInv => UsedCovers
  <2> SUFFICES ASSUME IInv PROVE UsedCovers
    OBVIOUS
  <2> DEFINE users == {g \in Online : cfs[g].runtime # -1 \/ \E c \in CPU : enabled[g][c]}
  <2>1. users \subseteq Covered
    BY TreeNames DEF Covered, Limited
  <2>2. Cardinality(users) <= Cardinality(Covered) /\ Cardinality(users) \in Nat
    BY <2>1, CoveredFinite, FS_Subset, FS_CardinalityType
  <2>3. cfs_used >= Cardinality(users)
    BY <2>2, CoveredFinite DEF IInv, Types, UsedInv
  <2> QED
    BY <2>3 DEF UsedCovers
<1> QED
  BY <1>1, Invariance, PTL

\* sched_move_task in attach, fork and exit leaves a task in the group its cgroup
\* says when nobody moves it.
THEOREM SettledGroupSafety ==
  ASSUME SchedGroupsAssumption
  PROVE  Spec => []SettledGroup
<1>1. IInv => SettledGroup
  BY DEF IInv, GroupInv, SettledGroup
<1> QED
  BY <1>1, Invariance, PTL
=============================================================================
