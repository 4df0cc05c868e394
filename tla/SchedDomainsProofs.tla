------------------------- MODULE SchedDomainsProofs -------------------------
(***************************************************************************)
(* Proofs about SchedDomains for every machine, every set of cpusets and   *)
(* every number of CPUs, readers, requests and failures: root domains know *)
(* their run queues and outlive their readers, the partition of the CPUs   *)
(* among them is the one that was asked for, and the domains follow the    *)
(* cpusets again when no CPU is frozen.                                    *)
(***************************************************************************)
EXTENDS SchedDomains, SumTheorems

-----------------------------------------------------------------------------
(* The inductive invariant                                                 *)

Doms == [mask : SUBSET CPU, relax : Int]

\* A partition has been started and its new domains are not remembered yet.
Busy == up.pc \in {"ops", "root", "assign", "destroy"}
\* CPUs are being attached, one after the other; Todo has those that still are
\* in their old root domains.
Attaching == up.pc \in {"root", "assign", "destroy"}
Todo == IF up.pc = "root" THEN up.left ELSE up.left \ {Min(up.left)}

RqFields == {"sd", "rd", "online", "top"}
UpFields == {"pc", "n", "left", "base", "old", "detach", "build", "doms", "sdd", "then", "cpu", "fr"}
Root == [refcount : Int, span : SUBSET CPU, online : SUBSET CPU]

QueueTypes ==
    /\ active \subseteq online /\ online \subseteq CPU /\ 0 \in online
    /\ DOMAIN rq = CPU
    /\ \A c \in CPU : DOMAIN rq[c] = RqFields /\ rq[c].online \in BOOLEAN
    /\ DOMAIN rds \subseteq Nat /\ 0 \in DOMAIN rds
    /\ rds \in [DOMAIN rds -> Root]
    /\ DOMAIN hold = Readers
    /\ \A p \in pend : DOMAIN p = {"obj", "func", "wait"}

UpTypes ==
    /\ DOMAIN up = UpFields
    /\ up.pc \in {"idle", "ops", "root", "assign", "destroy", "dying", "online"}
    /\ up.then \in {"done", "dying", "online"} /\ up.fr \in BOOLEAN
    /\ up.left \subseteq CPU /\ (Attaching => up.left # {})
    /\ up.detach \subseteq Doms /\ up.build \subseteq Doms /\ up.doms \subseteq Doms
    /\ cur \subseteq Doms /\ fails \in Nat
    /\ \A dom \in up.detach \cup up.build : dom.mask # {}
    /\ \A dom \in up.build : dom.mask \subseteq active

\* An operation on a CPU is about one that is online, and no longer active when it is
\* to go down; the CPUs that a build attaches are active.
UpInv ==
    /\ up.pc \in {"dying", "online"} \/ up.then \in {"dying", "online"} => up.cpu \in online
    /\ "dying" \in {up.pc, up.then} => up.cpu \notin active /\ up.cpu # 0
    /\ ~Busy => up.build = {} /\ up.detach = {} /\ up.then = "done"
    /\ Attaching => /\ up.n \in DOMAIN rds
                    /\ up.n # 0 => /\ up.left \subseteq active /\ up.detach = {}
                                   /\ \A c \in Todo : rq[c].rd # up.n

\* The run queues of a root domain.
MineOf(q, d) == {c \in CPU : q[c].rd = d}
Mine(d) == MineOf(rq, d)

\* The first two parts of RootDomainsAgree, of root domains r and run queues q.
AgreeOf(r, q) ==
    /\ \A c \in CPU : q[c].rd \in DOMAIN r
    /\ \A d \in DOMAIN r :
         /\ r[d].span = MineOf(q, d)
         /\ r[d].online = {c \in MineOf(q, d) : q[c].online}
         /\ r[d].refcount = Cardinality(MineOf(q, d)) + (IF d = 0 THEN 1 ELSE 0)
Agree == AgreeOf(rds, rq)

\* A CPU that comes online joins its root domain last.
Arriving(c) == up.cpu = c /\ "online" \in {up.pc, up.then}
OnlineInv ==
    /\ \A c \in CPU : rq[c].online => c \in online
    /\ \A c \in online : rq[c].rd # 0 /\ ~Arriving(c) => rq[c].online

\* A root domain that waits to be freed has no run queue, gets none, and waits once.
Dying(p) == p.func = "free_rootdomain"
PendInv ==
    /\ \A p \in pend : Dying(p) => /\ p.obj \in DOMAIN rds \ {0}
                                   /\ Mine(p.obj) = {}
                                   /\ Attaching => p.obj # up.n
    /\ \A p, q \in pend : Dying(p) /\ Dying(q) /\ p.obj = q.obj => p = q

HoldInv ==
    \A r \in Readers : hold[r] # NULL =>
        /\ hold[r].rd \in DOMAIN rds
        /\ \A p \in pend : Dying(p) /\ p.obj = hold[r].rd => r \in p.wait

\* The sets that are in force now: the current ones that are not yet detached and
\* the new ones that are already built.
InForce == IF Busy THEN (up.doms \ up.build) \cup up.detach ELSE cur
Apart(S) == \A d, e \in S : d # e => d.mask \cap e.mask = {}
Realised(dom) ==
    \/ \A c \in dom.mask : rq[c].rd # 0 /\ Mine(rq[c].rd) = dom.mask
    \/ fails > 0 /\ \A c \in dom.mask : rq[c].rd = 0
Growing(dom) == Attaching /\ up.n # 0 /\ Mine(up.n) \cup Todo = dom.mask
Covered ==
    \A c \in CPU : \/ rq[c].rd = 0
                   \/ \E dom \in InForce : c \in dom.mask
                   \/ Attaching /\ up.n = 0 /\ c \in Todo
PartInv ==
    /\ Apart(cur) /\ Apart(up.doms) /\ Apart(InForce)
    /\ up.build \subseteq up.doms /\ up.detach \cap (up.doms \ up.build) = {}
    /\ \A dom \in InForce : Realised(dom) \/ Growing(dom)
    /\ Covered
    /\ Attaching /\ up.n = 0 => \A dom \in InForce : dom.mask \cap up.left = {}
    /\ Attaching /\ up.n # 0 => \E dom \in InForce : Growing(dom) /\ up.left \subseteq dom.mask

\* CPUs that went down frozen, or are about to, and were counted; Lost is how many
\* of the counted ones num_cpus_frozen has forgotten because others refused.
GoingDown == IF up.fr /\ "dying" \in {up.pc, up.then} THEN 1 ELSE 0
Lost == Cardinality(sleep.cpus) + GoingDown - frozen
FrozenInv ==
    /\ frozen \in Int /\ conf \in Cpusets
    /\ sleep \in [phase : {"awake", "suspend", "resume"}, cpus : SUBSET CPU]
    /\ sleep.cpus \cap online = {}
    /\ sleep.phase = "awake" => sleep.cpus = {} /\ GoingDown = 0
    /\ Lost >= 0

\* If none was forgotten, the cpusets are followed, or will be when the partition
\* ends, or a work item is queued.
FollowInv ==
    Lost = 0 /\ frozen = 0 /\ ~work =>
        \/ Free /\ cur = Generate(conf, active)
        \/ Busy /\ up.then = "done" /\ up.doms = Generate(conf, active)

IInv == /\ QueueTypes /\ UpTypes /\ UpInv /\ Agree /\ OnlineInv /\ PendInv /\ HoldInv
        /\ PartInv /\ FrozenInv /\ FollowInv
-----------------------------------------------------------------------------
(* Operators of the model                                                  *)

\* The first CPU of those that are left.
LEMMA MinIn ==
  ASSUME NEW S, S \subseteq Nat, S # {}
  PROVE  Min(S) \in S
<1>1. \E n \in S : \A m \in S : n <= m
  BY Least
<1> QED
  BY <1>1 DEF Min

LEMMA LeftFirst ==
  ASSUME DomainsAssumption, UpTypes, Attaching
  PROVE  Min(up.left) \in up.left /\ Min(up.left) \in CPU
<1>1. up.left # {} /\ up.left \subseteq CPU /\ CPU \subseteq Nat
  BY DEF UpTypes, DomainsAssumption
<1>2. Min(up.left) \in up.left
  BY <1>1, MinIn
<1> QED
  BY <1>1, <1>2


Has(q) == DOMAIN q = CPU /\ \A c \in CPU : DOMAIN q[c] = RqFields /\ q[c].online \in BOOLEAN

Tables(d, q) == Has(q) /\ d \in [DOMAIN d -> Root] /\ \A c \in CPU : q[c].rd \in DOMAIN d

\* What became of tables d and q when the online bit of c became val, and the bits
\* of its root domain mask.
BitSet(d, q, c, new, val, mask) ==
    /\ Has(new.rq) /\ DOMAIN new.rds = DOMAIN d /\ new.rds \in [DOMAIN d -> Root]
    /\ new.rq[c].online = val
    /\ \A k \in CPU : new.rq[k].rd = q[k].rd
    /\ \A k \in CPU \ {c} : new.rq[k].online = q[k].online
    /\ new.rds[q[c].rd].online = mask
    /\ \A x \in DOMAIN d : new.rds[x].span = d[x].span /\ new.rds[x].refcount = d[x].refcount
    /\ \A x \in DOMAIN d \ {q[c].rd} : new.rds[x].online = d[x].online

LEMMA OnlineEffect ==
  ASSUME NEW d, NEW q, NEW c \in CPU, Tables(d, q)
  PROVE  BitSet(d, q, c, SetRqOnline(d, q, c), TRUE,
                IF q[c].online THEN d[q[c].rd].online ELSE d[q[c].rd].online \cup {c})
<1> DEFINE x == q[c].rd
           r == SetRqOnline(d, q, c).rds
           w == SetRqOnline(d, q, c).rq
<1>1. w = [q EXCEPT ![c] = [q[c] EXCEPT !.online = TRUE]]
  BY DEF SetRqOnline
<1>2. w[c] = [q[c] EXCEPT !.online = TRUE] /\ DOMAIN w = CPU
  BY <1>1 DEF Tables, Has
<1>3. \A k \in CPU \ {c} : w[k] = q[k]
  BY <1>1 DEF Tables, Has
<1>4. /\ DOMAIN w[c] = RqFields /\ w[c].online = TRUE
      /\ w[c].rd = q[c].rd /\ w[c].sd = q[c].sd
  BY <1>2 DEF Tables, Has, RqFields
<1>5. r = [d EXCEPT ![x] = [d[x] EXCEPT !.online = IF q[c].online THEN d[x].online ELSE d[x].online \cup {c}]]
  BY DEF SetRqOnline
<1>6. (\A y \in DOMAIN d : d[y] \in Root) /\ x \in DOMAIN d /\ d \in [DOMAIN d -> Root]
  BY DEF Tables
<1>7. [d[x] EXCEPT !.online = IF q[c].online THEN d[x].online ELSE d[x].online \cup {c}] \in Root
  BY <1>6 DEF Root
<1>8. DOMAIN r = DOMAIN d /\ r \in [DOMAIN d -> Root]
  BY <1>5, <1>6, <1>7
<1>9. /\ r[x].online = IF q[c].online THEN d[x].online ELSE d[x].online \cup {c}
      /\ r[x].span = d[x].span /\ r[x].refcount = d[x].refcount
  BY ZenonT(45), <1>5, <1>6 DEF Root
<1>10. \A y \in DOMAIN d \ {x} : r[y] = d[y]
  BY <1>5
<1> HIDE DEF r, w
<1> QED
  BY ZenonT(45), <1>2, <1>3, <1>4, <1>8, <1>9, <1>10 DEF Tables, Has, BitSet, r, w

LEMMA OfflineEffect ==
  ASSUME NEW d, NEW q, NEW c \in CPU, Tables(d, q)
  PROVE  BitSet(d, q, c, SetRqOffline(d, q, c), FALSE,
                IF q[c].online THEN d[q[c].rd].online \ {c} ELSE d[q[c].rd].online)
<1> DEFINE x == q[c].rd
           r == SetRqOffline(d, q, c).rds
           w == SetRqOffline(d, q, c).rq
<1>1. w = [q EXCEPT ![c] = [q[c] EXCEPT !.online = FALSE]]
  BY DEF SetRqOffline
<1>2. w[c] = [q[c] EXCEPT !.online = FALSE] /\ DOMAIN w = CPU
  BY <1>1 DEF Tables, Has
<1>3. \A k \in CPU \ {c} : w[k] = q[k]
  BY <1>1 DEF Tables, Has
<1>4. /\ DOMAIN w[c] = RqFields /\ w[c].online = FALSE
      /\ w[c].rd = q[c].rd /\ w[c].sd = q[c].sd
  BY <1>2 DEF Tables, Has, RqFields
<1>5. r = [d EXCEPT ![x] = [d[x] EXCEPT !.online = IF q[c].online THEN d[x].online \ {c} ELSE d[x].online]]
  BY DEF SetRqOffline
<1>6. (\A y \in DOMAIN d : d[y] \in Root) /\ x \in DOMAIN d /\ d \in [DOMAIN d -> Root]
  BY DEF Tables
<1>7. [d[x] EXCEPT !.online = IF q[c].online THEN d[x].online \ {c} ELSE d[x].online] \in Root
  BY <1>6 DEF Root
<1>8. DOMAIN r = DOMAIN d /\ r \in [DOMAIN d -> Root]
  BY <1>5, <1>6, <1>7
<1>9. /\ r[x].online = IF q[c].online THEN d[x].online \ {c} ELSE d[x].online
      /\ r[x].span = d[x].span /\ r[x].refcount = d[x].refcount
  BY ZenonT(45), <1>5, <1>6 DEF Root
<1>10. \A y \in DOMAIN d \ {x} : r[y] = d[y]
  BY <1>5
<1> HIDE DEF r, w
<1> QED
  BY <1>2, <1>3, <1>4, <1>8, <1>9, <1>10 DEF Tables, Has, BitSet, r, w

\* What a run queue without its online bit leaves of its old root domain, and adds
\* to the new one.
Moved(q, w, c, new) == w[c].rd = new /\ \A k \in CPU \ {c} : w[k].rd = q[k].rd

LEMMA MoveMine ==
  ASSUME NEW q, NEW w, NEW c \in CPU, NEW new, Moved(q, w, c, new)
  PROVE  \A x : MineOf(w, x) = (MineOf(q, x) \ {c}) \cup (IF x = new THEN {c} ELSE {})
BY DEF MineOf, Moved

LEMMA MineFinite ==
  ASSUME DomainsAssumption, NEW q, NEW x
  PROVE  IsFiniteSet(MineOf(q, x)) /\ Cardinality(MineOf(q, x)) \in Nat
<1>1. IsFiniteSet(MineOf(q, x))
  BY FS_Subset DEF DomainsAssumption, MineOf
<1> QED
  BY <1>1, FS_CardinalityType

LEMMA MoveCount ==
  ASSUME DomainsAssumption, NEW q, NEW w, NEW c \in CPU, NEW new, Moved(q, w, c, new), NEW x
  PROVE  Cardinality(MineOf(w, x)) = Cardinality(MineOf(q, x))
             - (IF x = q[c].rd THEN 1 ELSE 0) + (IF x = new THEN 1 ELSE 0)
<1> DEFINE m == MineOf(q, x)
<1>1. IsFiniteSet(m) /\ Cardinality(m) \in Nat
  BY MineFinite
<1>2. MineOf(w, x) = (m \ {c}) \cup (IF x = new THEN {c} ELSE {})
  BY MoveMine
<1>3. c \in m <=> x = q[c].rd
  BY DEF MineOf
<1>4. IsFiniteSet(m \ {c}) /\ Cardinality(m \ {c}) = Cardinality(m) - (IF x = q[c].rd THEN 1 ELSE 0)
  BY <1>1, <1>3, FS_RemoveElement
<1>5. CASE x = new
  <2>1. Cardinality((m \ {c}) \cup {c}) = Cardinality(m \ {c}) + 1
    BY <1>4, FS_AddElement
  <2> QED
    BY <1>1, <1>2, <1>4, <1>5, <2>1
<1>6. CASE x # new
  <2>1. MineOf(w, x) = m \ {c}
    BY <1>2, <1>6
  <2> QED
    BY <1>1, <1>4, <1>6, <2>1
<1> QED
  BY <1>5, <1>6

Updated(r, s, n, w) == w \in Root /\ w.span = s /\ w.refcount = n /\ w.online = r.online

LEMMA RootUpdate ==
  ASSUME NEW r \in Root, NEW s \in SUBSET CPU, NEW n \in Int
  PROVE  /\ Updated(r, s, n, [r EXCEPT !.span = s, !.refcount = n])
         /\ Updated(r, s, n, [r EXCEPT !.refcount = n, !.span = s])
<1> DEFINE v == [r EXCEPT !.span = s]
           w == [v EXCEPT !.refcount = n]
           y == [r EXCEPT !.refcount = n]
           z == [y EXCEPT !.span = s]
<1>1. v \in Root /\ v.span = s /\ v.online = r.online
  BY DEF Root
<1>2. [r EXCEPT !.span = s, !.refcount = n] = w
  OBVIOUS
<1>3. y \in Root /\ y.refcount = n /\ y.online = r.online
  BY DEF Root
<1>4. [r EXCEPT !.refcount = n, !.span = s] = z
  OBVIOUS
<1> HIDE DEF v, y
<1>5. w \in Root /\ w.span = v.span /\ w.refcount = n /\ w.online = v.online
  BY <1>1 DEF Root
<1>6. z \in Root /\ z.span = s /\ z.refcount = y.refcount /\ z.online = y.online
  BY <1>3 DEF Root
<1> QED
  BY <1>1, <1>2, <1>3, <1>4, <1>5, <1>6 DEF Updated

\* rq_attach_root: the run queue is in the new root domain, online if its CPU is
\* active, both know of it, and the old one is put away when nobody refers to it.
LEMMA AttachEffect ==
  ASSUME DomainsAssumption, QueueTypes, Agree,
         NEW c \in CPU, NEW new \in DOMAIN rds, new = 0 \/ rq[c].rd # new
  PROVE  LET a == RqAttachRoot(c, new)
             old == rq[c].rd
         IN /\ Has(a.rq) /\ DOMAIN a.rds = DOMAIN rds /\ a.rds \in [DOMAIN rds -> Root]
            /\ a.rq[c].rd = new /\ (a.rq[c].online <=> c \in active)
            /\ \A k \in CPU \ {c} : a.rq[k].rd = rq[k].rd /\ a.rq[k].online = rq[k].online
            /\ AgreeOf(a.rds, a.rq)
            /\ a.dead \subseteq {old}
            /\ a.dead # {} => old \notin {0, new} /\ MineOf(a.rq, old) = {}
<1> DEFINE a == RqAttachRoot(c, new)
           old == rq[c].rd
           off == IF c \in rds[old].online THEN SetRqOffline(rds, rq, c) ELSE [rds |-> rds, rq |-> rq]
           left == [off.rds EXCEPT ![old].span = @ \ {c}, ![old].refcount = @ - 1]
           into == [left EXCEPT ![new].refcount = @ + 1, ![new].span = @ \cup {c}]
           q == [off.rq EXCEPT ![c].rd = new]
           on == IF c \in active THEN SetRqOnline(into, q, c) ELSE [rds |-> into, rq |-> q]
<1>1. a = [rds |-> on.rds, rq |-> on.rq, dead |-> IF left[old].refcount = 0 THEN {old} ELSE {}]
  BY DEF RqAttachRoot
<1>2. /\ Has(rq) /\ rds \in [DOMAIN rds -> Root] /\ old \in DOMAIN rds
      /\ \A x \in DOMAIN rds : rds[x] \in Root
      /\ \A k \in CPU : rq[k].rd \in DOMAIN rds
      /\ Tables(rds, rq)
  BY DEF QueueTypes, Has, Agree, AgreeOf, Tables
<1>3. \A x \in DOMAIN rds : rds[x].online = {k \in CPU : rq[k].rd = x /\ rq[k].online}
  <2>1. ASSUME NEW x \in DOMAIN rds
        PROVE  rds[x].online = {k \in CPU : rq[k].rd = x /\ rq[k].online}
    <3>1. rds[x].online = {k \in MineOf(rq, x) : rq[k].online}
      BY DEF Agree, AgreeOf
    <3> QED
      BY <3>1 DEF MineOf
  <2> QED
    BY <2>1
<1>4. /\ Has(off.rq) /\ DOMAIN off.rds = DOMAIN rds /\ off.rds \in [DOMAIN rds -> Root]
      /\ off.rq[c].online = FALSE
      /\ \A k \in CPU : off.rq[k].rd = rq[k].rd
      /\ \A k \in CPU \ {c} : off.rq[k].online = rq[k].online
      /\ \A x \in DOMAIN rds : /\ off.rds[x].online = rds[x].online \ {c}
                               /\ off.rds[x].span = rds[x].span
                               /\ off.rds[x].refcount = rds[x].refcount
  <2>1. CASE c \in rds[old].online
    <3>1. rq[c].online
      BY <1>2, <1>3, <2>1
    <3>2. off = SetRqOffline(rds, rq, c)
      BY <2>1
    <3>3. \A x \in DOMAIN rds \ {old} : rds[x].online \ {c} = rds[x].online
      BY <1>3
    <3> HIDE DEF off
    <3>4. BitSet(rds, rq, c, off, FALSE, IF rq[c].online THEN rds[old].online \ {c} ELSE rds[old].online)
      BY <1>2, <3>2, OfflineEffect
    <3> QED
      BY <3>1, <3>3, <3>4 DEF BitSet
  <2>2. CASE c \notin rds[old].online
    <3>1. off.rds = rds /\ off.rq = rq
      BY <2>2
    <3>2. rq[c].online = FALSE
      BY <1>2, <1>3, <2>2 DEF Has
    <3>3. \A x \in DOMAIN rds : rds[x].online \ {c} = rds[x].online
      BY <1>3, <3>2
    <3> HIDE DEF off
    <3> QED
      BY <1>2, <3>1, <3>2, <3>3
  <2> QED
    BY <2>1, <2>2
<1> HIDE DEF off
<1>5. \A x \in DOMAIN rds : off.rds[x] \in Root
  BY <1>4
<1>6. /\ DOMAIN left = DOMAIN rds /\ left \in [DOMAIN rds -> Root]
      /\ \A x \in DOMAIN rds :
           /\ left[x].span = IF x = old THEN rds[x].span \ {c} ELSE rds[x].span
           /\ left[x].refcount = IF x = old THEN rds[x].refcount - 1 ELSE rds[x].refcount
           /\ left[x].online = rds[x].online \ {c}
  <2>1. left = [off.rds EXCEPT ![old] = [off.rds[old] EXCEPT !.span = off.rds[old].span \ {c},
                                !.refcount = off.rds[old].refcount - 1]]
    BY <1>2, <1>4, <1>5 DEF Root
  <2> HIDE DEF left
  <2>2. /\ DOMAIN left = DOMAIN rds
        /\ left[old] = [off.rds[old] EXCEPT !.span = off.rds[old].span \ {c},
                                !.refcount = off.rds[old].refcount - 1]
        /\ \A x \in DOMAIN rds \ {old} : left[x] = off.rds[x]
    BY <1>2, <1>4, <2>1
  <2> HIDE DEF old
  <2>3. /\ left[old] \in Root
        /\ left[old].span = off.rds[old].span \ {c}
        /\ left[old].refcount = off.rds[old].refcount - 1
        /\ left[old].online = off.rds[old].online
    <3> DEFINE s == off.rds[old].span \ {c}
               n == off.rds[old].refcount - 1
    <3>1. off.rds[old] \in Root /\ s \in SUBSET CPU /\ n \in Int
      BY <1>2, <1>5 DEF Root
    <3>2. left[old] = [off.rds[old] EXCEPT !.span = s, !.refcount = n]
      BY <2>2
    <3>3. s = off.rds[old].span \ {c} /\ n = off.rds[old].refcount - 1
      OBVIOUS
    <3> HIDE DEF s, n
    <3>4. Updated(off.rds[old], s, n, left[old])
      <4>1. Updated(off.rds[old], s, n, [off.rds[old] EXCEPT !.span = s, !.refcount = n])
        BY <3>1, RootUpdate
      <4> QED
        BY <3>2, <4>1
    <3> QED
      BY <3>3, <3>4 DEF Updated
  <2>4. left \in [DOMAIN rds -> Root]
    BY <1>4, <1>5, <2>1, <2>2, <2>3
  <2> QED
    BY ZenonT(45), <1>2, <1>4, <2>2, <2>3, <2>4
<1> HIDE DEF left
<1>7. \A x \in DOMAIN rds : left[x] \in Root
  BY <1>6
<1>8. /\ DOMAIN into = DOMAIN rds /\ into \in [DOMAIN rds -> Root]
      /\ \A x \in DOMAIN rds :
           /\ into[x].span = IF x = new THEN left[x].span \cup {c} ELSE left[x].span
           /\ into[x].refcount = IF x = new THEN left[x].refcount + 1 ELSE left[x].refcount
           /\ into[x].online = rds[x].online \ {c}
  <2>1. into = [left EXCEPT ![new] = [left[new] EXCEPT !.refcount = left[new].refcount + 1,
                               !.span = left[new].span \cup {c}]]
    BY <1>6, <1>7 DEF Root
  <2> HIDE DEF into
  <2>2. /\ DOMAIN into = DOMAIN rds
        /\ into[new] = [left[new] EXCEPT !.refcount = left[new].refcount + 1,
                               !.span = left[new].span \cup {c}]
        /\ \A x \in DOMAIN rds \ {new} : into[x] = left[x]
    BY <1>6, <2>1
  <2>3. /\ into[new] \in Root
        /\ into[new].span = left[new].span \cup {c}
        /\ into[new].refcount = left[new].refcount + 1
        /\ into[new].online = left[new].online
    <3> DEFINE s == left[new].span \cup {c}
               n == left[new].refcount + 1
    <3>1. left[new] \in Root /\ s \in SUBSET CPU /\ n \in Int
      BY <1>7 DEF Root
    <3>2. into[new] = [left[new] EXCEPT !.refcount = n, !.span = s]
      BY <2>2
    <3>3. s = left[new].span \cup {c} /\ n = left[new].refcount + 1
      OBVIOUS
    <3> HIDE DEF s, n
    <3>4. Updated(left[new], s, n, into[new])
      <4>1. Updated(left[new], s, n, [left[new] EXCEPT !.refcount = n, !.span = s])
        BY <3>1, RootUpdate
      <4> QED
        BY <3>2, <4>1
    <3> QED
      BY <3>3, <3>4 DEF Updated
  <2>4. into \in [DOMAIN rds -> Root]
    BY <1>6, <1>7, <2>1, <2>2, <2>3
  <2> QED
    BY <1>6, <2>2, <2>3, <2>4
<1> HIDE DEF into
<1>9. /\ Has(q) /\ q[c].rd = new /\ q[c].online = FALSE
      /\ \A k \in CPU \ {c} : q[k].rd = rq[k].rd /\ q[k].online = rq[k].online
  <2>1. q = [off.rq EXCEPT ![c] = [off.rq[c] EXCEPT !.rd = new]]
    OBVIOUS
  <2>2. /\ DOMAIN q = CPU /\ q[c] = [off.rq[c] EXCEPT !.rd = new]
        /\ \A k \in CPU \ {c} : q[k] = off.rq[k]
    BY <1>4, <2>1 DEF Has
  <2> HIDE DEF q
  <2>3. DOMAIN q[c] = RqFields /\ q[c].rd = new /\ q[c].online = off.rq[c].online
    BY <1>4, <2>2 DEF Has, RqFields
  <2> QED
    BY <1>4, <2>2, <2>3 DEF Has
<1> HIDE DEF q
<1>10. /\ Has(on.rq) /\ DOMAIN on.rds = DOMAIN rds /\ on.rds \in [DOMAIN rds -> Root]
       /\ on.rq[c].rd = new /\ (on.rq[c].online <=> c \in active)
       /\ \A k \in CPU \ {c} : on.rq[k].rd = rq[k].rd /\ on.rq[k].online = rq[k].online
       /\ \A x \in DOMAIN rds :
            /\ on.rds[x].span = into[x].span /\ on.rds[x].refcount = into[x].refcount
            /\ on.rds[x].online = (rds[x].online \ {c})
                                  \cup (IF x = new /\ c \in active THEN {c} ELSE {})
  <2>1. CASE c \in active
    <3>1. on = SetRqOnline(into, q, c)
      BY <2>1
    <3> HIDE DEF on
    <3>2. Tables(into, q)
      BY <1>2, <1>8, <1>9 DEF Tables
    <3>3. BitSet(into, q, c, on, TRUE, IF q[c].online THEN into[q[c].rd].online ELSE into[q[c].rd].online \cup {c})
      BY <3>1, <3>2, OnlineEffect
    <3>4. /\ Has(on.rq) /\ DOMAIN on.rds = DOMAIN rds /\ on.rds \in [DOMAIN rds -> Root]
          /\ on.rq[c].online = TRUE
          /\ \A k \in CPU : on.rq[k].rd = q[k].rd
          /\ \A k \in CPU \ {c} : on.rq[k].online = q[k].online
          /\ on.rds[new].online = into[new].online \cup {c}
          /\ \A x \in DOMAIN rds : on.rds[x].span = into[x].span /\ on.rds[x].refcount = into[x].refcount
          /\ \A x \in DOMAIN rds \ {new} : on.rds[x].online = into[x].online
      BY <1>8, <1>9, <3>3 DEF BitSet
    <3>5. \A x \in DOMAIN rds : on.rds[x].online = (rds[x].online \ {c})
                                  \cup (IF x = new /\ c \in active THEN {c} ELSE {})
      <4>1. ASSUME NEW x \in DOMAIN rds, x # new
            PROVE  on.rds[x].online = rds[x].online \ {c}
        BY <1>8, <3>4, <4>1
      <4>2. on.rds[new].online = (rds[new].online \ {c}) \cup {c}
        BY <1>8, <3>4
      <4> QED
        BY <2>1, <4>1, <4>2
    <3>6. on.rq[c].rd = new /\ (on.rq[c].online <=> c \in active)
      BY ONLY <1>9, <2>1, <3>4
    <3>7. \A k \in CPU \ {c} : on.rq[k].rd = rq[k].rd /\ on.rq[k].online = rq[k].online
      BY ONLY <1>9, <3>4
    <3>8. Has(on.rq) /\ DOMAIN on.rds = DOMAIN rds /\ on.rds \in [DOMAIN rds -> Root]
      BY ONLY <3>4
    <3>9. \A x \in DOMAIN rds :
            /\ on.rds[x].span = into[x].span /\ on.rds[x].refcount = into[x].refcount
            /\ on.rds[x].online = (rds[x].online \ {c})
                                  \cup (IF x = new /\ c \in active THEN {c} ELSE {})
      BY ONLY <3>4, <3>5
    <3> QED
      BY ONLY <3>6, <3>7, <3>8, <3>9
  <2>2. CASE c \notin active
    <3>1. on.rds = into /\ on.rq = q
      BY <2>2
    <3> HIDE DEF on
    <3> QED
      BY <1>8, <1>9, <2>2, <3>1
  <2> QED
    BY <2>1, <2>2
<1> HIDE DEF on
<1>11. a.rds = on.rds /\ a.rq = on.rq /\ a.dead = IF left[old].refcount = 0 THEN {old} ELSE {}
  BY <1>1
<1> HIDE DEF a
<1>20. Moved(rq, on.rq, c, new)
  BY <1>10 DEF Moved
<1>12. \A x : MineOf(on.rq, x) = (MineOf(rq, x) \ {c}) \cup (IF x = new THEN {c} ELSE {})
  BY <1>20, MoveMine
<1>13. \A x : Cardinality(MineOf(on.rq, x)) = Cardinality(MineOf(rq, x))
             - (IF x = old THEN 1 ELSE 0) + (IF x = new THEN 1 ELSE 0)
  BY <1>20, MoveCount
<1>14. \A x : Cardinality(MineOf(rq, x)) \in Nat
  BY MineFinite
<1>15. /\ \A x \in DOMAIN rds : /\ rds[x].span = MineOf(rq, x)
                                /\ rds[x].refcount = Cardinality(MineOf(rq, x)) + (IF x = 0 THEN 1 ELSE 0)
       /\ \A k \in CPU : rq[k].rd \in DOMAIN rds
  BY DEF Agree, AgreeOf
<1>16. \A x \in DOMAIN rds : c \in MineOf(rq, x) <=> x = old
  BY DEF MineOf
<1>17. AgreeOf(on.rds, on.rq)
  <2>1. \A k \in CPU : on.rq[k].rd \in DOMAIN on.rds
    BY <1>10, <1>15
  <2>2. ASSUME NEW x \in DOMAIN rds
        PROVE  /\ on.rds[x].span = MineOf(on.rq, x)
               /\ on.rds[x].refcount = Cardinality(MineOf(on.rq, x)) + (IF x = 0 THEN 1 ELSE 0)
    <3>0. /\ on.rds[x].span = into[x].span /\ on.rds[x].refcount = into[x].refcount
          /\ into[x].span = IF x = new THEN left[x].span \cup {c} ELSE left[x].span
          /\ into[x].refcount = IF x = new THEN left[x].refcount + 1 ELSE left[x].refcount
          /\ left[x].span = IF x = old THEN rds[x].span \ {c} ELSE rds[x].span
          /\ left[x].refcount = IF x = old THEN rds[x].refcount - 1 ELSE rds[x].refcount
      BY <1>6, <1>8, <1>10
    <3>1. on.rds[x].span = MineOf(on.rq, x)
      <4>1. rds[x].span = MineOf(rq, x) /\ (c \in MineOf(rq, x) <=> x = old)
        BY <1>15, <1>16
      <4>2. MineOf(on.rq, x) = (MineOf(rq, x) \ {c}) \cup (IF x = new THEN {c} ELSE {})
        BY <1>12
      <4> QED
        BY <3>0, <4>1, <4>2
    <3>2. on.rds[x].refcount = rds[x].refcount - (IF x = old THEN 1 ELSE 0) + (IF x = new THEN 1 ELSE 0)
      <4>1. rds[x].refcount \in Int
        BY <1>2 DEF Root
      <4> QED
        BY <3>0, <4>1
    <3> QED
      BY <1>13, <1>14, <1>15, <3>1, <3>2
  <2>3. ASSUME NEW x \in DOMAIN rds
        PROVE  on.rds[x].online = {k \in MineOf(on.rq, x) : on.rq[k].online}
    BY <1>3, <1>10 DEF MineOf
  <2> QED
    BY <1>10, <2>1, <2>2, <2>3 DEF AgreeOf
<1>18. left[old].refcount = 0 => old \notin {0, new} /\ MineOf(on.rq, old) = {}
  <2> SUFFICES ASSUME left[old].refcount = 0
               PROVE  old \notin {0, new} /\ MineOf(on.rq, old) = {}
    OBVIOUS
  <2>1. Cardinality(MineOf(rq, old)) + (IF old = 0 THEN 1 ELSE 0) = 1
    <3>1. rds[old].refcount \in Int /\ left[old].refcount = rds[old].refcount - 1
      BY <1>2, <1>6 DEF Root
    <3>2. rds[old].refcount = 1
      BY <3>1
    <3> HIDE DEF old
    <3> QED
      BY <1>2, <1>15, <3>2
  <2>2. c \in MineOf(rq, old)
    BY <1>2, <1>16
  <2>3. Cardinality(MineOf(rq, old)) # 0
    BY <2>2, MineFinite, FS_EmptySet
  <2>4. old # 0
    BY <1>14, <2>1, <2>3
  <2>5. old # new
    BY <2>4
  <2>6. Cardinality(MineOf(on.rq, old)) = 0
    BY <1>13, <1>14, <2>1, <2>4, <2>5
  <2> QED
    BY <2>4, <2>5, <2>6, MineFinite, FS_EmptySet
<1> QED
  BY <1>10, <1>11, <1>17, <1>18 DEF a, old

-----------------------------------------------------------------------------
(* A partition begins                                                      *)

\* What up is after partition_sched_domains has compared the sets.
Begun(new, null, then, fr) ==
    /\ DOMAIN up' = UpFields /\ up'.pc = "ops" /\ up'.left = {}
    /\ up'.doms = new /\ up'.then = then /\ up'.fr = fr
    /\ up'.detach = {d \in cur : d.mask # {} /\ (null \/ d \notin new)}
    /\ up'.build = {d \in new : d.mask # {} /\ (null \/ d \notin cur)}

LEMMA StartEffect ==
  ASSUME NEW new, NEW null, NEW then, NEW c, NEW fr,
         PartitionStart(new, null, [NoUp EXCEPT !.then = then, !.cpu = c, !.fr = fr])
  PROVE  Begun(new, null, then, fr) /\ up'.cpu = c
BY DEF PartitionStart, PartitionOps, NoUp, Begun, UpFields

LEMMA PlainStartEffect ==
  ASSUME NEW new, NEW null, PartitionStart(new, null, NoUp)
  PROVE  Begun(new, null, "done", FALSE)
BY DEF PartitionStart, PartitionOps, NoUp, Begun, UpFields

\* What every start of a partition leaves alone, and what it relies on.
StartFrame(new) ==
    /\ rds' = rds /\ rq' = rq /\ pend' = pend /\ hold' = hold /\ cur' = cur /\ fails' = fails
    /\ new \subseteq Doms /\ Apart(new)
    /\ \A d \in new : d.mask \subseteq active'
    /\ active' \subseteq online' /\ online' \subseteq CPU /\ 0 \in online'
    /\ up'.then # "done" => up'.cpu \in online'
    /\ up'.then = "dying" => up'.cpu \notin active' /\ up'.cpu # 0

RootsInv == Agree /\ PendInv /\ HoldInv

LEMMA Started ==
  ASSUME QueueTypes, UpTypes, UpInv, RootsInv, PartInv, ~Busy,
         NEW new, NEW null \in BOOLEAN, NEW then \in {"done", "dying", "online"}, NEW fr \in BOOLEAN,
         Begun(new, null, then, fr), StartFrame(new)
  PROVE  QueueTypes' /\ UpTypes' /\ UpInv' /\ RootsInv' /\ PartInv'
<1>1. QueueTypes'
  BY DEF QueueTypes, StartFrame
<1>2. Busy' /\ ~Attaching' /\ ~Attaching
  BY DEF Busy, Attaching, Begun
<1>3. UpTypes'
  BY <1>2 DEF UpTypes, Begun, StartFrame
<1>4. UpInv'
  BY <1>2 DEF UpInv, Begun, StartFrame
<1>5. RootsInv'
  BY SMTT(45), <1>2 DEF RootsInv, Agree, AgreeOf, PendInv, HoldInv, StartFrame, Dying, Mine, MineOf
<1>6. PartInv'
  <2>1. /\ InForce = cur /\ InForce' = (new \ up'.build) \cup up'.detach
        /\ up'.doms = new /\ cur' = cur /\ fails' = fails /\ rq' = rq
    BY <1>2 DEF InForce, Begun, StartFrame
  <2>2. \A d \in InForce' : d \in cur \/ d.mask = {}
    BY <2>1 DEF Begun
  <2>3. \A d \in cur : d.mask # {} => d \in InForce'
    BY <2>1 DEF Begun
  <2>4. /\ Apart(cur) /\ Apart(new)
        /\ \A d \in cur : Realised(d)
        /\ \A c \in CPU : rq[c].rd = 0 \/ \E d \in cur : c \in d.mask
    BY <1>2, <2>1 DEF PartInv, Growing, StartFrame, Covered
  <2>5. Apart(InForce')
    BY <2>2, <2>4 DEF Apart
  <2>6. \A d \in InForce' : Realised(d)'
    BY <2>1, <2>2, <2>4 DEF Realised, Mine, MineOf
  <2>7. \A c \in CPU : rq'[c].rd = 0 \/ \E d \in InForce' : c \in d.mask
    BY <2>1, <2>3, <2>4
  <2>8. up'.build \subseteq new /\ up'.detach \cap (new \ up'.build) = {}
    BY DEF Begun
  <2> QED
    BY <1>2, <2>1, <2>4, <2>5, <2>6, <2>7, <2>8 DEF PartInv, Apart, Covered
<1> QED
  BY <1>1, <1>3, <1>4, <1>5, <1>6

-----------------------------------------------------------------------------
(* Steps of a partition under way                                          *)

\* What they have in common.
BusyStep ==
    /\ Busy /\ Busy' /\ DOMAIN up' = DOMAIN up
    /\ up'.then = up.then /\ up'.fr = up.fr /\ up'.cpu = up.cpu /\ up'.doms = up.doms
    /\ UNCHANGED <<online, active, hold, cur, conf, work, frozen, sleep>>

\* The notifiers and the cpusets wait for the end.
LEMMA NotifiersWait ==
  ASSUME FrozenInv, FollowInv, BusyStep
  PROVE  FrozenInv' /\ FollowInv'
<1>1. up.pc # "dying" /\ up'.pc # "dying" /\ ~Free /\ ~Free'
  BY DEF BusyStep, Busy, Free
<1>2. GoingDown' = GoingDown
  BY <1>1 DEF GoingDown, BusyStep
<1>3. Lost' = Lost
  BY <1>2 DEF Lost, BusyStep
<1>4. FrozenInv'
  BY <1>2, <1>3 DEF FrozenInv, BusyStep
<1>5. FollowInv'
  BY <1>1, <1>3 DEF FollowInv, BusyStep, Generate
<1> QED
  BY <1>4, <1>5

\* Run queues stay in their root domains.
SameRoots ==
    /\ DOMAIN rq' = DOMAIN rq
    /\ \A c \in CPU : /\ DOMAIN rq'[c] = DOMAIN rq[c]
                      /\ rq'[c].rd = rq[c].rd /\ rq'[c].online = rq[c].online
LEMMA SameMine ==
  ASSUME SameRoots
  PROVE  \A x : MineOf(rq', x) = MineOf(rq, x)
BY DEF SameRoots, MineOf

LEMMA SameAgree ==
  ASSUME SameRoots, Agree, rds' = rds
  PROVE  Agree'
<1>1. \A x : MineOf(rq', x) = MineOf(rq, x)
  BY SameMine
<1>2. ASSUME NEW d \in DOMAIN rds
      PROVE  {c \in MineOf(rq', d) : rq'[c].online} = {c \in MineOf(rq, d) : rq[c].online}
  BY <1>1 DEF SameRoots, MineOf
<1> QED
  BY <1>1, <1>2 DEF SameRoots, Agree, AgreeOf

LEMMA SameOnline ==
  ASSUME QueueTypes, SameRoots, OnlineInv, BusyStep
  PROVE  OnlineInv'
BY DEF QueueTypes, SameRoots, OnlineInv, BusyStep, Arriving, Busy

\* A set is detached: its CPUs are to join the default root domain.
LEMMA DetachStep ==
  ASSUME DomainsAssumption, IInv, DetachStart
  PROVE  IInv'
<1>1. PICK dom \in up.detach :
        up' = [up EXCEPT !.pc = "root", !.n = 0, !.left = dom.mask, !.detach = @ \ {dom}]
  BY DEF DetachStart
<1>2. /\ up.pc = "ops" /\ rq' = rq /\ rds' = rds /\ pend' = pend /\ hold' = hold /\ fails' = fails
      /\ online' = online /\ active' = active
      /\ QueueTypes /\ UpTypes /\ UpInv /\ Agree /\ OnlineInv /\ PendInv /\ HoldInv
      /\ PartInv /\ FrozenInv /\ FollowInv
  BY DEF DetachStart, IInv, machine, world
<1>3. /\ DOMAIN up' = UpFields /\ up'.pc = "root" /\ up'.n = 0 /\ up'.left = dom.mask
      /\ up'.detach = up.detach \ {dom} /\ up'.build = up.build /\ up'.doms = up.doms
      /\ up'.then = up.then /\ up'.fr = up.fr /\ up'.cpu = up.cpu
  BY <1>1, <1>2 DEF UpTypes, UpFields
<1>4. dom \in Doms /\ dom.mask # {} /\ dom.mask \subseteq CPU
  BY <1>2 DEF UpTypes, Doms
<1>5. BusyStep /\ ~Attaching /\ Attaching' /\ Todo' = dom.mask
  BY <1>2, <1>3 DEF BusyStep, Busy, Attaching, Todo, DetachStart, machine, world, UpTypes
<1>6. QueueTypes' /\ UpTypes'
  BY <1>2, <1>3, <1>4, <1>5 DEF QueueTypes, UpTypes, BusyStep
<1>7. UpInv'
  BY <1>2, <1>3, <1>5 DEF UpInv, BusyStep, QueueTypes
<1>8. SameRoots
  BY <1>2 DEF SameRoots
<1>9. Agree' /\ OnlineInv'
  BY <1>2, <1>5, <1>8, SameAgree, SameOnline
<1>10. PendInv' /\ HoldInv'
  BY <1>2, <1>3 DEF PendInv, HoldInv, Dying, Mine
<1>11. PartInv'
  <2>1. InForce = (up.doms \ up.build) \cup up.detach /\ InForce' = InForce \ {dom}
    BY <1>1, <1>2, <1>3, <1>5 DEF InForce, BusyStep, PartInv
  <2>2. \A d \in InForce' : Realised(d)'
    BY <1>2, <1>5, <2>1 DEF PartInv, Growing, Realised, Mine
  <2>3. \A d \in InForce' : d.mask \cap dom.mask = {}
    BY <1>1, <1>2, <2>1 DEF PartInv, Apart
  <2>4. \A c \in CPU : rq[c].rd = 0 \/ \E d \in InForce : c \in d.mask
    BY <1>2, <1>5 DEF PartInv, Covered
  <2>5. \A c \in CPU : rq'[c].rd = 0 \/ (\E d \in InForce' : c \in d.mask) \/ c \in Todo'
    BY <1>2, <1>5, <2>1, <2>4
  <2>6. Apart(cur)' /\ Apart(up.doms)' /\ Apart(InForce)'
    BY <1>2, <1>3, <1>5, <2>1 DEF PartInv, Apart, BusyStep
  <2>7. up'.build \subseteq up'.doms /\ up'.detach \cap (up'.doms \ up'.build) = {}
    BY <1>2, <1>3 DEF PartInv
  <2> QED
    BY <1>3, <1>5, <2>2, <2>3, <2>5, <2>6, <2>7 DEF PartInv, Covered
<1>12. FrozenInv' /\ FollowInv'
  BY <1>2, <1>5, NotifiersWait
<1> QED
  BY <1>6, <1>7, <1>9, <1>10, <1>11, <1>12 DEF IInv

-----------------------------------------------------------------------------
(* Callbacks that wait for readers                                         *)

\* PendInv and HoldInv for root domains r, run queues q, holds h and callbacks ps.
Waits(r, q, h, ps) ==
    /\ \A p \in ps : DOMAIN p = {"obj", "func", "wait"}
    /\ \A p \in ps : Dying(p) => p.obj \in DOMAIN r \ {0} /\ MineOf(q, p.obj) = {}
    /\ \A p1, p2 \in ps : Dying(p1) /\ Dying(p2) /\ p1.obj = p2.obj => p1 = p2
    /\ \A k \in Readers : h[k] # NULL =>
         /\ h[k].rd \in DOMAIN r
         /\ \A p \in ps : Dying(p) /\ p.obj = h[k].rd => k \in p.wait

\* None of the callbacks is for root domain n.
Avoids(ps, n) == \A p \in ps : Dying(p) => p.obj # n

LEMMA WaitsNow ==
  ASSUME QueueTypes, PendInv, HoldInv
  PROVE  Waits(rds, rq, hold, pend) /\ (Attaching => Avoids(pend, up.n))
BY DEF QueueTypes, PendInv, HoldInv, Waits, Avoids, Mine

LEMMA WaitsNext ==
  ASSUME Waits(rds', rq', hold', pend'), Attaching' => Avoids(pend', up'.n)
  PROVE  PendInv' /\ HoldInv' /\ \A p \in pend' : DOMAIN p = {"obj", "func", "wait"}
BY DEF PendInv, HoldInv, Waits, Avoids, Mine, Dying

\* A callback that frees a domain concerns no root domain.
LEMMA AddDomains ==
  ASSUME NEW r, NEW q, NEW h, NEW ps, Waits(r, q, h, ps), NEW objs, NEW by
  PROVE  /\ Waits(r, q, h, ps \cup CallRcu(objs, "free_sched_domain", by))
         /\ \A n : Avoids(ps, n) => Avoids(ps \cup CallRcu(objs, "free_sched_domain", by), n)
<1>1. \A p \in CallRcu(objs, "free_sched_domain", by) :
         DOMAIN p = {"obj", "func", "wait"} /\ ~Dying(p)
  BY DEF CallRcu, Dying
<1> HIDE DEF Dying
<1> QED
  BY <1>1 DEF Waits, Avoids

\* Nobody waits any longer for who has left.
LEMMA WaitedKeeps ==
  ASSUME NEW r, NEW q, NEW h, NEW ps, Waits(r, q, h, ps),
         NEW who, \A k \in Readers : h[k] # NULL => k # who
  PROVE  /\ Waits(r, q, h, Waited(ps, who))
         /\ \A n : Avoids(ps, n) => Avoids(Waited(ps, who), n)
<1>1. ASSUME NEW x \in Waited(ps, who)
      PROVE  \E p \in ps : /\ x = [p EXCEPT !.wait = p.wait \ {who}]
                           /\ DOMAIN x = {"obj", "func", "wait"}
                           /\ x.obj = p.obj /\ x.func = p.func /\ x.wait = p.wait \ {who}
  <2>1. PICK p \in ps : x = [p EXCEPT !.wait = @ \ {who}]
    BY DEF Waited
  <2>2. DOMAIN p = {"obj", "func", "wait"}
    BY DEF Waits
  <2>3. x = [p EXCEPT !.wait = p.wait \ {who}]
    BY <2>1
  <2>4. /\ DOMAIN x = {"obj", "func", "wait"}
        /\ x.obj = p.obj /\ x.func = p.func /\ x.wait = p.wait \ {who}
    BY <2>2, <2>3
  <2> QED
    BY <2>3, <2>4
<1>2. \A x \in Waited(ps, who) : DOMAIN x = {"obj", "func", "wait"}
  BY <1>1
<1>3. \A x \in Waited(ps, who) : Dying(x) => x.obj \in DOMAIN r \ {0} /\ MineOf(q, x.obj) = {}
  BY <1>1 DEF Waits, Dying
<1>4. ASSUME NEW x \in Waited(ps, who), NEW y \in Waited(ps, who),
             Dying(x), Dying(y), x.obj = y.obj
      PROVE  x = y
  <2>1. PICK p1 \in ps : /\ x = [p1 EXCEPT !.wait = p1.wait \ {who}]
                         /\ x.obj = p1.obj /\ x.func = p1.func
    BY <1>1
  <2>2. PICK p2 \in ps : /\ y = [p2 EXCEPT !.wait = p2.wait \ {who}]
                         /\ y.obj = p2.obj /\ y.func = p2.func
    BY <1>1
  <2>3. p1 = p2
    BY <1>4, <2>1, <2>2 DEF Waits, Dying
  <2> QED
    BY <2>1, <2>2, <2>3
<1>5. \A k \in Readers : h[k] # NULL =>
         /\ h[k].rd \in DOMAIN r
         /\ \A x \in Waited(ps, who) : Dying(x) /\ x.obj = h[k].rd => k \in x.wait
  <2> SUFFICES ASSUME NEW k \in Readers, h[k] # NULL
               PROVE  /\ h[k].rd \in DOMAIN r
                      /\ \A x \in Waited(ps, who) : Dying(x) /\ x.obj = h[k].rd => k \in x.wait
    OBVIOUS
  <2>1. h[k].rd \in DOMAIN r /\ \A p \in ps : Dying(p) /\ p.obj = h[k].rd => k \in p.wait
    BY DEF Waits
  <2> QED
    BY <1>1, <2>1 DEF Dying
<1>6. \A n : Avoids(ps, n) => Avoids(Waited(ps, who), n)
  BY <1>1 DEF Avoids, Dying
<1> QED
  BY <1>2, <1>3, <1>4, <1>5, <1>6 DEF Waits

-----------------------------------------------------------------------------
(* A CPU is given its domains                                              *)

\* Steps that change neither the sets in force nor the CPUs still to be moved.
LEMMA SameParts ==
  ASSUME PartInv, UpTypes, SameRoots, Attaching, Attaching', BusyStep,
         up'.n = up.n, Todo' = Todo, up'.left \subseteq up.left,
         up'.build = up.build, up'.detach = up.detach, fails' = fails
  PROVE  PartInv'
<1>1. \A x : Mine(x)' = Mine(x)
  BY SameMine DEF Mine
<1>2. InForce' = InForce /\ up'.doms = up.doms /\ cur' = cur
  BY DEF InForce, BusyStep
<1>3. \A dom : (Growing(dom)' <=> Growing(dom))
  BY <1>1 DEF Growing
<1>4. /\ \A dom \in InForce : dom.mask \subseteq CPU
      /\ \A c \in CPU : rq'[c].rd = rq[c].rd
  <2>1. InForce \subseteq Doms
    BY DEF UpTypes, InForce
  <2> QED
    BY <2>1 DEF Doms, SameRoots
<1>5. \A dom \in InForce : Realised(dom) => Realised(dom)'
  BY <1>1, <1>4 DEF Realised
<1>6. Covered'
  <2>1. Covered
    BY DEF PartInv
  <2> QED
    BY <1>2, <1>4, <2>1 DEF Covered
<1>7. /\ Apart(cur)' /\ Apart(up.doms)' /\ Apart(InForce)'
      /\ up'.build \subseteq up'.doms /\ up'.detach \cap (up'.doms \ up'.build) = {}
  <2>1. Apart(cur) /\ Apart(up.doms) /\ Apart(InForce)
    BY DEF PartInv
  <2>2. Apart(cur)' /\ Apart(up.doms)' /\ Apart(InForce)'
    BY <1>2, <2>1 DEF Apart
  <2>3. up.build \subseteq up.doms /\ up.detach \cap (up.doms \ up.build) = {}
    BY DEF PartInv
  <2> QED
    BY <1>2, <2>2, <2>3
<1>8. up.n = 0 => \A dom \in InForce : dom.mask \cap up'.left = {}
  BY DEF PartInv
<1>9. up.n # 0 => \E dom \in InForce : Growing(dom) /\ up'.left \subseteq dom.mask
  BY DEF PartInv
<1>10. \A dom \in InForce : Realised(dom) \/ Growing(dom)
  BY DEF PartInv
<1> HIDE DEF Growing, Realised
<1> QED
  BY <1>2, <1>3, <1>5, <1>6, <1>7, <1>8, <1>9, <1>10 DEF PartInv

\* rcu_assign_pointer(rq->sd, sd).
LEMMA AssignStep ==
  ASSUME DomainsAssumption, IInv, AttachAssign
  PROVE  IInv'
<1> DEFINE c == Min(up.left)
<1>1. /\ up.pc = "assign" /\ rds' = rds /\ pend' = pend /\ hold' = hold /\ fails' = fails
      /\ online' = online /\ active' = active /\ cur' = cur
      /\ rq' = [rq EXCEPT ![c].sd = up.base]
      /\ up' = [up EXCEPT !.pc = "destroy", !.old = rq[c].sd]
      /\ QueueTypes /\ UpTypes /\ UpInv /\ Agree /\ OnlineInv /\ PendInv /\ HoldInv
      /\ PartInv /\ FrozenInv /\ FollowInv
  BY DEF AttachAssign, IInv, machine, world
<1>2. /\ DOMAIN up' = UpFields /\ up'.pc = "destroy" /\ up'.n = up.n /\ up'.left = up.left
      /\ up'.detach = up.detach /\ up'.build = up.build /\ up'.doms = up.doms
      /\ up'.then = up.then /\ up'.fr = up.fr /\ up'.cpu = up.cpu
  BY <1>1 DEF UpTypes, UpFields
<1>3. BusyStep /\ Attaching /\ Attaching' /\ Todo' = Todo
  BY <1>1, <1>2 DEF BusyStep, Busy, Attaching, Todo, AttachAssign, machine, world, UpTypes
<1>4. SameRoots
  BY <1>1 DEF SameRoots, QueueTypes, RqFields
<1>5. QueueTypes' /\ UpTypes'
  BY <1>1, <1>2, <1>3, <1>4 DEF QueueTypes, UpTypes, SameRoots
<1>6. UpInv'
  BY <1>1, <1>2, <1>3, <1>4 DEF UpInv, SameRoots, BusyStep, QueueTypes
<1>7. Agree' /\ OnlineInv'
  BY <1>1, <1>3, <1>4, SameAgree, SameOnline
<1>8. \A x : Mine(x)' = Mine(x)
  BY <1>4, SameMine DEF Mine
<1>9. PendInv' /\ HoldInv'
  BY <1>1, <1>2, <1>3, <1>8 DEF PendInv, HoldInv, Dying
<1>10. PartInv'
  BY <1>1, <1>2, <1>3, <1>4, SameParts
<1>11. FrozenInv' /\ FollowInv'
  BY <1>1, <1>3, NotifiersWait
<1> QED
  BY <1>5, <1>6, <1>7, <1>9, <1>10, <1>11 DEF IInv

\* The old chain is given to call_rcu, and the next CPU is due or the set is done.
LEMMA EndStep ==
  ASSUME DomainsAssumption, IInv, AttachEnd
  PROVE  IInv'
<1> DEFINE c == Min(up.left)
           gone == pend \cup CallRcu(Range(Chain(heap, up.old)), "free_sched_domain", {"up"})
<1>1. /\ up.pc = "destroy" /\ rds' = rds /\ hold' = hold /\ fails' = fails
      /\ online' = online /\ active' = active /\ cur' = cur
      /\ pend' = IF up.left = {c} THEN Waited(gone, "up") ELSE gone
      /\ rq' = [rq EXCEPT ![c].top = TopCache(heap, c, rq[c].sd)]
      /\ QueueTypes /\ UpTypes /\ UpInv /\ Agree /\ OnlineInv /\ PendInv /\ HoldInv
      /\ PartInv /\ FrozenInv /\ FollowInv
  BY DEF AttachEnd, IInv, machine, world
<1>2. /\ DOMAIN up' = UpFields
      /\ up'.pc = IF up.left = {c} THEN "ops" ELSE "root"
      /\ up'.n = IF up.left = {c} THEN 0 ELSE up.n
      /\ up'.left = up.left \ {c}
      /\ up'.detach = up.detach /\ up'.build = up.build /\ up'.doms = up.doms
      /\ up'.then = up.then /\ up'.fr = up.fr /\ up'.cpu = up.cpu
  <2>1. up' = [up EXCEPT !.left = @ \ {c}, !.base = NULL, !.old = NULL,
                         !.pc = IF up.left = {c} THEN "ops" ELSE "root",
                         !.n = IF up.left = {c} THEN 0 ELSE @,
                         !.sdd = IF up.left = {c} THEN NoSdd ELSE @]
    BY DEF AttachEnd
  <2>2. DOMAIN up = UpFields
    BY <1>1 DEF UpTypes
  <2> HIDE DEF c
  <2> QED
    BY <2>1, <2>2 DEF UpFields
<1>3. Attaching /\ c \in up.left /\ Todo = up.left \ {c}
  <2>1. Attaching /\ Todo = up.left \ {c}
    BY <1>1 DEF Attaching, Todo
  <2> QED
    BY <1>1, <2>1, LeftFirst
<1>4. SameRoots
  BY <1>1 DEF SameRoots, QueueTypes, RqFields
<1>5. BusyStep
  BY <1>1, <1>2 DEF BusyStep, Busy, AttachEnd, machine, world, UpTypes
<1>6. Waits(rds, rq, hold, pend) /\ Avoids(pend, up.n)
  BY <1>1, <1>3, WaitsNow
<1>7. Waits(rds, rq, hold, gone) /\ Avoids(gone, up.n)
  BY <1>6, AddDomains
<1>8. Waits(rds, rq, hold, Waited(gone, "up"))
  <2>1. \A k \in Readers : hold[k] # NULL => k # "up"
    BY DEF DomainsAssumption
  <2> HIDE DEF gone
  <2> QED
    BY <1>7, <2>1, WaitedKeeps
<1> HIDE DEF c, gone
<1>9. Waits(rds', rq', hold', pend') /\ (Attaching' => Avoids(pend', up'.n))
  <2>1. Waits(rds, rq, hold, pend')
    BY <1>1, <1>7, <1>8
  <2>2. Waits(rds', rq', hold', pend')
    <3>1. \A x : MineOf(rq', x) = MineOf(rq, x)
      BY <1>4, SameMine
    <3> QED
      BY <1>1, <2>1, <3>1 DEF Waits
  <2>3. Attaching' => up.left # {c}
    BY <1>2 DEF Attaching
  <2> QED
    BY <1>1, <1>2, <1>7, <2>2, <2>3
<1>10. PendInv' /\ HoldInv' /\ \A p \in pend' : DOMAIN p = {"obj", "func", "wait"}
  BY <1>9, WaitsNext
<1>11. Agree' /\ OnlineInv'
  BY <1>1, <1>4, <1>5, SameAgree, SameOnline
<1>12. QueueTypes'
  BY <1>1, <1>4, <1>10 DEF QueueTypes, SameRoots
<1>13. UpTypes'
  BY <1>1, <1>2, <1>3, <1>5 DEF UpTypes, BusyStep, Attaching
<1>14. UpInv'
  BY <1>1, <1>2, <1>3, <1>4, <1>5 DEF UpInv, SameRoots, BusyStep, QueueTypes, Attaching, Todo
<1>15. PartInv'
  <2>1. CASE up.left # {c}
    <3>1. Attaching' /\ Todo' = Todo /\ up'.n = up.n
      BY <1>2, <1>3, <2>1 DEF Attaching, Todo
    <3> QED
      BY <1>1, <1>2, <1>3, <1>4, <1>5, <3>1, SameParts
  <2>2. CASE up.left = {c}
    <3>1. ~Attaching' /\ Todo = {} /\ InForce' = InForce
      BY <1>1, <1>2, <1>3, <1>5, <2>2 DEF Attaching, InForce, BusyStep
    <3>2. \A dom \in InForce : Realised(dom) \/ Growing(dom)
      BY <1>1 DEF PartInv
    <3>3. InForce \subseteq Doms /\ \A k \in CPU : rq'[k].rd = rq[k].rd
      BY <1>1, <1>4 DEF UpTypes, InForce, SameRoots
    <3>4. \A x : Mine(x)' = Mine(x)
      BY <1>4, SameMine DEF Mine
    <3>5. ASSUME NEW dom \in InForce
          PROVE  Realised(dom)'
      <4>1. CASE Realised(dom)
        BY <1>1, <3>3, <3>4, <4>1 DEF Realised, Doms
      <4>2. CASE Growing(dom)
        <5>1. up.n # 0 /\ Mine(up.n) = dom.mask
          BY <3>1, <4>2 DEF Growing
        <5>2. \A k \in dom.mask : rq[k].rd = up.n
          BY <5>1 DEF Mine, MineOf
        <5> QED
          BY <3>3, <3>4, <5>1, <5>2 DEF Realised, Doms
      <4> QED
        BY <3>2, <4>1, <4>2
    <3>6. Covered'
      <4>1. Covered
        BY <1>1 DEF PartInv
      <4> QED
        BY <3>1, <3>3, <4>1 DEF Covered
    <3>7. /\ Apart(cur)' /\ Apart(up.doms)' /\ Apart(InForce)'
          /\ up'.build \subseteq up'.doms /\ up'.detach \cap (up'.doms \ up'.build) = {}
      BY <1>1, <1>2, <3>1 DEF PartInv, Apart
    <3> QED
      BY <3>1, <3>5, <3>6, <3>7 DEF PartInv
  <2> QED
    BY <2>1, <2>2
<1>16. FrozenInv' /\ FollowInv'
  BY <1>1, <1>5, NotifiersWait
<1> QED
  BY <1>10, <1>11, <1>12, <1>13, <1>14, <1>15, <1>16 DEF IInv

-----------------------------------------------------------------------------
(* A set is built                                                          *)

\* A new root domain has no run queue yet.
LEMMA NewRoot ==
  ASSUME QueueTypes, Agree, NEW n \in Nat, n # 0, n \notin DOMAIN rds, rq' = rq,
         rds' = [d \in DOMAIN rds \cup {n} |-> IF d = n THEN NewRootDomain ELSE rds[d]]
  PROVE  MineOf(rq, n) = {} /\ Agree' /\ rds' \in [DOMAIN rds' -> Root]
         /\ DOMAIN rds' = DOMAIN rds \cup {n}
<1>1. MineOf(rq, n) = {}
  BY DEF MineOf, Agree, AgreeOf
<1>2. NewRootDomain \in Root
  BY DEF NewRootDomain, Root
<1>3. /\ DOMAIN rds' = DOMAIN rds \cup {n}
      /\ rds'[n] = NewRootDomain
      /\ \A d \in DOMAIN rds : rds'[d] = rds[d]
  OBVIOUS
<1>4. \A d \in DOMAIN rds : rds[d] \in Root
  BY DEF QueueTypes
<1>5. rds' \in [DOMAIN rds' -> Root]
  BY <1>2, <1>4
<1>6. Cardinality({}) = 0
  BY FS_EmptySet
<1>7. \A c \in CPU : rq'[c].rd \in DOMAIN rds'
  BY <1>3 DEF Agree, AgreeOf
<1>8. /\ rds'[n].span = MineOf(rq', n)
      /\ rds'[n].online = {c \in MineOf(rq', n) : rq'[c].online}
      /\ rds'[n].refcount = Cardinality(MineOf(rq', n)) + (IF n = 0 THEN 1 ELSE 0)
  BY <1>1, <1>3, <1>6 DEF NewRootDomain
<1>9. \A d \in DOMAIN rds :
        /\ rds'[d].span = MineOf(rq', d)
        /\ rds'[d].online = {c \in MineOf(rq', d) : rq'[c].online}
        /\ rds'[d].refcount = Cardinality(MineOf(rq', d)) + (IF d = 0 THEN 1 ELSE 0)
  BY <1>3 DEF Agree, AgreeOf
<1> QED
  BY <1>1, <1>3, <1>5, <1>7, <1>8, <1>9 DEF Agree, AgreeOf

LEMMA FreeBuild ==
  ASSUME DomainsAssumption, FreeBuilds # {}
  PROVE  Min(FreeBuilds) \in Nat /\ Min(FreeBuilds) # 0 /\ Min(FreeBuilds) \notin DOMAIN rds
<1>1. FreeBuilds \subseteq Nat
  BY DEF FreeBuilds, DomainsAssumption
<1>2. Min(FreeBuilds) \in FreeBuilds
  BY <1>1, MinIn
<1> QED
  BY <1>2 DEF FreeBuilds, DomainsAssumption

LEMMA BuildStep ==
  ASSUME DomainsAssumption, IInv, NEW dom \in up.build, BuildStart(dom)
  PROVE  IInv'
<1> DEFINE n == Min(FreeBuilds)
<1>1. /\ up.pc = "ops" /\ up.detach = {} /\ dom \in up.build /\ FreeBuilds # {}
      /\ rq' = rq /\ pend' = pend /\ hold' = hold /\ fails' = fails
      /\ online' = online /\ active' = active /\ cur' = cur
      /\ rds' = [d \in DOMAIN rds \cup {n} |-> IF d = n THEN NewRootDomain ELSE rds[d]]
      /\ QueueTypes /\ UpTypes /\ UpInv /\ Agree /\ OnlineInv /\ PendInv /\ HoldInv
      /\ PartInv /\ FrozenInv /\ FollowInv
  BY DEF BuildStart, BuildNow, IInv, machine, world
<1>2. /\ DOMAIN up' = UpFields /\ up'.pc = "root" /\ up'.n = n /\ up'.left = dom.mask
      /\ up'.detach = up.detach /\ up'.build = up.build \ {dom} /\ up'.doms = up.doms
      /\ up'.then = up.then /\ up'.fr = up.fr /\ up'.cpu = up.cpu
  <2>1. \E sdd : up' = [up EXCEPT !.pc = "root", !.n = n, !.left = dom.mask,
                                  !.build = @ \ {dom}, !.sdd = sdd]
    BY DEF BuildStart
  <2> HIDE DEF n
  <2> QED
    BY <1>1, <2>1 DEF UpTypes, UpFields
<1>3. n \in Nat /\ n # 0 /\ n \notin DOMAIN rds
  BY <1>1, FreeBuild
<1> HIDE DEF n
<1>4. BusyStep /\ ~Attaching /\ Attaching' /\ Todo' = dom.mask
  BY <1>1, <1>2 DEF BusyStep, Busy, Attaching, Todo, BuildStart, machine, world, UpTypes
<1>5. /\ MineOf(rq, n) = {} /\ Agree' /\ rds' \in [DOMAIN rds' -> Root]
      /\ DOMAIN rds' = DOMAIN rds \cup {n}
  BY <1>1, <1>3, NewRoot
<1>6. QueueTypes'
  BY <1>1, <1>3, <1>5 DEF QueueTypes
<1>7. dom \in Doms /\ dom.mask # {} /\ dom.mask \subseteq active /\ dom.mask \subseteq CPU
  BY <1>1 DEF UpTypes, Doms
<1>8. UpTypes'
  BY <1>1, <1>2, <1>4, <1>7 DEF UpTypes
<1>9. UpInv'
  <2>1. \A c \in CPU : rq'[c].rd # n
    BY <1>1, <1>5 DEF MineOf
  <2> QED
    BY <1>1, <1>2, <1>4, <1>5, <1>7, <2>1 DEF UpInv, BusyStep
<1>10. SameRoots
  BY <1>1 DEF SameRoots
<1>11. OnlineInv'
  BY <1>1, <1>4, <1>10, SameOnline
<1>12. PendInv' /\ HoldInv'
  BY <1>1, <1>2, <1>3, <1>5 DEF PendInv, HoldInv, Dying, Mine
<1>13. PartInv'
  <2>1. InForce' = InForce \cup {dom} /\ InForce = up.doms \ up.build /\ InForce' \subseteq up.doms
    BY <1>1, <1>2, <1>4 DEF InForce, BusyStep, PartInv
  <2>2. Growing(dom)' /\ up'.left \subseteq dom.mask
    BY <1>1, <1>2, <1>3, <1>4, <1>5 DEF Growing, Mine
  <2>3. \A d \in InForce : Realised(d)'
    <3>1. \A d \in InForce : Realised(d)
      BY <1>1, <1>4 DEF PartInv, Growing
    <3> QED
      BY <1>1, <3>1 DEF Realised, Mine
  <2>4. Covered'
    <3>1. Covered
      BY <1>1 DEF PartInv
    <3> QED
      BY <1>1, <1>4, <2>1, <3>1 DEF Covered
  <2>5. Apart(cur)' /\ Apart(up.doms)' /\ Apart(InForce)'
    <3>1. Apart(cur) /\ Apart(up.doms)
      BY <1>1 DEF PartInv
    <3> QED
      BY <1>1, <1>2, <2>1, <3>1 DEF Apart
  <2>6. up'.build \subseteq up'.doms /\ up'.detach \cap (up'.doms \ up'.build) = {}
    BY <1>1, <1>2 DEF PartInv
  <2> QED
    BY <1>2, <1>3, <2>1, <2>2, <2>3, <2>4, <2>5, <2>6 DEF PartInv
<1>14. FrozenInv' /\ FollowInv'
  BY <1>1, <1>4, NotifiersWait
<1> QED
  BY <1>5, <1>6, <1>8, <1>9, <1>11, <1>12, <1>13, <1>14 DEF IInv

\* Without memory the CPUs of the set stay in the default root domain.
LEMMA NoMemStep ==
  ASSUME DomainsAssumption, IInv, NEW dom \in up.build, BuildNoMem(dom)
  PROVE  IInv'
<1>1. /\ up.pc = "ops" /\ up.detach = {} /\ dom \in up.build
      /\ rds' = rds /\ rq' = rq /\ pend' = pend /\ hold' = hold /\ fails' = fails + 1
      /\ online' = online /\ active' = active /\ cur' = cur
      /\ up' = [up EXCEPT !.build = @ \ {dom}]
      /\ QueueTypes /\ UpTypes /\ UpInv /\ Agree /\ OnlineInv /\ PendInv /\ HoldInv
      /\ PartInv /\ FrozenInv /\ FollowInv
  BY DEF BuildNoMem, BuildNow, Failing, IInv, machine
<1>2. /\ DOMAIN up' = UpFields /\ up'.pc = "ops" /\ up'.n = up.n /\ up'.left = up.left
      /\ up'.detach = up.detach /\ up'.build = up.build \ {dom} /\ up'.doms = up.doms
      /\ up'.then = up.then /\ up'.fr = up.fr /\ up'.cpu = up.cpu
  BY <1>1 DEF UpTypes, UpFields
<1>3. BusyStep /\ ~Attaching /\ ~Attaching'
  BY <1>1, <1>2 DEF BusyStep, Busy, Attaching, BuildNoMem, machine, UpTypes
<1>4. fails \in Nat /\ fails' > 0 /\ fails' \in Nat
  BY <1>1 DEF UpTypes
<1>5. QueueTypes' /\ UpTypes'
  BY <1>1, <1>2, <1>3, <1>4 DEF QueueTypes, UpTypes
<1>6. UpInv'
  BY <1>1, <1>2, <1>3 DEF UpInv, BusyStep
<1>7. SameRoots
  BY <1>1 DEF SameRoots
<1>8. Agree' /\ OnlineInv'
  BY <1>1, <1>3, <1>7, SameAgree, SameOnline
<1>9. PendInv' /\ HoldInv'
  BY <1>1, <1>3 DEF PendInv, HoldInv, Dying, Mine
<1>10. PartInv'
  <2>1. InForce' = InForce \cup {dom} /\ InForce = up.doms \ up.build /\ InForce' \subseteq up.doms
    BY <1>1, <1>2, <1>3 DEF InForce, BusyStep, PartInv
  <2>2. Covered /\ Apart(cur) /\ Apart(up.doms) /\ dom \in up.doms
    BY <1>1 DEF PartInv
  <2>3. dom.mask \subseteq CPU
    BY <1>1 DEF UpTypes, Doms
  <2>4. \A c \in dom.mask : rq[c].rd = 0
    BY <1>1, <1>3, <2>1, <2>2, <2>3 DEF Covered, Apart
  <2>5. Realised(dom)'
    BY <1>1, <1>4, <2>4 DEF Realised
  <2>6. \A d \in InForce : Realised(d)'
    <3>1. \A d \in InForce : Realised(d)
      BY <1>1, <1>3 DEF PartInv, Growing
    <3> QED
      BY <1>1, <1>4, <3>1 DEF Realised, Mine
  <2>7. Covered'
    BY <1>1, <1>3, <2>1, <2>2 DEF Covered
  <2>8. Apart(cur)' /\ Apart(up.doms)' /\ Apart(InForce)'
    BY <1>1, <1>2, <2>1, <2>2 DEF Apart
  <2>9. up'.build \subseteq up'.doms /\ up'.detach \cap (up'.doms \ up'.build) = {}
    BY <1>1, <1>2 DEF PartInv
  <2> QED
    BY <1>3, <2>1, <2>5, <2>6, <2>7, <2>8, <2>9 DEF PartInv
<1>11. FrozenInv' /\ FollowInv'
  BY <1>1, <1>3, NotifiersWait
<1> QED
  BY <1>5, <1>6, <1>8, <1>9, <1>10, <1>11 DEF IInv

-----------------------------------------------------------------------------
(* A run queue changes its root domain                                     *)

\* A root domain without run queues is given to call_rcu: those that may have
\* found it are waited for.
LEMMA AddRoot ==
  ASSUME NEW r, NEW q, NEW ps, Waits(r, q, hold, ps), NEW objs, NEW old, objs \subseteq {old},
         objs # {} => old \in DOMAIN r \ {0} /\ MineOf(q, old) = {},
         Avoids(ps, old)
  PROVE  /\ Waits(r, q, hold, ps \cup CallRcu(objs, "free_rootdomain", {}))
         /\ \A n : Avoids(ps, n) /\ (objs # {} => old # n)
                      => Avoids(ps \cup CallRcu(objs, "free_rootdomain", {}), n)
<1> DEFINE all == ps \cup CallRcu(objs, "free_rootdomain", {})
           new == [obj |-> old, func |-> "free_rootdomain", wait |-> InRead]
<1>1. \A p \in all : p \in ps \/ (objs # {} /\ p = new)
  <2>1. InRead \cup {} = InRead
    OBVIOUS
  <2> QED
    BY <2>1 DEF CallRcu
<1>2. DOMAIN new = {"obj", "func", "wait"} /\ new.obj = old /\ new.wait = InRead
  OBVIOUS
<1> HIDE DEF all, new
<1>3. \A p \in ps : Dying(p) => p.obj # old
  BY DEF Avoids
<1>4. \A p \in all : DOMAIN p = {"obj", "func", "wait"}
  BY <1>1, <1>2 DEF Waits
<1>5. \A p \in all : Dying(p) => p.obj \in DOMAIN r \ {0} /\ MineOf(q, p.obj) = {}
  BY <1>1, <1>2 DEF Waits
<1>6. \A p1, p2 \in all : Dying(p1) /\ Dying(p2) /\ p1.obj = p2.obj => p1 = p2
  BY <1>1, <1>2, <1>3 DEF Waits
<1>7. \A k \in Readers : hold[k] # NULL =>
         /\ hold[k].rd \in DOMAIN r
         /\ \A p \in all : Dying(p) /\ p.obj = hold[k].rd => k \in p.wait
  BY <1>1, <1>2 DEF Waits, InRead
<1>8. \A n : Avoids(ps, n) /\ (objs # {} => old # n) => Avoids(all, n)
  BY <1>1, <1>2 DEF Avoids
<1>9. Waits(r, q, hold, all)
  BY <1>4, <1>5, <1>6, <1>7 DEF Waits
<1> QED
  BY <1>8, <1>9 DEF all

\* The other sets of CPUs keep their root domains.
LEMMA KeepsRealised ==
  ASSUME NEW c \in CPU, Moved(rq, rq', c, up.n), fails' = fails,
         NEW dom, dom.mask \subseteq CPU, Realised(dom), c \notin dom.mask,
         up.n = 0 \/ \A k \in dom.mask : rq[k].rd # up.n
  PROVE  Realised(dom)'
<1>1. \A k \in dom.mask : rq'[k].rd = rq[k].rd
  BY DEF Moved
<1>2. CASE \A k \in dom.mask : rq[k].rd # 0 /\ Mine(rq[k].rd) = dom.mask
  <2>1. ASSUME NEW k \in dom.mask
        PROVE  rq'[k].rd # 0 /\ MineOf(rq', rq'[k].rd) = dom.mask
    <3>1. rq[k].rd # 0 /\ rq[k].rd # up.n /\ MineOf(rq, rq[k].rd) = dom.mask
      BY <1>2 DEF Mine
    <3>2. MineOf(rq', rq[k].rd) = (MineOf(rq, rq[k].rd) \ {c}) \cup (IF rq[k].rd = up.n THEN {c} ELSE {})
      BY MoveMine
    <3>3. MineOf(rq', rq[k].rd) = dom.mask
      BY <3>1, <3>2
    <3> QED
      BY <1>1, <3>1, <3>3
  <2> QED
    BY <2>1 DEF Realised, Mine
<1>3. CASE fails > 0 /\ \A k \in dom.mask : rq[k].rd = 0
  BY <1>1, <1>3 DEF Realised
<1> QED
  BY <1>2, <1>3 DEF Realised

LEMMA RootStep ==
  ASSUME DomainsAssumption, IInv, AttachRoot
  PROVE  IInv'
<1> DEFINE c == Min(up.left)
           a == RqAttachRoot(c, up.n)
           old == rq[c].rd
           freed == CallRcu(a.dead, "free_rootdomain", {})
<1>1. /\ up.pc = "root" /\ hold' = hold /\ fails' = fails
      /\ online' = online /\ active' = active /\ cur' = cur
      /\ rds' = a.rds /\ rq' = a.rq
      /\ \E dead : pend' = pend \cup CallRcu(dead, "free_sched_domain", {"up"}) \cup freed
      /\ \E base : up' = [up EXCEPT !.pc = "assign", !.base = base]
      /\ QueueTypes /\ UpTypes /\ UpInv /\ Agree /\ OnlineInv /\ PendInv /\ HoldInv
      /\ PartInv /\ FrozenInv /\ FollowInv
  BY DEF AttachRoot, IInv, machine, world
<1>2. /\ DOMAIN up' = UpFields /\ up'.pc = "assign" /\ up'.n = up.n /\ up'.left = up.left
      /\ up'.detach = up.detach /\ up'.build = up.build /\ up'.doms = up.doms
      /\ up'.then = up.then /\ up'.fr = up.fr /\ up'.cpu = up.cpu
  <2>1. PICK base : up' = [up EXCEPT !.pc = "assign", !.base = base]
    BY <1>1
  <2> QED
    BY <1>1, <2>1 DEF UpTypes, UpFields
<1>3. /\ Attaching /\ Attaching' /\ Todo = up.left /\ Todo' = up.left \ {c}
      /\ c \in up.left /\ c \in CPU
  <2>1. Attaching /\ Attaching' /\ Todo = up.left /\ Todo' = up.left \ {c}
    BY <1>1, <1>2 DEF Attaching, Todo
  <2> QED
    BY <1>1, <2>1, LeftFirst
<1>4. BusyStep
  BY <1>1, <1>2 DEF BusyStep, Busy, AttachRoot, machine, world, UpTypes
<1>5. up.n \in DOMAIN rds /\ (up.n # 0 => old # up.n /\ up.left \subseteq active)
  BY <1>1, <1>3 DEF UpInv
<1> HIDE DEF c
<1>6. /\ Has(rq') /\ DOMAIN rds' = DOMAIN rds /\ rds' \in [DOMAIN rds -> Root]
      /\ rq'[c].rd = up.n /\ (rq'[c].online <=> c \in active)
      /\ \A k \in CPU \ {c} : rq'[k].rd = rq[k].rd /\ rq'[k].online = rq[k].online
      /\ AgreeOf(rds', rq')
      /\ a.dead \subseteq {old}
      /\ a.dead # {} => old \notin {0, up.n} /\ MineOf(rq', old) = {}
  <2>1. /\ Has(a.rq) /\ DOMAIN a.rds = DOMAIN rds /\ a.rds \in [DOMAIN rds -> Root]
        /\ a.rq[c].rd = up.n /\ (a.rq[c].online <=> c \in active)
        /\ \A k \in CPU \ {c} : a.rq[k].rd = rq[k].rd /\ a.rq[k].online = rq[k].online
        /\ AgreeOf(a.rds, a.rq)
        /\ a.dead \subseteq {old}
        /\ a.dead # {} => old \notin {0, up.n} /\ MineOf(a.rq, old) = {}
    <3>1. QueueTypes /\ Agree /\ c \in CPU /\ up.n \in DOMAIN rds /\ (up.n = 0 \/ rq[c].rd # up.n)
      BY <1>1, <1>3, <1>5
    <3> QED
      BY ONLY DomainsAssumption, <3>1, AttachEffect
  <2>2. rds' = a.rds /\ rq' = a.rq
    BY <1>1
  <2> HIDE DEF a, old
  <2> QED
    BY <2>1, <2>2
<1> HIDE DEF a
<1>7. Moved(rq, rq', c, up.n)
  BY <1>6 DEF Moved
<1>8. \A x : MineOf(rq', x) = (MineOf(rq, x) \ {c}) \cup (IF x = up.n THEN {c} ELSE {})
  BY <1>3, <1>7, MoveMine
<1>9. Waits(rds, rq, hold, pend) /\ Avoids(pend, up.n)
  BY <1>1, <1>3, WaitsNow
<1>10. old \in DOMAIN rds /\ c \in MineOf(rq, old)
  BY <1>1, <1>3 DEF Agree, AgreeOf, MineOf
<1>11. Waits(rds', rq', hold, pend)
  <2>1. \A p \in pend : Dying(p) => p.obj # up.n /\ MineOf(rq, p.obj) = {}
    BY <1>9 DEF Waits, Avoids
  <2>2. \A p \in pend : Dying(p) => MineOf(rq', p.obj) = {}
    BY <1>8, <2>1
  <2> QED
    BY <1>6, <1>9, <2>2 DEF Waits
<1>12. Avoids(pend, old)
  <2>1. \A p \in pend : Dying(p) => MineOf(rq, p.obj) = {}
    BY <1>9 DEF Waits
  <2> HIDE DEF old
  <2> QED
    BY <1>10, <2>1 DEF Avoids
<1>13. Waits(rds', rq', hold', pend') /\ Avoids(pend', up.n)
  <2>1. PICK dead : pend' = pend \cup CallRcu(dead, "free_sched_domain", {"up"}) \cup freed
    BY <1>1
  <2> DEFINE ps == pend \cup CallRcu(dead, "free_sched_domain", {"up"})
  <2>2. Waits(rds', rq', hold, ps) /\ Avoids(ps, up.n) /\ Avoids(ps, old)
    BY <1>9, <1>11, <1>12, AddDomains
  <2> HIDE DEF ps, old
  <2>3. Waits(rds', rq', hold, ps \cup freed) /\ Avoids(ps \cup freed, up.n)
    <3>1. /\ a.dead # {} => old \in DOMAIN rds' \ {0} /\ MineOf(rq', old) = {} /\ old # up.n
          /\ a.dead \subseteq {old}
      BY <1>6, <1>10
    <3>2. /\ Waits(rds', rq', hold, ps \cup freed)
          /\ \A n : Avoids(ps, n) /\ (a.dead # {} => old # n) => Avoids(ps \cup freed, n)
      BY ONLY <2>2, <3>1, AddRoot
    <3> QED
      BY <2>2, <3>1, <3>2
  <2> QED
    BY <1>1, <2>1, <2>3 DEF ps
<1>14. PendInv' /\ HoldInv' /\ \A p \in pend' : DOMAIN p = {"obj", "func", "wait"}
  BY <1>2, <1>13, WaitsNext
<1>15. QueueTypes'
  BY <1>1, <1>6, <1>14 DEF QueueTypes, Has
<1>16. UpTypes'
  BY <1>1, <1>2, <1>3 DEF UpTypes
<1>17. UpInv'
  <2>1. up.n # 0 => \A k \in Todo : rq[k].rd # up.n
    BY <1>1, <1>3 DEF UpInv
  <2>2. up.n # 0 => \A k \in Todo' : rq'[k].rd # up.n
    BY <1>1, <1>3, <1>6, <2>1 DEF UpTypes
  <2> QED
    BY <1>1, <1>2, <1>3, <1>4, <1>6, <2>2 DEF UpInv, BusyStep
<1>18. Agree'
  BY <1>6 DEF Agree
<1>19. OnlineInv'
  <2>1. \A k \in CPU : Arriving(k)' <=> Arriving(k)
    BY <1>1, <1>2 DEF Arriving
  <2>2. /\ \A k \in CPU : rq[k].online => k \in online
        /\ \A k \in online : rq[k].rd # 0 /\ ~Arriving(k) => rq[k].online
    BY <1>1 DEF OnlineInv
  <2>3. active \subseteq online /\ online \subseteq CPU
    BY <1>1 DEF QueueTypes
  <2>4. \A k \in CPU : rq'[k].online => k \in online
    BY <1>3, <1>6, <2>2, <2>3
  <2>5. \A k \in online : rq'[k].rd # 0 /\ ~Arriving(k) => rq'[k].online
    BY <1>3, <1>5, <1>6, <2>2, <2>3
  <2> QED
    BY <1>1, <2>1, <2>3, <2>4, <2>5 DEF OnlineInv
<1>20. PartInv'
  <2>1. InForce' = InForce /\ InForce \subseteq Doms
    BY <1>1, <1>2, <1>4 DEF InForce, BusyStep, UpTypes
  <2>2. /\ Apart(cur)' /\ Apart(up.doms)' /\ Apart(InForce)' /\ Apart(InForce)
        /\ up'.build \subseteq up'.doms /\ up'.detach \cap (up'.doms \ up'.build) = {}
    BY <1>1, <1>2, <2>1 DEF PartInv, Apart
  <2>3. (\A dom \in InForce : Realised(dom) \/ Growing(dom)) /\ Covered
    BY <1>1 DEF PartInv
  <2>4. \A dom \in InForce : dom.mask \subseteq CPU
    BY <2>1 DEF Doms
  <2>5. CASE up.n = 0
    <3>1. \A dom \in InForce : dom.mask \cap up.left = {}
      BY <1>1, <1>3, <2>5 DEF PartInv
    <3>2. \A dom \in InForce : Realised(dom)
      BY <2>3, <2>5 DEF Growing
    <3>3. ASSUME NEW dom \in InForce
          PROVE  Realised(dom)'
      <4>1. c \notin dom.mask /\ Realised(dom) /\ dom.mask \subseteq CPU
        BY <1>3, <2>4, <3>1, <3>2
      <4> QED
        BY <1>1, <1>3, <1>7, <2>5, <4>1, KeepsRealised
    <3>4. Covered'
      BY <1>2, <1>3, <1>6, <2>1, <2>3, <2>5 DEF Covered
    <3> QED
      BY <1>2, <2>1, <2>2, <2>5, <3>1, <3>3, <3>4 DEF PartInv
  <2>6. CASE up.n # 0
    <3>1. PICK g \in InForce : Growing(g) /\ up.left \subseteq g.mask
      BY <1>1, <1>3, <2>6 DEF PartInv
    <3>2. MineOf(rq, up.n) \cup up.left = g.mask
      BY <1>3, <3>1 DEF Growing, Mine
    <3>3. Growing(g)'
      <4>1. MineOf(rq', up.n) = MineOf(rq, up.n) \cup {c}
        BY <1>8
      <4>2. MineOf(rq', up.n) \cup (up.left \ {c}) = g.mask
        BY <1>3, <3>2, <4>1
      <4> QED
        BY <1>2, <1>3, <2>6, <4>2 DEF Growing, Mine
    <3>4. ASSUME NEW dom \in InForce, dom # g
          PROVE  Realised(dom)'
      <4>1. dom.mask \cap g.mask = {} /\ c \notin dom.mask
        BY <1>3, <2>2, <3>1, <3>4 DEF Apart
      <4>2. ~Growing(dom)
        BY <1>3, <4>1 DEF Growing
      <4>3. Realised(dom) /\ dom.mask \subseteq CPU
        BY <2>3, <2>4, <4>2
      <4>4. \A k \in dom.mask : rq[k].rd # up.n
        BY <3>2, <4>1, <4>3 DEF MineOf
      <4> QED
        BY <1>1, <1>3, <1>7, <4>1, <4>3, <4>4, KeepsRealised
    <3>5. Covered'
      <4>1. c \in g.mask
        BY <1>3, <3>1
      <4> QED
        BY <1>3, <1>6, <2>1, <2>3, <2>6, <4>1 DEF Covered
    <3>6. \A dom \in InForce : Realised(dom)' \/ Growing(dom)'
      BY <3>3, <3>4
    <3> QED
      BY <1>2, <2>1, <2>2, <2>6, <3>1, <3>3, <3>5, <3>6 DEF PartInv
  <2> QED
    BY <2>5, <2>6
<1>21. FrozenInv' /\ FollowInv'
  BY <1>1, <1>4, NotifiersWait
<1> QED
  BY <1>14, <1>15, <1>16, <1>17, <1>18, <1>19, <1>20, <1>21 DEF IInv

-----------------------------------------------------------------------------
(* Readers                                                                 *)

\* What a step of a reader, or of the callbacks, leaves alone.
ReaderStep ==
    UNCHANGED <<online, active, rq, cur, up, conf, work, frozen, sleep, fails>>

LEMMA ReaderKeeps ==
  ASSUME IInv, ReaderStep
  PROVE  UpTypes' /\ OnlineInv' /\ PartInv' /\ FrozenInv' /\ FollowInv'
<1>1. UpTypes' /\ OnlineInv'
  BY DEF IInv, ReaderStep, UpTypes, OnlineInv, Attaching, Arriving
<1>2. PartInv'
  BY DEF IInv, ReaderStep, PartInv, InForce, Busy, Attaching, Todo, Covered, Realised, Growing,
         Mine, MineOf
<1>3. FrozenInv' /\ FollowInv'
  BY DEF IInv, ReaderStep, FrozenInv, FollowInv, Lost, GoingDown, Free, Busy
<1> QED
  BY <1>1, <1>2, <1>3

LEMMA LockStep ==
  ASSUME DomainsAssumption, IInv, NEW k \in Readers, ReadLock(k)
  PROVE  IInv'
<1>1. /\ hold[k] = NULL /\ rds' = rds /\ pend' = pend /\ rq' = rq /\ up' = up /\ ReaderStep
      /\ QueueTypes /\ UpInv /\ Agree /\ PendInv /\ HoldInv
      /\ \E c \in CPU : hold' = [hold EXCEPT ![k] = [sd |-> rq[c].sd, rd |-> rq[c].rd]]
  BY DEF ReadLock, IInv, machine, world, ReaderStep
<1>2. PICK c \in CPU : hold' = [hold EXCEPT ![k] = [sd |-> rq[c].sd, rd |-> rq[c].rd]]
  BY <1>1
<1>3. DOMAIN hold' = Readers /\ hold'[k].rd = rq[c].rd /\ \A r \in Readers \ {k} : hold'[r] = hold[r]
  BY <1>1, <1>2 DEF QueueTypes
<1>4. rq[c].rd \in DOMAIN rds /\ \A p \in pend : Dying(p) => p.obj # rq[c].rd
  BY <1>1 DEF Agree, AgreeOf, PendInv, Mine, MineOf
<1>5. HoldInv'
  BY <1>1, <1>3, <1>4 DEF HoldInv
<1>6. QueueTypes' /\ UpInv' /\ Agree' /\ PendInv'
  BY ZenonT(45), <1>1, <1>3 DEF QueueTypes, UpInv, Agree, AgreeOf, PendInv, Mine, ReaderStep, Attaching, Todo, Busy
<1> QED
  BY <1>1, <1>5, <1>6, ReaderKeeps DEF IInv

LEMMA UnlockStep ==
  ASSUME DomainsAssumption, IInv, NEW k \in Readers, ReadUnlock(k)
  PROVE  IInv'
<1>1. /\ hold' = [hold EXCEPT ![k] = NULL] /\ pend' = Waited(pend, k)
      /\ rds' = rds /\ rq' = rq /\ up' = up /\ ReaderStep
      /\ QueueTypes /\ UpInv /\ Agree /\ PendInv /\ HoldInv
  BY DEF ReadUnlock, IInv, machine, world, ReaderStep
<1>2. DOMAIN hold' = Readers /\ hold'[k] = NULL /\ \A r \in Readers \ {k} : hold'[r] = hold[r]
  BY <1>1 DEF QueueTypes
<1>3. Waits(rds, rq, hold, pend) /\ (Attaching => Avoids(pend, up.n))
  BY <1>1, WaitsNow
<1>4. Waits(rds, rq, hold', pend)
  BY <1>2, <1>3 DEF Waits
<1>5. Waits(rds, rq, hold', pend') /\ (Attaching => Avoids(pend', up.n))
  <2>1. \A r \in Readers : hold'[r] # NULL => r # k
    BY <1>2
  <2> QED
    BY <1>1, <1>3, <1>4, <2>1, WaitedKeeps
<1>6. PendInv' /\ HoldInv' /\ \A p \in pend' : DOMAIN p = {"obj", "func", "wait"}
  <2>1. Attaching' => Attaching
    BY <1>1 DEF Attaching
  <2> QED
    BY <1>1, <1>5, <2>1, WaitsNext
<1>7. QueueTypes' /\ UpInv' /\ Agree'
  BY <1>1, <1>2, <1>6 DEF QueueTypes, UpInv, Agree, AgreeOf, ReaderStep, Attaching, Todo, Busy
<1> QED
  BY <1>1, <1>6, <1>7, ReaderKeeps DEF IInv

\* The root domains that are freed have no run queue and no reader.
LEMMA GraceStep ==
  ASSUME DomainsAssumption, IInv, GracePeriod
  PROVE  IInv'
<1> DEFINE due == {p \in pend : p.wait = {}}
           freed == {p.obj : p \in {x \in due : x.func = "free_rootdomain"}}
<1>1. /\ rds' = Without(rds, freed) /\ pend' = pend \ due
      /\ hold' = hold /\ rq' = rq /\ up' = up /\ ReaderStep
      /\ QueueTypes /\ UpInv /\ Agree /\ PendInv /\ HoldInv
  BY DEF GracePeriod, IInv, machine, world, ReaderStep
<1>2. DOMAIN rds' = DOMAIN rds \ freed /\ \A d \in DOMAIN rds \ freed : rds'[d] = rds[d]
  BY <1>1 DEF Without, Restrict
<1>3. \A d : d \in freed <=> \E p \in pend : Dying(p) /\ p.wait = {} /\ p.obj = d
  BY DEF Dying
<1> HIDE DEF freed
<1>4. /\ \A d \in freed : d # 0 /\ Mine(d) = {} /\ (Attaching => d # up.n)
      /\ \A p \in pend' : p \in pend /\ (Dying(p) => p.obj \notin freed)
  BY <1>1, <1>3 DEF PendInv
<1>5. \A r \in Readers : hold[r] # NULL => hold[r].rd \notin freed
  BY <1>1, <1>3 DEF HoldInv
<1> HIDE DEF due
<1>6. \A c \in CPU : rq[c].rd \in DOMAIN rds'
  BY <1>1, <1>2, <1>4 DEF Agree, AgreeOf, Mine, MineOf
<1>7. Agree'
  BY <1>1, <1>2, <1>6 DEF Agree, AgreeOf
<1>8. QueueTypes'
  <2>1. rds' \in [DOMAIN rds' -> Root]
    <3>1. \A d \in DOMAIN rds' : rds'[d] \in Root
      BY <1>1, <1>2 DEF QueueTypes
    <3>2. rds' = [d \in DOMAIN rds' |-> rds'[d]]
      BY <1>1 DEF Without, Restrict
    <3> QED
      BY <3>1, <3>2
  <2> QED
    BY <1>1, <1>2, <1>4, <2>1 DEF QueueTypes, ReaderStep
<1>9. UpInv'
  BY <1>1, <1>2, <1>4 DEF UpInv, ReaderStep, Attaching, Todo, Busy
<1>10. PendInv' /\ HoldInv'
  BY <1>1, <1>2, <1>4, <1>5 DEF PendInv, HoldInv, Mine, Attaching
<1> QED
  BY <1>1, <1>7, <1>8, <1>9, <1>10, ReaderKeeps DEF IInv

-----------------------------------------------------------------------------
(* A partition ends                                                        *)

\* The new sets are remembered, and the notifiers go on.
LEMMA PartitionEndStep ==
  ASSUME DomainsAssumption, IInv, PartitionEnd
  PROVE  IInv'
<1>1. /\ up.pc = "ops" /\ up.detach = {} /\ up.build = {} /\ cur' = up.doms
      /\ rds' = rds /\ rq' = rq /\ pend' = pend /\ hold' = hold
      /\ online' = online /\ active' = active /\ conf' = conf /\ work' = work
      /\ frozen' = frozen /\ sleep' = sleep
      /\ QueueTypes /\ UpTypes /\ UpInv /\ Agree /\ OnlineInv /\ PendInv /\ HoldInv
      /\ PartInv /\ FrozenInv /\ FollowInv
  BY DEF PartitionEnd, IInv, machine
<1>2. fails' \in Nat /\ (fails > 0 => fails' > 0)
  BY DEF PartitionEnd, Failing, IInv, UpTypes
<1>3. /\ DOMAIN up' = UpFields /\ up'.pc = IF up.then = "done" THEN "idle" ELSE up.then
      /\ up'.left = {} /\ up'.detach = {} /\ up'.build = {} /\ up'.doms = {} /\ up'.then = "done"
      /\ up.then # "done" => up'.cpu = up.cpu /\ up'.fr = up.fr
      /\ up.then = "done" => up'.fr = FALSE
  BY <1>1 DEF PartitionEnd, NoUp, UpFields
<1>4. up'.pc \in {"idle", "dying", "online"} /\ up'.fr \in BOOLEAN /\ up.then \in {"done", "dying", "online"}
  BY <1>1, <1>3 DEF UpTypes
<1>5. Busy /\ ~Busy' /\ ~Attaching /\ ~Attaching'
  BY <1>1, <1>4 DEF Busy, Attaching
<1>6. QueueTypes' /\ UpTypes'
  BY <1>1, <1>2, <1>3, <1>4, <1>5 DEF QueueTypes, UpTypes
<1>7. UpInv'
  BY <1>1, <1>3, <1>4, <1>5 DEF UpInv
<1>8. Agree' /\ PendInv' /\ HoldInv'
  BY <1>1, <1>5 DEF Agree, PendInv, HoldInv, Mine
<1>9. OnlineInv'
  BY <1>1, <1>3, <1>4 DEF OnlineInv, Arriving
<1>10. PartInv'
  <2>1. InForce = up.doms /\ InForce' = up.doms
    BY <1>1, <1>5 DEF InForce, PartInv
  <2>2. /\ Apart(up.doms) /\ Covered
        /\ \A dom \in up.doms : Realised(dom)
    BY <1>1, <1>5, <2>1 DEF PartInv, Growing
  <2>3. \A dom \in up.doms : Realised(dom)'
    BY <1>1, <1>2, <2>2 DEF Realised, Mine
  <2>4. Covered'
    BY <1>1, <1>5, <2>1, <2>2 DEF Covered
  <2>5. Apart(cur)' /\ Apart(up.doms)' /\ Apart(InForce)'
    BY <1>1, <1>3, <2>1, <2>2 DEF Apart
  <2> QED
    BY <1>3, <1>5, <2>1, <2>3, <2>4, <2>5 DEF PartInv
<1>11. GoingDown' = GoingDown
  BY <1>1, <1>3, <1>4 DEF GoingDown
<1>12. FrozenInv'
  BY <1>1, <1>11 DEF FrozenInv, Lost
<1>13. FollowInv'
  BY <1>1, <1>3, <1>5, <1>11 DEF FollowInv, Lost, Free, Generate
<1> QED
  BY <1>6, <1>7, <1>8, <1>9, <1>10, <1>12, <1>13 DEF IInv

-----------------------------------------------------------------------------
(* Cpusets, hotplug and suspend                                            *)

LEMMA GenerateDoms ==
  ASSUME DomainsAssumption, NEW cf \in Cpusets, NEW act, act \subseteq CPU
  PROVE  /\ Generate(cf, act) \subseteq Doms /\ Apart(Generate(cf, act))
         /\ \A d \in Generate(cf, act) : d.mask \subseteq act
<1>1. /\ \A e \in cf : e.mask \subseteq CPU /\ e.relax \in Int
      /\ \A d, e \in cf : d # e => d.mask \cap e.mask = {}
  BY DEF DomainsAssumption
<1>2. \A d \in Generate(cf, act) :
         \E e \in cf : d = [mask |-> (e.mask \cap act) \ Isolated, relax |-> e.relax]
  BY DEF Generate
<1>3. \A d \in Generate(cf, act) : d \in Doms /\ d.mask \subseteq act
  BY <1>1, <1>2 DEF Doms
<1>4. \A d1, d2 \in Generate(cf, act) : d1 # d2 => d1.mask \cap d2.mask = {}
  <2> SUFFICES ASSUME NEW d1 \in Generate(cf, act), NEW d2 \in Generate(cf, act), d1 # d2
               PROVE  d1.mask \cap d2.mask = {}
    OBVIOUS
  <2>1. PICK e1 \in cf : d1 = [mask |-> (e1.mask \cap act) \ Isolated, relax |-> e1.relax]
    BY <1>2
  <2>2. PICK e2 \in cf : d2 = [mask |-> (e2.mask \cap act) \ Isolated, relax |-> e2.relax]
    BY <1>2
  <2>3. e1.mask \cap e2.mask = {}
    BY <1>1, <2>1, <2>2
  <2> QED
    BY <2>1, <2>2, <2>3
<1> QED
  BY <1>3, <1>4 DEF Apart

LEMMA FallbackDomsApart ==
  ASSUME NEW act, act \subseteq CPU
  PROVE  /\ FallbackDoms(act) \subseteq Doms /\ Apart(FallbackDoms(act))
         /\ \A d \in FallbackDoms(act) : d.mask \subseteq act
BY DEF FallbackDoms, Doms, Apart

\* No notifier is at work but, perhaps, that of a CPU that could not go down.
LEMMA NotBusy ==
  ASSUME IInv, ~Busy
  PROVE  /\ up.then = "done" /\ ~Attaching
         /\ Free => GoingDown = 0 /\ \A c \in CPU : ~Arriving(c)
         /\ up.pc = "dying" => /\ GoingDown = (IF up.fr THEN 1 ELSE 0)
                               /\ \A c \in CPU : ~Arriving(c)
                               /\ up.cpu \in online \ {0} /\ up.cpu \notin active
BY DEF IInv, UpInv, Busy, Attaching, Free, GoingDown, Arriving

\* A partition is started by the cpusets or by a notifier.
LEMMA StartStep ==
  ASSUME DomainsAssumption, IInv, ~Busy,
         NEW new, NEW null \in BOOLEAN, NEW then \in {"done", "dying", "online"}, NEW fr \in BOOLEAN,
         Begun(new, null, then, fr), StartFrame(new),
         \A c \in CPU : ~Arriving(c),
         online \subseteq online', \A c \in online' \ online : up'.cpu = c /\ then = "online",
         FrozenInv', FollowInv'
  PROVE  IInv'
<1>1. QueueTypes' /\ UpTypes' /\ UpInv' /\ RootsInv' /\ PartInv'
  BY Started DEF IInv, RootsInv
<1>2. OnlineInv'
  <2>1. rq' = rq /\ online' \subseteq CPU /\ up'.then = then
    BY DEF StartFrame, Begun
  <2>2. /\ \A c \in CPU : rq[c].online => c \in online
        /\ \A c \in online : c \in CPU /\ (rq[c].rd # 0 => rq[c].online)
    BY DEF IInv, OnlineInv, QueueTypes
  <2>3. \A c \in online' \ online : Arriving(c)'
    BY <2>1 DEF Arriving
  <2> QED
    BY <2>1, <2>2, <2>3 DEF OnlineInv
<1> QED
  BY <1>1, <1>2 DEF IInv, RootsInv

LEMMA ConfigureStep ==
  ASSUME DomainsAssumption, IInv, ConfigureCpusets
  PROVE  IInv'
<1> DEFINE new == Generate(conf', active)
<1>1. /\ Free /\ PartitionStart(new, FALSE, NoUp)
      /\ online' = online /\ active' = active /\ rds' = rds /\ rq' = rq /\ pend' = pend
      /\ hold' = hold /\ cur' = cur /\ fails' = fails
      /\ conf' \in Cpusets /\ work' = work /\ frozen' = frozen /\ sleep' = sleep
  BY DEF ConfigureCpusets, Request, machine
<1>2. /\ ~Busy /\ GoingDown = 0 /\ \A c \in CPU : ~Arriving(c)
      /\ active \subseteq CPU /\ QueueTypes /\ FrozenInv
  <2>1. ~Busy
    BY <1>1 DEF Free, Busy
  <2> QED
    BY <1>1, <2>1, NotBusy DEF IInv, QueueTypes
<1> HIDE DEF new
<1>3. Begun(new, FALSE, "done", FALSE)
  BY <1>1, PlainStartEffect
<1>4. new \subseteq Doms /\ Apart(new) /\ \A d \in new : d.mask \subseteq active
  BY <1>1, <1>2, GenerateDoms DEF new
<1>5. StartFrame(new)
  BY <1>1, <1>3, <1>4, <1>2 DEF StartFrame, Begun, QueueTypes
<1>6. GoingDown' = 0
  BY <1>3 DEF GoingDown, Begun
<1>7. FrozenInv'
  BY <1>1, <1>2, <1>6 DEF FrozenInv, Lost
<1>8. FollowInv'
  BY <1>1, <1>3 DEF FollowInv, Begun, Busy, new
<1> QED
  BY <1>1, <1>2, <1>3, <1>5, <1>7, <1>8, StartStep

LEMMA WorkStep ==
  ASSUME DomainsAssumption, IInv, CpusetWork
  PROVE  IInv'
<1> DEFINE new == Generate(conf, active)
<1>1. /\ Free /\ PartitionStart(new, FALSE, NoUp)
      /\ online' = online /\ active' = active /\ rds' = rds /\ rq' = rq /\ pend' = pend
      /\ hold' = hold /\ cur' = cur /\ fails' = fails
      /\ conf' = conf /\ frozen' = frozen /\ sleep' = sleep
  BY DEF CpusetWork, machine
<1>2. /\ ~Busy /\ GoingDown = 0 /\ \A c \in CPU : ~Arriving(c)
      /\ active \subseteq CPU /\ QueueTypes /\ FrozenInv /\ conf \in Cpusets
  <2>1. ~Busy
    BY <1>1 DEF Free, Busy
  <2> QED
    BY <1>1, <2>1, NotBusy DEF IInv, QueueTypes, FrozenInv
<1> HIDE DEF new
<1>3. Begun(new, FALSE, "done", FALSE)
  BY <1>1, PlainStartEffect
<1>4. new \subseteq Doms /\ Apart(new) /\ \A d \in new : d.mask \subseteq active
  BY <1>1, <1>2, GenerateDoms DEF new
<1>5. StartFrame(new)
  BY <1>1, <1>3, <1>4, <1>2 DEF StartFrame, Begun, QueueTypes
<1>6. GoingDown' = 0
  BY <1>3 DEF GoingDown, Begun
<1>7. FrozenInv'
  BY <1>1, <1>2, <1>6 DEF FrozenInv, Lost
<1>8. FollowInv'
  BY <1>1, <1>3 DEF FollowInv, Begun, Busy, new, Generate
<1> QED
  BY <1>1, <1>2, <1>3, <1>5, <1>7, <1>8, StartStep

\* cpuset_cpu_inactive: a frozen CPU is counted, or the cpusets will be looked at again.
LEMMA PrepareStep ==
  ASSUME DomainsAssumption, IInv, Free, NEW c \in online \ {0}, NEW fr \in BOOLEAN,
         fr => sleep.phase # "awake", DownPrepare(c, fr)
  PROVE  IInv'
<1> DEFINE new == FallbackDoms(active')
<1>1. /\ active' = active \ {c} /\ online' = online /\ rds' = rds /\ rq' = rq /\ pend' = pend
      /\ hold' = hold /\ cur' = cur /\ fails' = fails /\ conf' = conf /\ sleep' = sleep
      /\ frozen' = IF fr THEN frozen + 1 ELSE frozen
      /\ work' = (work \/ ~fr)
      /\ PartitionStart(new, TRUE, [NoUp EXCEPT !.then = "dying", !.cpu = c, !.fr = fr])
  BY DEF DownPrepare, CpusetCpuInactive
<1>2. /\ ~Busy /\ GoingDown = 0 /\ \A k \in CPU : ~Arriving(k)
      /\ QueueTypes /\ FrozenInv /\ active' \subseteq CPU
  <2>1. ~Busy
    BY DEF Free, Busy
  <2> QED
    BY <1>1, <2>1, NotBusy DEF IInv, QueueTypes
<1> HIDE DEF new
<1>3. Begun(new, TRUE, "dying", fr) /\ up'.cpu = c
  BY <1>1, StartEffect
<1>4. new \subseteq Doms /\ Apart(new) /\ \A d \in new : d.mask \subseteq active'
  BY <1>2, FallbackDomsApart DEF new
<1>5. StartFrame(new)
  BY <1>1, <1>2, <1>3, <1>4 DEF StartFrame, Begun, QueueTypes
<1>6. GoingDown' = IF fr THEN 1 ELSE 0
  BY <1>3 DEF GoingDown, Begun
<1>7. Cardinality(sleep.cpus) \in Nat
  <2>1. IsFiniteSet(sleep.cpus)
    BY <1>2, FS_Subset DEF FrozenInv, DomainsAssumption
  <2> QED
    BY <2>1, FS_CardinalityType
<1>8. Lost' = Lost /\ frozen' \in Int
  BY <1>1, <1>2, <1>6, <1>7 DEF Lost, FrozenInv
<1>9. FrozenInv'
  BY <1>1, <1>2, <1>6, <1>8 DEF FrozenInv
<1>10. FollowInv'
  <2>1. CASE ~fr
    BY <1>1, <2>1 DEF FollowInv
  <2>2. CASE fr
    <3>1. Lost = 0 => frozen' # 0
      BY <1>1, <1>2, <1>7, <2>2 DEF Lost, FrozenInv
    <3> QED
      BY <1>8, <3>1 DEF FollowInv
  <2> QED
    BY <2>1, <2>2
<1> QED
  BY <1>1, <1>2, <1>3, <1>5, <1>9, <1>10, StartStep

\* cpuset_cpu_active: the cpusets will be looked at again, or some CPU is still frozen.
LEMMA ActiveStep ==
  ASSUME DomainsAssumption, IInv, ~Busy, \A k \in CPU : ~Arriving(k),
         NEW c \in online', NEW fr \in BOOLEAN, NEW then \in {"done", "online"},
         CpusetCpuActive(c, fr, active', then),
         UNCHANGED <<rds, rq, pend, hold, cur, conf, fails>>,
         active' \subseteq online', online' \subseteq CPU, online \subseteq online',
         \A k \in online' \ online : k = c /\ then = "online",
         sleep' \in [phase : {"awake", "suspend", "resume"}, cpus : SUBSET CPU],
         sleep'.cpus \cap online' = {},
         sleep'.phase = "awake" => sleep'.cpus = {},
         Cardinality(sleep'.cpus) - frozen' >= 0
  PROVE  IInv'
<1> DEFINE new == FallbackDoms(active')
<1>1. /\ frozen' = IF fr THEN frozen - 1 ELSE frozen
      /\ work' = (work \/ ~fr \/ frozen' = 0)
      /\ PartitionStart(new, TRUE, [NoUp EXCEPT !.then = then, !.cpu = c, !.fr = fr])
  BY DEF CpusetCpuActive
<1>2. QueueTypes /\ FrozenInv /\ active' \subseteq CPU
  BY DEF IInv
<1>3. work' \/ frozen' # 0
  <2>1. CASE ~fr
    BY <1>1, <2>1, Zenon
  <2>2. CASE frozen' = 0
    BY <1>1, <2>2, Zenon
  <2>3. CASE fr /\ frozen' # 0
    BY <2>3
  <2> QED
    BY <2>1, <2>2, <2>3
<1> HIDE DEF new
<1>4. Begun(new, TRUE, then, fr) /\ up'.cpu = c
  BY <1>1, StartEffect
<1>5. new \subseteq Doms /\ Apart(new) /\ \A d \in new : d.mask \subseteq active'
  BY <1>2, FallbackDomsApart DEF new
<1>6. StartFrame(new)
  BY <1>2, <1>4, <1>5 DEF StartFrame, Begun, QueueTypes
<1>7. GoingDown' = 0
  BY <1>4 DEF GoingDown, Begun
<1>8. FrozenInv'
  <2>1. frozen' \in Int
    BY <1>1, <1>2 DEF FrozenInv
  <2>2. Lost' >= 0
    <3>1. IsFiniteSet(sleep'.cpus)
      BY FS_Subset DEF DomainsAssumption
    <3>2. Cardinality(sleep'.cpus) \in Nat
      BY <3>1, FS_CardinalityType
    <3> QED
      BY <1>7, <2>1, <3>2 DEF Lost
  <2> QED
    BY <1>2, <1>7, <2>1, <2>2 DEF FrozenInv
<1>9. FollowInv'
  BY <1>3 DEF FollowInv
<1>10. \A k \in online' \ online : up'.cpu = k /\ then = "online"
  BY <1>4
<1> QED
  BY <1>4, <1>6, <1>8, <1>9, <1>10, StartStep

\* What the count of the frozen CPUs is before.
LEMMA FrozenBefore ==
  ASSUME DomainsAssumption, IInv
  PROVE  /\ IsFiniteSet(sleep.cpus) /\ Cardinality(sleep.cpus) \in Nat /\ frozen \in Int
         /\ GoingDown \in {0, 1} /\ Cardinality(sleep.cpus) + GoingDown >= frozen
         /\ sleep \in [phase : {"awake", "suspend", "resume"}, cpus : SUBSET CPU]
         /\ sleep.cpus \cap online = {} /\ sleep.cpus \subseteq CPU
         /\ sleep.phase = "awake" => sleep.cpus = {} /\ GoingDown = 0
<1>1. FrozenInv
  BY DEF IInv
<1>2. sleep.cpus \subseteq CPU
  BY <1>1 DEF FrozenInv
<1>3. IsFiniteSet(sleep.cpus)
  BY <1>2, FS_Subset DEF DomainsAssumption
<1>4. Cardinality(sleep.cpus) \in Nat
  BY <1>3, FS_CardinalityType
<1>5. GoingDown \in {0, 1}
  BY DEF GoingDown
<1> QED
  BY <1>1, <1>2, <1>3, <1>4, <1>5 DEF FrozenInv, Lost

LEMMA ResumingEffect ==
  ASSUME NEW fr \in BOOLEAN, sleep' = Resuming(fr),
         sleep \in [phase : {"awake", "suspend", "resume"}, cpus : SUBSET CPU],
         sleep.phase = "awake" => sleep.cpus = {}
  PROVE  /\ sleep' \in [phase : {"awake", "suspend", "resume"}, cpus : SUBSET CPU]
         /\ sleep'.cpus = sleep.cpus
         /\ sleep'.phase = "awake" => sleep'.cpus = {}
BY DEF Resuming

LEMMA RefusedStep ==
  ASSUME DomainsAssumption, IInv, Free, NEW c \in online, NEW fr \in BOOLEAN, DownRefused(c, fr)
  PROVE  IInv'
<1>1. /\ active' = active /\ online' = online /\ sleep' = Resuming(fr)
      /\ UNCHANGED <<rds, rq, pend, hold, cur, conf, fails>>
      /\ CpusetCpuActive(c, fr, active', "done")
      /\ frozen' = IF fr THEN frozen - 1 ELSE frozen
  BY DEF DownRefused, machine, CpusetCpuActive
<1>2. ~Busy /\ GoingDown = 0 /\ (\A k \in CPU : ~Arriving(k)) /\ active \subseteq online /\ online \subseteq CPU
  <2>1. ~Busy
    BY DEF Free, Busy
  <2> QED
    BY <2>1, NotBusy DEF IInv, QueueTypes
<1>3. /\ sleep' \in [phase : {"awake", "suspend", "resume"}, cpus : SUBSET CPU]
      /\ sleep'.cpus = sleep.cpus
      /\ sleep'.phase = "awake" => sleep'.cpus = {}
  BY <1>1, FrozenBefore, ResumingEffect
<1>4. Cardinality(sleep'.cpus) - frozen' >= 0 /\ sleep'.cpus \cap online' = {}
  BY <1>1, <1>2, <1>3, FrozenBefore
<1> QED
  BY <1>1, <1>2, <1>3, <1>4, ActiveStep

LEMMA FailedStep ==
  ASSUME DomainsAssumption, IInv, DownFailed
  PROVE  IInv'
<1>1. /\ up.pc = "dying" /\ active' = active \cup {up.cpu} /\ online' = online
      /\ sleep' = Resuming(up.fr)
      /\ UNCHANGED <<rds, rq, pend, hold, cur, conf, fails>>
      /\ CpusetCpuActive(up.cpu, up.fr, active', "done")
      /\ frozen' = IF up.fr THEN frozen - 1 ELSE frozen
  BY DEF DownFailed, CpusetCpuActive
<1>2. /\ ~Busy /\ GoingDown = (IF up.fr THEN 1 ELSE 0) /\ \A k \in CPU : ~Arriving(k)
      /\ active \subseteq online /\ online \subseteq CPU /\ up.cpu \in online \ {0} /\ up.fr \in BOOLEAN
  <2>1. ~Busy
    BY <1>1 DEF Busy
  <2> QED
    BY <1>1, <2>1, NotBusy DEF IInv, QueueTypes, UpTypes
<1>3. /\ sleep' \in [phase : {"awake", "suspend", "resume"}, cpus : SUBSET CPU]
      /\ sleep'.cpus = sleep.cpus
      /\ sleep'.phase = "awake" => sleep'.cpus = {}
  BY <1>1, <1>2, FrozenBefore, ResumingEffect
<1>4. Cardinality(sleep'.cpus) - frozen' >= 0 /\ sleep'.cpus \cap online' = {}
  BY <1>1, <1>2, <1>3, FrozenBefore
<1> QED
  BY <1>1, <1>2, <1>3, <1>4, ActiveStep

\* A CPU comes online, by request or because the system resumes.
LEMMA UpStep ==
  ASSUME DomainsAssumption, IInv, Free, NEW c \in CPU, NEW fr \in BOOLEAN, BringUp(c, fr),
         sleep' \in [phase : {"awake", "suspend", "resume"}, cpus : SUBSET CPU],
         sleep'.cpus \cap (online \cup {c}) = {},
         sleep'.phase = "awake" => sleep'.cpus = {},
         Cardinality(sleep'.cpus) = Cardinality(sleep.cpus) - (IF fr THEN 1 ELSE 0)
  PROVE  IInv'
<1>1. /\ active' = active \cup {c} /\ online' = online \cup {c}
      /\ UNCHANGED <<rds, rq, pend, hold, cur, conf, fails>>
      /\ CpusetCpuActive(c, fr, active', "online")
      /\ frozen' = IF fr THEN frozen - 1 ELSE frozen
  BY DEF BringUp, CpusetCpuActive
<1>2. ~Busy /\ GoingDown = 0 /\ (\A k \in CPU : ~Arriving(k)) /\ active \subseteq online /\ online \subseteq CPU
  <2>1. ~Busy
    BY DEF Free, Busy
  <2> QED
    BY <2>1, NotBusy DEF IInv, QueueTypes
<1>3. Cardinality(sleep'.cpus) - frozen' >= 0
  BY <1>1, <1>2, FrozenBefore
<1>4. /\ c \in online' /\ active' \subseteq online' /\ online' \subseteq CPU /\ online \subseteq online'
      /\ \A k \in online' \ online : k = c
      /\ sleep'.cpus \cap online' = {}
  BY <1>1, <1>2
<1>5. \A k \in online' \ online : k = c /\ "online" = "online"
  BY <1>4
<1>6. CpusetCpuActive(c, fr, active', "online") /\ UNCHANGED <<rds, rq, pend, hold, cur, conf, fails>>
  BY <1>1
<1> QED
  BY ONLY DomainsAssumption, IInv, <1>2, <1>3, <1>4, <1>5, <1>6, ActiveStep,
          sleep' \in [phase : {"awake", "suspend", "resume"}, cpus : SUBSET CPU],
          sleep'.phase = "awake" => sleep'.cpus = {}

LEMMA DownStep ==
  ASSUME DomainsAssumption, IInv, NEW c \in CPU, CpuDown(c)
  PROVE  IInv'
<1>1. Free /\ c \in online \ {0} /\ (DownPrepare(c, FALSE) \/ DownRefused(c, FALSE))
  BY DEF CpuDown, Request
<1> QED
  BY <1>1, PrepareStep, RefusedStep

LEMMA UpRequestStep ==
  ASSUME DomainsAssumption, IInv, NEW c \in CPU, CpuUp(c)
  PROVE  IInv'
<1>1. Free /\ sleep.phase = "awake" /\ c \notin online /\ BringUp(c, FALSE) /\ sleep' = sleep
  BY DEF CpuUp, Request
<1>2. /\ sleep' \in [phase : {"awake", "suspend", "resume"}, cpus : SUBSET CPU]
      /\ sleep'.cpus = {}
      /\ Cardinality(sleep'.cpus) = Cardinality(sleep.cpus) - (IF FALSE THEN 1 ELSE 0)
  BY <1>1, FrozenBefore
<1>3. sleep'.cpus \cap (online \cup {c}) = {}
  BY <1>2
<1> QED
  BY <1>1, <1>2, <1>3, UpStep

LEMMA SuspendCpuStep ==
  ASSUME DomainsAssumption, IInv, SuspendCpu
  PROVE  IInv'
<1> DEFINE c == Min(online \ {0})
<1>1. /\ Free /\ sleep.phase = "suspend" /\ online # {0}
      /\ DownPrepare(c, TRUE) \/ DownRefused(c, TRUE)
  BY DEF SuspendCpu
<1>2. online \subseteq CPU /\ 0 \in online /\ CPU \subseteq Nat
  BY DEF IInv, QueueTypes, DomainsAssumption
<1>3. c \in online \ {0}
  BY <1>1, <1>2, MinIn
<1> HIDE DEF c
<1> QED
  BY <1>1, <1>3, PrepareStep, RefusedStep

LEMMA ResumeCpuStep ==
  ASSUME DomainsAssumption, IInv, ResumeCpu
  PROVE  IInv'
<1> DEFINE c == Min(sleep.cpus)
<1>1. /\ Free /\ sleep.phase = "resume" /\ sleep.cpus # {} /\ BringUp(c, TRUE)
      /\ sleep' = [sleep EXCEPT !.cpus = sleep.cpus \ {c}]
  BY DEF ResumeCpu
<1>2. /\ sleep \in [phase : {"awake", "suspend", "resume"}, cpus : SUBSET CPU]
      /\ sleep.cpus \subseteq CPU /\ IsFiniteSet(sleep.cpus) /\ CPU \subseteq Nat
      /\ sleep.cpus \cap online = {}
  BY FrozenBefore DEF DomainsAssumption
<1>3. c \in sleep.cpus
  BY <1>1, <1>2, MinIn
<1> HIDE DEF c
<1>4. /\ sleep' \in [phase : {"awake", "suspend", "resume"}, cpus : SUBSET CPU]
      /\ sleep'.cpus = sleep.cpus \ {c} /\ sleep'.phase = "resume"
  BY <1>1, <1>2
<1>5. Cardinality(sleep'.cpus) = Cardinality(sleep.cpus) - (IF TRUE THEN 1 ELSE 0)
  <2>1. Cardinality(sleep.cpus \ {c}) = Cardinality(sleep.cpus) - 1
    BY <1>2, <1>3, FS_RemoveElement
  <2> QED
    BY <1>4, <2>1
<1>6. sleep'.cpus \cap (online \cup {c}) = {}
  BY <1>2, <1>4
<1>7. c \in CPU /\ (sleep'.phase = "awake" => sleep'.cpus = {}) /\ TRUE \in BOOLEAN
  BY <1>2, <1>3, <1>4
<1>8. BringUp(c, TRUE) /\ Free
  BY <1>1
<1>9. sleep' \in [phase : {"awake", "suspend", "resume"}, cpus : SUBSET CPU]
  BY <1>4
<1> QED
  BY ONLY DomainsAssumption, IInv, <1>5, <1>6, <1>7, <1>8, <1>9, UpStep

\* Suspend begins, or turns into a resume, or is over.
LEMMA PhaseStep ==
  ASSUME DomainsAssumption, IInv, Suspend \/ Asleep \/ Awake
  PROVE  IInv'
<1>1. /\ UNCHANGED <<machine, heap, rds, rq, pend, hold, cur, ctl, up, conf, work, frozen, fails>>
      /\ Free
      /\ \/ sleep.phase = "awake" /\ sleep' = [phase |-> "suspend", cpus |-> {}]
         \/ sleep' = [sleep EXCEPT !.phase = "resume"]
         \/ sleep.cpus = {} /\ sleep' = [sleep EXCEPT !.phase = "awake"]
  BY DEF Suspend, Asleep, Awake, Request
<1>2. /\ sleep \in [phase : {"awake", "suspend", "resume"}, cpus : SUBSET CPU]
      /\ sleep.phase = "awake" => sleep.cpus = {}
  BY FrozenBefore
<1>3. /\ sleep' \in [phase : {"awake", "suspend", "resume"}, cpus : SUBSET CPU]
      /\ sleep'.cpus = sleep.cpus
      /\ sleep'.phase = "awake" => sleep'.cpus = {}
  <2>1. CASE sleep.phase = "awake" /\ sleep' = [phase |-> "suspend", cpus |-> {}]
    BY <1>2, <2>1
  <2>2. CASE sleep' = [sleep EXCEPT !.phase = "resume"]
    BY <1>2, <2>2
  <2>3. CASE sleep.cpus = {} /\ sleep' = [sleep EXCEPT !.phase = "awake"]
    BY <1>2, <2>3
  <2> QED
    BY <1>1, <2>1, <2>2, <2>3
<1>4. GoingDown = 0
  <2>1. ~Busy
    BY <1>1 DEF Free, Busy
  <2> QED
    BY <1>1, <2>1, NotBusy
<1>5. FrozenInv' /\ FollowInv'
  <2>1. GoingDown' = GoingDown /\ Free' /\ Generate(conf, active)' = Generate(conf, active)
    BY <1>1 DEF GoingDown, Free, machine, Generate
  <2>2. Lost' = Lost
    BY <1>1, <1>3, <2>1 DEF Lost
  <2>3. FrozenInv /\ FollowInv /\ online' = online /\ active' = active
    BY <1>1 DEF IInv, machine
  <2>4. FrozenInv'
    BY <1>1, <1>3, <1>4, <2>1, <2>2, <2>3 DEF FrozenInv
  <2>5. FollowInv'
    BY <1>1, <2>1, <2>2, <2>3 DEF FollowInv, Free, Busy
  <2> QED
    BY <2>4, <2>5
<1>6. QueueTypes' /\ UpTypes' /\ UpInv' /\ Agree' /\ OnlineInv' /\ PendInv' /\ HoldInv'
  BY <1>1 DEF IInv, QueueTypes, UpTypes, UpInv, Agree, AgreeOf, OnlineInv, PendInv, HoldInv, machine,
              Attaching, Todo, Busy, Arriving, Mine
<1>7. PartInv'
  BY <1>1 DEF IInv, PartInv, InForce, Busy, Attaching, Todo, Covered, Realised, Growing, Mine
<1> QED
  BY <1>5, <1>6, <1>7 DEF IInv

\* What the last notifiers change of run queues and root domains.
LastNotifier(new, val, mask) ==
    /\ BitSet(rds, rq, up.cpu, new, val, mask)
    /\ rds' = new.rds /\ rq' = new.rq
    /\ mask = {c \in MineOf(rq, rq[up.cpu].rd) : IF c = up.cpu THEN val ELSE rq[c].online}
    /\ DOMAIN up' = UpFields /\ up'.pc = "idle" /\ up'.left = {} /\ up'.then = "done" /\ up'.fr = FALSE
    /\ up'.detach = {} /\ up'.build = {} /\ up'.doms = {}
    /\ UNCHANGED <<active, pend, hold, cur, conf, work, frozen, fails>>

LEMMA LastStep ==
  ASSUME DomainsAssumption, IInv, ~Busy, up.cpu \in CPU,
         NEW new, NEW val \in BOOLEAN, NEW mask, LastNotifier(new, val, mask),
         active \subseteq online', online' \subseteq online, 0 \in online'
  PROVE  QueueTypes' /\ UpTypes' /\ UpInv' /\ Agree' /\ PendInv' /\ HoldInv' /\ PartInv'
<1>1. /\ QueueTypes /\ UpTypes /\ UpInv /\ Agree /\ PendInv /\ HoldInv /\ PartInv
      /\ ~Attaching
  BY DEF IInv, Busy, Attaching
<1>2. ~Busy' /\ ~Attaching'
  BY DEF LastNotifier, Busy, Attaching
<1>3. /\ Has(rq') /\ DOMAIN rds' = DOMAIN rds /\ rds' \in [DOMAIN rds -> Root]
      /\ rq'[up.cpu].online = val
      /\ \A k \in CPU : rq'[k].rd = rq[k].rd
      /\ \A k \in CPU \ {up.cpu} : rq'[k].online = rq[k].online
      /\ rds'[rq[up.cpu].rd].online = mask
      /\ \A x \in DOMAIN rds : rds'[x].span = rds[x].span /\ rds'[x].refcount = rds[x].refcount
      /\ \A x \in DOMAIN rds \ {rq[up.cpu].rd} : rds'[x].online = rds[x].online
  BY DEF LastNotifier, BitSet
<1>4. \A x : MineOf(rq', x) = MineOf(rq, x)
  BY <1>3 DEF MineOf
<1>5. QueueTypes'
  BY <1>1, <1>3 DEF QueueTypes, Has, LastNotifier
<1>6. UpTypes' /\ UpInv'
  BY <1>1, <1>2 DEF UpTypes, UpInv, LastNotifier
<1>7. Agree'
  <2>1. \A c \in CPU : rq'[c].rd \in DOMAIN rds'
    BY <1>1, <1>3 DEF Agree, AgreeOf
  <2>2. ASSUME NEW d \in DOMAIN rds
        PROVE  rds'[d].online = {c \in MineOf(rq', d) : rq'[c].online}
    <3>1. CASE d = rq[up.cpu].rd
      <4>1. rds'[d].online = {c \in MineOf(rq, d) : IF c = up.cpu THEN val ELSE rq[c].online}
        BY <1>3, <3>1 DEF LastNotifier
      <4>2. \A c \in MineOf(rq, d) : rq'[c].online = IF c = up.cpu THEN val ELSE rq[c].online
        BY <1>3 DEF MineOf
      <4>3. {c \in MineOf(rq, d) : IF c = up.cpu THEN val ELSE rq[c].online}
               = {c \in MineOf(rq, d) : rq'[c].online}
        BY <4>2
      <4> QED
        BY <1>4, <4>1, <4>3
    <3>2. CASE d # rq[up.cpu].rd
      <4>1. rds'[d].online = {c \in MineOf(rq, d) : rq[c].online}
        BY <1>1, <1>3, <3>2 DEF Agree, AgreeOf
      <4>2. \A c \in MineOf(rq, d) : rq'[c].online = rq[c].online
        BY <1>3, <3>2 DEF MineOf
      <4> QED
        BY <1>4, <4>1, <4>2
    <3> QED
      BY <3>1, <3>2
  <2>3. ASSUME NEW d \in DOMAIN rds
        PROVE  /\ rds'[d].span = MineOf(rq', d)
               /\ rds'[d].refcount = Cardinality(MineOf(rq', d)) + (IF d = 0 THEN 1 ELSE 0)
    BY <1>1, <1>3, <1>4 DEF Agree, AgreeOf
  <2> QED
    BY <1>3, <2>1, <2>2, <2>3 DEF Agree, AgreeOf
<1>8. PendInv' /\ HoldInv'
  BY ZenonT(45), <1>1, <1>2, <1>3, <1>4 DEF PendInv, HoldInv, LastNotifier, Mine, Dying
<1>9. PartInv'
  <2>1. InForce' = cur /\ InForce = cur /\ cur \subseteq Doms /\ cur' = cur /\ fails' = fails
    BY <1>1, <1>2 DEF InForce, LastNotifier, UpTypes
  <2>2. /\ \A dom \in cur : Realised(dom)
        /\ Apart(cur) /\ Covered
    BY <1>1, <2>1 DEF PartInv, Growing
  <2>3. ASSUME NEW dom \in cur
        PROVE  Realised(dom)'
    <3>1. Realised(dom) /\ dom.mask \subseteq CPU
      BY <2>1, <2>2 DEF Doms
    <3> QED
      BY <1>3, <1>4, <2>1, <3>1 DEF Realised, Mine
  <2>4. Covered'
    BY <1>1, <1>2, <1>3, <2>1, <2>2 DEF Covered
  <2>5. Apart(cur)' /\ Apart(InForce)' /\ Apart(up.doms)'
    BY <2>1, <2>2 DEF Apart, LastNotifier
  <2> QED
    BY <1>2, <2>1, <2>3, <2>4, <2>5 DEF PartInv, LastNotifier
<1> QED
  BY <1>5, <1>6, <1>7, <1>8, <1>9

\* CPU_DYING: the CPU leaves the online mask of its root domain with its run queue.
LEMMA DyingStep ==
  ASSUME DomainsAssumption, IInv, CpuDying
  PROVE  IInv'
<1> DEFINE c == up.cpu
           new == SetRqOffline(rds, rq, c)
           mask == IF rq[c].online THEN rds[rq[c].rd].online \ {c} ELSE rds[rq[c].rd].online
<1>1. /\ up.pc = "dying" /\ rds' = new.rds /\ rq' = new.rq /\ online' = online \ {c}
      /\ sleep' = IF up.fr THEN [sleep EXCEPT !.cpus = sleep.cpus \cup {c}] ELSE sleep
      /\ up' = NoUp
      /\ UNCHANGED <<active, pend, hold, cur, conf, work, frozen, fails>>
  BY DEF CpuDying
<1>2. /\ ~Busy /\ GoingDown = (IF up.fr THEN 1 ELSE 0) /\ \A k \in CPU : ~Arriving(k)
      /\ c \in online \ {0} /\ c \notin active /\ up.fr \in BOOLEAN
      /\ active \subseteq online /\ online \subseteq CPU /\ 0 \in online
      /\ Tables(rds, rq) /\ Agree /\ OnlineInv /\ FrozenInv /\ FollowInv
  <2>1. ~Busy
    BY <1>1 DEF Busy
  <2>2. Tables(rds, rq)
    BY DEF Tables, Has, IInv, QueueTypes, Agree, AgreeOf
  <2> QED
    BY <1>1, <2>1, <2>2, NotBusy DEF IInv, QueueTypes, UpTypes
<1>3. BitSet(rds, rq, c, new, FALSE, mask)
  BY <1>2, OfflineEffect
<1>4. mask = {k \in MineOf(rq, rq[c].rd) : IF k = c THEN FALSE ELSE rq[k].online}
  <2>1. rds[rq[c].rd].online = {k \in MineOf(rq, rq[c].rd) : rq[k].online}
    BY <1>2 DEF Agree, AgreeOf
  <2> QED
    BY <2>1
<1>5. LastNotifier(new, FALSE, mask)
  BY <1>1, <1>3, <1>4 DEF LastNotifier, NoUp, UpFields
<1> HIDE DEF new, mask
<1>6. QueueTypes' /\ UpTypes' /\ UpInv' /\ Agree' /\ PendInv' /\ HoldInv' /\ PartInv'
  BY <1>1, <1>2, <1>5, LastStep
<1>7. OnlineInv'
  <2>1. /\ rq'[c].online = FALSE /\ \A k \in CPU : rq'[k].rd = rq[k].rd
        /\ \A k \in CPU \ {c} : rq'[k].online = rq[k].online
    BY <1>1, <1>3 DEF BitSet
  <2>2. /\ \A k \in CPU : rq[k].online => k \in online
        /\ \A k \in online : rq[k].rd # 0 => rq[k].online
    BY <1>2 DEF OnlineInv
  <2>3. \A k \in CPU : rq'[k].online => k \in online'
    BY <1>1, <2>1, <2>2
  <2>4. \A k \in online' : rq'[k].rd # 0 => rq'[k].online
    BY <1>1, <1>2, <2>1, <2>2
  <2> QED
    BY <2>3, <2>4 DEF OnlineInv
<1>8. GoingDown' = 0
  BY <1>1 DEF GoingDown, NoUp
<1>9. /\ sleep' \in [phase : {"awake", "suspend", "resume"}, cpus : SUBSET CPU]
      /\ sleep'.phase = sleep.phase
      /\ sleep'.cpus = IF up.fr THEN sleep.cpus \cup {c} ELSE sleep.cpus
  BY <1>1, <1>2, FrozenBefore
<1>10. Cardinality(sleep'.cpus) = Cardinality(sleep.cpus) + GoingDown
  <2>1. c \notin sleep.cpus /\ IsFiniteSet(sleep.cpus) /\ Cardinality(sleep.cpus) \in Nat
    BY <1>2, FrozenBefore
  <2>2. Cardinality(sleep.cpus \cup {c}) = Cardinality(sleep.cpus) + 1
    BY <2>1, FS_AddElement
  <2>3. CASE up.fr
    BY <1>2, <1>9, <2>2, <2>3
  <2>4. CASE ~up.fr
    BY <1>2, <1>9, <2>1, <2>4
  <2> QED
    BY <2>3, <2>4
<1>11. Lost' = Lost
  BY <1>1, <1>8, <1>10, FrozenBefore DEF Lost
<1>12. FrozenInv'
  <2>1. sleep'.cpus \cap online' = {}
    BY <1>1, <1>9, FrozenBefore
  <2>2. sleep'.phase = "awake" => sleep'.cpus = {}
    BY <1>2, <1>9, FrozenBefore
  <2> QED
    BY <1>1, <1>2, <1>8, <1>9, <1>11, <2>1, <2>2 DEF FrozenInv
<1>13. FollowInv'
  <2>1. ~(Lost = 0 /\ frozen = 0 /\ ~work)
    BY <1>1, <1>2 DEF FollowInv, Free
  <2> QED
    BY <1>1, <1>11, <2>1 DEF FollowInv
<1> QED
  BY <1>6, <1>7, <1>12, <1>13 DEF IInv

\* CPU_ONLINE: the run queue joins the online mask of its root domain.
LEMMA ArriveStep ==
  ASSUME DomainsAssumption, IInv, MigrationOnline
  PROVE  IInv'
<1> DEFINE c == up.cpu
           new == SetRqOnline(rds, rq, c)
           mask == IF rq[c].online THEN rds[rq[c].rd].online ELSE rds[rq[c].rd].online \cup {c}
<1>1. /\ up.pc = "online" /\ rds' = new.rds /\ rq' = new.rq /\ up' = NoUp
      /\ UNCHANGED <<online, active, pend, hold, cur, conf, work, frozen, sleep, fails>>
  BY DEF MigrationOnline, machine, world
<1>2. /\ ~Busy /\ up.then = "done" /\ c \in online
      /\ active \subseteq online /\ online \subseteq CPU /\ 0 \in online
      /\ Tables(rds, rq) /\ Agree /\ OnlineInv /\ FrozenInv /\ FollowInv
  <2>1. ~Busy
    BY <1>1 DEF Busy
  <2>2. Tables(rds, rq)
    BY DEF Tables, Has, IInv, QueueTypes, Agree, AgreeOf
  <2> QED
    BY <1>1, <2>1, <2>2 DEF IInv, QueueTypes, UpInv
<1>3. BitSet(rds, rq, c, new, TRUE, mask)
  BY <1>2, OnlineEffect
<1>4. mask = {k \in MineOf(rq, rq[c].rd) : IF k = c THEN TRUE ELSE rq[k].online}
  <2>1. rds[rq[c].rd].online = {k \in MineOf(rq, rq[c].rd) : rq[k].online} /\ c \in MineOf(rq, rq[c].rd)
    BY <1>2 DEF Agree, AgreeOf, MineOf
  <2> QED
    BY <2>1
<1>5. LastNotifier(new, TRUE, mask)
  BY <1>1, <1>3, <1>4 DEF LastNotifier, NoUp, UpFields
<1> HIDE DEF new, mask
<1>6. QueueTypes' /\ UpTypes' /\ UpInv' /\ Agree' /\ PendInv' /\ HoldInv' /\ PartInv'
  BY <1>1, <1>2, <1>5, LastStep
<1>7. OnlineInv'
  <2>1. /\ rq'[c].online = TRUE /\ \A k \in CPU : rq'[k].rd = rq[k].rd
        /\ \A k \in CPU \ {c} : rq'[k].online = rq[k].online
    BY <1>1, <1>3 DEF BitSet
  <2>2. /\ \A k \in CPU : rq[k].online => k \in online
        /\ \A k \in online : rq[k].rd # 0 /\ k # c => rq[k].online
    BY <1>2 DEF OnlineInv, Arriving
  <2> QED
    BY <1>1, <1>2, <2>1, <2>2 DEF OnlineInv
<1>8. GoingDown' = 0 /\ GoingDown = 0
  BY <1>1, <1>2 DEF GoingDown, NoUp
<1>9. Lost' = Lost
  BY <1>1, <1>8 DEF Lost
<1>10. FrozenInv'
  BY <1>1, <1>2, <1>8, <1>9 DEF FrozenInv
<1>11. FollowInv'
  <2>1. ~(Lost = 0 /\ frozen = 0 /\ ~work)
    BY <1>1, <1>2 DEF FollowInv, Free
  <2> QED
    BY <1>1, <1>9, <2>1 DEF FollowInv
<1> QED
  BY <1>6, <1>7, <1>10, <1>11 DEF IInv

-----------------------------------------------------------------------------
(* The theorems                                                            *)

LEMMA InitInv ==
  ASSUME DomainsAssumption, Init
  PROVE  IInv
<1>1. /\ online = CPU /\ active = CPU /\ pend = {} /\ hold = [r \in Readers |-> NULL] /\ cur = {}
      /\ rds = [d \in {0} |-> [refcount |-> 1 + Cardinality(CPU), span |-> CPU, online |-> CPU]]
      /\ rq = [c \in CPU |-> [sd |-> NULL, rd |-> 0, online |-> TRUE, top |-> NoTop(c)]]
      /\ up = [NoUp EXCEPT !.pc = "ops", !.doms = FallbackDoms(CPU), !.build = FallbackDoms(CPU)]
      /\ fails \in {0, 1} /\ work = FALSE /\ frozen = 0
      /\ sleep = [phase |-> "awake", cpus |-> {}]
      /\ conf \in Cpusets /\ Generate(conf, CPU) = FallbackDoms(CPU)
  BY DEF Init
<1>2. /\ DOMAIN up = UpFields /\ up.pc = "ops" /\ up.left = {} /\ up.then = "done" /\ up.fr = FALSE
      /\ up.detach = {} /\ up.doms = FallbackDoms(CPU) /\ up.build = FallbackDoms(CPU)
  BY <1>1 DEF NoUp, UpFields
<1>3. IsFiniteSet(CPU) /\ Cardinality(CPU) \in Nat /\ 0 \in CPU
  BY FS_CardinalityType DEF DomainsAssumption
<1>4. Busy /\ ~Attaching
  BY <1>2 DEF Busy, Attaching
<1>5. /\ DOMAIN rds = {0} /\ rds[0].refcount = 1 + Cardinality(CPU)
      /\ rds[0].span = CPU /\ rds[0].online = CPU
  BY <1>1
<1>6. /\ DOMAIN rq = CPU
      /\ \A c \in CPU : rq[c].rd = 0 /\ rq[c].online = TRUE /\ DOMAIN rq[c] = RqFields
  BY <1>1 DEF RqFields
<1>7. rds \in [DOMAIN rds -> Root]
  <2>1. [refcount |-> 1 + Cardinality(CPU), span |-> CPU, online |-> CPU] \in Root
    BY <1>3 DEF Root
  <2> QED
    BY <1>1, <2>1
<1>8. QueueTypes
  BY <1>1, <1>3, <1>5, <1>6, <1>7 DEF QueueTypes
<1>9. /\ FallbackDoms(CPU) \subseteq Doms /\ Apart(FallbackDoms(CPU))
      /\ \A dom \in FallbackDoms(CPU) : dom.mask \subseteq CPU /\ dom.mask # {}
  <2>1. \A dom \in Generate(conf, CPU) : dom.mask # {}
    BY DEF Generate
  <2> QED
    BY <1>1, <2>1, FallbackDomsApart
<1>10. UpTypes
  <2>1. cur = {} /\ fails \in Nat /\ active = CPU
    BY <1>1
  <2> QED
    BY <1>2, <1>4, <1>9, <2>1 DEF UpTypes
<1>11. UpInv
  BY <1>2, <1>4 DEF UpInv
<1>12. Agree
  <2>1. MineOf(rq, 0) = CPU
    BY <1>6 DEF MineOf
  <2>2. {c \in MineOf(rq, 0) : rq[c].online} = CPU
    BY <1>6, <2>1
  <2> QED
    BY <1>3, <1>5, <1>6, <2>1, <2>2 DEF Agree, AgreeOf
<1>13. OnlineInv
  BY <1>1, <1>6 DEF OnlineInv
<1>14. PendInv /\ HoldInv
  BY <1>1 DEF PendInv, HoldInv
<1>15. PartInv
  <2>1. InForce = {}
    BY <1>2, <1>4 DEF InForce
  <2> QED
    BY <1>1, <1>2, <1>4, <1>6, <1>9, <2>1 DEF PartInv, Apart, Covered
<1>16. GoingDown = 0 /\ Lost = 0
  <2>1. GoingDown = 0
    BY <1>2 DEF GoingDown
  <2>2. Cardinality({}) = 0
    BY FS_EmptySet
  <2> QED
    BY <1>1, <2>1, <2>2 DEF Lost
<1>17. FrozenInv
  BY <1>1, <1>16 DEF FrozenInv
<1>18. FollowInv
  BY <1>1, <1>2, <1>4 DEF FollowInv
<1> QED
  BY <1>8, <1>10, <1>11, <1>12, <1>13, <1>14, <1>15, <1>17, <1>18 DEF IInv

LEMMA StutterStep ==
  ASSUME IInv, UNCHANGED vars
  PROVE  IInv'
<1>1. /\ ReaderStep /\ rds' = rds /\ rq' = rq /\ pend' = pend /\ hold' = hold /\ up' = up
      /\ QueueTypes /\ UpInv /\ Agree /\ PendInv /\ HoldInv
  BY DEF vars, ReaderStep, IInv
<1>2. QueueTypes' /\ UpInv' /\ Agree' /\ PendInv' /\ HoldInv'
  BY <1>1 DEF QueueTypes, UpInv, Agree, AgreeOf, PendInv, HoldInv, Mine, ReaderStep, Attaching, Todo, Busy
<1> QED
  BY <1>1, <1>2, ReaderKeeps DEF IInv

\* Every step keeps the invariant.
LEMMA StepInv ==
  ASSUME DomainsAssumption, IInv, [Next]_vars
  PROVE  IInv'
<1>1. CASE GracePeriod
  BY <1>1, GraceStep
<1>2. CASE \E r \in Readers : ReadLock(r) \/ ReadUnlock(r)
  BY <1>2, LockStep, UnlockStep
<1>3. CASE DetachStart
  BY <1>3, DetachStep
<1>4. CASE \E dom \in up.build : BuildStart(dom) \/ BuildNoMem(dom)
  BY <1>4, BuildStep, NoMemStep
<1>5. CASE AttachRoot
  BY <1>5, RootStep
<1>6. CASE AttachAssign
  BY <1>6, AssignStep
<1>7. CASE AttachEnd
  BY <1>7, EndStep
<1>8. CASE PartitionEnd
  BY <1>8, PartitionEndStep
<1>9. CASE ConfigureCpusets
  BY <1>9, ConfigureStep
<1>10. CASE CpusetWork
  BY <1>10, WorkStep
<1>11. CASE \E c \in CPU : CpuDown(c) \/ CpuUp(c)
  BY <1>11, DownStep, UpRequestStep
<1>12. CASE CpuDying
  BY <1>12, DyingStep
<1>13. CASE DownFailed
  BY <1>13, FailedStep
<1>14. CASE MigrationOnline
  BY <1>14, ArriveStep
<1>15. CASE Suspend \/ Asleep \/ Awake
  BY <1>15, PhaseStep
<1>16. CASE SuspendCpu
  BY <1>16, SuspendCpuStep
<1>17. CASE ResumeCpu
  BY <1>17, ResumeCpuStep
<1>18. CASE UNCHANGED vars
  BY <1>18, StutterStep
<1> QED
  BY <1>1, <1>2, <1>3, <1>4, <1>5, <1>6, <1>7, <1>8, <1>9, <1>10, <1>11, <1>12, <1>13,
     <1>14, <1>15, <1>16, <1>17, <1>18 DEF Next

\* The inductive invariant holds in every state of every execution.
THEOREM DomainsInvariant == Spec => []IInv
<1>1. Init => IInv
  BY DomainsAssumption, InitInv
<1>2. IInv /\ [Next]_vars => IInv'
  BY DomainsAssumption, StepInv
<1> QED
  BY <1>1, <1>2, PTL DEF Spec

\* rq_attach_root, set_rq_online and set_rq_offline keep the span, the online mask and
\* the reference count of every root domain, also of those that are waiting to be
\* freed, in agreement with the run queues, so that the BUG_ONs of migration_call hold.
\* A root domain that its last run queue leaves is given to call_rcu, so that
\* free_rootdomain never frees one whose dl_bw a reader still holds.
THEOREM RootDomainsSafety == Spec => []RootDomainsAgree
<1>1. IInv => RootDomainsAgree
  <2> SUFFICES ASSUME IInv
               PROVE  RootDomainsAgree
    OBVIOUS
  <2>1. Agree /\ OnlineInv /\ QueueTypes
    BY DEF IInv
  <2>2. Free => \A c \in CPU : ~Arriving(c)
    <3>1. Free => ~Busy
      BY DEF Free, Busy
    <3> QED
      BY <3>1, NotBusy
  <2>3. Free => \A c \in CPU : /\ rq[c].online => c \in online
                               /\ c \in online /\ rq[c].rd # 0 => rq[c].online
    <3>1. /\ \A c \in CPU : rq[c].online => c \in online
          /\ \A c \in online : rq[c].rd # 0 /\ ~Arriving(c) => rq[c].online
      BY <2>1 DEF OnlineInv
    <3> QED
      BY <2>2, <3>1
  <2>4. \A c \in CPU : rq[c].rd \in DOMAIN rds
    BY <2>1 DEF Agree, AgreeOf
  <2>5. ASSUME NEW d \in DOMAIN rds
        PROVE  LET mine == {c \in CPU : rq[c].rd = d}
               IN /\ rds[d].span = mine
                  /\ rds[d].online = {c \in mine : rq[c].online}
                  /\ rds[d].refcount = Cardinality(mine) + (IF d = 0 THEN 1 ELSE 0)
    BY <2>1 DEF Agree, AgreeOf, MineOf
  <2>6. ASSUME NEW r \in Readers, hold[r] # NULL
        PROVE  hold[r].rd \in DOMAIN rds
    BY <2>6 DEF IInv, HoldInv
  <2> QED
    BY <2>3, <2>4, <2>5, <2>6 DEF RootDomainsAgree
<1> QED
  BY <1>1, DomainsInvariant, PTL

\* partition_sched_domains: between operations each current set has a root domain of
\* its own, or the default one when its build had no memory, and nobody else has.
THEOREM PartitionRootsSafety == Spec => []PartitionRoots
<1>1. IInv => PartitionRoots
  <2> SUFFICES ASSUME IInv, Free
               PROVE  PartitionRoots
    BY DEF PartitionRoots
  <2>1. ~Busy /\ ~Attaching /\ InForce = cur
    BY DEF Free, Busy, Attaching, InForce
  <2>2. /\ Apart(cur) /\ Covered /\ cur \subseteq Doms
        /\ \A dom \in cur : Realised(dom)
    BY <2>1 DEF IInv, PartInv, UpTypes, Growing
  <2>3. ASSUME NEW dom \in cur
        PROVE  \/ \A c \in dom.mask : rq[c].rd # 0 /\ rds[rq[c].rd].span = dom.mask
               \/ fails > 0 /\ \A c \in dom.mask : rq[c].rd = 0
    <3>1. Realised(dom) /\ dom.mask \subseteq CPU
      BY <2>2 DEF Doms
    <3>2. \A c \in CPU : rds[rq[c].rd].span = Mine(rq[c].rd)
      BY DEF IInv, Agree, AgreeOf, Mine
    <3> QED
      BY <3>1, <3>2 DEF Realised
  <2>4. \A c \in CPU \ UNION {dom.mask : dom \in cur} : rq[c].rd = 0
    BY <2>1, <2>2 DEF Covered
  <2> QED
    BY <2>2, <2>3, <2>4 DEF PartitionRoots, Apart
<1> QED
  BY <1>1, DomainsInvariant, PTL

\* cpuset_cpu_active and cpuset_cpu_inactive: a partition that falls back to a single
\* domain is followed by the configured one as soon as no CPU is counted as frozen.
THEOREM CpusetSafety == Spec => []CpusetFollowed
<1>1. IInv => CpusetFollowed
  <2> SUFFICES ASSUME IInv, Free, sleep.phase = "awake", ~work, frozen = 0
               PROVE  cur = Generate(conf, active)
    BY DEF CpusetFollowed
  <2>1. sleep.cpus = {} /\ GoingDown = 0
    BY DEF IInv, FrozenInv
  <2>2. Lost = 0
    BY <2>1, FS_EmptySet DEF Lost
  <2>3. ~Busy
    BY DEF Free, Busy
  <2> QED
    BY <2>2, <2>3 DEF IInv, FollowInv
<1> QED
  BY <1>1, DomainsInvariant, PTL
=============================================================================
