------------------------------ MODULE PageWatch ------------------------------
(***************************************************************************)
(* Two modules that watch the memory of one process: wss5.c measures its   *)
(* working set, rss2.c counts its resident pages.  wss5.c makes every      *)
(* resident page inaccessible and lets a hook in the page fault handler    *)
(* count and restore those that are used; rss2.c only reads.               *)
(*                                                                         *)
(* Neither takes a lock of the page tables: every set_pte of wss5.c reads  *)
(* the entry, changes one flag and writes it back, in the hook (run by the *)
(* watched process) and in the marking (run by insmod) alike.  The page    *)
(* tables have one level here: a page without a table stands for any entry *)
(* missing on the way.  The process neither exits nor changes its areas.   *)
(***************************************************************************)
EXTENDS Integers, Sequences, FiniteSets

CONSTANTS Page,             \* page numbers
          Layouts,          \* [areas, resident, table]: where a process may start
          MarkRounds,       \* rounds of wss5.c (30 in the code)
          CountRounds,      \* rounds of rss2.c (21 in the code)
          MaxAccess         \* bound

\* What the constants are assumed to be.
WatchAssumption ==
    /\ IsFiniteSet(Page) /\ Page \subseteq Int
    /\ {MarkRounds, CountRounds, MaxAccess} \subseteq Nat
    /\ \A l \in Layouts :
        /\ l.areas \in Seq([vm_start : Int, vm_end : Int])
        /\ \A k \in 1 .. Len(l.areas) : l.areas[k].vm_start <= l.areas[k].vm_end
        /\ l.resident \subseteq l.table /\ l.table \subseteq Page

VARIABLES
    areas,                  \* mm->mmap: a sequence of [vm_start, vm_end]
    table,                  \* the pages whose entry exists
    pte,                    \* the flags of each entry
    page_fault_check,       \* the hook is set
    marker,                 \* the thread in start of wss5.c
    fault,                  \* the watched process in page_check
    wss,
    counter,                \* the thread in start of rss2.c
    marked, used,           \* history: markings of each page; those it was used after
    overlap, torn,          \* history: a fault met the marking of its page; not repaired since
    floor, tornOnce,        \* history: resident pages when a count began; torn since
    accesses                \* history, for the bound

space     == <<areas, table, pte>>
history   == <<marked, used, overlap, torn, tornOnce, accesses>>
watchVars == <<space, page_fault_check, marker, fault, wss, counter, floor, history>>

pte_present(e) == e \cap {"PRESENT", "PROTNONE"} # {}

\* The pages that the loops of wss_marking and page_walk visit in an area: the
\* condition is <= vm_end.
Visited(a) == a.vm_start .. a.vm_end

WatchInit ==
    /\ \E l \in Layouts :
        /\ areas = l.areas /\ table = l.table
        /\ pte = [p \in Page |-> IF p \in l.resident THEN {"PRESENT", "USER"} ELSE {}]
    /\ page_fault_check = FALSE /\ wss = 0
    /\ marker = [pc |-> "load", round |-> 0, area |-> 0, page |-> 0, seen |-> {}]
    /\ fault = [pc |-> "user", page |-> 0, seen |-> {}, met |-> FALSE]
    /\ counter = [pc |-> "load", round |-> 0, area |-> 0, page |-> 0, phy |-> 0, virt |-> 0]
    /\ marked = [p \in Page |-> 0] /\ used = {}
    /\ overlap = FALSE /\ torn = {} /\ floor = 0 /\ tornOnce = FALSE
    /\ accesses = 0

-----------------------------------------------------------------------------
(* wss_marking                                                             *)

Marking(p) == marker.page = p /\ marker.pc \in {"set", "reread", "clear"}
Checking(p) == fault.page = p /\ fault.pc \in {"hook", "set", "reread", "clear"}

\* The hook and the marking of one page are under way at the same time.
Meet(p, meets) ==
    /\ overlap' = (overlap \/ meets)
    /\ torn' = IF meets THEN torn \cup {p} ELSE torn
    /\ tornOnce' = (tornOnce \/ meets)

\* Where the walk of areas goes after a page, or from the head of an area.
After(w) ==
    LET ended == w.area = 0 \/ w.page >= areas[w.area].vm_end
    IN CASE ~ended -> [w EXCEPT !.page = @ + 1]
         [] ended /\ w.area < Len(areas) ->
               [w EXCEPT !.area = @ + 1, !.page = areas[w.area + 1].vm_start]
         [] OTHER -> [w EXCEPT !.area = 0, !.page = 0, !.pc = "sleep"]

\* start: the hook is set before the process is looked up.
MarkStart ==
    /\ marker.pc = "load"
    /\ page_fault_check' = TRUE /\ marker' = [marker EXCEPT !.pc = "sleep"]
    /\ UNCHANGED <<space, fault, wss, counter, floor, history>>

\* The next of the 30 rounds.
MarkRound ==
    /\ marker.pc = "sleep" /\ marker.round < MarkRounds
    /\ marker' = After([marker EXCEPT !.pc = "walk", !.round = @ + 1])
    /\ UNCHANGED <<space, page_fault_check, fault, wss, counter, floor, history>>

\* One page: return -2 where a table is missing, skip what is not resident,
\* otherwise read the entry to set PROTNONE in it.
MarkWalk ==
    /\ marker.pc = "walk"
    /\ LET p == marker.page IN
       /\ marker' = CASE p \notin table -> [marker EXCEPT !.pc = "sleep", !.area = 0, !.page = 0]
                      [] p \in table /\ pte_present(pte[p]) ->
                            [marker EXCEPT !.pc = "set", !.seen = pte[p]]
                      [] OTHER -> After(marker)
       /\ LET meets == marker'.pc = "set" /\ Checking(p)
          IN  Meet(p, meets) /\ fault' = [fault EXCEPT !.met = @ \/ meets]
    /\ UNCHANGED <<space, page_fault_check, wss, counter, floor, marked, used, accesses>>

MarkSet ==
    /\ marker.pc = "set"
    /\ pte' = [pte EXCEPT ![marker.page] = marker.seen \cup {"PROTNONE"}]
    /\ marker' = [marker EXCEPT !.pc = "reread"]
    /\ UNCHANGED <<areas, table, page_fault_check, fault, wss, counter, floor, history>>

MarkReread ==
    /\ marker.pc = "reread"
    /\ marker' = [marker EXCEPT !.pc = "clear", !.seen = pte[marker.page]]
    /\ UNCHANGED <<space, page_fault_check, fault, wss, counter, floor, history>>

\* The page is inaccessible from here on; the walk goes on.
MarkClear ==
    /\ marker.pc = "clear"
    /\ pte' = [pte EXCEPT ![marker.page] = marker.seen \ {"PRESENT"}]
    /\ marker' = After([marker EXCEPT !.pc = "walk"])
    /\ marked' = [marked EXCEPT ![marker.page] = @ + 1]
    /\ UNCHANGED <<areas, table, page_fault_check, fault, wss, counter, floor,
                   used, overlap, torn, tornOnce, accesses>>

\* cleanup, once start has returned.
MarkCleanup ==
    /\ marker.pc = "sleep" /\ marker.round = MarkRounds
    /\ page_fault_check' = FALSE /\ marker' = [marker EXCEPT !.pc = "gone"]
    /\ UNCHANGED <<space, fault, wss, counter, floor, history>>

-----------------------------------------------------------------------------
(* The watched process, the fault handler of the kernel, and page_check    *)

InArea(p) == \E k \in 1 .. Len(areas) : areas[k].vm_start <= p /\ p < areas[k].vm_end

\* The process uses a page: <<p, n>> if it was marked n times before.
Use(p) ==
    /\ fault.pc = "user" /\ InArea(p) /\ accesses < MaxAccess
    /\ accesses' = accesses + 1
    /\ used' = IF marked[p] > 0 THEN used \cup {<<p, marked[p]>>} ELSE used

\* An accessible page: nothing happens.
AccessHit(p) ==
    /\ Use(p) /\ "PRESENT" \in pte[p]
    /\ UNCHANGED <<space, page_fault_check, marker, fault, wss, counter, floor,
                   marked, overlap, torn, tornOnce>>

\* Any other page faults, and the handler calls the hook.  Once the hook is
\* gone what the kernel does with a marked page is not modelled.
AccessFault(p) ==
    /\ Use(p) /\ "PRESENT" \notin pte[p]
    /\ page_fault_check \/ pte[p] = {}
    /\ LET hooked == page_fault_check IN
       /\ fault' = [pc |-> IF hooked THEN "hook" ELSE "handle", page |-> p, seen |-> {},
                    met |-> hooked /\ Marking(p)]
       /\ Meet(p, hooked /\ Marking(p))
    /\ UNCHANGED <<space, page_fault_check, marker, wss, counter, floor, marked>>

\* Mutation: first uses are counted too.
PageCheckAll ==
    /\ fault.pc = "hook"
    /\ wss' = wss + 1
    /\ fault' = [fault EXCEPT !.pc = IF pte[fault.page] # {} THEN "set" ELSE "handle",
                              !.seen = pte[fault.page]]
    /\ UNCHANGED <<space, page_fault_check, marker, counter, floor, history>>

\* page_check: an entry with any flag counts; PRESENT is to be set in it.  A
\* missing table or an empty entry: return.
PageCheck ==
    /\ fault.pc = "hook"
    /\ LET p == fault.page
           counts == p \in table /\ pte[p] # {}
       IN  /\ wss' = IF counts THEN wss + 1 ELSE wss
           /\ fault' = [fault EXCEPT !.pc = IF counts THEN "set" ELSE "handle", !.seen = pte[p]]
    /\ UNCHANGED <<space, page_fault_check, marker, counter, floor, history>>

CheckSet ==
    /\ fault.pc = "set"
    /\ pte' = [pte EXCEPT ![fault.page] = fault.seen \cup {"PRESENT"}]
    /\ fault' = [fault EXCEPT !.pc = "reread"]
    /\ UNCHANGED <<areas, table, page_fault_check, marker, wss, counter, floor, history>>

CheckReread ==
    /\ fault.pc = "reread"
    /\ fault' = [fault EXCEPT !.pc = "clear", !.seen = pte[fault.page]]
    /\ UNCHANGED <<space, page_fault_check, marker, wss, counter, floor, history>>

CheckClear ==
    /\ fault.pc = "clear"
    /\ pte' = [pte EXCEPT ![fault.page] = fault.seen \ {"PROTNONE"}]
    /\ fault' = [fault EXCEPT !.pc = "handle"]
    /\ UNCHANGED <<areas, table, page_fault_check, marker, wss, counter, floor, history>>

\* The kernel's own handler maps a page that has no entry yet.  A fault that
\* did not meet the marking has repaired its page.
HandleFault ==
    /\ fault.pc = "handle"
    /\ LET p == fault.page IN
       /\ table' = table \cup {p}
       /\ pte' = IF pte[p] = {} THEN [pte EXCEPT ![p] = {"PRESENT", "USER"}] ELSE pte
       /\ torn' = IF fault.met THEN torn ELSE torn \ {p}
    /\ fault' = [fault EXCEPT !.pc = "user"]
    /\ UNCHANGED <<areas, page_fault_check, marker, wss, counter, floor,
                   marked, used, overlap, tornOnce, accesses>>

-----------------------------------------------------------------------------
(* rss2.c                                                                  *)

\* What page_walk counts in all areas when it looks at the entries at once.
Resident == {p \in table : pte_present(pte[p])}
Visits == {v \in (1 .. Len(areas)) \X Resident : v[2] \in Visited(areas[v[1]])}
Counted == Cardinality(Visits)

\* start: the counts are reset before each of the 21 rounds.
CountRound ==
    /\ counter.pc \in {"load", "sleep"} /\ counter.round < CountRounds
    /\ counter' = After([counter EXCEPT !.pc = "walk", !.round = @ + 1, !.phy = 0, !.virt = 0])
    /\ floor' = Counted /\ tornOnce' = (torn # {})
    /\ UNCHANGED <<space, page_fault_check, marker, fault, wss, marked, used, overlap, torn, accesses>>

\* Mutation: follow_pte looks at the flag PRESENT alone.
FollowPresent(p) ==
    IF p \notin table THEN -2 ELSE IF "PRESENT" \in pte[p] THEN 1 ELSE -1

follow_pte(p) ==
    IF p \notin table THEN -2 ELSE IF pte_present(pte[p]) THEN 1 ELSE -1

\* One page of page_walk.
CountPage ==
    /\ counter.pc = "walk"
    /\ counter' = After([counter EXCEPT
                            !.phy = IF follow_pte(counter.page) = 1 THEN @ + 1 ELSE @,
                            !.virt = @ + 1])
    /\ UNCHANGED <<space, page_fault_check, marker, fault, wss, floor, history>>

-----------------------------------------------------------------------------
Marker == \/ MarkStart \/ MarkRound \/ MarkWalk \/ MarkSet \/ MarkReread \/ MarkClear
          \/ MarkCleanup
Process == \/ \E p \in Page : AccessHit(p) \/ AccessFault(p)
           \/ PageCheck \/ CheckSet \/ CheckReread \/ CheckClear \/ HandleFault
Counter == CountRound \/ CountPage

WatchNext == Marker \/ Process \/ Counter

WatchSpec == WatchInit /\ [][WatchNext]_watchVars

-----------------------------------------------------------------------------
(* Properties                                                              *)

\* The wss that start prints is the number of page uses after a marking, each
\* page counted once per marking, summed over the rounds (wss is not reset), and
\* nothing else: not the first use of a page, not a second one (as long as
\* no fault met a marking, and once page_check has counted a fault under way).
WssExact == ~overlap /\ fault.pc # "hook" => wss = Cardinality(used)

\* Marking and restoring a page takes two writes each, and a page that has an
\* entry always keeps one of the flags that make it resident, unless a fault
\* met the marking of that very page and no other fault has repaired it since:
\* between the unlocked reads and writes of wss_marking and page_check the
\* entry may lose both.
PteSound == \A p \in Page : pte[p] # {} /\ p \notin torn => pte_present(pte[p])

\* What rss2.c prints lies between what its loops would have counted at the
\* beginning and at the end of the round: pages that wss5.c has hidden still
\* count, and the page at vm_end counts with every area (as long as no fault
\* met a marking, which hides a page from both).
RssBracket ==
    counter.pc = "sleep" /\ ~tornOnce => floor <= counter.phy /\ counter.phy <= Counted

\* A resident page stays one for both modules, and the count of rss2.c lies between
\* those of the beginning and the end of its round.
RssSound == PteSound /\ RssBracket
=============================================================================
