-------------------------------- MODULE Fifo --------------------------------
(***************************************************************************)
(* What the /proc file of intfifo.c promises its users: a bounded queue    *)
(* whose writes and reads each happen at one instant.  A write may be cut  *)
(* short, a read may return less than it was asked for, but elements are   *)
(* neither lost, duplicated, reordered nor interleaved with another write. *)
(***************************************************************************)
EXTENDS Naturals, Sequences

CONSTANTS Proc, Message, Capacity

VARIABLES q,          \* the elements in the queue
          asked,      \* asked[p]: what p is writing
          given       \* given[p]: what p's last read returned

vars == <<q, asked, given>>

Init == /\ q = <<>>
        /\ asked = [p \in Proc |-> <<>>]
        /\ given = [p \in Proc |-> <<>>]

Ask(p) == /\ asked[p] = <<>>
          /\ \E m \in Message : asked' = [asked EXCEPT ![p] = m]
          /\ UNCHANGED <<q, given>>

Put(p) == /\ \E k \in 0 .. Len(asked[p]) :
                /\ Len(q) + k <= Capacity
                /\ q' = q \o SubSeq(asked[p], 1, k)
          /\ asked' = [asked EXCEPT ![p] = <<>>]
          /\ UNCHANGED given

Take(p) == /\ \E k \in 0 .. Len(q) :
                /\ given' = [given EXCEPT ![p] = SubSeq(q, 1, k)]
                /\ q' = SubSeq(q, k + 1, Len(q))
           /\ UNCHANGED asked

\* The module goes; nobody is using it.
Clear == /\ q' = <<>>
         /\ \A p \in Proc : asked[p] = <<>>
         /\ UNCHANGED <<asked, given>>

Next == Clear \/ \E p \in Proc : Ask(p) \/ Put(p) \/ Take(p)

Spec == Init /\ [][Next]_vars
=============================================================================
