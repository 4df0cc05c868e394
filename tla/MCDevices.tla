------------------------------ MODULE MCDevices ------------------------------
(* The queues behind two files, one at a time: they share nothing, so a       *)
(* behaviour picks one of them and the other stays in its initial state.      *)
(*                                                                            *)
(* char.c: two processes, messages of one and three bytes and a queue of      *)
(* three, so that writes are truncated and queue_head reaches and passes its  *)
(* limit.  intfifo.c: the real size of the queue, so that the self test is    *)
(* the one of the code; messages of one and twenty elements, so that two of   *)
(* them fill the queue and make the indices wrap.                             *)
EXTENDS CharQueue, IntFifo

VARIABLE which

both == <<which, vars, fifoVars>>

Bytes == {<<"a">>, <<"b", "c", "d">>}
OneOrTwenty == {<<50>>, [k \in 1 .. 20 |-> 60 + k]}

ASSUME IntFifoInstance == IntFifoAssumption

DevicesInit == which \in {"char", "int"} /\ Init /\ FifoInit

CharStep == which = "char" /\ Next /\ UNCHANGED <<which, fifoVars>>
IntStep == which = "int" /\ FifoNext /\ UNCHANGED <<which, vars>>

\* The fairness of CharQueue and IntFifo, each where it runs.
CharFair(p) == which = "char" /\ Driver(p) /\ UNCHANGED <<which, fifoVars>>
IntFair(p) == which = "int" /\ Step(p) /\ UNCHANGED <<which, vars>>

DevicesSpec ==
    /\ DevicesInit /\ [][CharStep \/ IntStep]_both
    /\ \A p \in Proc : SF_both(CharFair(p))
    /\ \A p \in Client : WF_both(IntFair(p))

\* Every call of fifo_write and fifo_read returns, and a process that waits for the
\* queue of char.c gets it unless an underflow has leaked the semaphore (consumer).
DriversReturn == ReturnsUnlessLeaked /\ CallsReturn
=============================================================================
