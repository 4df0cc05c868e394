----------------------------- MODULE QueueProofs -----------------------------
(***************************************************************************)
(* Proofs about the two drivers that pass data through a queue, for every  *)
(* number of processes and every size of the queue.                        *)
(*                                                                         *)
(* CharQueue: types, the permits of both semaphores, and the bytes that    *)
(* pass through the queue while no open was cut short.                     *)
(*                                                                         *)
(* IntFifo: its writers and readers implement the atomic queue of module   *)
(* Fifo, for every width of the indices that is a multiple of the size.    *)
(***************************************************************************)
EXTENDS CharQueue, IntFifo, SumTheorems, SequenceTheorems, TLAPS

-----------------------------------------------------------------------------
(* Types                                                                   *)

\* The empty sequence, and what the constants are.
LEMMA Constants ==
  /\ <<>> \in Seq(Byte) /\ Len(<<>>) = 0
  /\ FIFO_SIZE \in Nat \ {0} /\ Width \in Nat \ {0}
  /\ MaxWrite \in Nat /\ MaxRead \in Nat /\ MaxSignal \in Nat
  /\ \A m \in Message : m \in Seq(Byte)
BY CharQueueAssumption, EmptySeq

\* A prefix of a sequence of bytes, and its length.
LEMMA Prefix ==
  ASSUME NEW x \in Seq(Byte), NEW n \in 0 .. Len(x)
  PROVE  SubSeq(x, 1, n) \in Seq(Byte) /\ Len(SubSeq(x, 1, n)) = n
<1>1. Len(x) \in Nat
  BY LenProperties
<1> QED
  BY <1>1

\* The rest of one.
LEMMA Rest ==
  ASSUME NEW x \in Seq(Byte), NEW n \in Nat
  PROVE  SubSeq(x, n + 1, Len(x)) \in Seq(Byte)
<1>1. Len(x) \in Nat
  BY LenProperties
<1> QED
  BY <1>1

\* What kfifo_in takes fits into the queue.
LEMMA Fits ==
  ASSUME NEW x \in Seq(Byte), queue \in Seq(Byte), Len(queue) <= FIFO_SIZE
  PROVE  /\ Minimum(Len(x), Free) \in 0 .. Len(x)
         /\ Len(queue) + Minimum(Len(x), Free) <= FIFO_SIZE
<1>1. Len(x) \in Nat /\ Len(queue) \in Nat /\ FIFO_SIZE \in Nat
  BY LenProperties, Constants
<1> QED
  BY <1>1 DEF Minimum, Free

\* queue_head wraps, so it stays in its unsigned range.
LEMMA MoveHeadType ==
  ASSUME queue_head \in 0 .. Width - 1, NEW n \in Int, MoveHead(n)
  PROVE  queue_head' \in 0 .. Width - 1
<1>1. Width \in Nat \ {0} /\ FIFO_SIZE \in Nat
  BY Constants
<1>2. queue_head + n \in Int
  BY <1>1
<1>3. (queue_head + n) % Width \in 0 .. Width - 1
  BY <1>1, <1>2
<1> QED
  BY <1>1, <1>3 DEF MoveHead

\* Every action keeps the types.
LEMMA TypesKept == TypeOK /\ [Next]_vars => TypeOK'
<1> SUFFICES ASSUME TypeOK, [Next]_vars PROVE TypeOK'
  OBVIOUS
<1> USE DEF TypeOK
<1>1. ASSUME NEW p \in Proc, Open(p) PROVE TypeOK'
  BY SMTT(45), <1>1 DEF Open, Goto, buffer, history
<1>2. ASSUME NEW p \in Proc, OpenInterrupted(p) PROVE TypeOK'
  BY SMTT(45), <1>2, Constants DEF OpenInterrupted, Goto, locks, buffer
<1>3. ASSUME NEW p \in Proc, Close(p) PROVE TypeOK'
  BY SMTT(45), <1>3 DEF Close, Goto, buffer, history
<1>4. ASSUME NEW p \in Proc, NEW from, NEW to \in {"in", "test"}, Down(p, from, to)
      PROVE  TypeOK'
  BY SMTT(45), <1>4 DEF Down, Goto, buffer, history
<1>5. ASSUME NEW p \in Proc, NEW from, NEW to \in {"in", "test"},
             DownInterrupted(p, from, to)
      PROVE  TypeOK'
  BY <1>5, Constants DEF DownInterrupted, Goto, buffer
<1>6. ASSUME NEW p \in Proc, NEW m \in Message, Write(p, m) PROVE TypeOK'
  BY <1>6, Constants DEF Write, Goto, locks
<1>7. ASSUME NEW p \in Proc, WriteCopy(p) PROVE TypeOK'
  <2>1. msg[p] \in Seq(Byte)
    BY <1>7, Constants
  <2>2. data' \in Seq(Byte)
    BY <1>7, <2>1, Rest, LenProperties, ConcatProperties DEF WriteCopy
  <2> QED
    BY <1>7, <2>2 DEF WriteCopy, Goto, locks, history
<1>8. ASSUME NEW p \in Proc, WriteIn(p) PROVE TypeOK'
  <2> DEFINE n == Minimum(Len(data), Free)
             k == Minimum(Len(msg[p]), Free)
  <2>1. msg[p] \in Seq(Byte) /\ data \in Seq(Byte) /\ queue \in Seq(Byte) /\ sent \in Seq(Byte)
    BY <1>8, Constants
  <2>2. n \in 0 .. Len(data) /\ Len(queue) + n <= FIFO_SIZE /\ k \in 0 .. Len(msg[p])
    BY <2>1, Fits
  <2>3. SubSeq(data, 1, n) \in Seq(Byte) /\ Len(SubSeq(data, 1, n)) = n
    BY <2>1, <2>2, Prefix
  <2>4. SubSeq(msg[p], 1, k) \in Seq(Byte)
    BY <2>1, <2>2, Prefix
  <2>5. queue' \in Seq(Byte) /\ Len(queue') <= FIFO_SIZE /\ sent' \in Seq(Byte)
    BY <1>8, <2>1, <2>2, <2>3, <2>4, ConcatProperties DEF WriteIn
  <2> QED
    BY <1>8, <2>5, SMTT(60) DEF WriteIn, Goto, locks
<1>9. ASSUME NEW p \in Proc, WriteHead(p) PROVE TypeOK'
  <2>1. Len(data) \in Int
    BY LenProperties
  <2>2. queue_head' \in 0 .. Width - 1
    BY <1>9, <2>1, MoveHeadType DEF WriteHead
  <2> QED
    BY SMTT(45), <1>9, <2>2 DEF WriteHead, Goto, Up
<1>10. ASSUME NEW p \in Proc, Read(p) PROVE TypeOK'
  BY <1>10, Constants DEF Read, Goto, locks, buffer
<1>11. ASSUME NEW p \in Proc, ReadUnderflow(p) PROVE TypeOK'
  <2>1. leaked' \in Nat /\ write_count' \in Nat
    BY SMTT(45), <1>11 DEF ReadUnderflow
  <2>2. held' \in [Proc -> BOOLEAN]
    BY <1>11 DEF ReadUnderflow
  <2> QED
    BY <1>11, <2>1, <2>2 DEF ReadUnderflow, Goto
<1>12. ASSUME NEW p \in Proc, ReadTest(p) PROVE TypeOK'
  BY <1>12 DEF ReadTest, Goto, locks, buffer, history
<1>13. ASSUME NEW p \in Proc, ReadOut(p) PROVE TypeOK'
  <2>1. queue \in Seq(Byte) /\ queue # <<>> /\ got \in Seq(Byte)
    BY <1>13 DEF ReadOut
  <2>2. Head(queue) \in Byte /\ Tail(queue) \in Seq(Byte) /\ Len(Tail(queue)) = Len(queue) - 1
    BY <2>1, HeadTailProperties
  <2>3. queue' \in Seq(Byte) /\ Len(queue') <= FIFO_SIZE /\ got' \in Seq(Byte)
    BY <1>13, <2>1, <2>2, LenProperties, AppendProperties, Constants DEF ReadOut
  <2>4. queue_head' \in 0 .. Width - 1
    BY <1>13, MoveHeadType DEF ReadOut
  <2> QED
    BY <1>13, <2>3, <2>4 DEF ReadOut, locks
<1>14. ASSUME NEW p \in Proc, ReadDone(p) PROVE TypeOK'
  BY SMTT(45), <1>14 DEF ReadDone, Goto, Up
<1>15. ASSUME UNCHANGED vars PROVE TypeOK'
  BY <1>15 DEF vars, locks, buffer, history
<1> QED
  BY <1>1, <1>2, <1>3, <1>4, <1>5, <1>6, <1>7, <1>8, <1>9, <1>10, <1>11, <1>12,
     <1>13, <1>14, <1>15 DEF Next, Driver, User

\* Every variable of char.c has its type; in particular queue_head stays in range
\* although it is moved by more than one.
THEOREM CharTypes == Spec => []TypeOK
<1>1. Init => TypeOK
  BY Constants DEF Init, TypeOK
<1> QED
  BY <1>1, TypesKept, PTL DEF Spec

-----------------------------------------------------------------------------
(* Permits                                                                 *)

\* Sets of processes are finite.
LEMMA FiniteProc ==
  ASSUME NEW Q \in SUBSET Proc
  PROVE  IsFiniteSet(Q) /\ Cardinality(Q) \in Nat
BY CharQueueAssumption, FS_Subset, FS_CardinalityType

\* A process enters such a set, or leaves it.
LEMMA Enters ==
  ASSUME NEW Q \in SUBSET Proc, NEW p \in Proc \ Q
  PROVE  Cardinality(Q \cup {p}) = Cardinality(Q) + 1
BY FiniteProc, FS_AddElement

LEMMA Leaves ==
  ASSUME NEW Q \in SUBSET Proc, NEW p \in Q
  PROVE  Cardinality(Q \ {p}) = Cardinality(Q) - 1
BY FiniteProc, FS_RemoveElement

Openers == {p \in Proc : Opened(p)}
Inside  == {p \in Proc : InQueue(p)}

\* A process that goes from one place to another changes the sets of openers and of
\* those between down and up by itself only.
LEMMA Sets ==
  ASSUME TypeOK, NEW p \in Proc, NEW from, NEW to, Goto(p, from, to)
  PROVE  /\ Openers' = IF to # "closed" THEN Openers \cup {p} ELSE Openers \ {p}
         /\ Inside' = IF to \in {"in", "head", "test", "out"} THEN Inside \cup {p}
                      ELSE Inside \ {p}
         /\ p \in Openers <=> from # "closed"
         /\ p \in Inside <=> from \in {"in", "head", "test", "out"}
BY DEF TypeOK, Goto, Openers, Inside, Opened, InQueue

\* Both counts after such a step.
LEMMA CallCounts ==
  ASSUME TypeOK, NEW p \in Proc, NEW from, NEW to, Goto(p, from, to)
  PROVE  /\ Cardinality(Openers') =
              Cardinality(Openers) + (IF to # "closed" THEN 1 ELSE 0)
                                   - (IF from # "closed" THEN 1 ELSE 0)
         /\ Cardinality(Inside') =
              Cardinality(Inside) + (IF to \in {"in", "head", "test", "out"} THEN 1 ELSE 0)
                                  - (IF from \in {"in", "head", "test", "out"} THEN 1 ELSE 0)
         /\ Cardinality(Openers) \in Nat /\ Cardinality(Inside) \in Nat
<1>1. Openers \in SUBSET Proc /\ Inside \in SUBSET Proc
  BY DEF Openers, Inside
<1>2. Cardinality(Openers) \in Nat /\ Cardinality(Inside) \in Nat
  BY <1>1, FiniteProc
<1>3. ASSUME NEW Q \in SUBSET Proc
      PROVE  /\ p \in Q => Q \cup {p} = Q /\ Cardinality(Q \ {p}) = Cardinality(Q) - 1
             /\ p \notin Q => Q \ {p} = Q /\ Cardinality(Q \cup {p}) = Cardinality(Q) + 1
  BY Enters, Leaves
<1>4. /\ p \in Openers => Openers \cup {p} = Openers /\ Cardinality(Openers \ {p}) = Cardinality(Openers) - 1
      /\ p \notin Openers => Openers \ {p} = Openers /\ Cardinality(Openers \cup {p}) = Cardinality(Openers) + 1
  BY <1>1, <1>3
<1>5. /\ p \in Inside => Inside \cup {p} = Inside /\ Cardinality(Inside \ {p}) = Cardinality(Inside) - 1
      /\ p \notin Inside => Inside \ {p} = Inside /\ Cardinality(Inside \cup {p}) = Cardinality(Inside) + 1
  BY <1>1, <1>3
<1>6. Cardinality(Openers') = Cardinality(Openers) + (IF to # "closed" THEN 1 ELSE 0) - (IF from # "closed" THEN 1 ELSE 0)
  <2>1. /\ to # "closed" => Openers' = Openers \cup {p}
        /\ ~(to # "closed") => Openers' = Openers \ {p}
        /\ p \in Openers <=> from # "closed"
    BY Sets
  <2>2. CASE to # "closed" /\ from # "closed"
    <3>1. Openers' = Openers
      BY <1>4, <2>1, <2>2
    <3> QED
      BY <1>2, <2>2, <3>1
  <2>3. CASE to # "closed" /\ ~(from # "closed")
    <3>1. Cardinality(Openers') = Cardinality(Openers) + 1
      BY <1>4, <2>1, <2>3
    <3> QED
      BY <1>2, <2>3, <3>1
  <2>4. CASE ~(to # "closed") /\ from # "closed"
    <3>1. Cardinality(Openers') = Cardinality(Openers) - 1
      BY <1>4, <2>1, <2>4
    <3> QED
      BY <1>2, <2>4, <3>1
  <2>5. CASE ~(to # "closed") /\ ~(from # "closed")
    <3>1. Openers' = Openers
      BY <1>4, <2>1, <2>5
    <3> QED
      BY <1>2, <2>5, <3>1
  <2> QED
    BY <2>2, <2>3, <2>4, <2>5
<1>7. Cardinality(Inside') = Cardinality(Inside) + (IF to \in {"in", "head", "test", "out"} THEN 1 ELSE 0) - (IF from \in {"in", "head", "test", "out"} THEN 1 ELSE 0)
  <2>1. /\ to \in {"in", "head", "test", "out"} => Inside' = Inside \cup {p}
        /\ ~(to \in {"in", "head", "test", "out"}) => Inside' = Inside \ {p}
        /\ p \in Inside <=> from \in {"in", "head", "test", "out"}
    BY Sets
  <2>2. CASE to \in {"in", "head", "test", "out"} /\ from \in {"in", "head", "test", "out"}
    <3>1. Inside' = Inside
      BY <1>5, <2>1, <2>2
    <3> QED
      BY <1>2, <2>2, <3>1
  <2>3. CASE to \in {"in", "head", "test", "out"} /\ ~(from \in {"in", "head", "test", "out"})
    <3>1. Cardinality(Inside') = Cardinality(Inside) + 1
      BY <1>5, <2>1, <2>3
    <3> QED
      BY <1>2, <2>3, <3>1
  <2>4. CASE ~(to \in {"in", "head", "test", "out"}) /\ from \in {"in", "head", "test", "out"}
    <3>1. Cardinality(Inside') = Cardinality(Inside) - 1
      BY <1>5, <2>1, <2>4
    <3> QED
      BY <1>2, <2>4, <3>1
  <2>5. CASE ~(to \in {"in", "head", "test", "out"}) /\ ~(from \in {"in", "head", "test", "out"})
    <3>1. Inside' = Inside
      BY <1>5, <2>1, <2>5
    <3> QED
      BY <1>2, <2>5, <3>1
  <2> QED
    BY <2>2, <2>3, <2>4, <2>5
<1> QED
  BY <1>2, <1>6, <1>7

\* down takes a permit or a signal grants one; up, close and underflow give back what
\* the process that leaves had, or less.
LEMMA PermitsKept == TypeOK /\ Permits /\ [Next]_vars => Permits'
<1> SUFFICES ASSUME TypeOK, Permits, [Next]_vars PROVE Permits'
  OBVIOUS
<1>1. /\ sem + Cardinality(Openers) = 1 + intrOpen
      /\ s + leaked + Cardinality(Inside) <= 1 + intrQueue
  BY DEF Permits, Openers, Inside
<1>2. /\ sem \in Nat /\ s \in Nat /\ leaked \in Nat
      /\ intrOpen \in Nat /\ intrQueue \in Nat /\ held \in [Proc -> BOOLEAN]
  BY Constants DEF TypeOK
<1> SUFFICES /\ sem' + Cardinality(Openers') = 1 + intrOpen'
             /\ s' + leaked' + Cardinality(Inside') <= 1 + intrQueue'
  BY DEF Permits, Openers, Inside
<1> DEFINE Goal == /\ sem' + Cardinality(Openers') = 1 + intrOpen'
                   /\ s' + leaked' + Cardinality(Inside') <= 1 + intrQueue'
<1>3. ASSUME NEW p \in Proc, Open(p) PROVE Goal
  <2>1. Goto(p, "closed", "open")
    BY <1>3 DEF Open
  <2>2. /\ Cardinality(Openers') = Cardinality(Openers) + 1
        /\ Cardinality(Inside') = Cardinality(Inside)
        /\ Cardinality(Openers) \in Nat /\ Cardinality(Inside) \in Nat
    BY <2>1, CallCounts
  <2> QED
    BY <1>1, <1>2, <1>3, <2>2 DEF Open, history
<1>4. ASSUME NEW p \in Proc, OpenInterrupted(p) PROVE Goal
  <2>1. Goto(p, "closed", "open")
    BY <1>4 DEF OpenInterrupted
  <2>2. /\ Cardinality(Openers') = Cardinality(Openers) + 1
        /\ Cardinality(Inside') = Cardinality(Inside)
        /\ Cardinality(Openers) \in Nat /\ Cardinality(Inside) \in Nat
    BY <2>1, CallCounts
  <2> QED
    BY <1>1, <1>2, <1>4, <2>2 DEF OpenInterrupted, locks
<1>5. ASSUME NEW p \in Proc, Close(p) PROVE Goal
  <2>1. Goto(p, "open", "closed")
    BY <1>5 DEF Close
  <2>2. /\ Cardinality(Openers') = Cardinality(Openers) - 1
        /\ Cardinality(Inside') = Cardinality(Inside)
        /\ Cardinality(Openers) \in Nat /\ Cardinality(Inside) \in Nat
    BY <2>1, CallCounts
  <2> QED
    BY <1>1, <1>2, <1>5, <2>2 DEF Close, history
<1>6. ASSUME NEW p \in Proc, Down(p, "wdown", "in") PROVE Goal
  <2>1. Goto(p, "wdown", "in")
    BY <1>6 DEF Down
  <2>2. /\ Cardinality(Openers') = Cardinality(Openers)
        /\ Cardinality(Inside') = Cardinality(Inside) + 1
        /\ Cardinality(Openers) \in Nat /\ Cardinality(Inside) \in Nat
    BY <2>1, CallCounts
  <2> QED
    BY <1>1, <1>2, <1>6, <2>2 DEF Down, history
<1>7. ASSUME NEW p \in Proc, Down(p, "rdown", "test") PROVE Goal
  <2>1. Goto(p, "rdown", "test")
    BY <1>7 DEF Down
  <2>2. /\ Cardinality(Openers') = Cardinality(Openers)
        /\ Cardinality(Inside') = Cardinality(Inside) + 1
        /\ Cardinality(Openers) \in Nat /\ Cardinality(Inside) \in Nat
    BY <2>1, CallCounts
  <2> QED
    BY <1>1, <1>2, <1>7, <2>2 DEF Down, history
<1>8. ASSUME NEW p \in Proc, DownInterrupted(p, "wdown", "in") PROVE Goal
  <2>1. Goto(p, "wdown", "in")
    BY <1>8 DEF DownInterrupted
  <2>2. /\ Cardinality(Openers') = Cardinality(Openers)
        /\ Cardinality(Inside') = Cardinality(Inside) + 1
        /\ Cardinality(Openers) \in Nat /\ Cardinality(Inside) \in Nat
    BY <2>1, CallCounts
  <2> QED
    BY <1>1, <1>2, <1>8, <2>2 DEF DownInterrupted
<1>9. ASSUME NEW p \in Proc, DownInterrupted(p, "rdown", "test") PROVE Goal
  <2>1. Goto(p, "rdown", "test")
    BY <1>9 DEF DownInterrupted
  <2>2. /\ Cardinality(Openers') = Cardinality(Openers)
        /\ Cardinality(Inside') = Cardinality(Inside) + 1
        /\ Cardinality(Openers) \in Nat /\ Cardinality(Inside) \in Nat
    BY <2>1, CallCounts
  <2> QED
    BY <1>1, <1>2, <1>9, <2>2 DEF DownInterrupted
<1>10. ASSUME NEW p \in Proc, NEW m \in Message, Write(p, m) PROVE Goal
  <2>1. Goto(p, "open", "copy")
    BY <1>10 DEF Write
  <2>2. /\ Cardinality(Openers') = Cardinality(Openers)
        /\ Cardinality(Inside') = Cardinality(Inside)
        /\ Cardinality(Openers) \in Nat /\ Cardinality(Inside) \in Nat
    BY <2>1, CallCounts
  <2> QED
    BY <1>1, <1>2, <1>10, <2>2 DEF Write, locks
<1>11. ASSUME NEW p \in Proc, WriteCopy(p) PROVE Goal
  <2>1. Goto(p, "copy", "wdown")
    BY <1>11 DEF WriteCopy
  <2>2. /\ Cardinality(Openers') = Cardinality(Openers)
        /\ Cardinality(Inside') = Cardinality(Inside)
        /\ Cardinality(Openers) \in Nat /\ Cardinality(Inside) \in Nat
    BY <2>1, CallCounts
  <2> QED
    BY <1>1, <1>2, <1>11, <2>2 DEF WriteCopy, locks, history
<1>12. ASSUME NEW p \in Proc, WriteIn(p) PROVE Goal
  <2>1. Goto(p, "in", "head")
    BY <1>12 DEF WriteIn
  <2>2. /\ Cardinality(Openers') = Cardinality(Openers)
        /\ Cardinality(Inside') = Cardinality(Inside)
        /\ Cardinality(Openers) \in Nat /\ Cardinality(Inside) \in Nat
    BY <2>1, CallCounts
  <2> QED
    BY <1>1, <1>2, <1>12, <2>2 DEF WriteIn, locks
<1>13. ASSUME NEW p \in Proc, WriteHead(p) PROVE Goal
  <2>1. Goto(p, "head", "open")
    BY <1>13 DEF WriteHead
  <2>2. /\ Cardinality(Openers') = Cardinality(Openers)
        /\ Cardinality(Inside') = Cardinality(Inside) - 1
        /\ Cardinality(Openers) \in Nat /\ Cardinality(Inside) \in Nat
    BY <2>1, CallCounts
  <2> QED
    BY <1>1, <1>2, <1>13, <2>2 DEF WriteHead, Up
<1>14. ASSUME NEW p \in Proc, Read(p) PROVE Goal
  <2>1. Goto(p, "open", "rdown")
    BY <1>14 DEF Read
  <2>2. /\ Cardinality(Openers') = Cardinality(Openers)
        /\ Cardinality(Inside') = Cardinality(Inside)
        /\ Cardinality(Openers) \in Nat /\ Cardinality(Inside) \in Nat
    BY <2>1, CallCounts
  <2> QED
    BY <1>1, <1>2, <1>14, <2>2 DEF Read, locks
<1>15. ASSUME NEW p \in Proc, ReadUnderflow(p) PROVE Goal
  <2>1. Goto(p, "test", "open")
    BY <1>15 DEF ReadUnderflow
  <2>2. /\ Cardinality(Openers') = Cardinality(Openers)
        /\ Cardinality(Inside') = Cardinality(Inside) - 1
        /\ Cardinality(Openers) \in Nat /\ Cardinality(Inside) \in Nat
    BY <2>1, CallCounts
  <2> QED
    BY <1>1, <1>2, <1>15, <2>2 DEF ReadUnderflow
<1>16. ASSUME NEW p \in Proc, ReadTest(p) PROVE Goal
  <2>1. Goto(p, "test", "out")
    BY <1>16 DEF ReadTest
  <2>2. /\ Cardinality(Openers') = Cardinality(Openers)
        /\ Cardinality(Inside') = Cardinality(Inside)
        /\ Cardinality(Openers) \in Nat /\ Cardinality(Inside) \in Nat
    BY <2>1, CallCounts
  <2> QED
    BY <1>1, <1>2, <1>16, <2>2 DEF ReadTest, locks, history
<1>17. ASSUME NEW p \in Proc, ReadDone(p) PROVE Goal
  <2>1. Goto(p, "out", "open")
    BY <1>17 DEF ReadDone
  <2>2. /\ Cardinality(Openers') = Cardinality(Openers)
        /\ Cardinality(Inside') = Cardinality(Inside) - 1
        /\ Cardinality(Openers) \in Nat /\ Cardinality(Inside) \in Nat
    BY <2>1, CallCounts
  <2> QED
    BY <1>1, <1>2, <1>17, <2>2 DEF ReadDone, Up
<1>18. ASSUME NEW p \in Proc, ReadOut(p) PROVE Goal
  BY <1>1, <1>18 DEF ReadOut, locks, Openers, Inside, Opened, InQueue
<1>19. ASSUME UNCHANGED vars PROVE Goal
  BY <1>1, <1>19 DEF vars, locks, history, Openers, Inside, Opened, InQueue
<1> QED
  BY <1>3, <1>4, <1>5, <1>6, <1>7, <1>8, <1>9, <1>10, <1>11, <1>12, <1>13, <1>14, <1>15, <1>16, <1>17, <1>18, <1>19
     DEF Next, Driver, User

\* Every wait of char_open, char_write and consumer that a signal cut short admits one
\* more process to the device or to the queue, and nothing else does.
THEOREM PermitsExact == Spec => []Permits
<1>1. Init => Permits
  <2> SUFFICES ASSUME Init PROVE Permits
    OBVIOUS
  <2>1. {p \in Proc : Opened(p)} = {} /\ {p \in Proc : InQueue(p)} = {}
    BY DEF Init, Opened, InQueue
  <2>2. Cardinality({}) = 0
    BY FS_EmptySet
  <2>3. sem = 1 /\ s = 1 /\ leaked = 0 /\ intrOpen = 0 /\ intrQueue = 0
    BY DEF Init
  <2> QED
    BY <2>1, <2>2, <2>3 DEF Permits
<1>2. Init => TypeOK
  BY Constants DEF Init, TypeOK
<1> QED
  BY <1>1, <1>2, TypesKept, PermitsKept, PTL DEF Spec

-----------------------------------------------------------------------------
(* The bytes                                                               *)

\* While no open was cut short, one process at most is in the driver, and then sem is
\* taken.
Alone ==
    intrOpen = 0 =>
        /\ sem <= 1
        /\ \A p \in Proc : Opened(p) => sem = 0 /\ \A q \in Proc : Opened(q) => q = p

\* So nobody disturbs the buffer that a writer fills before it takes s.
BufferKept ==
    intrOpen = 0 =>
        \A p \in Proc : /\ pc[p] = "copy" => data = <<>>
                        /\ pc[p] \in {"wdown", "in"} => data = msg[p]

LEMMA AloneKept == TypeOK /\ Alone /\ [Next]_vars => Alone'
<1> SUFFICES ASSUME TypeOK, Alone, [Next]_vars PROVE Alone'
  OBVIOUS
<1> USE DEF TypeOK, Alone, Opened
<1>1. ASSUME NEW p \in Proc, Open(p) PROVE Alone'
  BY <1>1 DEF Open, Goto, history
<1>2. ASSUME NEW p \in Proc, OpenInterrupted(p) PROVE Alone'
  BY <1>2 DEF OpenInterrupted
<1>3. ASSUME NEW p \in Proc, Close(p) PROVE Alone'
  BY SMTT(45), <1>3 DEF Close, Goto, history
<1>4. ASSUME NEW p \in Proc, NEW from, NEW to, Goto(p, from, to), from # "closed",
             UNCHANGED <<sem, intrOpen>>
      PROVE  Alone'
  BY <1>4 DEF Goto
<1>5. ASSUME UNCHANGED <<pc, sem, intrOpen>> PROVE Alone'
  BY <1>5
<1>6. ASSUME NEW p \in Proc, Driver(p) PROVE Alone'
  BY <1>4, <1>5, <1>6 DEF Driver, WriteCopy, Down, WriteIn, WriteHead, ReadUnderflow,
     ReadTest, ReadOut, ReadDone, Up, locks, history
<1>7. ASSUME NEW p \in Proc, \/ Read(p) \/ \E m \in Message : Write(p, m)
                             \/ DownInterrupted(p, "wdown", "in")
                             \/ DownInterrupted(p, "rdown", "test")
      PROVE  Alone'
  BY <1>4, <1>7 DEF Read, Write, DownInterrupted, locks
<1> QED
  BY <1>1, <1>2, <1>3, <1>5, <1>6, <1>7 DEF Next, User, vars, locks, history

LEMMA BufferStep == TypeOK /\ Alone /\ BufferKept /\ [Next]_vars => BufferKept'
<1> SUFFICES ASSUME TypeOK, Alone, BufferKept, [Next]_vars PROVE BufferKept'
  OBVIOUS
<1> USE DEF TypeOK, BufferKept
<1>1. ASSUME NEW p \in Proc, NEW m \in Message, Write(p, m) PROVE BufferKept'
  BY <1>1 DEF Write, Goto, Alone, Opened
<1>2. ASSUME NEW p \in Proc, WriteCopy(p) PROVE BufferKept'
  <2>1. msg[p] \in Seq(Byte)
    BY <1>2, Constants
  <2>2. SubSeq(<<>>, Len(msg[p]) + 1, Len(<<>>)) = <<>>
    BY <2>1, LenProperties, SubSeqEmpty, Constants
  <2>3. intrOpen = 0 => data' = msg[p]
    BY <1>2, <2>1, <2>2, ConcatEmptySeq DEF WriteCopy, Goto
  <2> QED
    BY <1>2, <2>3 DEF WriteCopy, Goto, Alone, Opened, history
<1>3. ASSUME NEW p \in Proc, NEW from, NEW to, Goto(p, from, to),
             to \in {"copy", "wdown", "in"} => from = "wdown",
             to \notin {"copy", "wdown"},
             UNCHANGED <<data, msg>>, intrOpen' = 0 => intrOpen = 0
      PROVE  BufferKept'
  BY <1>3 DEF Goto
<1>4. ASSUME UNCHANGED <<pc, data, msg, intrOpen>> PROVE BufferKept'
  BY <1>4
<1>5. ASSUME NEW p \in Proc, Driver(p) PROVE BufferKept'
  BY <1>2, <1>3, <1>4, <1>5 DEF Driver, Down, WriteIn, WriteHead, ReadUnderflow,
     ReadTest, ReadOut, ReadDone, buffer, history
<1>6. ASSUME NEW p \in Proc, Open(p) \/ OpenInterrupted(p) \/ Close(p) \/ Read(p)
      PROVE  BufferKept'
  <2>1. CASE OpenInterrupted(p)
    <3>1. intrOpen \in Nat /\ intrOpen' = intrOpen + 1
      BY <2>1, Constants DEF OpenInterrupted
    <3> QED
      BY SMTT(45), <3>1
  <2> QED
    BY <1>3, <1>6, <2>1 DEF Open, Close, Read, buffer, history
<1>7. ASSUME NEW p \in Proc, \/ DownInterrupted(p, "wdown", "in")
                             \/ DownInterrupted(p, "rdown", "test")
      PROVE  BufferKept'
  BY <1>3, <1>7 DEF DownInterrupted, buffer
<1> QED
  BY <1>1, <1>4, <1>5, <1>6, <1>7 DEF Next, User, vars, buffer, history

\* Bytes are put together in any order.
LEMMA Associative ==
  ASSUME NEW x \in Seq(Byte), NEW y \in Seq(Byte), NEW z \in Seq(Byte)
  PROVE  x \o (y \o z) = (x \o y) \o z
BY SMT

LEMMA StreamKept == TypeOK /\ BufferKept /\ StreamIntact /\ [Next]_vars => StreamIntact'
<1> SUFFICES ASSUME TypeOK, BufferKept, StreamIntact, [Next]_vars PROVE StreamIntact'
  OBVIOUS
<1> USE DEF StreamIntact
<1>0. {got, queue, sent, data} \subseteq Seq(Byte)
  BY DEF TypeOK
<1>1. ASSUME NEW p \in Proc, WriteIn(p) PROVE StreamIntact'
  <2> SUFFICES ASSUME intrOpen = 0 PROVE got \o queue' = sent'
    BY <1>1 DEF WriteIn
  <2>1. data = msg[p]
    BY <1>1 DEF WriteIn, Goto, BufferKept
  <2> DEFINE n == Minimum(Len(data), Free)
             x == SubSeq(data, 1, n)
  <2>2. x \in Seq(Byte)
    BY <1>0, Fits, Prefix DEF TypeOK
  <2>3. queue' = queue \o x /\ sent' = sent \o x
    BY <1>1, <2>1 DEF WriteIn
  <2> HIDE DEF x
  <2>4. got \o (queue \o x) = (got \o queue) \o x
    <3>1. got \in Seq(Byte) /\ queue \in Seq(Byte)
      BY <1>0
    <3> QED
      BY <2>2, <3>1, Associative
  <2>5. got \o queue = sent
    OBVIOUS
  <2> QED
    BY <2>3, <2>4, <2>5
<1>2. ASSUME NEW p \in Proc, ReadOut(p) PROVE StreamIntact'
  <2>1. queue # <<>> /\ got' = Append(got, Head(queue)) /\ queue' = Tail(queue)
        /\ sent' = sent /\ intrOpen' = intrOpen
    BY <1>2 DEF ReadOut
  <2>2. Append(got, Head(queue)) \o Tail(queue) = got \o queue
    BY <1>0, <2>1
  <2> QED
    BY <2>1, <2>2
<1>3. ASSUME got' = got, queue' = queue, sent' = sent, intrOpen' = 0 => intrOpen = 0
      PROVE  StreamIntact'
  BY <1>3
<1>4. ASSUME NEW p \in Proc, Driver(p) PROVE StreamIntact'
  BY <1>1, <1>2, <1>3, <1>4 DEF Driver, WriteCopy, Down, WriteHead, ReadUnderflow,
     ReadTest, ReadDone, buffer, history
<1>5. ASSUME NEW p \in Proc, OpenInterrupted(p) PROVE StreamIntact'
  BY <1>5, <1>3 DEF OpenInterrupted, buffer, TypeOK
<1>6. ASSUME NEW p \in Proc, User(p) PROVE StreamIntact'
  BY <1>3, <1>5, <1>6 DEF User, Open, Close, Read, Write, DownInterrupted,
     buffer, history
<1> QED
  BY <1>3, <1>4, <1>6 DEF Next, vars, buffer, history

\* As long as no open of the device was cut short by a signal, char_read hands out
\* exactly the bytes char_write put in, in order, although char_write fills the shared
\* buffer before it takes s.
THEOREM StreamSafety == Spec => []StreamIntact
<1>1. Init => TypeOK /\ Alone /\ BufferKept /\ StreamIntact
  BY Constants, ConcatEmptySeq DEF Init, TypeOK, Alone, BufferKept, StreamIntact, Opened
<1> QED
  BY <1>1, TypesKept, AloneKept, BufferStep, StreamKept, PTL DEF Spec

-----------------------------------------------------------------------------
(* Sizes                                                                   *)

LEMMA Sizes ==
  ASSUME IntFifoAssumption
  PROVE  /\ INT_FIFO_SIZE \in Nat \ {0} /\ IndexWidth \in Nat \ {0} /\ IndexWidth > INT_FIFO_SIZE
         /\ NoClient \notin Client /\ Ints \subseteq Seq(Int) /\ Counts \subseteq Nat
BY DEF IntFifoAssumption

\* An index and its remainder name the same slot.
LEMMA ModWidth ==
  ASSUME IntFifoAssumption, NEW a \in Int, NEW b \in Int
  PROVE  ((a % IndexWidth) + b) % INT_FIFO_SIZE = (a + b) % INT_FIFO_SIZE
<1>1. INT_FIFO_SIZE \in Nat \ {0} /\ IndexWidth \in Nat \ {0} /\ IndexWidth % INT_FIFO_SIZE = 0
  BY DEF IntFifoAssumption
<1>2. PICK m \in Int : IndexWidth = INT_FIFO_SIZE * m
  <2>1. /\ IndexWidth = INT_FIFO_SIZE * (IndexWidth \div INT_FIFO_SIZE) + (IndexWidth % INT_FIFO_SIZE)
        /\ IndexWidth \div INT_FIFO_SIZE \in Int
    BY <1>1
  <2> DEFINE m == IndexWidth \div INT_FIFO_SIZE
  <2>2. m \in Int /\ IndexWidth = INT_FIFO_SIZE * m + 0
    BY <1>1, <2>1
  <2> HIDE DEF m
  <2>3. INT_FIFO_SIZE * m \in Int
    BY <1>1, <2>2
  <2> QED
    BY <2>2, <2>3
<1>3. a = IndexWidth * (a \div IndexWidth) + (a % IndexWidth) /\ a \div IndexWidth \in Int /\ a % IndexWidth \in Int
  BY <1>1
<1> DEFINE x == a \div IndexWidth
           r == a % IndexWidth
<1>4. a = IndexWidth * x + r /\ x \in Int /\ r \in Int
  BY <1>3
<1> HIDE DEF x, r
<1>5. IndexWidth * x = INT_FIFO_SIZE * (m * x) /\ m * x \in Int
  BY <1>1, <1>2, <1>4
<1> DEFINE y == m * x
<1>6. a = INT_FIFO_SIZE * y + r /\ y \in Int
  BY <1>4, <1>5
<1> HIDE DEF y
<1>7. INT_FIFO_SIZE * (0 - y) = 0 - INT_FIFO_SIZE * y
  BY <1>1, <1>6
<1>8. r + b = (a + b) + INT_FIFO_SIZE * (0 - y) /\ r + b \in Int /\ a + b \in Int /\ 0 - y \in Int
  BY <1>1, <1>4, <1>6, <1>7
<1>9. (r + b) % INT_FIFO_SIZE = (a + b) % INT_FIFO_SIZE
  <2> DEFINE u == r + b
             v == a + b
             z == 0 - y
  <2>1. u \in Int /\ v \in Int /\ z \in Int /\ u = v + INT_FIFO_SIZE * z
    BY <1>8
  <2> HIDE DEF u, v, z
  <2>2. u % INT_FIFO_SIZE = v % INT_FIFO_SIZE
    BY ZenonT(45), <1>1, <2>1, ModShift
  <2> QED
    BY <2>2 DEF u, v
<1> QED
  BY <1>9 DEF r

-----------------------------------------------------------------------------
(* The ring                                                                *)

RingOK == /\ in \in 0 .. IndexWidth - 1 /\ out \in 0 .. IndexWidth - 1
          /\ buf \in [0 .. INT_FIFO_SIZE - 1 -> Int]
          /\ kfifo_len <= INT_FIFO_SIZE

\* The slot an index names.
Slot(a) == a % INT_FIFO_SIZE

LEMMA RingTypes ==
  ASSUME IntFifoAssumption, RingOK
  PROVE  /\ in \in Int /\ out \in Int /\ kfifo_len \in 0 .. INT_FIFO_SIZE /\ kfifo_len \in Int
         /\ \A a \in Int : Slot(a) \in 0 .. INT_FIFO_SIZE - 1 /\ buf[Slot(a)] \in Int
<1>1. INT_FIFO_SIZE \in Nat \ {0} /\ IndexWidth \in Nat \ {0}
  BY Sizes
<1>2. in \in Int /\ out \in Int /\ in - out \in Int
  BY <1>1 DEF RingOK
<1>3. kfifo_len \in 0 .. IndexWidth - 1
  BY <1>1, <1>2, ModRange DEF kfifo_len
<1>4. \A a \in Int : Slot(a) \in 0 .. INT_FIFO_SIZE - 1
  BY <1>1, ModRange DEF Slot
<1>5. \A a \in Int : buf[Slot(a)] \in Int
  BY <1>4 DEF RingOK
<1>6. kfifo_len <= INT_FIFO_SIZE
  BY DEF RingOK
<1>7. kfifo_len \in 0 .. INT_FIFO_SIZE /\ kfifo_len \in Int
  <2> DEFINE l == kfifo_len
  <2>1. l \in 0 .. IndexWidth - 1 /\ l <= INT_FIFO_SIZE
    BY <1>3, <1>6
  <2> HIDE DEF l
  <2>2. l \in 0 .. INT_FIFO_SIZE /\ l \in Int
    BY <1>1, <2>1
  <2> QED
    BY <2>2 DEF l
<1> QED
  BY <1>2, <1>4, <1>5, <1>7

\* The next free slot is kfifo_len behind the first element.
LEMMA Behind ==
  ASSUME IntFifoAssumption, RingOK, NEW x \in Int
  PROVE  Slot(in + x) = Slot(out + kfifo_len + x)
<1>1. INT_FIFO_SIZE \in Nat \ {0} /\ IndexWidth \in Nat \ {0}
  BY Sizes
<1>2. in \in Int /\ out \in Int
  BY RingTypes
<1>3. (((in - out) % IndexWidth) + (out + x)) % INT_FIFO_SIZE = ((in - out) + (out + x)) % INT_FIFO_SIZE
  <2>1. in - out \in Int /\ out + x \in Int
    BY <1>2
  <2> QED
    BY <2>1, ModWidth
<1>4. (in - out) + (out + x) = in + x
  BY <1>2
<1>5. kfifo_len + (out + x) = out + kfifo_len + x
  BY <1>2, RingTypes
<1> QED
  BY <1>3, <1>4, <1>5 DEF kfifo_len, Slot

\* How far a used slot, and a free one, are from the next free slot.
LEMMA Distances ==
  ASSUME IntFifoAssumption, RingOK
  PROVE  /\ \A k \in 1 .. kfifo_len :
               (Slot(out + k - 1) - in) % INT_FIFO_SIZE = INT_FIFO_SIZE + k - 1 - kfifo_len
         /\ \A k \in 1 .. INT_FIFO_SIZE : (Slot(in + k - 1) - in) % INT_FIFO_SIZE = k - 1
<1>1. INT_FIFO_SIZE \in Nat \ {0} /\ IndexWidth \in Nat \ {0} /\ in \in Int /\ out \in Int
      /\ kfifo_len \in 0 .. INT_FIFO_SIZE
  BY Sizes, RingTypes
<1>2. ASSUME NEW k \in 1 .. kfifo_len
      PROVE  (Slot(out + k - 1) - in) % INT_FIFO_SIZE = INT_FIFO_SIZE + k - 1 - kfifo_len
  <2> DEFINE x == k - 1 - kfifo_len
             d == (in + x) - in
  <2>1. k \in Int /\ x \in Int /\ out + kfifo_len + x = out + k - 1 /\ in + x \in Int
    BY <1>1
  <2>2. Slot(out + k - 1) = Slot(in + x)
    BY <2>1, Behind
  <2>3. (((in + x) % INT_FIFO_SIZE) + (0 - in)) % INT_FIFO_SIZE = ((in + x) + (0 - in)) % INT_FIFO_SIZE
    <3>1. 0 - in \in Int
      BY <1>1
    <3> QED
      BY <1>1, <2>1, <3>1, ModEarly
  <2>4. /\ (in + x) + (0 - in) = x
        /\ Slot(in + x) + (0 - in) = Slot(in + x) - in
    BY <1>1, <2>1, RingTypes
  <2>5. (Slot(out + k - 1) - in) % INT_FIFO_SIZE = x % INT_FIFO_SIZE
    BY <2>2, <2>3, <2>4 DEF Slot
  <2>6. INT_FIFO_SIZE + x \in 0 .. INT_FIFO_SIZE - 1 /\ INT_FIFO_SIZE + x = x + INT_FIFO_SIZE * 1
    BY <1>1
  <2>7. INT_FIFO_SIZE + x = INT_FIFO_SIZE + k - 1 - kfifo_len
    BY <1>1, <2>1
  <2> HIDE DEF x
  <2> DEFINE y == INT_FIFO_SIZE + x
  <2>8. y \in Int /\ y \in 0 .. INT_FIFO_SIZE - 1 /\ y = x + INT_FIFO_SIZE * 1
    BY <1>1, <2>1, <2>6
  <2> HIDE DEF y
  <2>9. y % INT_FIFO_SIZE = x % INT_FIFO_SIZE /\ y % INT_FIFO_SIZE = y
    <3>1. y % INT_FIFO_SIZE = y
      BY <1>1, <2>8, ModRange
    <3> DEFINE one == 1
    <3>2. /\ one \in Int /\ x \in Int /\ y \in Int /\ INT_FIFO_SIZE \in Nat \ {0}
          /\ y = x + INT_FIFO_SIZE * one
      BY <1>1, <2>1, <2>8
    <3> HIDE DEF one
    <3>3. y % INT_FIFO_SIZE = x % INT_FIFO_SIZE
      BY <3>2, ModShift
    <3> QED
      BY <3>1, <3>3
  <2> QED
    BY <2>5, <2>7, <2>9 DEF y
<1>3. ASSUME NEW k \in 1 .. INT_FIFO_SIZE
      PROVE  (Slot(in + k - 1) - in) % INT_FIFO_SIZE = k - 1
  <2>1. (((in + k - 1) % INT_FIFO_SIZE) + (0 - in)) % INT_FIFO_SIZE
           = ((in + k - 1) + (0 - in)) % INT_FIFO_SIZE
    <3>1. in + k - 1 \in Int /\ 0 - in \in Int
      BY <1>1
    <3> QED
      BY <1>1, <3>1, ModEarly
  <2>2. (in + k - 1) + (0 - in) = k - 1 /\ k - 1 \in 0 .. INT_FIFO_SIZE - 1 /\ in + k - 1 \in Int
    BY <1>1
  <2>3. Slot(in + k - 1) + (0 - in) = Slot(in + k - 1) - in
    BY <1>1, <2>2, RingTypes
  <2>4. (k - 1) % INT_FIFO_SIZE = k - 1
    <3> DEFINE y == k - 1
    <3>1. y \in 0 .. INT_FIFO_SIZE - 1 /\ y \in Int
      BY <2>2
    <3> HIDE DEF y
    <3>2. y % INT_FIFO_SIZE = y
      BY <1>1, <3>1, ModRange
    <3> QED
      BY <3>2 DEF y
  <2> QED
    BY <2>1, <2>2, <2>3, <2>4 DEF Slot
<1> QED
  BY <1>2, <1>3

\* Storing behind the last element leaves the elements alone.
LEMMA StoreKeeps ==
  ASSUME IntFifoAssumption, RingOK, NEW xs \in Seq(Int), Len(xs) + kfifo_len <= INT_FIFO_SIZE
  PROVE  /\ Store(xs) \in [0 .. INT_FIFO_SIZE - 1 -> Int]
         /\ \A k \in 1 .. kfifo_len : Store(xs)[Slot(out + k - 1)] = buf[Slot(out + k - 1)]
         /\ \A k \in 1 .. Len(xs) : Store(xs)[Slot(in + k - 1)] = xs[k]
<1> DEFINE K(c) == ((c - in) % INT_FIFO_SIZE) + 1
<1>1. /\ INT_FIFO_SIZE \in Nat \ {0} /\ in \in Int /\ out \in Int
      /\ kfifo_len \in 0 .. INT_FIFO_SIZE /\ kfifo_len \in Int
      /\ Len(xs) \in Nat
  BY Sizes, RingTypes, LenProperties
<1>2. \A c \in 0 .. INT_FIFO_SIZE - 1 : K(c) \in 1 .. INT_FIFO_SIZE
  <2> SUFFICES ASSUME NEW c \in 0 .. INT_FIFO_SIZE - 1 PROVE K(c) \in 1 .. INT_FIFO_SIZE
    OBVIOUS
  <2> DEFINE d == c - in
  <2>1. d \in Int
    BY <1>1
  <2> HIDE DEF d
  <2>2. d % INT_FIFO_SIZE \in 0 .. INT_FIFO_SIZE - 1
    BY <1>1, <2>1, ModRange
  <2>3. (d % INT_FIFO_SIZE) + 1 \in 1 .. INT_FIFO_SIZE
    BY <1>1, <2>2
  <2> QED
    BY <2>3 DEF d
<1>3. Store(xs) = [c \in 0 .. INT_FIFO_SIZE - 1 |-> IF K(c) <= Len(xs) THEN xs[K(c)] ELSE buf[c]]
  BY DEF Store
<1>4. \A k \in 1 .. kfifo_len : /\ Slot(out + k - 1) \in 0 .. INT_FIFO_SIZE - 1
                                /\ K(Slot(out + k - 1)) > Len(xs)
  <2> SUFFICES ASSUME NEW k \in 1 .. kfifo_len
               PROVE  /\ Slot(out + k - 1) \in 0 .. INT_FIFO_SIZE - 1
                      /\ K(Slot(out + k - 1)) > Len(xs)
    OBVIOUS
  <2>1. (Slot(out + k - 1) - in) % INT_FIFO_SIZE = INT_FIFO_SIZE + k - 1 - kfifo_len
    BY Distances
  <2>2. out + k - 1 \in Int
    BY <1>1
  <2>3. INT_FIFO_SIZE + k - 1 - kfifo_len + 1 > Len(xs)
    BY <1>1
  <2> QED
    BY <2>1, <2>2, <2>3, RingTypes
<1>5. \A k \in 1 .. Len(xs) : /\ Slot(in + k - 1) \in 0 .. INT_FIFO_SIZE - 1
                              /\ K(Slot(in + k - 1)) = k
  <2> SUFFICES ASSUME NEW k \in 1 .. Len(xs)
               PROVE  /\ Slot(in + k - 1) \in 0 .. INT_FIFO_SIZE - 1
                      /\ K(Slot(in + k - 1)) = k
    OBVIOUS
  <2>1. k \in 1 .. INT_FIFO_SIZE /\ in + k - 1 \in Int
    BY <1>1
  <2>2. (Slot(in + k - 1) - in) % INT_FIFO_SIZE = k - 1
    BY <2>1, Distances
  <2> QED
    BY <2>1, <2>2, RingTypes
<1>6. \A k \in 1 .. Len(xs) : xs[k] \in Int
  BY ElementOfSeq
<1> HIDE DEF K
<1>7. Store(xs) \in [0 .. INT_FIFO_SIZE - 1 -> Int]
  <2>1. \A c \in 0 .. INT_FIFO_SIZE - 1 :
            (IF K(c) <= Len(xs) THEN xs[K(c)] ELSE buf[c]) \in Int
    BY <1>1, <1>2, <1>6 DEF RingOK
  <2> QED
    BY <1>3, <2>1
<1>8. \A k \in 1 .. kfifo_len : Store(xs)[Slot(out + k - 1)] = buf[Slot(out + k - 1)]
  <2> SUFFICES ASSUME NEW k \in 1 .. kfifo_len
               PROVE  Store(xs)[Slot(out + k - 1)] = buf[Slot(out + k - 1)]
    OBVIOUS
  <2> DEFINE c == Slot(out + k - 1)
  <2>1. c \in 0 .. INT_FIFO_SIZE - 1 /\ K(c) > Len(xs)
    BY <1>4
  <2> HIDE DEF c
  <2>2. Store(xs)[c] = buf[c]
    BY <1>1, <1>2, <1>3, <2>1
  <2> QED
    BY <2>2 DEF c
<1>9. \A k \in 1 .. Len(xs) : Store(xs)[Slot(in + k - 1)] = xs[k]
  <2> SUFFICES ASSUME NEW k \in 1 .. Len(xs)
               PROVE  Store(xs)[Slot(in + k - 1)] = xs[k]
    OBVIOUS
  <2> DEFINE c == Slot(in + k - 1)
  <2>1. c \in 0 .. INT_FIFO_SIZE - 1 /\ K(c) = k
    BY <1>5
  <2> HIDE DEF c
  <2>2. Store(xs)[c] = xs[k]
    BY <1>1, <1>2, <1>3, <2>1
  <2> QED
    BY <2>2 DEF c
<1> QED
  BY <1>7, <1>8, <1>9

\* The n elements from an index on.
Elements(b, o, n) == [k \in 1 .. n |-> b[Slot(o + k - 1)]]

LEMMA ElementsSeq ==
  ASSUME IntFifoAssumption, NEW b \in [0 .. INT_FIFO_SIZE - 1 -> Int], NEW o \in Int, NEW n \in Nat
  PROVE  /\ Elements(b, o, n) \in Seq(Int) /\ Len(Elements(b, o, n)) = n
         /\ \A k \in 1 .. n : Elements(b, o, n)[k] = b[Slot(o + k - 1)]
<1>1. \A k \in 1 .. n : b[Slot(o + k - 1)] \in Int
  <2> SUFFICES ASSUME NEW k \in 1 .. n PROVE b[Slot(o + k - 1)] \in Int
    OBVIOUS
  <2> DEFINE a == o + k - 1
  <2>1. a \in Int
    OBVIOUS
  <2> HIDE DEF a
  <2>2. Slot(a) \in 0 .. INT_FIFO_SIZE - 1
    BY <2>1, Sizes, ModRange DEF Slot
  <2> QED
    BY <2>2 DEF a
<1> DEFINE E == Elements(b, o, n)
<1>2. E = [k \in 1 .. n |-> b[Slot(o + k - 1)]]
  BY DEF Elements
<1>3. E \in [1 .. n -> Int] /\ DOMAIN E = 1 .. n
  BY <1>1, <1>2
<1> HIDE DEF E
<1>4. E \in Seq(Int)
  BY <1>3, SeqDef
<1>5. Len(E) \in Nat /\ DOMAIN E = 1 .. Len(E)
  BY <1>4, LenProperties
<1>6. Len(E) = n
  BY <1>3, <1>5
<1> QED
  BY <1>2, <1>4, <1>6 DEF E

\* What Load returns.
LEMMA LoadSeq ==
  ASSUME IntFifoAssumption, RingOK, NEW n \in Nat
  PROVE  /\ Load(n) \in Seq(Int) /\ Len(Load(n)) = n
         /\ \A k \in 1 .. n : Load(n)[k] = buf[Slot(out + k - 1)]
<1>1. Load(n) = Elements(buf, out, n)
  BY DEF Load, Elements, Slot
<1>2. out \in Int /\ buf \in [0 .. INT_FIFO_SIZE - 1 -> Int]
  BY RingTypes DEF RingOK
<1> QED
  BY <1>1, <1>2, ElementsSeq

\* The indices move, and kfifo_len with them.
LEMMA LenMoves ==
  ASSUME IntFifoAssumption, RingOK, NEW n \in Nat
  PROVE  /\ (in + n) % IndexWidth \in 0 .. IndexWidth - 1 /\ (out + n) % IndexWidth \in 0 .. IndexWidth - 1
         /\ kfifo_len + n <= INT_FIFO_SIZE => (((in + n) % IndexWidth) - out) % IndexWidth = kfifo_len + n
         /\ n <= kfifo_len => (in - ((out + n) % IndexWidth)) % IndexWidth = kfifo_len - n
<1>1. /\ INT_FIFO_SIZE \in Nat \ {0} /\ IndexWidth \in Nat \ {0} /\ IndexWidth > INT_FIFO_SIZE
      /\ in \in Int /\ out \in Int /\ kfifo_len \in 0 .. INT_FIFO_SIZE
  BY Sizes, RingTypes
<1>2. (in + n) % IndexWidth \in 0 .. IndexWidth - 1 /\ (out + n) % IndexWidth \in 0 .. IndexWidth - 1
  <2> DEFINE u == in + n
             v == out + n
  <2>1. u \in Int /\ v \in Int
    BY <1>1
  <2> HIDE DEF u, v
  <2>2. u % IndexWidth \in 0 .. IndexWidth - 1 /\ v % IndexWidth \in 0 .. IndexWidth - 1
    BY <1>1, <2>1, ModRange
  <2> QED
    BY <2>2 DEF u, v
<1> DEFINE d == in - out
<1>3. d \in Int /\ kfifo_len = d % IndexWidth
  BY <1>1 DEF kfifo_len
<1>4. ((d % IndexWidth) + n) % IndexWidth = (d + n) % IndexWidth
  <2> HIDE DEF d
  <2>1. n \in Int
    OBVIOUS
  <2> QED
    BY <1>1, <1>3, <2>1, ModEarly
<1>5. ASSUME kfifo_len + n <= INT_FIFO_SIZE
      PROVE  (((in + n) % IndexWidth) - out) % IndexWidth = kfifo_len + n
  <2> DEFINE u == in + n
             o == 0 - out
  <2>1. u \in Int /\ o \in Int /\ u + o = d + n /\ u % IndexWidth \in Int
    BY <1>1, <1>2
  <2>2. (u % IndexWidth) - out = (u % IndexWidth) + o
    BY <1>1, <2>1
  <2> HIDE DEF u, o
  <2>3. ((u % IndexWidth) + o) % IndexWidth = (u + o) % IndexWidth
    BY <1>1, <2>1, ModEarly
  <2>4. ((u % IndexWidth) - out) % IndexWidth = (kfifo_len + n) % IndexWidth
    BY <1>3, <1>4, <2>1, <2>2, <2>3
  <2> DEFINE t == kfifo_len + n
  <2>5. t \in 0 .. IndexWidth - 1 /\ t \in Int
    BY <1>1, <1>5
  <2> HIDE DEF t
  <2>6. t % IndexWidth = t
    BY <1>1, <2>5, ModRange
  <2> QED
    BY <2>4, <2>6 DEF u, t
<1>6. ASSUME n <= kfifo_len
      PROVE  (in - ((out + n) % IndexWidth)) % IndexWidth = kfifo_len - n
  <2> DEFINE u == out + n
  <2>1. u \in Int /\ in - u = d - n
    BY <1>1
  <2> HIDE DEF u
  <2>2. (in - (u % IndexWidth)) % IndexWidth = (in - u) % IndexWidth
    BY <1>1, <2>1, ModEarly
  <2> DEFINE o == 0 - n
  <2>3. o \in Int /\ d + o = d - n /\ kfifo_len + o = kfifo_len - n
    BY <1>1, <1>3
  <2> HIDE DEF d, o
  <2>4. ((d % IndexWidth) + o) % IndexWidth = (d + o) % IndexWidth
    BY <1>1, <1>3, <2>3, ModEarly
  <2>5. (in - (u % IndexWidth)) % IndexWidth = (kfifo_len - n) % IndexWidth
    BY <1>3, <2>1, <2>2, <2>3, <2>4
  <2> DEFINE t == kfifo_len - n
  <2>6. t \in 0 .. IndexWidth - 1 /\ t \in Int
    BY <1>1, <1>6
  <2> HIDE DEF t
  <2>7. t % IndexWidth = t
    BY <1>1, <2>6, ModRange
  <2> QED
    BY <2>5, <2>7 DEF u, t
<1> QED
  BY <1>2, <1>5, <1>6

-----------------------------------------------------------------------------
(* Steps of the ring                                                       *)

\* The slots of the elements that are stored but not published.
Unpublished(xs) == \A k \in 1 .. Len(xs) : buf[Slot(in + k - 1)] = xs[k]

\* What a reader has copied are the first elements.
Copied(xs) == Len(xs) <= kfifo_len /\ \A k \in 1 .. Len(xs) : buf[Slot(out + k - 1)] = xs[k]

LEMMA RingStore ==
  ASSUME IntFifoAssumption, RingOK, NEW xs \in Seq(Int), Len(xs) + kfifo_len <= INT_FIFO_SIZE,
         buf' = Store(xs), UNCHANGED <<in, out>>
  PROVE  /\ RingOK' /\ kfifo_len' = kfifo_len /\ Unpublished(xs)'
         /\ \A k \in 1 .. kfifo_len : buf'[Slot(out + k - 1)] = buf[Slot(out + k - 1)]
<1>1. kfifo_len' = kfifo_len
  BY DEF kfifo_len
<1> QED
  BY <1>1, StoreKeeps DEF RingOK, Unpublished, Slot

LEMMA RingPublish ==
  ASSUME IntFifoAssumption, RingOK, NEW n \in Nat, n + kfifo_len <= INT_FIFO_SIZE,
         in' = (in + n) % IndexWidth, out' = out,
         buf' \in [0 .. INT_FIFO_SIZE - 1 -> Int]
  PROVE  RingOK' /\ kfifo_len' = kfifo_len + n
<1>1. n + kfifo_len = kfifo_len + n
  BY RingTypes
<1>2. kfifo_len' = (((in + n) % IndexWidth) - out) % IndexWidth
  BY DEF kfifo_len
<1>3. kfifo_len' = kfifo_len + n
  BY <1>1, <1>2, LenMoves
<1>4. in' \in 0 .. IndexWidth - 1
  BY LenMoves
<1> QED
  BY <1>1, <1>3, <1>4 DEF RingOK

LEMMA RingRelease ==
  ASSUME IntFifoAssumption, RingOK, NEW n \in Nat, n <= kfifo_len,
         out' = (out + n) % IndexWidth, UNCHANGED <<in, buf>>
  PROVE  /\ RingOK' /\ kfifo_len' = kfifo_len - n
         /\ \A k \in Int : Slot(out' + k - 1) = Slot(out + n + k - 1)
<1>1. kfifo_len' = (in - ((out + n) % IndexWidth)) % IndexWidth
  BY DEF kfifo_len
<1>2. kfifo_len' = kfifo_len - n
  BY <1>1, LenMoves
<1>3. out' \in 0 .. IndexWidth - 1
  BY LenMoves
<1>4. RingOK'
  <2>1. kfifo_len - n <= INT_FIFO_SIZE
    BY RingTypes, Sizes
  <2> QED
    BY <1>2, <1>3, <2>1 DEF RingOK
<1>5. ASSUME NEW k \in Int
      PROVE  Slot(out' + k - 1) = Slot(out + n + k - 1)
  <2> DEFINE u == out + n
             x == k - 1
  <2>1. u \in Int /\ x \in Int /\ out' = u % IndexWidth /\ u % IndexWidth \in Int
    BY <1>3, RingTypes, Sizes
  <2>2. u + x = out + n + k - 1 /\ (u % IndexWidth) + x = out' + k - 1
    BY <1>3, <2>1, RingTypes, Sizes
  <2> HIDE DEF u, x
  <2>3. ((u % IndexWidth) + x) % INT_FIFO_SIZE = (u + x) % INT_FIFO_SIZE
    BY <2>1, ModWidth
  <2> QED
    BY <2>2, <2>3 DEF Slot
<1> QED
  BY <1>2, <1>4, <1>5

LEMMA Lesser ==
  ASSUME NEW a \in Int, NEW b \in Int
  PROVE  AtMost(a, b) \in {a, b} /\ AtMost(a, b) <= a /\ AtMost(a, b) <= b
BY DEF AtMost

LEMMA Unused ==
  ASSUME IntFifoAssumption, RingOK
  PROVE  /\ kfifo_len \in 0 .. INT_FIFO_SIZE /\ kfifo_len \in Int
         /\ kfifo_unused \in 0 .. INT_FIFO_SIZE /\ kfifo_unused \in Int
         /\ kfifo_unused = INT_FIFO_SIZE - kfifo_len
<1> DEFINE l == kfifo_len
<1>1. l \in 0 .. INT_FIFO_SIZE /\ INT_FIFO_SIZE \in Nat /\ kfifo_unused = INT_FIFO_SIZE - l
  BY RingTypes, Sizes DEF kfifo_unused
<1> HIDE DEF l
<1>2. l \in 0 .. INT_FIFO_SIZE /\ l \in Int /\ kfifo_unused \in 0 .. INT_FIFO_SIZE
      /\ kfifo_unused \in Int
  BY <1>1
<1> QED
  BY <1>1, <1>2 DEF l

\* A part of a message from its start.
LEMMA ElementPrefix ==
  ASSUME NEW xs \in Seq(Int), NEW n \in 0 .. Len(xs)
  PROVE  /\ SubSeq(xs, 1, n) \in Seq(Int) /\ Len(SubSeq(xs, 1, n)) = n
         /\ \A k \in 1 .. n : SubSeq(xs, 1, n)[k] = xs[k]
<1>1. Len(xs) \in Nat /\ n \in Int /\ n \in Nat
  BY LenProperties
<1>2. \A k \in 1 .. n : xs[k] \in Int
  BY <1>1, ElementOfSeq
<1>3. /\ SubSeq(xs, 1, n) \in Seq(Int)
      /\ Len(SubSeq(xs, 1, n)) = IF 1 <= n THEN n - 1 + 1 ELSE 0
      /\ \A k \in 1 .. n - 1 + 1 : SubSeq(xs, 1, n)[k] = xs[1 + k - 1]
  BY <1>1, <1>2, SubSeqProperties
<1>4. n - 1 + 1 = n /\ (1 <= n \/ n = 0)
  BY <1>1
<1>5. \A k \in 1 .. n : 1 + k - 1 = k
  BY <1>1
<1> QED
  BY <1>3, <1>4, <1>5

\* kfifo_in and kfifo_out in one step, as the self test uses them.
LEMMA RingIn ==
  ASSUME IntFifoAssumption, RingOK, NEW xs \in Seq(Int), In(xs)
  PROVE  RingOK'
<1> DEFINE n == AtMost(Len(xs), kfifo_unused)
           ys == SubSeq(xs, 1, n)
<1>1. buf' = Store(ys) /\ in' = (in + Len(ys)) % IndexWidth /\ out' = out
  BY DEF In
<1>2. /\ kfifo_len \in 0 .. INT_FIFO_SIZE /\ kfifo_unused \in 0 .. INT_FIFO_SIZE
      /\ INT_FIFO_SIZE \in Nat /\ Len(xs) \in Nat /\ kfifo_unused = INT_FIFO_SIZE - kfifo_len
  BY Unused, Sizes, LenProperties
<1>3. n \in 0 .. Len(xs) /\ n + kfifo_len <= INT_FIFO_SIZE /\ n \in Nat
  BY <1>2, Lesser
<1> HIDE DEF n
<1>4. ys \in Seq(Int) /\ Len(ys) = n
  BY <1>3, ElementPrefix
<1> HIDE DEF ys
<1>5. Store(ys) \in [0 .. INT_FIFO_SIZE - 1 -> Int]
  BY <1>3, <1>4, StoreKeeps
<1> QED
  BY <1>1, <1>3, <1>4, <1>5, RingPublish

LEMMA RingOut ==
  ASSUME IntFifoAssumption, RingOK, NEW n \in Nat, Out(n)
  PROVE  RingOK' /\ kfifo_len' = kfifo_len - AtMost(n, kfifo_len)
<1> DEFINE m == AtMost(n, kfifo_len)
<1>1. out' = (out + m) % IndexWidth /\ UNCHANGED <<in, buf>>
  BY DEF Out
<1>2. kfifo_len \in 0 .. INT_FIFO_SIZE /\ INT_FIFO_SIZE \in Nat
  BY RingTypes, Sizes
<1>3. m \in Nat /\ m <= kfifo_len
  BY <1>2, Lesser
<1> HIDE DEF m
<1>4. RingOK' /\ kfifo_len' = kfifo_len - m
  BY <1>1, <1>3, RingRelease
<1> QED
  BY <1>4 DEF m

-----------------------------------------------------------------------------
(* The invariant                                                           *)

Writers == {"wlock", "wroom", "wcopy", "wdone"}

\* The test reads each expected value once and ends with an empty queue; nobody else
\* is there unless the module is in use.
Tested ==
    /\ mode = "drain" => j + kfifo_len = INT_FIFO_SIZE
    /\ mode = "tested" => kfifo_len = 0
    /\ mode # "live" => \A p \in Client : place[p] = "user"

Asking == \A p \in Client : place[p] \notin Writers => asked[p] = <<>>

Locked == \A p \in Client : /\ place[p] \in {"wroom", "wcopy", "wdone"} => write_lock = p
                            /\ place[p] \in {"rused", "rcopy", "rdone"} => read_lock = p

\* The room a writer has found is still there, although readers go on; what it has
\* copied is in the slots that it is about to publish.
Writing(p) ==
    /\ place[p] = "wcopy" => len[p] <= Len(asked[p]) /\ len[p] + kfifo_len <= INT_FIFO_SIZE
    /\ place[p] = "wdone" => /\ Len(copy[p]) <= Len(asked[p])
                             /\ Len(copy[p]) + kfifo_len <= INT_FIFO_SIZE
                             /\ copy[p] = SubSeq(asked[p], 1, Len(copy[p]))
                             /\ Unpublished(copy[p])

\* The elements a reader has found and copied are still the first ones, although
\* writers go on.
Reading(p) ==
    /\ place[p] = "rcopy" => len[p] <= kfifo_len
    /\ place[p] = "rdone" => Copied(copy[p])

FInv == FifoTypeOK /\ RingOK /\ Tested /\ Asking /\ Locked
        /\ \A p \in Client : Writing(p) /\ Reading(p)

-----------------------------------------------------------------------------
(* The self test                                                           *)

LEMMA InitInv ==
  ASSUME IntFifoAssumption, FifoInit
  PROVE  FInv
<1>1. INT_FIFO_SIZE \in Nat \ {0} /\ IndexWidth \in Nat \ {0} /\ IndexWidth > INT_FIFO_SIZE
  BY Sizes
<1>2. kfifo_len = 0
  <2>1. kfifo_len = (0 - 0) % IndexWidth
    BY DEF FifoInit, kfifo_len
  <2> QED
    BY <1>1, <2>1, ModRange
<1>3. RingOK
  BY <1>1, <1>2 DEF FifoInit, RingOK
<1>4. <<>> \in Seq(Int) /\ Len(<<>>) = 0
  BY EmptySeq
<1>5. FifoTypeOK
  BY <1>1, <1>4 DEF FifoInit, FifoTypeOK
<1> QED
  BY <1>2, <1>3, <1>5 DEF FifoInit, FInv, Tested, Asking, Locked, Writing, Reading

\* Nothing but the ring and the locals of testfunc moves before the file exists.
LEMMA TestStep ==
  ASSUME IntFifoAssumption, FInv, mode # "live", UNCHANGED <<mutexes, call, count>>,
         RingOK', i' \in Int, j' \in 0 .. INT_FIFO_SIZE, tbuf' \in Seq(Int), Len(tbuf') <= 6,
         mode' \in {"put", "back", "skip", "fill", "drain", "failed", "tested", "unloaded"},
         mode' = "drain" => j' + kfifo_len' = INT_FIFO_SIZE, mode' = "tested" => kfifo_len' = 0
  PROVE  FInv'
<1>1. \A p \in Client : place'[p] = "user" /\ asked'[p] = <<>>
  BY DEF FInv, Tested, Asking, call, Writers
<1>2. FifoTypeOK'
  BY DEF FInv, FifoTypeOK, RingOK, mutexes, call
<1>3. Tested' /\ Asking' /\ Locked' /\ \A p \in Client : Writing(p)' /\ Reading(p)'
  BY <1>1 DEF Tested, Asking, Locked, Writing, Reading
<1> QED
  BY <1>2, <1>3 DEF FInv

LEMMA TestKeeps ==
  ASSUME IntFifoAssumption, FInv, TestFunc
  PROVE  FInv' /\ UNCHANGED <<asked, given>> /\ mode # "live" /\ mode' # "live"
<1>0. UNCHANGED <<mutexes, call, count>> /\ mode # "live"
  BY DEF TestFunc, TestPut, TestOut, TestIn, TestSkip, TestFill, TestFull, TestGet, TestEnd,
         Become
<1>1. /\ RingOK /\ i \in Int /\ j \in 0 .. INT_FIFO_SIZE /\ tbuf \in Seq(Int) /\ Len(tbuf) <= 6
      /\ INT_FIFO_SIZE \in Nat \ {0} /\ kfifo_len \in 0 .. INT_FIFO_SIZE
      /\ kfifo_unused = INT_FIFO_SIZE - kfifo_len
  BY Unused, Sizes DEF FInv, FifoTypeOK
<1>2. <<i>> \in Seq(Int) /\ i + 1 \in Int
  BY <1>1
<1>3. Load(1)[1] \in Int
  <2>1. 1 \in Nat /\ 1 \in 1 .. 1
    OBVIOUS
  <2>2. Load(1) \in Seq(Int) /\ Len(Load(1)) = 1
    BY <1>1, <2>1, LoadSeq
  <2> QED
    BY <2>1, <2>2, ElementOfSeq
<1>4. CASE TestPut \/ TestFill
  <2>1. In(<<i>>) /\ i' = i + 1 /\ UNCHANGED <<mode, j, tbuf>> /\ mode \in {"put", "fill"}
    BY <1>4 DEF TestPut, TestFill
  <2>2. RingOK'
    BY <1>1, <1>2, <2>1, RingIn
  <2> QED
    BY <1>0, <1>1, <1>2, <2>1, <2>2, TestStep DEF call
<1>5. CASE TestOut
  <2>1. /\ tbuf' = Load(AtMost(2, kfifo_len)) /\ Out(2) /\ UNCHANGED <<i, j>>
        /\ mode' = "back"
    BY <1>5 DEF TestOut, Become
  <2>2. RingOK'
    BY <1>1, <2>1, RingOut
  <2>3. AtMost(2, kfifo_len) \in Nat /\ AtMost(2, kfifo_len) <= 2
    BY <1>1, Lesser
  <2>4. tbuf' \in Seq(Int) /\ Len(tbuf') = AtMost(2, kfifo_len)
    BY <1>1, <2>1, <2>3, LoadSeq
  <2>5. Len(tbuf') <= 6
    BY <2>3, <2>4
  <2> QED
    BY <1>0, <1>1, <2>1, <2>2, <2>4, <2>5, TestStep DEF call
<1>6. CASE TestIn
  <2>1. In(tbuf) /\ UNCHANGED test /\ mode' = "skip"
    BY <1>6 DEF TestIn, Become
  <2>2. RingOK'
    BY <1>1, <2>1, RingIn
  <2> QED
    BY <1>0, <1>1, <2>1, <2>2, TestStep DEF call, test
<1>7. CASE TestSkip
  <2>1. Out(1) /\ i' = 20 /\ UNCHANGED <<j, tbuf>> /\ mode' = "fill"
    BY <1>7 DEF TestSkip, Become
  <2>2. RingOK'
    BY <1>1, <2>1, RingOut
  <2> QED
    BY <1>0, <1>1, <2>1, <2>2, TestStep DEF call
<1>8. CASE TestFull
  <2>1. /\ kfifo_unused = 0 /\ i' = Load(1)[1] /\ j' = 0 /\ UNCHANGED <<tbuf, ring>>
        /\ mode' = "drain"
    BY <1>8 DEF TestFull, Become
  <2>2. RingOK' /\ kfifo_len' = kfifo_len
    BY <1>1, <2>1 DEF RingOK, kfifo_len, ring
  <2>3. kfifo_len = INT_FIFO_SIZE
    BY <1>1, <2>1
  <2>4. j' \in 0 .. INT_FIFO_SIZE /\ j' + kfifo_len' = INT_FIFO_SIZE
    BY <1>1, <2>1, <2>2, <2>3
  <2> QED
    BY <1>0, <1>1, <1>3, <2>1, <2>2, <2>4, TestStep DEF call
<1>9. CASE TestGet
  <2>1. /\ mode = "drain" /\ kfifo_len > 0 /\ i' = Load(1)[1] /\ Out(1) /\ j' = j + 1
        /\ UNCHANGED tbuf /\ mode' \in {"drain", "failed"}
    BY <1>9 DEF TestGet
  <2>2. RingOK' /\ kfifo_len' = kfifo_len - AtMost(1, kfifo_len)
    BY <1>1, <2>1, RingOut
  <2>3. AtMost(1, kfifo_len) = 1
    BY <1>1, <2>1 DEF AtMost
  <2>4. j + kfifo_len = INT_FIFO_SIZE
    BY <2>1 DEF FInv, Tested
  <2>5. j' \in 0 .. INT_FIFO_SIZE /\ j' + kfifo_len' = INT_FIFO_SIZE
    BY SMTT(45), <1>1, <2>1, <2>2, <2>3, <2>4
  <2> QED
    BY <1>0, <1>1, <1>3, <2>1, <2>2, <2>5, TestStep DEF call
<1>10. CASE TestEnd
  <2>1. /\ kfifo_len = 0 /\ UNCHANGED <<test, ring>> /\ mode' \in {"tested", "failed"}
    BY <1>10 DEF TestEnd
  <2>2. RingOK' /\ kfifo_len' = kfifo_len
    BY <1>1, <2>1 DEF RingOK, kfifo_len, ring
  <2> QED
    BY <1>0, <1>1, <2>1, <2>2, TestStep DEF call, test
<1> QED
  BY <1>4, <1>5, <1>6, <1>7, <1>8, <1>9, <1>10 DEF TestFunc

-----------------------------------------------------------------------------
(* Reading and writing                                                     *)

\* A process in the driver: the module is in use.
LEMMA InUse ==
  ASSUME FInv, NEW p \in Client, place[p] # "user"
  PROVE  mode = "live"
BY DEF FInv, Tested

LEMMA MessageSeq ==
  ASSUME IntFifoAssumption, FInv, NEW p \in Client
  PROVE  asked[p] \in Seq(Int) /\ Len(asked[p]) \in Nat
<1>1. asked[p] \in Ints \/ asked[p] = <<>>
  BY DEF FInv, FifoTypeOK
<1>2. asked[p] \in Seq(Int)
  BY <1>1, Sizes, EmptySeq
<1> QED
  BY <1>2, LenProperties

\* Steps that leave the ring alone: what others have found and copied stays true.
LEMMA QuietOthers ==
  ASSUME FInv, UNCHANGED ring, NEW q \in Client,
         place'[q] = place[q], asked'[q] = asked[q], len'[q] = len[q], copy'[q] = copy[q]
  PROVE  Writing(q)' /\ Reading(q)'
BY DEF FInv, Writing, Reading, Unpublished, Copied, kfifo_len, ring

LEMMA QuietRing ==
  ASSUME FInv, UNCHANGED ring
  PROVE  RingOK' /\ kfifo_len' = kfifo_len
BY DEF FInv, RingOK, kfifo_len, ring

\* Entering a call, or leaving it early.
LEMMA UserKeeps ==
  ASSUME IntFifoAssumption, FInv, NEW p \in Client, Environment(p)
  PROVE  FInv'
<1>0. /\ asked \in [Client -> Ints \cup {<<>>}] /\ want \in [Client -> Nat]
      /\ place \in [Client -> {"user", "wlock", "wroom", "wcopy", "wdone", "rlock", "rused",
                          "rcopy", "rdone"}]
      /\ place[p] \notin Writers => asked[p] = <<>>
  BY DEF FInv, FifoTypeOK, Asking
<1>1. /\ UNCHANGED <<mode, test, ring, mutexes, len, copy, given>>
      /\ mode = "live"
      /\ \E to \in {"user", "wlock", "rlock"} :
            /\ place' = [place EXCEPT ![p] = to]
            /\ to # "wlock" => asked'[p] = <<>>
      /\ asked' \in [Client -> Ints \cup {<<>>}] /\ want' \in [Client -> Nat]
      /\ \A q \in Client \ {p} : asked'[q] = asked[q]
  <2>1. CASE \E m \in Ints : FifoWrite(p, m)
    BY <1>0, <2>1 DEF FifoWrite, Advance
  <2>2. CASE \E n \in Counts : FifoRead(p, n)
    BY <1>0, <2>2, Sizes DEF FifoRead, Advance, Writers
  <2>3. CASE WriteInterrupted(p) \/ ReadInterrupted(p)
    BY <1>0, <2>3, InUse DEF WriteInterrupted, ReadInterrupted, Advance, Writers
  <2> QED
    BY <2>1, <2>2, <2>3 DEF Environment
<1>2. RingOK' /\ kfifo_len' = kfifo_len
  BY <1>1, QuietRing
<1>3. FifoTypeOK'
  <2>1. place' \in [Client -> {"user", "wlock", "wroom", "wcopy", "wdone", "rlock", "rused",
                          "rcopy", "rdone"}]
    BY <1>0, <1>1
  <2> QED
    BY <1>1, <2>1 DEF FInv, FifoTypeOK, mutexes, ring, test
<1>4. Tested' /\ Asking' /\ Locked'
  BY <1>0, <1>1 DEF FInv, Tested, Asking, Locked, Writers, mutexes
<1>5. \A q \in Client : Writing(q)' /\ Reading(q)'
  <2>1. Writing(p)' /\ Reading(p)'
    BY <1>0, <1>1 DEF Writing, Reading
  <2>2. \A q \in Client \ {p} : Writing(q)' /\ Reading(q)'
    BY <1>1, QuietOthers DEF FInv, FifoTypeOK
  <2> QED
    BY <2>1, <2>2
<1> QED
  BY <1>2, <1>3, <1>4, <1>5 DEF FInv

LEMMA LockKeeps ==
  ASSUME IntFifoAssumption, FInv, NEW p \in Client, WriteLock(p) \/ ReadLock(p)
  PROVE  FInv'
<1>1. /\ UNCHANGED <<mode, test, ring, asked, want, len, copy, given>> /\ mode = "live"
      /\ \/ /\ place[p] = "wlock" /\ place' = [place EXCEPT ![p] = "wroom"] /\ write_lock = NoClient
            /\ write_lock' = p /\ read_lock' = read_lock
         \/ /\ place[p] = "rlock" /\ place' = [place EXCEPT ![p] = "rused"] /\ read_lock = NoClient
            /\ read_lock' = p /\ write_lock' = write_lock
  BY InUse DEF WriteLock, ReadLock, Advance
<1>2. RingOK' /\ kfifo_len' = kfifo_len
  BY <1>1, QuietRing
<1>3. FifoTypeOK'
  BY <1>1 DEF FInv, FifoTypeOK, ring, test
<1>4. Tested' /\ Asking' /\ Locked'
  BY ZenonT(45), <1>1, Sizes DEF FInv, FifoTypeOK, Tested, Asking, Locked, Writers
<1>5. \A q \in Client : Writing(q)' /\ Reading(q)'
  <2>1. Writing(p)' /\ Reading(p)'
    BY <1>1 DEF FInv, FifoTypeOK, Writing, Reading
  <2>2. \A q \in Client \ {p} : Writing(q)' /\ Reading(q)'
    BY <1>1, QuietOthers DEF FInv, FifoTypeOK
  <2> QED
    BY <2>1, <2>2
<1> QED
  BY <1>2, <1>3, <1>4, <1>5 DEF FInv

\* Reading the other side's index.
LEMMA LookKeeps ==
  ASSUME IntFifoAssumption, FInv, NEW p \in Client, WriteRoom(p) \/ ReadUsed(p)
  PROVE  FInv'
<1> DEFINE n == IF place[p] = "wroom" THEN AtMost(Len(asked[p]), kfifo_unused)
                ELSE AtMost(want[p], kfifo_len)
<1>1. /\ UNCHANGED <<mode, test, ring, mutexes, asked, want, copy, given>> /\ mode = "live"
      /\ len' = [len EXCEPT ![p] = n]
      /\ \/ place[p] = "wroom" /\ place' = [place EXCEPT ![p] = "wcopy"]
         \/ place[p] = "rused" /\ place' = [place EXCEPT ![p] = "rcopy"]
  BY InUse DEF WriteRoom, ReadUsed, Advance
<1>2. RingOK' /\ kfifo_len' = kfifo_len
  BY <1>1, QuietRing
<1>3. /\ Len(asked[p]) \in Nat /\ want[p] \in Nat /\ INT_FIFO_SIZE \in Nat
      /\ kfifo_len \in 0 .. INT_FIFO_SIZE /\ kfifo_unused \in 0 .. INT_FIFO_SIZE
      /\ kfifo_unused = INT_FIFO_SIZE - kfifo_len
  BY Unused, MessageSeq, Sizes DEF FInv, FifoTypeOK
<1>4. /\ n \in 0 .. INT_FIFO_SIZE
      /\ place[p] = "wroom" => n <= Len(asked[p]) /\ n + kfifo_len <= INT_FIFO_SIZE
      /\ place[p] = "rused" => n <= kfifo_len
  <2>1. CASE place[p] = "wroom"
    <3>1. n = AtMost(Len(asked[p]), kfifo_unused)
      BY <2>1
    <3> QED
      BY <1>3, <2>1, <3>1, Lesser
  <2>2. CASE place[p] # "wroom"
    <3>1. n = AtMost(want[p], kfifo_len)
      BY <2>2
    <3> QED
      BY <1>3, <2>2, <3>1, Lesser
  <2> QED
    BY <2>1, <2>2
<1> HIDE DEF n
<1>5. FifoTypeOK'
  BY <1>1, <1>4 DEF FInv, FifoTypeOK, ring, test, mutexes
<1>6. Tested' /\ Asking' /\ Locked'
  BY <1>1 DEF FInv, FifoTypeOK, Tested, Asking, Locked, Writers, mutexes
<1>7. \A q \in Client : Writing(q)' /\ Reading(q)'
  <2>1. Writing(p)' /\ Reading(p)'
    BY <1>1, <1>2, <1>4 DEF FInv, FifoTypeOK, Writing, Reading
  <2>2. \A q \in Client \ {p} : Writing(q)' /\ Reading(q)'
    BY <1>1, QuietOthers DEF FInv, FifoTypeOK
  <2> QED
    BY <2>1, <2>2
<1> QED
  BY <1>2, <1>5, <1>6, <1>7 DEF FInv

LEMMA ReadCopyKeeps ==
  ASSUME IntFifoAssumption, FInv, NEW p \in Client, ReadElements(p)
  PROVE  FInv'
<1>1. PICK k \in 0 .. len[p] : copy' = [copy EXCEPT ![p] = Load(k)]
  BY DEF ReadElements
<1>2. /\ UNCHANGED <<mode, test, ring, mutexes, asked, want, len, given>> /\ mode = "live"
      /\ place[p] = "rcopy" /\ place' = [place EXCEPT ![p] = "rdone"]
  BY InUse DEF ReadElements, Advance
<1>3. RingOK' /\ kfifo_len' = kfifo_len
  BY <1>2, QuietRing
<1>4. len[p] \in 0 .. INT_FIFO_SIZE /\ len[p] <= kfifo_len /\ RingOK
  BY <1>2 DEF FInv, FifoTypeOK, Reading
<1>5. k \in Nat /\ k <= kfifo_len
  <2> DEFINE l == kfifo_len
  <2>1. len[p] \in 0 .. INT_FIFO_SIZE /\ len[p] <= l /\ l \in Int /\ INT_FIFO_SIZE \in Nat
    BY <1>4, RingTypes, Sizes
  <2> HIDE DEF l
  <2>2. k \in Nat /\ k <= l
    BY <2>1
  <2> QED
    BY <2>2 DEF l
<1>6. /\ Load(k) \in Seq(Int) /\ Len(Load(k)) = k
      /\ \A x \in 1 .. k : Load(k)[x] = buf[Slot(out + x - 1)]
  BY <1>4, <1>5, LoadSeq
<1> DEFINE xs == Load(k)
<1>7. /\ xs \in Seq(Int) /\ Copied(xs) /\ copy' = [copy EXCEPT ![p] = xs]
  BY <1>1, <1>5, <1>6 DEF Copied
<1> HIDE DEF xs
<1>8. FifoTypeOK'
  BY <1>2, <1>7 DEF FInv, FifoTypeOK, ring, test, mutexes
<1>9. Tested' /\ Asking' /\ Locked'
  BY <1>2 DEF FInv, FifoTypeOK, Tested, Asking, Locked, Writers, mutexes
<1>10. \A q \in Client : Writing(q)' /\ Reading(q)'
  <2>1. copy'[p] = xs
    BY <1>7 DEF FInv, FifoTypeOK
  <2>2. Writing(p)' /\ Reading(p)'
    BY <1>2, <1>3, <1>7, <2>1 DEF FInv, FifoTypeOK, Writing, Reading, Copied, ring
  <2>3. \A q \in Client \ {p} : Writing(q)' /\ Reading(q)'
    BY <1>2, <1>7, QuietOthers DEF FInv, FifoTypeOK
  <2> QED
    BY <2>2, <2>3
<1> QED
  BY <1>3, <1>8, <1>9, <1>10 DEF FInv

\* Copying into free slots: readers do not notice.
LEMMA WriteCopyKeeps ==
  ASSUME IntFifoAssumption, FInv, NEW p \in Client, WriteElements(p)
  PROVE  /\ FInv'
         /\ kfifo_len' = kfifo_len
         /\ \A k \in 1 .. kfifo_len : buf'[Slot(out + k - 1)] = buf[Slot(out + k - 1)]
<1>1. PICK k \in 0 .. len[p] : copy' = [copy EXCEPT ![p] = SubSeq(asked[p], 1, k)]
  BY DEF WriteElements
<1>2. /\ UNCHANGED <<mode, test, in, out, mutexes, asked, want, len, given>> /\ mode = "live"
      /\ place[p] = "wcopy" /\ place' = [place EXCEPT ![p] = "wdone"] /\ buf' = Store(copy'[p])
  BY InUse DEF WriteElements, Advance
<1>3. /\ len[p] \in 0 .. INT_FIFO_SIZE /\ len[p] <= Len(asked[p]) /\ RingOK
      /\ len[p] + kfifo_len <= INT_FIFO_SIZE /\ write_lock = p
  BY <1>2 DEF FInv, FifoTypeOK, Writing, Locked
<1>4. k \in 0 .. Len(asked[p]) /\ k + kfifo_len <= INT_FIFO_SIZE /\ k \in Nat
  <2> DEFINE l == kfifo_len
             m == Len(asked[p])
  <2>1. /\ len[p] \in 0 .. INT_FIFO_SIZE /\ len[p] <= m /\ l \in Int /\ INT_FIFO_SIZE \in Nat
        /\ m \in Nat /\ len[p] + l <= INT_FIFO_SIZE
    BY <1>3, RingTypes, Sizes, MessageSeq
  <2> HIDE DEF l, m
  <2>2. k \in 0 .. m /\ k + l <= INT_FIFO_SIZE /\ k \in Nat
    BY <2>1
  <2> QED
    BY <2>2 DEF l, m
<1>5. PICK xs \in Seq(Int) : xs = SubSeq(asked[p], 1, k) /\ Len(xs) = k
  BY <1>4, MessageSeq, ElementPrefix
<1>6. copy' = [copy EXCEPT ![p] = xs] /\ xs = SubSeq(asked[p], 1, Len(xs))
  BY <1>1, <1>5
<1>7. copy'[p] = xs
  BY <1>6 DEF FInv, FifoTypeOK
<1>8. buf' = Store(xs) /\ Len(xs) + kfifo_len <= INT_FIFO_SIZE /\ Len(xs) <= Len(asked[p])
  BY <1>2, <1>4, <1>5, <1>7, MessageSeq
<1>9. /\ RingOK' /\ kfifo_len' = kfifo_len /\ Unpublished(xs)'
      /\ \A x \in 1 .. kfifo_len : buf'[Slot(out + x - 1)] = buf[Slot(out + x - 1)]
  BY <1>2, <1>3, <1>5, <1>8, RingStore
<1>10. FifoTypeOK'
  BY <1>2, <1>5, <1>6, <1>9 DEF FInv, FifoTypeOK, RingOK, test, mutexes
<1>11. Tested' /\ Asking' /\ Locked'
  BY <1>2 DEF FInv, FifoTypeOK, Tested, Asking, Locked, Writers, mutexes
<1>12. Writing(p)' /\ Reading(p)'
  <2>1. place'[p] = "wdone" /\ asked'[p] = asked[p]
    BY <1>2 DEF FInv, FifoTypeOK
  <2> QED
    BY <1>2, <1>6, <1>7, <1>8, <1>9, <2>1 DEF Writing, Reading, Unpublished
<1>13. ASSUME NEW q \in Client \ {p}
       PROVE  Writing(q)' /\ Reading(q)'
  <2>1. place'[q] = place[q] /\ asked'[q] = asked[q] /\ len'[q] = len[q] /\ copy'[q] = copy[q]
    BY <1>2, <1>6 DEF FInv, FifoTypeOK
  <2>2. place[q] \notin {"wcopy", "wdone"}
    BY <1>3 DEF FInv, Locked
  <2>3. place[q] = "rdone" => Copied(copy[q])'
    <3> SUFFICES ASSUME place[q] = "rdone" PROVE Copied(copy[q])'
      OBVIOUS
    <3> DEFINE ys == copy[q]
    <3>1. Copied(ys) /\ ys \in Seq(Int)
      BY DEF FInv, Reading, FifoTypeOK
    <3>2. copy'[q] = ys
      BY <2>1
    <3> HIDE DEF ys
    <3>3. Len(ys) \in Nat /\ kfifo_len \in Int
      BY <1>3, <3>1, LenProperties, RingTypes
    <3>4. \A x \in 1 .. Len(ys) : x \in 1 .. kfifo_len
      BY <3>1, <3>3 DEF Copied
    <3>5. \A x \in 1 .. Len(ys) : buf'[Slot(out + x - 1)] = ys[x]
      BY <1>9, <3>1, <3>4 DEF Copied
    <3> QED
      BY <1>2, <1>9, <3>1, <3>2, <3>5 DEF Copied
  <2> QED
    BY <1>9, <2>1, <2>2, <2>3 DEF FInv, Writing, Reading
<1> QED
  BY <1>9, <1>10, <1>11, <1>12, <1>13 DEF FInv

\* Publishing: the queue grows by what was copied.
LEMMA WriteDoneRing ==
  ASSUME IntFifoAssumption, FInv, NEW p \in Client, WritePublish(p)
  PROVE  /\ RingOK' /\ kfifo_len' = kfifo_len + Len(copy[p]) /\ Len(copy[p]) \in Nat
         /\ UNCHANGED <<out, buf>> /\ mode = "live" /\ place[p] = "wdone"
<1>1. /\ in' = (in + Len(copy[p])) % IndexWidth /\ out' = out /\ buf' = buf /\ mode = "live"
      /\ place[p] = "wdone"
  BY InUse DEF WritePublish, Advance
<1>2. Len(copy[p]) + kfifo_len <= INT_FIFO_SIZE /\ copy[p] \in Seq(Int) /\ RingOK
  BY <1>1 DEF FInv, FifoTypeOK, Writing
<1>3. Len(copy[p]) \in Nat
  BY <1>2, LenProperties
<1>4. buf' \in [0 .. INT_FIFO_SIZE - 1 -> Int]
  BY <1>1, <1>2 DEF RingOK
<1> QED
  BY <1>1, <1>2, <1>3, <1>4, RingPublish

LEMMA WriteDoneKeeps ==
  ASSUME IntFifoAssumption, FInv, NEW p \in Client, WritePublish(p)
  PROVE  FInv'
<1>1. /\ UNCHANGED <<mode, test, out, buf, read_lock, want, len, given>>
      /\ place' = [place EXCEPT ![p] = "user"] /\ write_lock' = NoClient
      /\ asked' = [asked EXCEPT ![p] = <<>>] /\ copy' = [copy EXCEPT ![p] = <<>>]
  BY DEF WritePublish, Advance
<1>2. /\ RingOK' /\ kfifo_len' = kfifo_len + Len(copy[p]) /\ Len(copy[p]) \in Nat
      /\ mode = "live" /\ place[p] = "wdone"
  BY WriteDoneRing
<1>3. write_lock = p /\ kfifo_len \in Int
  BY <1>2, RingTypes DEF FInv, Locked
<1>4. kfifo_len <= kfifo_len' /\ kfifo_len' \in Int
  BY <1>2, <1>3
<1>5. FifoTypeOK'
  <2>1. <<>> \in Seq(Int)
    BY EmptySeq
  <2> QED
    BY <1>1, <1>2, <2>1 DEF FInv, FifoTypeOK, RingOK, test
<1>6. Tested' /\ Asking' /\ Locked'
  BY <1>1, <1>2, <1>3 DEF FInv, FifoTypeOK, Tested, Asking, Locked, Writers
<1>7. Writing(p)' /\ Reading(p)'
  BY <1>1 DEF FInv, FifoTypeOK, Writing, Reading
<1>8. ASSUME NEW q \in Client \ {p}
      PROVE  Writing(q)' /\ Reading(q)'
  <2>1. /\ place'[q] = place[q] /\ len'[q] = len[q] /\ copy'[q] = copy[q]
        /\ place[q] \notin {"wcopy", "wdone"} /\ len[q] \in Int /\ copy[q] \in Seq(Int)
    BY <1>1, <1>3, Sizes DEF FInv, FifoTypeOK, Locked
  <2>2. Len(copy[q]) \in Nat
    BY <2>1, LenProperties
  <2>3. place[q] = "rcopy" => len[q] <= kfifo_len'
    BY <1>3, <1>4, <2>1 DEF FInv, Reading
  <2>4. place[q] = "rdone" => Copied(copy[q])'
    BY <1>1, <1>3, <1>4, <2>1, <2>2 DEF FInv, Reading, Copied
  <2> QED
    BY <2>1, <2>3, <2>4 DEF Writing, Reading
<1> QED
  BY <1>2, <1>5, <1>6, <1>7, <1>8 DEF FInv

\* Giving the slots back: a writer finds at least the room it knows of.
LEMMA ReadDoneRing ==
  ASSUME IntFifoAssumption, FInv, NEW p \in Client, ReadPublish(p)
  PROVE  /\ RingOK' /\ kfifo_len' = kfifo_len - Len(copy[p]) /\ Len(copy[p]) \in Nat
         /\ Len(copy[p]) <= kfifo_len
         /\ \A k \in Int : Slot(out' + k - 1) = Slot(out + Len(copy[p]) + k - 1)
         /\ UNCHANGED <<in, buf>> /\ mode = "live" /\ place[p] = "rdone"
<1>1. /\ out' = (out + Len(copy[p])) % IndexWidth /\ UNCHANGED <<in, buf>> /\ mode = "live"
      /\ place[p] = "rdone"
  BY InUse DEF ReadPublish, Advance
<1>2. Len(copy[p]) <= kfifo_len /\ copy[p] \in Seq(Int) /\ RingOK
  BY <1>1 DEF FInv, FifoTypeOK, Reading, Copied
<1>3. Len(copy[p]) \in Nat
  BY <1>2, LenProperties
<1> QED
  BY <1>1, <1>2, <1>3, RingRelease

LEMMA ReadDoneKeeps ==
  ASSUME IntFifoAssumption, FInv, NEW p \in Client, ReadPublish(p)
  PROVE  FInv'
<1>1. /\ UNCHANGED <<mode, test, in, buf, write_lock, asked, want, len>>
      /\ place' = [place EXCEPT ![p] = "user"] /\ read_lock' = NoClient
      /\ given' = [given EXCEPT ![p] = copy[p]] /\ copy' = [copy EXCEPT ![p] = <<>>]
  BY DEF ReadPublish, Advance
<1>2. /\ RingOK' /\ kfifo_len' = kfifo_len - Len(copy[p]) /\ Len(copy[p]) \in Nat
      /\ mode = "live" /\ place[p] = "rdone"
  BY ReadDoneRing
<1>3. read_lock = p /\ kfifo_len \in Int
  BY <1>2, RingTypes DEF FInv, Locked
<1>4. kfifo_len' <= kfifo_len /\ kfifo_len' \in Int
  BY <1>2, <1>3
<1>5. FifoTypeOK'
  <2>1. <<>> \in Seq(Int)
    BY EmptySeq
  <2> QED
    BY <1>1, <1>2, <2>1 DEF FInv, FifoTypeOK, RingOK, test
<1>6. Tested' /\ Asking' /\ Locked'
  BY <1>1, <1>2, <1>3 DEF FInv, FifoTypeOK, Tested, Asking, Locked, Writers
<1>7. Writing(p)' /\ Reading(p)'
  BY <1>1 DEF FInv, FifoTypeOK, Writing, Reading
<1>8. ASSUME NEW q \in Client \ {p}
      PROVE  Writing(q)' /\ Reading(q)'
  <2>1. /\ place'[q] = place[q] /\ len'[q] = len[q] /\ copy'[q] = copy[q] /\ asked'[q] = asked[q]
        /\ place[q] \notin {"rcopy", "rdone"} /\ len[q] \in Int /\ copy[q] \in Seq(Int)
    BY <1>1, <1>3, Sizes DEF FInv, FifoTypeOK, Locked
  <2>2. Len(copy[q]) \in Nat /\ INT_FIFO_SIZE \in Nat
    BY <2>1, LenProperties, Sizes
  <2>3. place[q] = "wcopy" => len[q] <= Len(asked[q]) /\ len[q] + kfifo_len' <= INT_FIFO_SIZE
    BY <1>3, <1>4, <2>1, <2>2 DEF FInv, Writing
  <2>4. place[q] = "wdone" => /\ Len(copy[q]) <= Len(asked[q])
                              /\ Len(copy[q]) + kfifo_len' <= INT_FIFO_SIZE
                              /\ copy[q] = SubSeq(asked[q], 1, Len(copy[q]))
                              /\ Unpublished(copy[q])
    BY <1>3, <1>4, <2>1, <2>2 DEF FInv, Writing
  <2>5. Unpublished(copy[q]) => Unpublished(copy[q])'
    BY <1>1, <2>1 DEF Unpublished
  <2> QED
    BY <2>1, <2>3, <2>4, <2>5 DEF Writing, Reading
<1> QED
  BY <1>2, <1>5, <1>6, <1>7, <1>8 DEF FInv

\* The module is put into use, or taken out of it.
LEMMA LoadingKeeps ==
  ASSUME IntFifoAssumption, FInv, ProcCreate \/ ExampleExit
  PROVE  FInv'
<1>1. /\ UNCHANGED <<test, ring, mutexes, call>> /\ mode' \in {"live", "unloaded"}
      /\ \A p \in Client : place[p] = "user"
  BY DEF ProcCreate, ExampleExit, Become, FInv, Tested
<1>2. RingOK' /\ kfifo_len' = kfifo_len
  BY <1>1, QuietRing
<1>3. FifoTypeOK'
  BY <1>1 DEF FInv, FifoTypeOK, test, ring, mutexes, call
<1>4. Tested' /\ Asking' /\ Locked'
  BY <1>1 DEF FInv, Tested, Asking, Locked, call
<1>5. \A p \in Client : Writing(p)' /\ Reading(p)'
  BY <1>1 DEF Writing, Reading, call
<1> QED
  BY <1>2, <1>3, <1>4, <1>5 DEF FInv

LEMMA NextKeeps ==
  ASSUME IntFifoAssumption, FInv, [FifoNext]_fifoVars
  PROVE  FInv'
<1>1. CASE UNCHANGED fifoVars
  <2>1. UNCHANGED <<mode, test, ring, mutexes, call>>
    BY <1>1 DEF fifoVars
  <2>2. RingOK' /\ kfifo_len' = kfifo_len
    BY <2>1, QuietRing
  <2>3. FifoTypeOK' /\ Tested' /\ Asking' /\ Locked'
    BY <2>1, <2>2 DEF FInv, FifoTypeOK, Tested, Asking, Locked, test, ring, mutexes, call
  <2>4. \A p \in Client : Writing(p)' /\ Reading(p)'
    BY <2>1, QuietOthers DEF call
  <2> QED
    BY <2>2, <2>3, <2>4 DEF FInv
<1>2. ASSUME NEW p \in Client, Step(p) \/ Environment(p)
      PROVE  FInv'
  BY <1>2, UserKeeps, LockKeeps, LookKeeps, ReadCopyKeeps, WriteCopyKeeps, WriteDoneKeeps,
     ReadDoneKeeps DEF Step
<1> QED
  BY <1>1, <1>2, TestKeeps, LoadingKeeps DEF FifoNext

LEMMA FInvAlways == ASSUME IntFifoAssumption PROVE FifoSpec => []FInv
<1>1. FifoInit => FInv
  BY InitInv
<1>2. FInv /\ [FifoNext]_fifoVars => FInv'
  BY NextKeeps
<1> QED
  BY <1>1, <1>2, PTL DEF FifoSpec

\* Every variable keeps its type: the self test stays within its buf[6] and its table of
\* expected values, the indices in their width, and no more is found than there is.
THEOREM FifoTypes == ASSUME IntFifoAssumption PROVE FifoSpec => []FifoTypeOK
<1>1. FInv => FifoTypeOK
  BY DEF FInv
<1> QED
  BY <1>1, FInvAlways, PTL

-----------------------------------------------------------------------------
(* Refinement                                                              *)

\* What users see: the elements between the indices.
LEMMA QueueIs ==
  /\ mode = "live" => Queue = Elements(buf, out, kfifo_len)
  /\ mode' = "live" => Queue' = Elements(buf', out', kfifo_len')
BY DEF Queue, Load, Elements, Slot

\* The same elements in the same places are the same queue.
LEMMA QueueSame ==
  ASSUME mode' = mode, kfifo_len' = kfifo_len, out' = out,
         \A k \in 1 .. kfifo_len : buf'[Slot(out + k - 1)] = buf[Slot(out + k - 1)]
  PROVE  Queue' = Queue
<1>1. CASE mode # "live"
  BY <1>1 DEF Queue
<1>2. CASE mode = "live"
  BY <1>2, QueueIs DEF Elements
<1> QED
  BY <1>1, <1>2

\* A sequence that is split.
LEMMA Parts ==
  ASSUME IntFifoAssumption, NEW b \in [0 .. INT_FIFO_SIZE - 1 -> Int], NEW o \in Int,
         NEW m \in Nat, NEW n \in Nat, NEW xs \in Seq(Int), Len(xs) = n,
         \A k \in 1 .. n : xs[k] = b[Slot(o + m + k - 1)]
  PROVE  Elements(b, o, m + n) = Elements(b, o, m) \o xs
<1> DEFINE E == Elements(b, o, m + n)
           F == Elements(b, o, m)
<1>1. m + n \in Nat
  OBVIOUS
<1>2. /\ E \in Seq(Int) /\ Len(E) = m + n
      /\ \A k \in 1 .. m + n : E[k] = b[Slot(o + k - 1)]
  BY <1>1, ElementsSeq
<1>3. /\ F \in Seq(Int) /\ Len(F) = m
      /\ \A k \in 1 .. m : F[k] = b[Slot(o + k - 1)]
  BY ElementsSeq
<1> HIDE DEF E, F
<1>4. /\ F \o xs \in Seq(Int) /\ Len(F \o xs) = m + n
      /\ \A k \in 1 .. m + n : (F \o xs)[k] = IF k <= m THEN F[k] ELSE xs[k - m]
  BY ZenonT(45), <1>3, ConcatProperties
<1>5. \A k \in 1 .. m + n : E[k] = (F \o xs)[k]
  <2> SUFFICES ASSUME NEW k \in 1 .. m + n PROVE E[k] = (F \o xs)[k]
    OBVIOUS
  <2>1. CASE k <= m
    <3>1. k \in 1 .. m
      BY <2>1
    <3> QED
      BY <1>2, <1>3, <1>4, <2>1, <3>1
  <2>2. CASE ~(k <= m)
    <3> DEFINE x == k - m
    <3>1. x \in 1 .. n /\ o + m + x - 1 = o + k - 1 /\ ~(k <= m)
      BY <2>2
    <3> HIDE DEF x
    <3>2. xs[x] = b[Slot(o + k - 1)]
      <4>1. xs[x] = b[Slot(o + m + x - 1)]
        BY <3>1
      <4> QED
        BY <3>1, <4>1
    <3>3. (F \o xs)[k] = xs[x]
      BY <1>4, <3>1 DEF x
    <3> QED
      BY <1>2, <3>2, <3>3
  <2> QED
    BY <2>1, <2>2
<1>6. E = F \o xs
  BY <1>2, <1>4, <1>5, SeqEqual
<1> QED
  BY <1>6 DEF E, F

\* A sequence whose first elements are taken.
LEMMA ElementRest ==
  ASSUME IntFifoAssumption, NEW b \in [0 .. INT_FIFO_SIZE - 1 -> Int], NEW o \in Int, NEW r \in Int,
         NEW m \in Nat, NEW n \in 0 .. m, NEW xs \in Seq(Int), Len(xs) = n,
         \A k \in 1 .. n : b[Slot(o + k - 1)] = xs[k],
         \A k \in Int : Slot(r + k - 1) = Slot(o + n + k - 1)
  PROVE  /\ xs = SubSeq(Elements(b, o, m), 1, n)
         /\ Elements(b, r, m - n) = SubSeq(Elements(b, o, m), n + 1, m)
<1> DEFINE E == Elements(b, o, m)
           G == Elements(b, r, m - n)
<1>1. m - n \in Nat /\ n \in Nat /\ n + 1 \in Int
  OBVIOUS
<1>2. /\ E \in Seq(Int) /\ Len(E) = m
      /\ \A k \in 1 .. m : E[k] = b[Slot(o + k - 1)]
  BY ElementsSeq
<1>3. /\ G \in Seq(Int) /\ Len(G) = m - n
      /\ \A k \in 1 .. m - n : G[k] = b[Slot(r + k - 1)]
  BY <1>1, ElementsSeq
<1> HIDE DEF E, G
<1>4. xs = SubSeq(E, 1, n)
  <2>1. /\ SubSeq(E, 1, n) \in Seq(Int) /\ Len(SubSeq(E, 1, n)) = n
        /\ \A k \in 1 .. n : SubSeq(E, 1, n)[k] = E[k]
    BY <1>2, ElementPrefix
  <2>2. \A k \in 1 .. n : xs[k] = SubSeq(E, 1, n)[k]
    BY <1>2, <2>1
  <2> QED
    BY <2>1, <2>2, SeqEqual
<1>5. G = SubSeq(E, n + 1, m)
  <2> DEFINE T == SubSeq(E, n + 1, m)
  <2>1. \A k \in n + 1 .. m : E[k] \in Int
    BY <1>1, <1>2, ElementOfSeq
  <2>2. /\ T \in Seq(Int) /\ Len(T) = IF n + 1 <= m THEN m - (n + 1) + 1 ELSE 0
        /\ \A k \in 1 .. m - (n + 1) + 1 : T[k] = E[n + 1 + k - 1]
    BY <1>1, <2>1, SubSeqProperties
  <2> HIDE DEF T
  <2>3. m - (n + 1) + 1 = m - n /\ (n + 1 <= m \/ m - n = 0)
    BY <1>1
  <2>4. Len(T) = m - n
    BY <2>2, <2>3
  <2>5. \A k \in 1 .. m - n : G[k] = T[k]
    <3> SUFFICES ASSUME NEW k \in 1 .. m - n PROVE G[k] = T[k]
      OBVIOUS
    <3>1. k \in Int /\ n + 1 + k - 1 \in 1 .. m /\ o + (n + 1 + k - 1) - 1 = o + n + k - 1
      BY <1>1
    <3>2. T[k] = E[n + 1 + k - 1]
      BY <2>2, <2>3
    <3>3. E[n + 1 + k - 1] = b[Slot(o + n + k - 1)]
      <4> DEFINE x == n + 1 + k - 1
      <4>1. x \in 1 .. m /\ o + x - 1 = o + n + k - 1
        BY <3>1
      <4> HIDE DEF x
      <4>2. E[x] = b[Slot(o + x - 1)]
        BY <1>2, <4>1
      <4> QED
        BY <4>1, <4>2 DEF x
    <3>4. G[k] = b[Slot(r + k - 1)]
      BY <1>3
    <3> QED
      BY <3>1, <3>2, <3>3, <3>4
  <2>6. G = T
    BY <1>3, <2>2, <2>4, <2>5, SeqEqual
  <2> QED
    BY <2>6 DEF T
<1> QED
  BY <1>4, <1>5 DEF E, G

\* fifo_write puts its elements in at one instant, when it publishes its index,
LEMMA WriteDonePuts ==
  ASSUME IntFifoAssumption, FInv, NEW p \in Client, WritePublish(p)
  PROVE  Abstract!Put(p)
<1> DEFINE n == Len(copy[p])
<1>1. /\ mode = "live" /\ mode' = "live" /\ UNCHANGED <<out, buf, given>>
      /\ asked' = [asked EXCEPT ![p] = <<>>]
  BY WriteDoneRing DEF WritePublish
<1>2. /\ n \in Nat /\ kfifo_len' = kfifo_len + n /\ place[p] = "wdone" /\ RingOK
  BY WriteDoneRing DEF FInv
<1>3. /\ copy[p] \in Seq(Int) /\ n <= Len(asked[p]) /\ n + kfifo_len <= INT_FIFO_SIZE
      /\ copy[p] = SubSeq(asked[p], 1, n) /\ Unpublished(copy[p])
  BY <1>2 DEF FInv, FifoTypeOK, Writing
<1>4. /\ out \in Int /\ buf \in [0 .. INT_FIFO_SIZE - 1 -> Int] /\ kfifo_len \in Nat
      /\ kfifo_len \in Int
  BY <1>2, RingTypes, Unused, Sizes DEF RingOK
<1>5. \A k \in 1 .. n : copy[p][k] = buf[Slot(out + kfifo_len + k - 1)]
  <2> SUFFICES ASSUME NEW k \in 1 .. n
               PROVE  copy[p][k] = buf[Slot(out + kfifo_len + k - 1)]
    OBVIOUS
  <2> DEFINE x == k - 1
  <2>1. x \in Int /\ in \in Int
    BY <1>2, RingTypes
  <2>2. in + x = in + k - 1 /\ out + kfifo_len + x = out + kfifo_len + k - 1
    BY <1>2, <1>4, <2>1
  <2> HIDE DEF x
  <2>3. Slot(in + x) = Slot(out + kfifo_len + x)
    BY <1>2, <2>1, Behind
  <2>4. buf[Slot(in + k - 1)] = copy[p][k]
    BY <1>3 DEF Unpublished
  <2> QED
    BY <2>2, <2>3, <2>4
<1>6. Queue = Elements(buf, out, kfifo_len) /\ Queue' = Elements(buf, out, kfifo_len + n)
  BY <1>1, <1>2, QueueIs
<1>7. Len(Queue) = kfifo_len
  BY <1>4, <1>6, ElementsSeq
<1>8. Queue' = Queue \o SubSeq(asked[p], 1, n)
  <2>1. Elements(buf, out, kfifo_len + n) = Elements(buf, out, kfifo_len) \o copy[p]
    BY ZenonT(45), <1>2, <1>3, <1>4, <1>5, Parts
  <2> QED
    BY <1>3, <1>6, <2>1
<1>9. Len(Queue) + n <= INT_FIFO_SIZE
  BY <1>2, <1>3, <1>4, <1>7
<1>10. n \in 0 .. Len(asked[p])
  BY <1>2, <1>3, MessageSeq
<1> HIDE DEF n
<1> QED
  BY <1>1, <1>8, <1>9, <1>10 DEF Abstract!Put

\* and fifo_read takes the ones it returns when it publishes its own.
LEMMA ReadDoneTakes ==
  ASSUME IntFifoAssumption, FInv, NEW p \in Client, ReadPublish(p)
  PROVE  Abstract!Take(p)
<1> DEFINE n == Len(copy[p])
<1>1. /\ mode = "live" /\ mode' = "live" /\ UNCHANGED <<buf, asked>>
      /\ given' = [given EXCEPT ![p] = copy[p]]
  BY ReadDoneRing DEF ReadPublish
<1>2. /\ n \in Nat /\ kfifo_len' = kfifo_len - n /\ place[p] = "rdone" /\ RingOK /\ RingOK'
      /\ n <= kfifo_len /\ \A k \in Int : Slot(out' + k - 1) = Slot(out + n + k - 1)
  BY ReadDoneRing DEF FInv
<1>3. copy[p] \in Seq(Int) /\ \A k \in 1 .. n : buf[Slot(out + k - 1)] = copy[p][k]
  BY <1>2 DEF FInv, FifoTypeOK, Reading, Copied
<1>4. /\ out \in Int /\ out' \in Int /\ buf \in [0 .. INT_FIFO_SIZE - 1 -> Int]
      /\ kfifo_len \in Nat /\ n \in 0 .. kfifo_len
  <2>1. out' \in Int
    BY <1>2, Sizes DEF RingOK
  <2>2. buf \in [0 .. INT_FIFO_SIZE - 1 -> Int]
    BY <1>2 DEF RingOK
  <2> DEFINE l == kfifo_len
  <2>3. l \in 0 .. INT_FIFO_SIZE /\ INT_FIFO_SIZE \in Nat /\ out \in Int /\ n \in Nat /\ n <= l
    BY <1>2, RingTypes, Sizes
  <2> HIDE DEF l, n
  <2>4. l \in Nat /\ n \in 0 .. l
    BY <2>3
  <2> QED
    BY <2>1, <2>2, <2>3, <2>4 DEF l
<1>5. /\ Queue = Elements(buf, out, kfifo_len)
      /\ Queue' = Elements(buf, out', kfifo_len - n)
  BY <1>1, <1>2, QueueIs
<1>6. Len(Queue) = kfifo_len
  BY <1>4, <1>5, ElementsSeq
<1>7. /\ copy[p] = SubSeq(Elements(buf, out, kfifo_len), 1, n)
      /\ Elements(buf, out', kfifo_len - n)
            = SubSeq(Elements(buf, out, kfifo_len), n + 1, kfifo_len)
  <2> DEFINE l == kfifo_len
             r == out'
             xs == copy[p]
  <2>1. /\ xs \in Seq(Int) /\ \A k \in 1 .. n : buf[Slot(out + k - 1)] = xs[k]
        /\ l \in Nat /\ n \in 0 .. l /\ r \in Int /\ Len(xs) = n
        /\ \A k \in Int : Slot(r + k - 1) = Slot(out + n + k - 1)
    BY <1>2, <1>3, <1>4
  <2>2. buf \in [0 .. INT_FIFO_SIZE - 1 -> Int] /\ out \in Int
    BY <1>4
  <2> HIDE DEF l, r, xs, n
  <2>3. /\ xs = SubSeq(Elements(buf, out, l), 1, n)
        /\ Elements(buf, r, l - n) = SubSeq(Elements(buf, out, l), n + 1, l)
    BY <2>1, <2>2, ElementRest, ZenonT(30)
  <2> QED
    BY <2>3 DEF l, r, xs
<1>8. /\ given' = [given EXCEPT ![p] = SubSeq(Queue, 1, n)]
      /\ Queue' = SubSeq(Queue, n + 1, Len(Queue)) /\ n \in 0 .. Len(Queue)
  BY <1>1, <1>4, <1>5, <1>6, <1>7
<1> HIDE DEF n
<1> QED
  BY <1>1, <1>8 DEF Abstract!Take

\* A write that is interrupted puts nothing in.
LEMMA InterruptedPuts ==
  ASSUME IntFifoAssumption, FInv, NEW p \in Client, WriteInterrupted(p)
  PROVE  Abstract!Put(p)
<1>1. UNCHANGED <<mode, ring, given>> /\ asked' = [asked EXCEPT ![p] = <<>>] /\ mode = "live"
  BY InUse DEF WriteInterrupted, Advance
<1>2. Queue' = Queue
  BY <1>1, QueueSame DEF ring, kfifo_len
<1>3. Queue \in Seq(Int) /\ Len(Queue) <= INT_FIFO_SIZE /\ Len(Queue) \in Nat
  <2>1. RingOK /\ kfifo_len \in Nat /\ kfifo_len <= INT_FIFO_SIZE /\ out \in Int
    BY Unused, Sizes, RingTypes DEF FInv
  <2>2. Queue \in Seq(Int) /\ Len(Queue) = kfifo_len
    BY <1>1, <2>1, QueueIs, ElementsSeq DEF RingOK
  <2> QED
    BY <2>1, <2>2
<1>4. SubSeq(asked[p], 1, 0) = <<>>
  BY SubSeqEmpty
<1>5. Queue' = Queue \o SubSeq(asked[p], 1, 0) /\ Len(Queue) + 0 <= INT_FIFO_SIZE
  BY <1>2, <1>3, <1>4, ConcatEmptySeq
<1>6. 0 \in 0 .. Len(asked[p])
  BY MessageSeq
<1> QED
  BY <1>1, <1>5, <1>6 DEF Abstract!Put

\* A step of any other kind is one of the abstract queue, or changes nothing users see.
LEMMA StepImplements ==
  ASSUME IntFifoAssumption, FInv, [FifoNext]_fifoVars
  PROVE  [Abstract!Next]_Abstract!vars
<1>1. CASE UNCHANGED <<mode, ring, asked, given>>
  <2>1. Queue' = Queue
    BY <1>1, QueueSame DEF ring, kfifo_len
  <2> QED
    BY <1>1, <2>1 DEF Abstract!vars
<1>2. CASE TestFunc
  BY <1>2, TestKeeps DEF Queue, Abstract!vars
<1>3. CASE ProcCreate
  <2>1. /\ UNCHANGED <<ring, asked, given>> /\ mode = "tested" /\ mode' \in {"live", "unloaded"}
        /\ kfifo_len = 0 /\ RingOK
    BY <1>3 DEF ProcCreate, Become, FInv, Tested, call
  <2>2. kfifo_len' = 0 /\ out' = out /\ buf' = buf
    BY <2>1 DEF ring, kfifo_len
  <2>3. Elements(buf, out, 0) = <<>>
    <3>1. Elements(buf, out, 0) \in Seq(Int) /\ Len(Elements(buf, out, 0)) = 0
      BY <2>1, RingTypes, ElementsSeq DEF RingOK
    <3> QED
      BY <3>1, EmptySeq
  <2>4. Queue = <<>> /\ Queue' = <<>>
    BY <2>1, <2>2, <2>3, QueueIs DEF Queue
  <2> QED
    BY <2>1, <2>4 DEF Abstract!vars
<1>4. CASE ExampleExit
  <2>1. /\ UNCHANGED <<asked, given>> /\ mode' = "unloaded" /\ \A p \in Client : asked[p] = <<>>
    BY <1>4 DEF ExampleExit, Become, call, FInv, Asking, Writers
  <2>2. Queue' = <<>>
    BY <2>1 DEF Queue
  <2> QED
    BY <2>1, <2>2 DEF Abstract!Next, Abstract!Clear
<1>5. ASSUME NEW p \in Client, Environment(p)
      PROVE  [Abstract!Next]_Abstract!vars
  <2>1. ASSUME NEW m \in Ints, FifoWrite(p, m)
        PROVE  Abstract!Ask(p)
    <3>1. /\ UNCHANGED <<mode, ring, given>> /\ asked' = [asked EXCEPT ![p] = m] /\ asked[p] = <<>>
      BY <2>1 DEF FifoWrite, Advance, FInv, Asking, Writers
    <3>2. Queue' = Queue
      BY <3>1, QueueSame DEF ring, kfifo_len
    <3> QED
      BY <3>1, <3>2 DEF Abstract!Ask
  <2>2. CASE (\E n \in Counts : FifoRead(p, n)) \/ ReadInterrupted(p)
    BY <1>1, <2>2 DEF FifoRead, ReadInterrupted
  <2> QED
    BY <1>5, <2>1, <2>2, InterruptedPuts DEF Environment, Abstract!Next
<1>6. ASSUME NEW p \in Client, Step(p)
      PROVE  [Abstract!Next]_Abstract!vars
  <2>1. CASE WriteLock(p) \/ WriteRoom(p) \/ ReadLock(p) \/ ReadUsed(p) \/ ReadElements(p)
    BY <1>1, <2>1 DEF WriteLock, WriteRoom, ReadLock, ReadUsed, ReadElements
  <2>2. CASE WriteElements(p)
    <3>1. Queue' = Queue
      BY <2>2, WriteCopyKeeps, QueueSame DEF WriteElements
    <3> QED
      BY <2>2, <3>1 DEF WriteElements, Abstract!vars
  <2> QED
    BY <1>6, <2>1, <2>2, WriteDonePuts, ReadDoneTakes DEF Step, Abstract!Next
<1>7. CASE UNCHANGED fifoVars
  BY <1>1, <1>7 DEF fifoVars, call
<1> QED
  BY <1>2, <1>3, <1>4, <1>5, <1>6, <1>7 DEF FifoNext

\* The writers and readers of intfifo.c, which hold different locks and use each other's
\* index while it moves, implement the queue of module Fifo: every write and every read
\* is as if it happened at one instant.
THEOREM FifoRefinement == ASSUME IntFifoAssumption PROVE FifoSpec => ImplementsFifo
<1>1. FifoInit => Abstract!Init
  BY DEF FifoInit, Abstract!Init, Queue
<1>2. FInv /\ [FifoNext]_fifoVars => [Abstract!Next]_Abstract!vars
  BY StepImplements
<1> QED
  BY <1>1, <1>2, FInvAlways, PTL DEF FifoSpec, ImplementsFifo, Abstract!Spec
=============================================================================
