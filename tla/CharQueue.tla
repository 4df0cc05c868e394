------------------------------ MODULE CharQueue ------------------------------
(***************************************************************************)
(* The character device of char.c: writers put bytes into a kfifo, readers *)
(* drain it.  Semaphore sem admits one opener, semaphore s guards the      *)
(* queue.  down_interruptible may be cut short by a signal; the code then  *)
(* logs an error and goes on without the semaphore.                        *)
(*                                                                         *)
(* The buffer data is shared by all writers and filled before s is taken.  *)
(* A file is used by the process that opened it.  Messages are shorter     *)
(* than the buffer; the kfifo is a sequence (its own code is not here).    *)
(* Two processes are in the driver at once only after an interrupted open; *)
(* their accesses to data and queue then race, so nothing is claimed of    *)
(* the contents from there on, only of the semaphores.                     *)
(***************************************************************************)
EXTENDS Integers, FiniteSets, Sequences

CONSTANTS Proc, Message,   \* Message: what processes write, sequences of bytes
          FIFO_SIZE,
          Width,           \* queue_head is unsigned: it wraps at Width
          MaxWrite, MaxRead, MaxSignal      \* bounds

Byte == UNION {{m[k] : k \in DOMAIN m} : m \in Message}

ASSUME CharQueueAssumption ==
    /\ IsFiniteSet(Proc) /\ {MaxWrite, MaxRead, MaxSignal} \subseteq Nat
    /\ FIFO_SIZE \in Nat \ {0} /\ Width \in Nat /\ Width > 2 * FIFO_SIZE
    /\ \A m \in Message : m \in Seq(Byte) /\ Len(m) \in 1 .. FIFO_SIZE

VARIABLES
    pc, msg,                   \* place of each process; what it writes
    held,                      \* its last down on s was successful
    sem, s,                    \* the semaphores
    data, queue, queue_head, read_count, write_count,
    sent, got,                 \* history: bytes written, bytes read
    writes, reads,             \* history: calls of char_write and char_read
    intrOpen, intrQueue,       \* history: downs cut short by a signal
    leaked                     \* history: returns from consumer without up

locks   == <<held, sem, s>>
buffer  == <<data, queue, queue_head, read_count, write_count>>
history == <<sent, got, writes, reads, intrOpen, intrQueue, leaked>>
vars    == <<pc, msg, locks, buffer, history>>

Minimum(a, b) == IF a <= b THEN a ELSE b
Free == FIFO_SIZE - Len(queue)

Init ==
    /\ pc = [p \in Proc |-> "closed"] /\ msg = [p \in Proc |-> <<>>]
    /\ held = [p \in Proc |-> FALSE] /\ sem = 1 /\ s = 1
    /\ data = <<>> /\ queue = <<>> /\ queue_head = 0
    /\ read_count = 0 /\ write_count = 0
    /\ sent = <<>> /\ got = <<>> /\ writes = 0 /\ reads = 0
    /\ intrOpen = 0 /\ intrQueue = 0 /\ leaked = 0

Goto(p, from, to) == pc[p] = from /\ pc' = [pc EXCEPT ![p] = to]

-----------------------------------------------------------------------------
(* open and close                                                          *)

\* char_open.
Open(p) ==
    /\ Goto(p, "closed", "open") /\ sem > 0
    /\ sem' = sem - 1
    /\ UNCHANGED <<msg, held, s, buffer, history>>

\* A signal ends the wait; char_open returns 0 all the same.
OpenInterrupted(p) ==
    /\ Goto(p, "closed", "open") /\ sem = 0 /\ intrOpen < MaxSignal
    /\ intrOpen' = intrOpen + 1
    /\ UNCHANGED <<msg, locks, buffer>>
    /\ UNCHANGED <<sent, got, writes, reads, intrQueue, leaked>>

\* Mutation: the semaphore is not given back.
CloseKeeps(p) ==
    /\ Goto(p, "open", "closed")
    /\ UNCHANGED <<msg, locks, buffer, history>>

\* char_close.
Close(p) ==
    /\ Goto(p, "open", "closed")
    /\ sem' = sem + 1
    /\ UNCHANGED <<msg, held, s, buffer, history>>

-----------------------------------------------------------------------------
(* The semaphore of the queue                                              *)

\* down_interruptible(&s)
Down(p, from, to) ==
    /\ Goto(p, from, to) /\ s > 0
    /\ s' = s - 1 /\ held' = [held EXCEPT ![p] = TRUE]
    /\ UNCHANGED <<msg, sem, buffer, history>>

DownInterrupted(p, from, to) ==
    /\ Goto(p, from, to) /\ s = 0 /\ intrQueue < MaxSignal
    /\ held' = [held EXCEPT ![p] = FALSE]
    /\ intrQueue' = intrQueue + 1
    /\ UNCHANGED <<msg, sem, s, buffer>>
    /\ UNCHANGED <<sent, got, writes, reads, intrOpen, leaked>>

Up(p) == /\ s' = s + 1 /\ held' = [held EXCEPT ![p] = FALSE]
         /\ UNCHANGED sem

\* The head position that proc_readings shows, relative to its start.
MoveHead(step) ==
    IF queue_head >= FIFO_SIZE - 1
    THEN queue_head' = 0
    ELSE queue_head' = (queue_head + step) % Width

-----------------------------------------------------------------------------
(* char_write                                                              *)

\* Mutation: the buffer is not cleared.
WriteNoClear(p, m) ==
    /\ Goto(p, "open", "copy") /\ writes < MaxWrite
    /\ writes' = writes + 1
    /\ msg' = [msg EXCEPT ![p] = m]
    /\ UNCHANGED <<locks, buffer>>
    /\ UNCHANGED <<sent, got, reads, intrOpen, intrQueue, leaked>>

\* memset(data, 0, 50)
Write(p, m) ==
    /\ Goto(p, "open", "copy") /\ writes < MaxWrite
    /\ writes' = writes + 1
    /\ msg' = [msg EXCEPT ![p] = m]
    /\ data' = <<>>
    /\ UNCHANGED <<locks, queue, queue_head, read_count, write_count>>
    /\ UNCHANGED <<sent, got, reads, intrOpen, intrQueue, leaked>>

\* The copy from the user covers what is in the buffer by now.
WriteCopy(p) ==
    /\ Goto(p, "copy", "wdown")
    /\ data' = msg[p] \o SubSeq(data, Len(msg[p]) + 1, Len(data))
    /\ UNCHANGED <<msg, locks, queue, queue_head, read_count, write_count, history>>

\* kfifo_in takes what fits.
WriteIn(p) ==
    /\ Goto(p, "in", "head")
    /\ queue' = queue \o SubSeq(data, 1, Minimum(Len(data), Free))
    /\ sent' = sent \o SubSeq(msg[p], 1, Minimum(Len(msg[p]), Free))
    /\ read_count' = read_count + 1
    /\ UNCHANGED <<msg, locks, data, queue_head, write_count>>
    /\ UNCHANGED <<got, writes, reads, intrOpen, intrQueue, leaked>>

\* The length of data is taken once more.
WriteHead(p) ==
    /\ Goto(p, "head", "open")
    /\ MoveHead(Len(data))
    /\ Up(p)
    /\ UNCHANGED <<msg, data, queue, read_count, write_count>>
    /\ UNCHANGED <<sent, got, writes, reads, intrOpen, intrQueue, leaked>>

-----------------------------------------------------------------------------
(* char_read and consumer                                                  *)

Read(p) ==
    /\ Goto(p, "open", "rdown") /\ reads < MaxRead
    /\ reads' = reads + 1
    /\ UNCHANGED <<msg, locks, buffer>>
    /\ UNCHANGED <<sent, got, writes, intrOpen, intrQueue, leaked>>

\* An empty queue: consumer returns without up(&s).
ReadUnderflow(p) ==
    /\ Goto(p, "test", "open") /\ queue = <<>>
    /\ leaked' = IF held[p] THEN leaked + 1 ELSE leaked
    /\ held' = [held EXCEPT ![p] = FALSE]
    /\ write_count' = write_count + 1
    /\ UNCHANGED <<msg, sem, s, data, queue, queue_head, read_count>>
    /\ UNCHANGED <<sent, got, writes, reads, intrOpen, intrQueue>>

ReadTest(p) ==
    /\ Goto(p, "test", "out") /\ queue # <<>>
    /\ UNCHANGED <<msg, locks, buffer, history>>

\* Mutation: a reader that finds nothing more keeps the semaphore.
ReadDoneNoUp(p) ==
    /\ Goto(p, "out", "open") /\ queue = <<>>
    /\ write_count' = write_count + 1
    /\ UNCHANGED <<msg, locks, data, queue, queue_head, read_count>>
    /\ UNCHANGED <<sent, got, writes, reads, intrOpen, intrQueue, leaked>>

\* One round of the loop: a byte goes to the user.
ReadOut(p) ==
    /\ pc[p] = "out" /\ queue # <<>>
    /\ got' = Append(got, Head(queue)) /\ queue' = Tail(queue)
    /\ MoveHead(-1)
    /\ UNCHANGED <<pc, msg, locks, data, read_count, write_count>>
    /\ UNCHANGED <<sent, writes, reads, intrOpen, intrQueue, leaked>>

ReadDone(p) ==
    /\ Goto(p, "out", "open") /\ queue = <<>>
    /\ Up(p)
    /\ write_count' = write_count + 1
    /\ UNCHANGED <<msg, data, queue, queue_head, read_count>>
    /\ UNCHANGED <<sent, got, writes, reads, intrOpen, intrQueue, leaked>>

-----------------------------------------------------------------------------
\* What a process does between entering and leaving the driver.
Driver(p) ==
    \/ WriteCopy(p) \/ Down(p, "wdown", "in") \/ WriteIn(p) \/ WriteHead(p)
    \/ Down(p, "rdown", "test") \/ ReadUnderflow(p) \/ ReadTest(p)
    \/ ReadOut(p) \/ ReadDone(p)

\* What it asks for, and signals.
User(p) ==
    \/ Open(p) \/ OpenInterrupted(p) \/ Close(p) \/ Read(p)
    \/ \E m \in Message : Write(p, m)
    \/ DownInterrupted(p, "wdown", "in") \/ DownInterrupted(p, "rdown", "test")

Next == \E p \in Proc : Driver(p) \/ User(p)

Spec == Init /\ [][Next]_vars

\* The kernel runs every process, and a semaphore wakes its waiters in order.
Fairness == \A p \in Proc : SF_vars(Driver(p))

FairSpec == Spec /\ Fairness

-----------------------------------------------------------------------------
(* Properties                                                              *)

Opened(p) == pc[p] # "closed"
InQueue(p) == pc[p] \in {"in", "head", "test", "out"}

\* Every variable has its type; the queue holds no more than its size and queue_head
\* stays in its unsigned range.
TypeOK ==
    /\ pc \in [Proc -> {"closed", "open", "copy", "wdown", "in", "head", "rdown",
                        "test", "out"}]
    /\ msg \in [Proc -> Message \cup {<<>>}] /\ held \in [Proc -> BOOLEAN]
    /\ {sem, s, leaked, read_count, write_count} \subseteq Nat
    /\ {data, queue, sent, got} \subseteq Seq(Byte) /\ Len(queue) <= FIFO_SIZE
    /\ queue_head \in 0 .. Width - 1
    /\ writes \in 0 .. MaxWrite /\ reads \in 0 .. MaxRead
    /\ {intrOpen, intrQueue} \subseteq 0 .. MaxSignal

\* As long as no open was cut short by a signal, readers get exactly the bytes
\* that were written, in order and whole up to the capacity of the queue: that
\* char_write fills the shared buffer before it takes s does no harm, because
\* sem admits a single opener.
StreamIntact == intrOpen = 0 => got \o queue = sent

\* Every wait that a signal cut short admits one more process, and nothing else
\* does.  At the device it stays for good: char_close gives up a semaphore that
\* char_open never took.  Between down and up of consumer and char_write at most
\* one more is let in by each, less those that an underflow has leaked.
Permits ==
    /\ sem + Cardinality({p \in Proc : Opened(p)}) = 1 + intrOpen
    /\ s + leaked + Cardinality({p \in Proc : InQueue(p)}) <= 1 + intrQueue

\* A process that waits for the queue gets it and returns, unless an underflow
\* has leaked the semaphore in consumer.
ReturnsUnlessLeaked ==
    \A p \in Proc : pc[p] \in {"rdown", "wdown"} ~> pc[p] = "open" \/ leaked > 0
=============================================================================
