------------------------------ MODULE IntFifo -------------------------------
(***************************************************************************)
(* The integer queue of intfifo.c: a self test while the module loads,     *)
(* then a /proc file to write and read.  Writers exclude each other        *)
(* with write_lock and readers with read_lock, but a writer and a reader   *)
(* use the kfifo at the same time: each reads the other's index, copies,   *)
(* and only then publishes its own.                                        *)
(*                                                                         *)
(* The kfifo (linux/kfifo.h, not in this repository) is a ring of          *)
(* FIFO_SIZE slots with two indices that wrap at IndexWidth; FIFO_SIZE is  *)
(* INT_FIFO_SIZE here, because char.c has one too.                         *)
(***************************************************************************)
EXTENDS Integers, Sequences

CONSTANTS Client, NoClient,
          Ints,             \* what processes write: sequences of elements
          Counts,           \* how much they ask to read
          INT_FIFO_SIZE, IndexWidth,
          MaxCall, MaxFault                         \* bounds

\* What the constants are assumed to be.
IntFifoAssumption ==
    /\ INT_FIFO_SIZE \in Nat \ {0} /\ IndexWidth \in Nat /\ IndexWidth > INT_FIFO_SIZE
    /\ IndexWidth % INT_FIFO_SIZE = 0 /\ NoClient \notin Client
    /\ \A m \in Ints : m \in Seq(Int) /\ Len(m) > 0
    /\ Counts \subseteq Nat

VARIABLES
    mode,                     \* how far the module is in its life
    i, j, tbuf,               \* locals of testfunc
    in, out, buf,             \* the kfifo: indices and slots
    write_lock, read_lock,
    place, asked, want,       \* each process: place, and its request
    len, copy,                \* room or elements found; elements copied
    given,                    \* what its last read returned
    calls, faults             \* history, for the bounds

test     == <<i, j, tbuf>>
ring     == <<in, out, buf>>
mutexes  == <<write_lock, read_lock>>
call     == <<place, asked, want, len, copy, given>>
count    == <<calls, faults>>
fifoVars == <<mode, test, ring, mutexes, call, count>>

AtMost(a, b) == IF a <= b THEN a ELSE b

-----------------------------------------------------------------------------
(* The kfifo                                                               *)

kfifo_len == (in - out) % IndexWidth
kfifo_unused == INT_FIFO_SIZE - kfifo_len

\* The first n elements, and the slots once xs is stored behind the last one.
Load(n) == [k \in 1 .. n |-> buf[(out + k - 1) % INT_FIFO_SIZE]]
Store(xs) == [c \in 0 .. INT_FIFO_SIZE - 1 |->
                LET k == ((c - in) % INT_FIFO_SIZE) + 1
                IN  IF k <= Len(xs) THEN xs[k] ELSE buf[c]]

\* kfifo_put and kfifo_in: what fits goes in.
In(xs) == LET ys == SubSeq(xs, 1, AtMost(Len(xs), kfifo_unused))
          IN  /\ buf' = Store(ys)
              /\ in' = (in + Len(ys)) % IndexWidth
              /\ UNCHANGED out

\* kfifo_skip, kfifo_get and kfifo_out: up to n elements leave.
Out(n) == /\ out' = (out + AtMost(n, kfifo_len)) % IndexWidth
          /\ UNCHANGED <<in, buf>>

FifoInit ==
    /\ mode = "put" /\ i = 0 /\ j = 0 /\ tbuf = <<>>
    /\ in = 0 /\ out = 0 /\ buf = [c \in 0 .. INT_FIFO_SIZE - 1 |-> 0]
    /\ write_lock = NoClient /\ read_lock = NoClient
    /\ place = [p \in Client |-> "user"] /\ asked = [p \in Client |-> <<>>]
    /\ want = [p \in Client |-> 0] /\ len = [p \in Client |-> 0]
    /\ copy = [p \in Client |-> <<>>] /\ given = [p \in Client |-> <<>>]
    /\ calls = 0 /\ faults = 0

Become(from, to) == mode = from /\ mode' = to

-----------------------------------------------------------------------------
(* testfunc, run by example_init before the file exists                    *)

expected_result ==
    [k \in 0 .. INT_FIFO_SIZE - 1 |->
        IF k < 7 THEN k + 3 ELSE IF k < 9 THEN k - 7 ELSE k + 11]

TestPut ==
    /\ mode = "put" /\ i # 10
    /\ In(<<i>>) /\ i' = i + 1
    /\ UNCHANGED <<mode, j, tbuf, mutexes, call, count>>

TestOut ==
    /\ Become("put", "back") /\ i = 10
    /\ tbuf' = Load(AtMost(2, kfifo_len)) /\ Out(2)
    /\ UNCHANGED <<i, j, mutexes, call, count>>

TestIn ==
    /\ Become("back", "skip")
    /\ In(tbuf)
    /\ UNCHANGED <<test, mutexes, call, count>>

TestSkip ==
    /\ Become("skip", "fill") /\ i' = 20
    /\ Out(1)
    /\ UNCHANGED <<j, tbuf, mutexes, call, count>>

TestFill ==
    /\ mode = "fill" /\ kfifo_unused > 0
    /\ In(<<i>>) /\ i' = i + 1
    /\ UNCHANGED <<mode, j, tbuf, mutexes, call, count>>

\* kfifo_put fails; kfifo_peek reads the first element into i.
TestFull ==
    /\ Become("fill", "drain") /\ kfifo_unused = 0
    /\ i' = Load(1)[1] /\ j' = 0
    /\ UNCHANGED <<tbuf, ring, mutexes, call, count>>

TestGet ==
    /\ mode = "drain" /\ kfifo_len > 0
    /\ i' = Load(1)[1] /\ Out(1)
    /\ mode' = IF i' = expected_result[j] THEN "drain" ELSE "failed"
    /\ j' = j + 1
    /\ UNCHANGED <<tbuf, mutexes, call, count>>

\* The queue is empty: all is well if every value was seen.
TestEnd ==
    /\ mode = "drain" /\ kfifo_len = 0
    /\ mode' = IF j = INT_FIFO_SIZE THEN "tested" ELSE "failed"
    /\ UNCHANGED <<test, ring, mutexes, call, count>>

\* proc_create makes the file, or example_init returns -ENOMEM.
ProcCreate ==
    /\ Become("tested", "live") \/ Become("tested", "unloaded")
    /\ UNCHANGED <<test, ring, mutexes, call, count>>

\* example_exit; remove_proc_entry waits for the calls under way.
ExampleExit ==
    /\ Become("live", "unloaded") /\ \A p \in Client : place[p] = "user"
    /\ UNCHANGED <<test, ring, mutexes, call, count>>

-----------------------------------------------------------------------------
(* fifo_write                                                              *)

Advance(p, from, to) == place[p] = from /\ place' = [place EXCEPT ![p] = to]

FifoWrite(p, m) ==
    /\ mode = "live" /\ Advance(p, "user", "wlock") /\ calls < MaxCall
    /\ asked' = [asked EXCEPT ![p] = m] /\ calls' = calls + 1
    /\ UNCHANGED <<mode, test, ring, mutexes, want, len, copy, given, faults>>

WriteLock(p) ==
    /\ Advance(p, "wlock", "wroom") /\ write_lock = NoClient
    /\ write_lock' = p
    /\ UNCHANGED <<mode, test, ring, read_lock, asked, want, len, copy, given, count>>

\* mutex_lock_interruptible is cut short: -ERESTARTSYS.
WriteInterrupted(p) ==
    /\ Advance(p, "wlock", "user") /\ write_lock # NoClient
    /\ asked' = [asked EXCEPT ![p] = <<>>]
    /\ UNCHANGED <<mode, test, ring, mutexes, want, len, copy, given, count>>

\* kfifo_from_user reads the other side's index,
WriteRoom(p) ==
    /\ Advance(p, "wroom", "wcopy")
    /\ len' = [len EXCEPT ![p] = AtMost(Len(asked[p]), kfifo_unused)]
    /\ UNCHANGED <<mode, test, ring, mutexes, asked, want, copy, given, count>>

\* copies, all or up to a page fault,
WriteElements(p) ==
    /\ Advance(p, "wcopy", "wdone")
    /\ \E k \in 0 .. len[p] :
        /\ k < len[p] => faults < MaxFault
        /\ faults' = IF k < len[p] THEN faults + 1 ELSE faults
        /\ copy' = [copy EXCEPT ![p] = SubSeq(asked[p], 1, k)]
    /\ buf' = Store(copy'[p])
    /\ UNCHANGED <<mode, test, in, out, mutexes, asked, want, len, given, calls>>

\* and publishes its index; then the lock is released.
WritePublish(p) ==
    /\ Advance(p, "wdone", "user")
    /\ in' = (in + Len(copy[p])) % IndexWidth
    /\ write_lock' = NoClient
    /\ asked' = [asked EXCEPT ![p] = <<>>] /\ copy' = [copy EXCEPT ![p] = <<>>]
    /\ UNCHANGED <<mode, test, out, buf, read_lock, want, len, given, count>>

-----------------------------------------------------------------------------
(* fifo_read                                                               *)

FifoRead(p, n) ==
    /\ mode = "live" /\ Advance(p, "user", "rlock") /\ calls < MaxCall
    /\ want' = [want EXCEPT ![p] = n] /\ calls' = calls + 1
    /\ UNCHANGED <<mode, test, ring, mutexes, asked, len, copy, given, faults>>

ReadLock(p) ==
    /\ Advance(p, "rlock", "rused") /\ read_lock = NoClient
    /\ read_lock' = p
    /\ UNCHANGED <<mode, test, ring, write_lock, asked, want, len, copy, given, count>>

ReadInterrupted(p) ==
    /\ Advance(p, "rlock", "user") /\ read_lock # NoClient
    /\ UNCHANGED <<mode, test, ring, mutexes, asked, want, len, copy, given, count>>

ReadUsed(p) ==
    /\ Advance(p, "rused", "rcopy")
    /\ len' = [len EXCEPT ![p] = AtMost(want[p], kfifo_len)]
    /\ UNCHANGED <<mode, test, ring, mutexes, asked, want, copy, given, count>>

ReadElements(p) ==
    /\ Advance(p, "rcopy", "rdone")
    /\ \E k \in 0 .. len[p] :
        /\ k < len[p] => faults < MaxFault
        /\ faults' = IF k < len[p] THEN faults + 1 ELSE faults
        /\ copy' = [copy EXCEPT ![p] = Load(k)]
    /\ UNCHANGED <<mode, test, ring, mutexes, asked, want, len, given, calls>>

\* Mutation: a read that faulted drops what it did not deliver.
ReadPublishAll(p) ==
    /\ Advance(p, "rdone", "user")
    /\ out' = (out + len[p]) % IndexWidth
    /\ read_lock' = NoClient
    /\ given' = [given EXCEPT ![p] = copy[p]] /\ copy' = [copy EXCEPT ![p] = <<>>]
    /\ UNCHANGED <<mode, test, in, buf, write_lock, asked, want, len, count>>

ReadPublish(p) ==
    /\ Advance(p, "rdone", "user")
    /\ out' = (out + Len(copy[p])) % IndexWidth
    /\ read_lock' = NoClient
    /\ given' = [given EXCEPT ![p] = copy[p]] /\ copy' = [copy EXCEPT ![p] = <<>>]
    /\ UNCHANGED <<mode, test, in, buf, write_lock, asked, want, len, count>>

-----------------------------------------------------------------------------
TestFunc == TestPut \/ TestOut \/ TestIn \/ TestSkip \/ TestFill \/ TestFull
            \/ TestGet \/ TestEnd

Step(p) ==
    \/ WriteLock(p) \/ WriteRoom(p) \/ WriteElements(p) \/ WritePublish(p)
    \/ ReadLock(p) \/ ReadUsed(p) \/ ReadElements(p) \/ ReadPublish(p)

Environment(p) ==
    \/ \E m \in Ints : FifoWrite(p, m)
    \/ \E n \in Counts : FifoRead(p, n)
    \/ WriteInterrupted(p) \/ ReadInterrupted(p)

FifoNext == TestFunc \/ ProcCreate \/ ExampleExit \/ \E p \in Client : Step(p) \/ Environment(p)

FifoSpec == FifoInit /\ [][FifoNext]_fifoVars

\* Every process in the driver is scheduled.
FifoFairness == \A p \in Client : WF_fifoVars(Step(p))

FifoFairSpec == FifoSpec /\ FifoFairness

-----------------------------------------------------------------------------
(* Properties                                                              *)

\* Every variable has its type; the indices stay in their unsigned range and
\* testfunc within its buf[6].
FifoTypeOK ==
    /\ mode \in {"put", "back", "skip", "fill", "drain", "failed", "tested", "live",
                 "unloaded"}
    /\ i \in Int /\ j \in 0 .. INT_FIFO_SIZE /\ tbuf \in Seq(Int) /\ Len(tbuf) <= 6
    /\ in \in 0 .. IndexWidth - 1 /\ out \in 0 .. IndexWidth - 1
    /\ buf \in [0 .. INT_FIFO_SIZE - 1 -> Int]
    /\ write_lock \in Client \cup {NoClient} /\ read_lock \in Client \cup {NoClient}
    /\ place \in [Client -> {"user", "wlock", "wroom", "wcopy", "wdone", "rlock", "rused",
                        "rcopy", "rdone"}]
    /\ asked \in [Client -> Ints \cup {<<>>}] /\ want \in [Client -> Nat]
    /\ len \in [Client -> 0 .. INT_FIFO_SIZE]
    /\ copy \in [Client -> Seq(Int)] /\ given \in [Client -> Seq(Int)]

\* What users see of the queue: nothing before the file exists.
Queue == IF mode = "live" THEN Load(kfifo_len) ELSE <<>>

\* The self test leaves an empty queue; writers and readers with separate locks
\* implement the atomic queue of module Fifo.
Abstract == INSTANCE Fifo WITH
               Proc <- Client, Message <- Ints, Capacity <- INT_FIFO_SIZE, q <- Queue

ImplementsFifo == Abstract!Spec

\* Every call of fifo_write and fifo_read returns.
CallsReturn == \A p \in Client : place[p] # "user" ~> place[p] = "user"
=============================================================================
