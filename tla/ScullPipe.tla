----------------------------- MODULE ScullPipe ------------------------------
(***************************************************************************)
(* Book/scull/pipe.c: one scull pipe device used by several processes.     *)
(*                                                                         *)
(* A process holds at most one open file of the device and executes one    *)
(* system call at a time; pc names the statement it is about to execute.   *)
(* What runs between down() and up() is split where something outside the  *)
(* semaphore can see it: the two wait conditions, which read rp and wp     *)
(* without the semaphore, and the ioctl, which stores scull_p_buffer       *)
(* without it.  Pointers are offsets from dev->buffer, so dev->end is the  *)
(* number buffersize.  A signal makes a call return -ERESTARTSYS; whether  *)
(* user space then repeats the call is up to user space.                   *)
(***************************************************************************)
EXTENDS Integers, Sequences, FiniteSets

CONSTANTS Procs,   \* processes
          Byte,    \* values of a byte
          Sizes,   \* values scull_p_buffer may be given
          Counts,  \* lengths asked for by read() and write()
          Modes,   \* f_mode of an open: subsets of {"R", "W"}
          Flags    \* whether O_NONBLOCK may be FALSE, TRUE or either

ASSUME ProcsAssumption == IsFiniteSet(Procs)
ASSUME SizesAssumption == Sizes \subseteq Nat \ {0} /\ Sizes # {}
ASSUME CountsAssumption == Counts \subseteq Nat
ASSUME ModesAssumption == Modes \subseteq SUBSET {"R", "W"}
ASSUME FlagsAssumption == Flags \subseteq BOOLEAN

VARIABLES
  sem,             \* dev->sem, init_MUTEX'd to 1
  alloc,           \* length of the block dev->buffer points to, 0 for NULL
  buf,             \* contents of that block
  buffersize,      \* dev->buffersize, and dev->end as an offset
  rp, wp,          \* read and write offsets
  nreaders, nwriters,
  inq, outq,       \* processes queued and not yet woken
  async_queue,     \* processes to be sent SIGIO
  scull_p_buffer,  \* the module parameter, shared by all pipe devices
  pc,
  mode, nonblock,  \* f_mode and O_NONBLOCK of the process's file
  count,           \* the count argument, then the number of bytes moved
  user,            \* bytes copied to the reader by its call in progress
  sig,             \* signal_pending
  flushed          \* auxiliary: queued on outq when an open reset the pipe

block  == <<alloc, buf>>
counts == <<nreaders, nwriters>>
device == <<block, buffersize, rp, wp, counts>>
queues == <<inq, outq, flushed>>
file   == <<mode, nonblock>>
env    == <<async_queue, scull_p_buffer, file>>
call   == <<count, user>>
vars == <<sem, device, queues, env, pc, call, sig>>

-----------------------------------------------------------------------------
Lesser(a, b) == IF a <= b THEN a ELSE b

InCritical == {"o_alloc", "o_reset", "c_crit", "r_check", "r_adv", "r_wrap",
               "w_check", "w_adv", "w_wrap", "p_crit"}
InKernel   == InCritical \cup
              {"o_down", "c_down",
               "r_down", "r_prep", "r_test", "r_sleep", "r_wake",
               "w_down", "w_prep", "w_test", "w_sleep", "w_finish", "w_wake",
               "w_fasync", "p_down", "p_sleep"}
PCs        == {"closed", "open"} \cup InKernel

NoData == [i \in {} |-> 0]    \* the contents of a NULL buffer

Init ==
  /\ sem = 1
  /\ alloc = 0 /\ buf = NoData /\ buffersize = 0 /\ rp = 0 /\ wp = 0
  /\ nreaders = 0 /\ nwriters = 0
  /\ inq = {} /\ outq = {} /\ async_queue = {} /\ flushed = {}
  /\ scull_p_buffer \in Sizes
  /\ pc = [p \in Procs |-> "closed"]
  /\ mode = [p \in Procs |-> {}]
  /\ nonblock = [p \in Procs |-> FALSE]
  /\ count = [p \in Procs |-> 0]
  /\ user = [p \in Procs |-> <<>>]
  /\ sig = [p \in Procs |-> FALSE]

Goto(p, l) == pc' = [pc EXCEPT ![p] = l]

\* nreaders and nwriters after an open or a close of p's file.
Opened(n, x, p) == IF x \in mode[p] THEN n + 1 ELSE n

Closed(n, x, p) == IF x \in mode[p] THEN n - 1 ELSE n

\* Mutant of LastClose: the last reader's close frees the buffer.
LastClose_Reader == nreaders' = 0
LastClose == nreaders' + nwriters' = 0

Wrap(ptr) == IF ptr = buffersize THEN 0 ELSE ptr

Down == sem > 0 /\ sem' = sem - 1
Up   == sem' = sem + 1

\* Back to user mode, where a pending signal is delivered at once.
Leave(p, l) == /\ Goto(p, l)
               /\ sig' = [sig EXCEPT ![p] = FALSE]
               /\ count' = [count EXCEPT ![p] = 0]
               /\ user' = [user EXCEPT ![p] = <<>>]
Return(p) == Leave(p, "open") /\ UNCHANGED file
\* ... or out of a call after which p has no file.
Gone(p)   == /\ Leave(p, "closed")
             /\ mode' = [mode EXCEPT ![p] = {}]
             /\ nonblock' = [nonblock EXCEPT ![p] = FALSE]

\* down(): p waits until the semaphore is free.
TakeSem(p, from, to) ==
  /\ pc[p] = from
  /\ Down
  /\ Goto(p, to)
  /\ UNCHANGED <<device, queues, env, call, sig>>

\* down_interruptible() gives up: a process that had to queue for the
\* semaphore looks for a signal before it looks at the semaphore again.
Interrupted(p) ==
  /\ sig[p]
  /\ \/ pc[p] \in {"r_down", "w_down"} /\ Return(p)
     \/ pc[p] = "o_down" /\ Gone(p)
  /\ UNCHANGED <<sem, device, queues, async_queue, scull_p_buffer>>

-----------------------------------------------------------------------------
(* scull_p_open *)

BeginOpen(p) ==
  /\ pc[p] = "closed"
  /\ \E m \in Modes, nb \in Flags :
        /\ mode' = [mode EXCEPT ![p] = m]
        /\ nonblock' = [nonblock EXCEPT ![p] = nb]
  /\ Goto(p, "o_down")
  /\ UNCHANGED <<sem, device, queues, async_queue, scull_p_buffer, call, sig>>

OpenDown(p) == TakeSem(p, "o_down", "o_alloc")

\* kmalloc(scull_p_buffer) when there is no buffer; its contents are arbitrary.
OpenAlloc(p) ==
  /\ pc[p] = "o_alloc"
  /\ IF alloc = 0
     THEN /\ alloc' = scull_p_buffer
          /\ buf' \in [0 .. scull_p_buffer - 1 -> Byte]
     ELSE UNCHANGED block
  /\ Goto(p, "o_reset")
  /\ UNCHANGED <<sem, buffersize, rp, wp, counts, queues, env, call, sig>>

\* Mutant of OpenNoMem: the semaphore is given back once here and once more by
\* the code after the allocation.
OpenNoMem_DoubleUp(p) ==
  /\ pc[p] = "o_alloc"
  /\ alloc = 0
  /\ sem' = sem + 2
  /\ Gone(p)
  /\ UNCHANGED <<device, queues, async_queue, scull_p_buffer>>

OpenNoMem(p) ==
  /\ pc[p] = "o_alloc"
  /\ alloc = 0
  /\ Up
  /\ Gone(p)
  /\ UNCHANGED <<device, queues, async_queue, scull_p_buffer>>

\* Every open, not only the first, reads scull_p_buffer again and puts both
\* pointers back to the start of the buffer.  Nobody is woken.
OpenReset(p) ==
  /\ pc[p] = "o_reset"
  /\ buffersize' = scull_p_buffer
  /\ rp' = 0 /\ wp' = 0
  /\ nreaders' = Opened(nreaders, "R", p)
  /\ nwriters' = Opened(nwriters, "W", p)
  /\ flushed' = flushed \cup outq
  /\ Up
  /\ Return(p)
  /\ UNCHANGED <<block, inq, outq, env>>

-----------------------------------------------------------------------------
(* scull_p_release *)

BeginRelease(p) ==
  /\ pc[p] = "open"
  /\ async_queue' = async_queue \ {p}
  /\ Goto(p, "c_down")
  /\ UNCHANGED <<sem, device, queues, scull_p_buffer, file, call, sig>>

ReleaseDown(p) == TakeSem(p, "c_down", "c_crit")

Release(p) ==
  /\ pc[p] = "c_crit"
  /\ nreaders' = Closed(nreaders, "R", p)
  /\ nwriters' = Closed(nwriters, "W", p)
  /\ IF LastClose
     THEN alloc' = 0 /\ buf' = NoData
     ELSE UNCHANGED block
  /\ Up
  /\ Gone(p)
  /\ UNCHANGED <<buffersize, rp, wp, queues, async_queue, scull_p_buffer>>

-----------------------------------------------------------------------------
(* scull_p_read *)

BeginRead(p) ==
  /\ pc[p] = "open"
  /\ "R" \in mode[p]
  /\ \E n \in Counts : count' = [count EXCEPT ![p] = n]
  /\ Goto(p, "r_down")
  /\ UNCHANGED <<sem, device, queues, env, user, sig>>

ReadDown(p) == TakeSem(p, "r_down", "r_check")

\* Nothing to read: give the semaphore up, then fail or wait.
ReadEmpty(p) ==
  /\ pc[p] = "r_check"
  /\ rp = wp
  /\ Up
  /\ \/ nonblock[p] /\ Return(p)
     \/ ~nonblock[p] /\ Goto(p, "r_prep") /\ UNCHANGED <<call, sig>>
  /\ UNCHANGED <<device, queues, env>>

\* wait_event_interruptible, entered or gone round again: onto the queue first.
ReadPrepare(p) ==
  /\ pc[p] = "r_prep"
  /\ inq' = inq \cup {p}
  /\ Goto(p, "r_test")
  /\ UNCHANGED <<sem, device, outq, flushed, env, call, sig>>

\* Mutant of ReadTest: sleeps without looking at rp and wp again.
ReadTest_NoTest(p) ==
  /\ pc[p] = "r_test"
  /\ \/ sig[p] /\ inq' = inq \ {p} /\ Return(p)
     \/ ~sig[p] /\ Goto(p, "r_sleep") /\ UNCHANGED <<inq, call, sig>>
  /\ UNCHANGED <<sem, device, outq, flushed, env>>

\* ... then its condition, read without the semaphore, then the signals.
ReadTest(p) ==
  /\ pc[p] = "r_test"
  /\ \/ rp # wp /\ inq' = inq \ {p} /\ Goto(p, "r_down") /\ UNCHANGED <<call, sig>>
     \/ rp = wp /\ sig[p] /\ inq' = inq \ {p} /\ Return(p)
     \/ rp = wp /\ ~sig[p] /\ Goto(p, "r_sleep") /\ UNCHANGED <<inq, call, sig>>
  /\ UNCHANGED <<sem, device, outq, flushed, env>>

\* schedule() returns: p was taken off the queue by a wake-up, or has a signal.
ReadWoken(p) ==
  /\ pc[p] = "r_sleep"
  /\ p \notin inq \/ sig[p]
  /\ Goto(p, "r_prep")
  /\ UNCHANGED <<sem, device, queues, env, call, sig>>

ReadCount(p) == Lesser(count[p], IF wp > rp THEN wp - rp ELSE buffersize - rp)

\* The bytes a copy of n bytes from offset o finds; beyond the block the pipe
\* owns, whatever is there.
BytesAt(o, n, junk) ==
  [i \in 1 .. n |-> IF o + i - 1 < alloc THEN buf[o + i - 1] ELSE junk]

\* copy_to_user, which may fail.
ReadCopy(p) ==
  /\ pc[p] = "r_check"
  /\ rp # wp
  /\ \/ /\ count' = [count EXCEPT ![p] = ReadCount(p)]
        /\ \E junk \in Byte :
              user' = [user EXCEPT ![p] = BytesAt(rp, ReadCount(p), junk)]
        /\ Goto(p, "r_adv")
        /\ UNCHANGED <<sem, sig>>
     \/ ReadCount(p) > 0 /\ Up /\ Return(p)
  /\ UNCHANGED <<device, queues, env>>

ReadAdvance(p) ==
  /\ pc[p] = "r_adv"
  /\ rp' = rp + count[p]
  /\ Goto(p, "r_wrap")
  /\ UNCHANGED <<sem, block, buffersize, wp, counts, queues, env, call, sig>>

ReadWrap(p) ==
  /\ pc[p] = "r_wrap"
  /\ rp' = Wrap(rp)
  /\ Up
  /\ Goto(p, "r_wake")
  /\ UNCHANGED <<block, buffersize, wp, counts, queues, env, call, sig>>

\* Mutant of ReadWake: returns without waking the writers.
ReadWake_NoWake(p) ==
  /\ pc[p] = "r_wake"
  /\ Return(p)
  /\ UNCHANGED <<sem, device, queues, env>>

\* wake_up_interruptible(&dev->outq): no waiter is exclusive, all are woken.
ReadWake(p) ==
  /\ pc[p] = "r_wake"
  /\ outq' = {} /\ flushed' = {}
  /\ Return(p)
  /\ UNCHANGED <<sem, device, inq, env>>

-----------------------------------------------------------------------------
(* scull_p_write and scull_getwritespace *)

\* Mutant of spacefree: no byte is kept free to tell full from empty.
spacefree_NoGap == IF rp = wp THEN buffersize
                   ELSE (rp + buffersize - wp) % buffersize

spacefree == IF rp = wp THEN buffersize - 1
             ELSE ((rp + buffersize - wp) % buffersize) - 1

BeginWrite(p) ==
  /\ pc[p] = "open"
  /\ "W" \in mode[p]
  /\ \E n \in Counts : count' = [count EXCEPT ![p] = n]
  /\ Goto(p, "w_down")
  /\ UNCHANGED <<sem, device, queues, env, user, sig>>

WriteDown(p) == TakeSem(p, "w_down", "w_check")

\* Mutant of WriteFull: goes to wait with the semaphore held.
WriteFull_KeepSem(p) ==
  /\ pc[p] = "w_check"
  /\ spacefree = 0
  /\ UNCHANGED sem
  /\ \/ nonblock[p] /\ Return(p)
     \/ ~nonblock[p] /\ Goto(p, "w_prep") /\ UNCHANGED <<call, sig>>
  /\ UNCHANGED <<device, queues, env>>

WriteFull(p) ==
  /\ pc[p] = "w_check"
  /\ spacefree = 0
  /\ Up
  /\ \/ nonblock[p] /\ Return(p)
     \/ ~nonblock[p] /\ Goto(p, "w_prep") /\ UNCHANGED <<call, sig>>
  /\ UNCHANGED <<device, queues, env>>

WritePrepare(p) ==
  /\ pc[p] = "w_prep"
  /\ outq' = outq \cup {p}
  /\ Goto(p, "w_test")
  /\ UNCHANGED <<sem, device, inq, flushed, env, call, sig>>

\* Mutant of WriteTest: schedule() without looking at spacefree again.
WriteTest_NoTest(p) ==
  /\ pc[p] = "w_test"
  /\ Goto(p, "w_sleep")
  /\ UNCHANGED <<sem, device, queues, env, call, sig>>

\* The second look at spacefree, without the semaphore.
WriteTest(p) ==
  /\ pc[p] = "w_test"
  /\ Goto(p, IF spacefree = 0 THEN "w_sleep" ELSE "w_finish")
  /\ UNCHANGED <<sem, device, queues, env, call, sig>>

WriteWoken(p) ==
  /\ pc[p] = "w_sleep"
  /\ p \notin outq \/ sig[p]
  /\ Goto(p, "w_finish")
  /\ UNCHANGED <<sem, device, queues, env, call, sig>>

\* finish_wait, then the signals, then round the loop.
WriteFinish(p) ==
  /\ pc[p] = "w_finish"
  /\ outq' = outq \ {p} /\ flushed' = flushed \ {p}
  /\ \/ sig[p] /\ Return(p)
     \/ ~sig[p] /\ Goto(p, "w_down") /\ UNCHANGED <<call, sig>>
  /\ UNCHANGED <<sem, device, inq, env>>

\* Mutant of WriteCount: not cut at dev->end.
WriteCount_NoEnd(p) == Lesser(count[p], spacefree)

WriteCount(p) ==
  Lesser(Lesser(count[p], spacefree),
         IF wp >= rp THEN buffersize - wp ELSE rp - wp - 1)

\* copy_from_user, which may fail; bytes beyond the block are not in it.
WriteCopy(p) ==
  /\ pc[p] = "w_check"
  /\ spacefree # 0
  /\ \/ /\ count' = [count EXCEPT ![p] = WriteCount(p)]
        /\ \E data \in [1 .. WriteCount(p) -> Byte] :
              buf' = [i \in DOMAIN buf |-> IF i - wp + 1 \in DOMAIN data
                                           THEN data[i - wp + 1] ELSE buf[i]]
        /\ Goto(p, "w_adv")
        /\ UNCHANGED <<sem, user, sig>>
     \/ WriteCount(p) > 0 /\ Up /\ Return(p) /\ UNCHANGED buf
  /\ UNCHANGED <<alloc, buffersize, rp, wp, counts, queues, env>>

WriteAdvance(p) ==
  /\ pc[p] = "w_adv"
  /\ wp' = wp + count[p]
  /\ Goto(p, "w_wrap")
  /\ UNCHANGED <<sem, block, buffersize, rp, counts, queues, env, call, sig>>

WriteWrap(p) ==
  /\ pc[p] = "w_wrap"
  /\ wp' = Wrap(wp)
  /\ Up
  /\ Goto(p, "w_wake")
  /\ UNCHANGED <<block, buffersize, rp, counts, queues, env, call, sig>>

WriteWake(p) ==
  /\ pc[p] = "w_wake"
  /\ inq' = {}
  /\ Goto(p, "w_fasync")
  /\ UNCHANGED <<sem, device, outq, flushed, env, call, sig>>

\* kill_fasync: SIGIO to every process on async_queue.  The one that is in
\* user mode handles it there; the others find it pending.
WriteFasync(p) ==
  /\ pc[p] = "w_fasync"
  /\ pc' = [pc EXCEPT ![p] = "open"]
  /\ sig' = [q \in Procs |-> /\ q # p
                             /\ sig[q] \/ (q \in async_queue /\ pc[q] \in InKernel)]
  /\ count' = [count EXCEPT ![p] = 0]
  /\ UNCHANGED <<sem, device, queues, env, user>>

-----------------------------------------------------------------------------
(* scull_p_poll under select() or poll() without a timeout.  A process polls *)
(* for what it opened the file for.  It stays on both queues until it leaves *)
(* the call; off one of them means that queue has woken it.                  *)

BeginPoll(p) ==
  /\ pc[p] = "open"
  /\ mode[p] # {}
  /\ Goto(p, "p_down")
  /\ UNCHANGED <<sem, device, queues, env, call, sig>>

PollDown(p) == TakeSem(p, "p_down", "p_crit")

PollReady(p) == \/ "R" \in mode[p] /\ rp # wp
                \/ "W" \in mode[p] /\ spacefree # 0

Poll(p) ==
  /\ pc[p] = "p_crit"
  /\ Up
  /\ \/ /\ PollReady(p)
        /\ inq' = inq \ {p} /\ outq' = outq \ {p} /\ flushed' = flushed \ {p}
        /\ Return(p)
     \/ /\ ~PollReady(p)
        /\ inq' = inq \cup {p} /\ outq' = outq \cup {p} /\ flushed' = flushed \ {p}
        /\ Goto(p, "p_sleep")
        /\ UNCHANGED <<call, sig>>
  /\ UNCHANGED <<device, env>>

PollWoken(p) ==
  /\ pc[p] = "p_sleep"
  /\ \/ /\ sig[p]
        /\ inq' = inq \ {p} /\ outq' = outq \ {p} /\ flushed' = flushed \ {p}
        /\ Return(p)
     \/ /\ ~sig[p]
        /\ p \notin inq \/ p \notin outq
        /\ Goto(p, "p_down")
        /\ UNCHANGED <<queues, call, sig>>
  /\ UNCHANGED <<sem, device, env>>

-----------------------------------------------------------------------------
(* fcntl(F_SETFL, FASYNC) *)
SetAsync(p) ==
  /\ pc[p] = "open"
  /\ async_queue' \in {async_queue \cup {p}, async_queue \ {p}}
  /\ UNCHANGED <<sem, device, queues, scull_p_buffer, pc, file, call, sig>>

(* ioctl(SCULL_P_IOCTSIZE), on this or on any other scull device *)
SetSize(p) ==
  /\ pc[p] \in {"closed", "open"}
  /\ scull_p_buffer' \in Sizes
  /\ UNCHANGED <<sem, device, queues, async_queue, pc, file, call, sig>>

(* another process sends p a signal *)
Signal(p) ==
  /\ pc[p] \in InKernel
  /\ sig' = [sig EXCEPT ![p] = TRUE]
  /\ UNCHANGED <<sem, device, queues, env, pc, call>>

-----------------------------------------------------------------------------
\* The calls a user makes, at any moment or never.
Begin(p) == \/ BeginOpen(p) \/ BeginRelease(p) \/ BeginRead(p) \/ BeginWrite(p)
            \/ BeginPoll(p) \/ SetAsync(p) \/ SetSize(p) \/ Signal(p)

\* What the kernel then does on its own.
OpenStep(p) == OpenDown(p) \/ OpenAlloc(p) \/ OpenNoMem(p) \/ OpenReset(p)
ReleaseStep(p) == ReleaseDown(p) \/ Release(p)
ReadStep(p) == \/ ReadDown(p) \/ ReadEmpty(p) \/ ReadPrepare(p) \/ ReadTest(p)
               \/ ReadWoken(p) \/ ReadCopy(p) \/ ReadAdvance(p) \/ ReadWrap(p)
               \/ ReadWake(p)
WriteStep(p) == \/ WriteDown(p) \/ WriteFull(p) \/ WritePrepare(p)
                \/ WriteTest(p) \/ WriteWoken(p) \/ WriteFinish(p)
                \/ WriteCopy(p) \/ WriteAdvance(p) \/ WriteWrap(p)
                \/ WriteWake(p) \/ WriteFasync(p)
PollStep(p) == PollDown(p) \/ Poll(p) \/ PollWoken(p)
Step(p) == \/ Interrupted(p) \/ OpenStep(p) \/ ReleaseStep(p)
           \/ ReadStep(p) \/ WriteStep(p) \/ PollStep(p)

Next == \E p \in Procs : Begin(p) \/ Step(p)

Spec == Init /\ [][Next]_vars

\* A process inside the kernel keeps running whenever it can.
FairSpec == Spec /\ \A p \in Procs : WF_vars(Step(p))
-----------------------------------------------------------------------------
(* Properties *)

\* The types; in particular the semaphore never counts above one.
TypeOK ==
  /\ sem \in {0, 1}
  /\ alloc \in Sizes \cup {0}
  /\ buf \in [0 .. alloc - 1 -> Byte]
  /\ buffersize \in Sizes \cup {0}
  /\ rp \in Nat /\ wp \in Nat
  /\ nreaders \in Int /\ nwriters \in Int
  /\ inq \subseteq Procs /\ outq \subseteq Procs
  /\ async_queue \subseteq Procs /\ flushed \subseteq Procs
  /\ scull_p_buffer \in Sizes
  /\ pc \in [Procs -> PCs]
  /\ mode \in [Procs -> SUBSET {"R", "W"}]
  /\ nonblock \in [Procs -> BOOLEAN]
  /\ count \in [Procs -> Nat]
  /\ user \in [Procs -> Seq(Byte)]
  /\ sig \in [Procs -> BOOLEAN]

\* Every path out of a call gives the semaphore back exactly once, and at most
\* one process is between down() and up().
MutualExclusion ==
  /\ sem = 0 <=> \E p \in Procs : pc[p] \in InCritical
  /\ \A p, q \in Procs : pc[p] \in InCritical /\ pc[q] \in InCritical => p = q

\* The pointers stay inside the buffer whenever the semaphore is free, and a
\* transfer under way neither overtakes the other pointer nor passes the end.
PointersInBuffer ==
  /\ sem = 1 /\ buffersize > 0 => rp < buffersize /\ wp < buffersize
  /\ \A p \in Procs :
       /\ pc[p] = "r_adv" => /\ rp + count[p] <= buffersize
                             /\ wp > rp => rp + count[p] <= wp
       /\ pc[p] = "w_adv" => /\ wp + count[p] <= buffersize
                             /\ count[p] <= spacefree

HasFile(p) == pc[p] \notin {"closed", "o_down", "o_alloc", "o_reset"}

\* The buffer exists while a file can reach it, and is gone after the last close.
BufferLifetime ==
  /\ \A p \in Procs : HasFile(p) /\ mode[p] # {} => alloc # 0
  /\ (\A p \in Procs : pc[p] = "closed") => alloc = 0

Moving == \E p \in Procs : pc[p] \in {"r_wrap", "w_wrap"}

\* A reader (or a poller waiting for data) sleeps on although there is data
\* only while the writer that brought it has its wake-up still to do.
NoLostReaderWakeup ==
  (\E p \in inq : \/ pc[p] = "r_sleep"
                  \/ pc[p] = "p_sleep" /\ p \in outq /\ "R" \in mode[p])
  /\ rp # wp /\ ~Moving
  => \E q \in Procs : pc[q] = "w_wake"

\* The same for writers and space, except for those an open left behind.
NoLostWriterWakeup ==
  (\E p \in outq \ flushed : \/ pc[p] = "w_sleep"
                             \/ pc[p] = "p_sleep" /\ p \in inq /\ "W" \in mode[p])
  /\ spacefree # 0 /\ ~Moving
  => \E q \in Procs : pc[q] = "r_wake"

\* "Wait for space for writing" (line 157): a writer sleeps only for want of space.
WriterSleepsOnlyWhenFull ==
  (\E p \in outq : pc[p] = "w_sleep") /\ spacefree # 0 /\ ~Moving
  => \E q \in Procs : pc[q] = "r_wake"

\* A semaphore taken is a semaphore given back.
SemReleased == sem = 0 ~> sem = 1

\* Sleepers are woken when what they wait for arrives, unless it arrived by an
\* open; this needs every process in the kernel to keep running.
SleepersWoken ==
  \A p \in Procs :
    /\ pc[p] = "r_sleep" /\ rp # wp /\ ~Moving ~> pc[p] # "r_sleep"
    /\ pc[p] = "w_sleep" /\ p \notin flushed /\ spacefree # 0 /\ ~Moving
         ~> pc[p] # "w_sleep"

-----------------------------------------------------------------------------
(* The pipe implements the bounded FIFO of PipeFifo.  The queue is what lies *)
(* between rp and wp; a first open that has a block but has not yet set the  *)
(* pointers still shows those of the block that was freed.                   *)

Stale == \/ alloc = 0
         \/ nreaders + nwriters = 0 /\ \E p \in Procs : pc[p] = "o_reset"

Unread == IF Stale THEN <<>>
          ELSE [i \in 1 .. ((wp + buffersize - rp) % buffersize) |->
                  buf[(rp + i - 1) % buffersize]]

Fifo == INSTANCE PipeFifo WITH
          queue <- Unread,
          holders <- {p \in Procs : HasFile(p)},
          active <- {p \in Procs : HasFile(p) /\ mode[p] # {}},
          cap <- IF buffersize = 0 THEN 0 ELSE buffersize - 1,
          user <- [p \in Procs |-> IF pc[p] = "r_adv" THEN <<>> ELSE user[p]]

\* Bytes come out once, in the order they went in, and only an open or the last
\* close drops any.
FifoSpec == Fifo!Spec
=============================================================================
