----------------------------- MODULE ShortPrint -----------------------------
(***************************************************************************)
(* Book/shortprint/shortprint.c: the output side of the parallel printer   *)
(* driver.  Writers, one at a time under shortp_out_sem, fill a circular   *)
(* buffer; a work item on a single-threaded workqueue empties it, a byte   *)
(* per run.  The runs are set off by the writer that finds the output      *)
(* inactive, by the printer's interrupt after each byte, and by a timer    *)
(* in case an interrupt is lost.                                           *)
(*                                                                         *)
(* What runs under shortp_out_lock is one action.  Outside it stand the    *)
(* writer's look at the tail (two reads), the tests of the active flag by  *)
(* the interrupt and by the timer, and the waits.  A byte is the number,   *)
(* modulo Numbers, of its place in the stream of bytes accepted.           *)
(***************************************************************************)
EXTENDS Integers

CONSTANTS Procs,    \* processes
          PAGE_SIZE,
          Numbers,  \* bound: bytes are numbered modulo this
          Counts,   \* lengths asked for by write()
          Ack       \* what the ACK bit of a ready printer may be read as

ASSUME SizeAssumption == PAGE_SIZE \in Nat \ {0, 1} /\ Numbers \in Nat
                         /\ Numbers > PAGE_SIZE
ASSUME CountsAssumption == Counts \subseteq Nat \ {0} /\ Ack \subseteq BOOLEAN

VARIABLES
  shortp_out_sem,
  buffer, head, tail,    \* shortp_out_buffer, and offsets in it
  accepted, printed,     \* numbers of the next byte to be taken and strobed
  shortp_output_active,
  outq, emptyq,          \* processes queued and not yet woken
  timer,                 \* shortp_timer is pending
  handler,               \* where its function is
  work,                  \* shortp_work is queued
  worker,                \* where the workqueue's thread is
  irq,                   \* where the interrupt is
  printer,               \* "ready" or "busy"
  pc,
  left, space, wrapped   \* of the writer: count - written, space, and whether
                         \* it saw the head below the tail

ring   == <<buffer, head, tail, accepted, printed>>
queues == <<outq, emptyq>>
engine == <<shortp_output_active, timer, handler, work, worker, irq, printer>>
local  == <<left, space, wrapped>>
vars   == <<shortp_out_sem, ring, queues, engine, pc, local>>

SP_MIN_SPACE == PAGE_SIZE \div 2

Init ==
  /\ shortp_out_sem = 1
  /\ buffer = [i \in 0 .. PAGE_SIZE - 1 |-> 0] /\ head = 0 /\ tail = 0
  /\ accepted = 0 /\ printed = 0
  /\ shortp_output_active = FALSE
  /\ outq = {} /\ emptyq = {}
  /\ timer = FALSE /\ handler = "off" /\ work = FALSE /\ worker = "idle"
  /\ irq = "none" /\ printer = "ready"
  /\ pc = [p \in Procs |-> "user"]
  /\ left = 0 /\ space = 0 /\ wrapped = FALSE

Goto(p, from, to) == pc[p] = from /\ pc' = [pc EXCEPT ![p] = to]

incr_out_bp(bp, incr) == (bp + incr) % PAGE_SIZE

-----------------------------------------------------------------------------
(* shortp_write *)

BeginWrite(p) == /\ Goto(p, "user", "w_down")
                 /\ UNCHANGED <<shortp_out_sem, ring, queues, engine, local>>

WriteDown(p) ==
  /\ Goto(p, "w_down", "w_space")
  /\ shortp_out_sem = 1 /\ shortp_out_sem' = 0
  /\ left' \in Counts
  /\ UNCHANGED <<ring, queues, engine, space, wrapped>>

\* -ERESTARTSYS while waiting for the semaphore.
WriteInterrupted(p) == /\ Goto(p, "w_down", "user")
                       /\ UNCHANGED <<shortp_out_sem, ring, queues, engine, local>>

\* shortp_out_space, the comparison ...
Compare == wrapped' = (head < tail) /\ UNCHANGED <<left, space>>

\* Mutant of Contiguous: the byte that tells full from empty is given away.
Contiguous_All == IF wrapped THEN tail - head - 1 ELSE PAGE_SIZE - head
\* ... and what is computed from a tail that may have moved since.
Contiguous == IF wrapped THEN tail - head - 1
              ELSE IF tail = 0 THEN PAGE_SIZE - head - 1 ELSE PAGE_SIZE - head

\* Asked once by the loop, and by wait_event_interruptible before it queues.
WriteCompare(p) == /\ Goto(p, "w_space", "w_space2") \/ Goto(p, "w_first", "w_first2")
                   /\ Compare
                   /\ UNCHANGED <<shortp_out_sem, ring, queues, engine>>

WriteSpace(p) ==
  /\ space' = Contiguous
  /\ \/ space' > 0 /\ (Goto(p, "w_space2", "w_move") \/ Goto(p, "w_first2", "w_move"))
     \/ space' <= 0 /\ (Goto(p, "w_space2", "w_first") \/ Goto(p, "w_first2", "w_prep"))
  /\ UNCHANGED <<shortp_out_sem, ring, queues, engine, left, wrapped>>

\* The rest of wait_event_interruptible(shortp_out_queue, ...).
WritePrepare(p) == /\ Goto(p, "w_prep", "w_test")
                   /\ outq' = outq \cup {p}
                   /\ UNCHANGED <<shortp_out_sem, ring, emptyq, engine, local>>

WriteTest(p) == /\ Goto(p, "w_test", "w_test2")
                /\ Compare
                /\ UNCHANGED <<shortp_out_sem, ring, queues, engine>>

\* Leaves the call and gives the semaphore up.
Finish(p, from) == /\ Goto(p, from, "user")
                   /\ shortp_out_sem' = 1
                   /\ left' = 0 /\ space' = 0 /\ wrapped' = FALSE

WriteTest2(p) ==
  /\ \/ /\ Contiguous > 0
        /\ space' = Contiguous
        /\ Goto(p, "w_test2", "w_move")
        /\ outq' = outq \ {p}
        /\ UNCHANGED <<shortp_out_sem, left, wrapped>>
     \/ /\ Contiguous <= 0
        /\ Goto(p, "w_test2", "w_sleep")
        /\ UNCHANGED <<shortp_out_sem, outq, local>>
     \/ /\ Contiguous <= 0   \* a signal is pending
        /\ Finish(p, "w_test2")
        /\ outq' = outq \ {p}
  /\ UNCHANGED <<ring, emptyq, engine>>

\* Woken, or a signal.
WriteWoken(p) == /\ p \notin outq
                 /\ Goto(p, "w_sleep", "w_prep")
                 /\ UNCHANGED <<shortp_out_sem, ring, queues, engine, local>>
WriteSignal(p) == /\ Goto(p, "w_sleep", "w_prep")
                  /\ UNCHANGED <<shortp_out_sem, ring, queues, engine, local>>

Lesser(a, b) == IF a <= b THEN a ELSE b

\* copy_from_user, which may fail, and the new head.
WriteMove(p) ==
  /\ LET n == Lesser(space, left) IN
     \/ /\ Goto(p, "w_move", "w_start")
        /\ buffer' = [i \in DOMAIN buffer |->
                        IF i \in head .. head + n - 1
                        THEN (accepted + i - head) % Numbers ELSE buffer[i]]
        /\ head' = incr_out_bp(head, n)
        /\ accepted' = (accepted + n) % Numbers
        /\ left' = left - n
        /\ UNCHANGED <<shortp_out_sem, space, wrapped>>
     \/ Finish(p, "w_move") /\ UNCHANGED <<buffer, head, accepted>>
  /\ UNCHANGED <<tail, printed, queues, engine>>

start_output == /\ shortp_output_active' = TRUE
                /\ timer' = TRUE
                /\ work' = TRUE

WriteStart(p) ==
  /\ \/ shortp_output_active /\ UNCHANGED <<shortp_output_active, timer, work>>
     \/ ~shortp_output_active /\ start_output
  /\ \/ left > 0 /\ Goto(p, "w_start", "w_space") /\ UNCHANGED <<shortp_out_sem, local>>
     \/ left = 0 /\ Finish(p, "w_start")
  /\ UNCHANGED <<ring, queues, handler, worker, irq, printer>>

-----------------------------------------------------------------------------
(* shortp_release: waits for the output to become inactive *)

ReleasePrepare(p) == /\ \/ Goto(p, "user", "c_test")
                        \/ Goto(p, "c_prep", "c_test")
                     /\ emptyq' = emptyq \cup {p}
                     /\ UNCHANGED <<shortp_out_sem, ring, outq, engine, local>>

ReleaseTest(p) ==
  /\ \/ ~shortp_output_active /\ Goto(p, "c_test", "user") /\ emptyq' = emptyq \ {p}
     \/ shortp_output_active /\ Goto(p, "c_test", "user") /\ emptyq' = emptyq \ {p}
     \/ shortp_output_active /\ Goto(p, "c_test", "c_sleep") /\ UNCHANGED emptyq
  /\ UNCHANGED <<shortp_out_sem, ring, outq, engine, local>>

ReleaseWoken(p) == /\ p \notin emptyq
                   /\ Goto(p, "c_sleep", "c_prep")
                   /\ UNCHANGED <<shortp_out_sem, ring, queues, engine, local>>
ReleaseSignal(p) == /\ Goto(p, "c_sleep", "c_prep")
                    /\ UNCHANGED <<shortp_out_sem, ring, queues, engine, local>>

-----------------------------------------------------------------------------
(* shortp_do_work *)

\* The thread takes the item off the queue before it runs it, so the item may
\* be queued again meanwhile.
WorkBegin ==
  /\ work /\ worker = "idle"
  /\ work' = FALSE /\ worker' = "wait"
  /\ UNCHANGED <<shortp_out_sem, ring, queues, shortp_output_active, timer, handler, irq,
                 printer, pc, local>>

\* Mutant of Ready: shortp_wait does not wait.
Ready_Always == TRUE
Ready == printer = "ready"

\* shortp_wait
WorkWait ==
  /\ worker = "wait" /\ Ready
  /\ worker' = "lock"
  /\ UNCHANGED <<shortp_out_sem, ring, queues, shortp_output_active, timer, handler, work, irq,
                 printer, pc, local>>

\* Mutant of Wake: the space is computed the wrong way round.
Wake_Swapped == IF (PAGE_SIZE + head - tail') % PAGE_SIZE > SP_MIN_SPACE + 1
                THEN outq' = {} ELSE UNCHANGED outq
Wake == IF (PAGE_SIZE + tail' - head) % PAGE_SIZE > SP_MIN_SPACE
        THEN outq' = {} ELSE UNCHANGED outq

\* Nothing left: the output stops.
WorkEmpty ==
  /\ worker = "lock" /\ head = tail
  /\ shortp_output_active' = FALSE
  /\ emptyq' = {}
  /\ timer' = FALSE
  /\ tail' = tail /\ Wake
  /\ worker' = "idle"
  /\ UNCHANGED <<shortp_out_sem, buffer, head, accepted, printed, handler, work, irq, printer,
                 pc, local>>

\* Mutant of do_write: the timer is not set anew.
do_write_NoTimer == /\ UNCHANGED timer
                    /\ tail' = incr_out_bp(tail, 1)
                    /\ printed' = (printed + 1) % Numbers
                    /\ printer' = "busy"
\* shortp_do_write: the timer is set anew and a byte strobed out.
do_write == /\ timer' = TRUE
            /\ tail' = incr_out_bp(tail, 1)
            /\ printed' = (printed + 1) % Numbers
            /\ printer' = "busy"

WorkByte ==
  /\ worker = "lock" /\ head # tail
  /\ do_write /\ Wake
  /\ worker' = "idle"
  /\ UNCHANGED <<shortp_out_sem, buffer, head, accepted, emptyq, shortp_output_active, handler,
                 work, irq, pc, local>>

-----------------------------------------------------------------------------
(* The printer, shortp_interrupt and shortp_timeout *)

Quiet == UNCHANGED <<shortp_out_sem, ring, queues, pc, local>>

\* The printer has taken the byte.  Its interrupt may get lost.
PrinterDone == /\ printer = "busy" /\ printer' = "ready"
               /\ \/ irq = "none" /\ irq' = "raised"
                  \/ UNCHANGED irq
               /\ UNCHANGED <<shortp_output_active, timer, handler, work, worker>> /\ Quiet

\* shortp_interrupt tests the flag ...
Interrupt == /\ irq = "raised"
             /\ irq' = IF shortp_output_active THEN "queue" ELSE "none"
             /\ UNCHANGED <<shortp_output_active, timer, handler, work, worker, printer>> /\ Quiet
\* ... and then queues the work, which changes nothing if it is queued.
InterruptQueue == /\ irq = "queue" /\ irq' = "none"
                  /\ work' = TRUE
                  /\ UNCHANGED <<shortp_output_active, timer, handler, worker, printer>> /\ Quiet

TimerFires == /\ timer /\ handler = "off"
              /\ timer' = FALSE /\ handler' = "test"
              /\ UNCHANGED <<shortp_output_active, work, worker, irq, printer>> /\ Quiet

TimeoutTest == /\ handler = "test"
               /\ handler' = IF shortp_output_active THEN "lock" ELSE "off"
               /\ UNCHANGED <<shortp_output_active, timer, work, worker, irq, printer>> /\ Quiet

\* The printer is at work, or so it seems: the timer is added again.
TimeoutReset == /\ handler = "lock"
                /\ printer = "busy" \/ TRUE \in Ack
                /\ timer' = TRUE /\ handler' = "off"
                /\ UNCHANGED <<shortp_output_active, work, worker, irq, printer>> /\ Quiet

\* Mutant of TimeoutDropped: gives up.
TimeoutDropped_No ==
  /\ handler = "lock"
  /\ printer = "ready" /\ FALSE \in Ack
  /\ handler' = "off"
  /\ UNCHANGED <<shortp_output_active, timer, work, worker, irq, printer>> /\ Quiet

\* An interrupt must have been dropped: shortp_interrupt is called.
TimeoutDropped ==
  /\ handler = "lock"
  /\ printer = "ready" /\ FALSE \in Ack
  /\ handler' = "irq"
  /\ UNCHANGED <<shortp_output_active, timer, work, worker, irq, printer>> /\ Quiet

TimeoutInterrupt == /\ handler = "irq"
                    /\ handler' = IF shortp_output_active THEN "queue" ELSE "off"
                    /\ UNCHANGED <<shortp_output_active, timer, work, worker, irq, printer>> /\ Quiet
TimeoutQueue == /\ handler = "queue" /\ handler' = "off"
                /\ work' = TRUE
                /\ UNCHANGED <<shortp_output_active, timer, worker, irq, printer>> /\ Quiet

\* The steps of a process in the kernel; it enters, and is sent signals, as it
\* may.
Inside(p) ==
  \/ WriteDown(p) \/ WriteCompare(p) \/ WriteSpace(p) \/ WritePrepare(p)
  \/ WriteTest(p) \/ WriteTest2(p) \/ WriteWoken(p) \/ WriteMove(p) \/ WriteStart(p)
  \/ ReleaseTest(p) \/ ReleaseWoken(p)

Worker  == WorkBegin \/ WorkWait \/ WorkEmpty \/ WorkByte
Timeout == TimeoutTest \/ TimeoutReset \/ TimeoutDropped \/ TimeoutInterrupt \/ TimeoutQueue

Next ==
  \/ \E p \in Procs : Inside(p) \/ BeginWrite(p) \/ WriteInterrupted(p) \/ WriteSignal(p)
                      \/ ReleasePrepare(p) \/ ReleaseSignal(p)
  \/ Worker \/ PrinterDone \/ Interrupt \/ InterruptQueue \/ TimerFires \/ Timeout

Spec == Init /\ [][Next]_vars

\* The workqueue's thread and the interrupt handlers run, timers that stay
\* pending fire, a printer is not busy for ever, and it does not show ACK at
\* every timeout while it is ready; processes run in the kernel when they are
\* not asleep.  Nothing is assumed of the interrupt of a byte, which may be lost
\* each time.
FairSpec == Spec /\ WF_vars(Worker) /\ WF_vars(PrinterDone)
                 /\ WF_vars(Interrupt \/ InterruptQueue)
                 /\ WF_vars(TimerFires) /\ WF_vars(Timeout) /\ SF_vars(TimeoutDropped)
                 /\ \A p \in Procs : WF_vars(Inside(p))

-----------------------------------------------------------------------------
(* Properties *)

\* Where a process is between down and up, and where it may be at all.
Writing == {"w_space", "w_space2", "w_first", "w_first2", "w_prep", "w_test", "w_test2",
            "w_sleep", "w_move", "w_start"}
PCs == Writing \cup {"user", "w_down", "c_prep", "c_test", "c_sleep"}

\* The types of the driver's variables; in particular every pointer that is
\* stored lies in the page.
TypeOK ==
  /\ shortp_out_sem \in {0, 1}
  /\ pc \in [Procs -> PCs]
  /\ buffer \in [0 .. PAGE_SIZE - 1 -> 0 .. Numbers - 1]
  /\ head \in 0 .. PAGE_SIZE - 1 /\ tail \in 0 .. PAGE_SIZE - 1
  /\ accepted \in 0 .. Numbers - 1 /\ printed \in 0 .. Numbers - 1
  /\ shortp_output_active \in BOOLEAN /\ timer \in BOOLEAN /\ work \in BOOLEAN
  /\ outq \subseteq Procs /\ emptyq \subseteq Procs
  /\ handler \in {"off", "test", "lock", "irq", "queue"}
  /\ worker \in {"idle", "wait", "lock"}
  /\ irq \in {"none", "raised", "queue"} /\ printer \in {"ready", "busy"}
  /\ left \in Nat /\ space \in Int /\ wrapped \in BOOLEAN

Used == (PAGE_SIZE + head - tail) % PAGE_SIZE

\* The printer gets the bytes of shortp_write in the order in which they were
\* accepted, each of them once: the buffer always holds exactly those between
\* the next byte to be printed and the next to be accepted.
InOrder ==
  /\ \A i \in 0 .. Used - 1 : buffer[(tail + i) % PAGE_SIZE] = (printed + i) % Numbers
  /\ (printed + Used) % Numbers = accepted

\* A byte is strobed out only to a printer that is ready for it, though work
\* is queued by interrupts, the timer and writers independently.
NeverStrobesBusy == [][printed' # printed => printer = "ready"]_vars

\* The output never stalls: while it is active, a run of the work is queued or
\* in progress or the timer will see to one, whatever interrupts are lost; and
\* bytes are left in the buffer of an inactive output only until the writer
\* that put them there has made it active.
NeverStalls ==
  /\ shortp_output_active => work \/ worker # "idle" \/ timer \/ handler # "off"
  /\ Used > 0 /\ ~shortp_output_active => \E p \in Procs : pc[p] = "w_start"

\* While there are bytes to print, a writer that nobody has woken sleeps only
\* if no more than SP_MIN_SPACE bytes of the buffer are free.
SleepsWhileFull ==
  \A p \in outq : pc[p] = "w_sleep" /\ Used > 0 => PAGE_SIZE - Used <= SP_MIN_SPACE

\* "The wait queue will be awakened when space becomes available in the
\* buffer", says the comment on shortp_out_queue: no writer sleeps, unwoken,
\* when the buffer is empty and the output has stopped.
AwakenedBySpace ==
  \A p \in outq : pc[p] = "w_sleep" => Used > 0 \/ shortp_output_active

\* Every byte accepted is printed in the end, also when every interrupt is lost:
\* the buffer is emptied again and again, or bytes are printed for ever, which
\* InOrder says are the oldest.
EveryBytePrinted == []<>(Used = 0) \/ []<><<printed' # printed>>_vars
=============================================================================
