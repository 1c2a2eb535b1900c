-------------------------- MODULE ShortPrintProofs --------------------------
(***************************************************************************)
(* Proofs about ShortPrint, for any processes, page size, lengths and      *)
(* readings of the printer's status.                                       *)
(***************************************************************************)
EXTENDS ShortPrint, TLAPS

\* At most one process is past down(), and the semaphore is 0 exactly then.
OneWriter ==
  /\ \A p, q \in Procs : pc[p] \in Writing /\ pc[q] \in Writing => p = q
  /\ shortp_out_sem = 0 <=> \E p \in Procs : pc[p] \in Writing

IInv == TypeOK /\ OneWriter /\ NeverStalls

\* The number of bytes in the buffer, without the modulo.
LEMMA UsedIs ==
  ASSUME NEW h \in 0 .. PAGE_SIZE - 1, NEW t \in 0 .. PAGE_SIZE - 1
  PROVE  (PAGE_SIZE + h - t) % PAGE_SIZE = IF t <= h THEN h - t ELSE PAGE_SIZE + h - t
  BY SizeAssumption

\* A pointer is moved to a place in the page.
LEMMA PointerInPage ==
  ASSUME NEW b \in 0 .. PAGE_SIZE - 1, NEW n \in Int
  PROVE  incr_out_bp(b, n) \in 0 .. PAGE_SIZE - 1
  BY SizeAssumption DEF incr_out_bp

LEMMA NumberInRange ==
  ASSUME NEW n \in Int
  PROVE  n % Numbers \in 0 .. Numbers - 1
  BY SizeAssumption

LEMMA InitIInv == Init => IInv
<1> SUFFICES ASSUME Init PROVE IInv
  OBVIOUS
<1>1. TypeOK
  <2>1. buffer \in [0 .. PAGE_SIZE - 1 -> 0 .. Numbers - 1]
    BY SizeAssumption DEF Init
  <2>2. 0 \in 0 .. PAGE_SIZE - 1 /\ 0 \in 0 .. Numbers - 1
    BY SizeAssumption
  <2>3. pc \in [Procs -> PCs]
    BY DEF Init, PCs
  <2>4. /\ shortp_output_active \in BOOLEAN /\ timer \in BOOLEAN /\ work \in BOOLEAN
        /\ wrapped \in BOOLEAN
    BY DEF Init
  <2>5. /\ shortp_out_sem \in {0, 1} /\ left \in Nat /\ space \in Int
        /\ outq \subseteq Procs /\ emptyq \subseteq Procs
    BY DEF Init
  <2>6. /\ head \in 0 .. PAGE_SIZE - 1 /\ tail \in 0 .. PAGE_SIZE - 1
        /\ accepted \in 0 .. Numbers - 1 /\ printed \in 0 .. Numbers - 1
    BY <2>2 DEF Init
  <2>7. /\ handler \in {"off", "test", "lock", "irq", "queue"}
        /\ worker \in {"idle", "wait", "lock"}
        /\ irq \in {"none", "raised", "queue"} /\ printer \in {"ready", "busy"}
    BY DEF Init
  <2>. QED  BY <2>1, <2>3, <2>4, <2>5, <2>6, <2>7 DEF TypeOK
<1>2. OneWriter
  BY DEF Init, OneWriter, Writing
<1>3. NeverStalls
  BY SizeAssumption, UsedIs DEF Init, NeverStalls, Used
<1>. QED  BY <1>1, <1>2, <1>3 DEF IInv

-----------------------------------------------------------------------------
(* The types *)

LEMMA SpaceIsInt == ASSUME TypeOK PROVE Contiguous \in Int
  BY SizeAssumption DEF TypeOK, Contiguous

LEMMA FinishTypes ==
  ASSUME NEW p, NEW from, Finish(p, from)
  PROVE  shortp_out_sem' \in {0, 1} /\ left' \in Nat /\ space' \in Int /\ wrapped' \in BOOLEAN
<1>1. shortp_out_sem' = 1 /\ left' = 0 /\ space' = 0
  BY DEF Finish
<1>2. wrapped' = FALSE
  BY Zenon DEF Finish
<1>3. wrapped' \in BOOLEAN
  BY <1>2, Zenon
<1>. QED  BY <1>1, <1>3

LEMMA ProcessKeepsTypes ==
  ASSUME TypeOK, NEW p \in Procs,
         Inside(p) \/ BeginWrite(p) \/ WriteInterrupted(p) \/ WriteSignal(p)
           \/ ReleasePrepare(p) \/ ReleaseSignal(p)
  PROVE  TypeOK'
<1>1. CASE WriteDown(p)
  BY <1>1, CountsAssumption
     DEF WriteDown, TypeOK, PCs, Writing, Goto, ring, queues, engine, local
<1>2. CASE WriteCompare(p)
  BY <1>2
     DEF WriteCompare, TypeOK, PCs, Writing, Goto, ring, queues, engine, local, Compare
<1>3. CASE WriteSpace(p)
  BY <1>3, SpaceIsInt
     DEF WriteSpace, TypeOK, PCs, Writing, Goto, ring, queues, engine, local, Contiguous
<1>4. CASE WritePrepare(p)
  BY <1>4
     DEF WritePrepare, TypeOK, PCs, Writing, Goto, ring, queues, engine, local
<1>5. CASE WriteTest(p)
  BY <1>5
     DEF WriteTest, TypeOK, PCs, Writing, Goto, ring, queues, engine, local, Compare
<1>6. CASE WriteTest2(p)
  <2>1. pc' \in [Procs -> PCs]
    BY <1>6 DEF WriteTest2, TypeOK, PCs, Writing, Goto, Finish
  <2>2. left' \in Nat /\ space' \in Int /\ wrapped' \in BOOLEAN
    <3>1. CASE space' = Contiguous /\ UNCHANGED <<left, wrapped>>
      BY <3>1, SpaceIsInt DEF TypeOK
    <3>2. CASE UNCHANGED local
      BY <3>2 DEF TypeOK, local
    <3>3. CASE Finish(p, "w_test2")
      BY <3>3, FinishTypes
    <3>. QED  BY <1>6, <3>1, <3>2, <3>3 DEF WriteTest2
  <2>3. shortp_out_sem' \in {0, 1} /\ outq' \subseteq Procs
    BY <1>6 DEF WriteTest2, TypeOK, Finish
  <2>4. UNCHANGED <<ring, emptyq, engine>>
    BY <1>6 DEF WriteTest2
  <2>. QED  BY <2>1, <2>2, <2>3, <2>4 DEF TypeOK, ring, engine
<1>7. CASE WriteWoken(p)
  BY <1>7
     DEF WriteWoken, TypeOK, PCs, Writing, Goto, ring, queues, engine, local
<1>8. CASE WriteMove(p)
  <2>. DEFINE n == Lesser(space, left)
  <2>1. n \in Int /\ n <= left
    BY DEF TypeOK, Lesser
  <2>2. pc' \in [Procs -> PCs]
    BY <1>8 DEF WriteMove, TypeOK, PCs, Writing, Goto, Finish
  <2>3. UNCHANGED <<tail, printed, queues, engine>>
    BY <1>8 DEF WriteMove
  <2>4. CASE Finish(p, "w_move") /\ UNCHANGED <<buffer, head, accepted>>
    <3>1. left' \in Nat /\ space' \in Int /\ wrapped' \in BOOLEAN /\ shortp_out_sem' \in {0, 1}
      BY <2>4, FinishTypes
    <3>. QED  BY <2>2, <2>3, <2>4, <3>1 DEF TypeOK, queues, engine
  <2>5. CASE /\ buffer' = [i \in DOMAIN buffer |->
                            IF i \in head .. head + n - 1
                            THEN (accepted + i - head) % Numbers ELSE buffer[i]]
             /\ head' = incr_out_bp(head, n)
             /\ accepted' = (accepted + n) % Numbers
             /\ left' = left - n
             /\ UNCHANGED <<shortp_out_sem, space, wrapped>>
    <3>. HIDE DEF n
    <3>1. head' \in 0 .. PAGE_SIZE - 1
      BY <2>1, <2>5, PointerInPage DEF TypeOK
    <3>2. accepted' \in 0 .. Numbers - 1
      <4>1. accepted + n \in Int
        BY <2>1, SizeAssumption DEF TypeOK
      <4>. QED  BY <4>1, <2>5, NumberInRange
    <3>3. buffer' \in [0 .. PAGE_SIZE - 1 -> 0 .. Numbers - 1]
      <4>1. \A i \in 0 .. PAGE_SIZE - 1 : (accepted + i - head) % Numbers \in 0 .. Numbers - 1
        <5>1. \A i \in 0 .. PAGE_SIZE - 1 : accepted + i - head \in Int
          BY SizeAssumption DEF TypeOK
        <5>. QED  BY <5>1, NumberInRange
      <4>2. DOMAIN buffer = 0 .. PAGE_SIZE - 1
            /\ \A i \in 0 .. PAGE_SIZE - 1 : buffer[i] \in 0 .. Numbers - 1
        BY DEF TypeOK
      <4>. QED  BY <4>1, <4>2, <2>5
    <3>4. left' \in Nat
      BY <2>1, <2>5 DEF TypeOK
    <3>. QED  BY <2>2, <2>3, <2>5, <3>1, <3>2, <3>3, <3>4 DEF TypeOK, queues, engine
  <2>. QED  BY <1>8, <2>4, <2>5 DEF WriteMove
<1>9. CASE WriteStart(p)
  <2>1. pc' \in [Procs -> PCs]
    BY <1>9 DEF WriteStart, TypeOK, PCs, Writing, Goto, Finish
  <2>2. shortp_output_active' \in BOOLEAN /\ timer' \in BOOLEAN /\ work' \in BOOLEAN
    BY <1>9 DEF WriteStart, TypeOK, start_output
  <2>3. shortp_out_sem' \in {0, 1} /\ left' \in Nat /\ space' \in Int /\ wrapped' \in BOOLEAN
    <3>1. CASE UNCHANGED <<shortp_out_sem, local>>
      BY <3>1 DEF TypeOK, local
    <3>2. CASE Finish(p, "w_start")
      BY <3>2, FinishTypes
    <3>. QED  BY <1>9, <3>1, <3>2 DEF WriteStart
  <2>4. UNCHANGED <<ring, queues, handler, worker, irq, printer>>
    BY <1>9 DEF WriteStart
  <2>. QED  BY <2>1, <2>2, <2>3, <2>4 DEF TypeOK, ring, queues
<1>10. CASE ReleaseTest(p)
  BY <1>10
     DEF ReleaseTest, TypeOK, PCs, Writing, Goto, ring, queues, engine, local
<1>11. CASE ReleaseWoken(p)
  BY <1>11
     DEF ReleaseWoken, TypeOK, PCs, Writing, Goto, ring, queues, engine, local
<1>12. CASE BeginWrite(p)
  BY <1>12
     DEF BeginWrite, TypeOK, PCs, Writing, Goto, ring, queues, engine, local
<1>13. CASE WriteInterrupted(p)
  BY <1>13
     DEF WriteInterrupted, TypeOK, PCs, Writing, Goto, ring, queues, engine, local
<1>14. CASE WriteSignal(p)
  BY <1>14
     DEF WriteSignal, TypeOK, PCs, Writing, Goto, ring, queues, engine, local
<1>15. CASE ReleasePrepare(p)
  BY <1>15
     DEF ReleasePrepare, TypeOK, PCs, Writing, Goto, ring, queues, engine, local
<1>16. CASE ReleaseSignal(p)
  BY <1>16
     DEF ReleaseSignal, TypeOK, PCs, Writing, Goto, ring, queues, engine, local
<1>. QED  BY <1>1, <1>2, <1>3, <1>4, <1>5, <1>6, <1>7, <1>8, <1>9, <1>10, <1>11, <1>12, <1>13, <1>14, <1>15, <1>16 DEF Inside

LEMMA DeviceKeepsTypes ==
  ASSUME TypeOK,
         Worker \/ PrinterDone \/ Interrupt \/ InterruptQueue \/ TimerFires \/ Timeout
  PROVE  TypeOK'
<1>1. CASE WorkBegin
  BY <1>1
     DEF WorkBegin, TypeOK, ring, queues, local
<1>2. CASE WorkWait
  BY <1>2
     DEF WorkWait, TypeOK, ring, queues, local
<1>3. CASE WorkEmpty
  BY <1>3
     DEF WorkEmpty, TypeOK, ring, queues, local, Wake
<1>4. CASE WorkByte
  <2>1. tail' \in 0 .. PAGE_SIZE - 1
    BY <1>4, PointerInPage DEF WorkByte, do_write, TypeOK
  <2>2. printed' \in 0 .. Numbers - 1
    <3>1. printed + 1 \in Int
      BY SizeAssumption DEF TypeOK
    <3>. QED  BY <1>4, <3>1, NumberInRange DEF WorkByte, do_write
  <2>3. outq' \subseteq Procs
    BY <1>4 DEF WorkByte, Wake, TypeOK
  <2>4. timer' = TRUE /\ worker' = "idle" /\ printer' = "busy"
    BY <1>4 DEF WorkByte, do_write
  <2>5. UNCHANGED <<shortp_out_sem, buffer, head, accepted, emptyq, shortp_output_active, handler,
                    work, irq, pc, local>>
    BY <1>4 DEF WorkByte
  <2>. QED  BY <2>1, <2>2, <2>3, <2>4, <2>5 DEF TypeOK, local
<1>5. CASE PrinterDone
  BY <1>5
     DEF PrinterDone, TypeOK, ring, queues, local, Quiet
<1>6. CASE Interrupt
  BY <1>6
     DEF Interrupt, TypeOK, ring, queues, local, Quiet
<1>7. CASE InterruptQueue
  BY <1>7
     DEF InterruptQueue, TypeOK, ring, queues, local, Quiet
<1>8. CASE TimerFires
  BY <1>8
     DEF TimerFires, TypeOK, ring, queues, local, Quiet
<1>9. CASE TimeoutTest
  BY <1>9
     DEF TimeoutTest, TypeOK, ring, queues, local, Quiet
<1>10. CASE TimeoutReset
  BY <1>10
     DEF TimeoutReset, TypeOK, ring, queues, local, Quiet
<1>11. CASE TimeoutDropped
  BY <1>11
     DEF TimeoutDropped, TypeOK, ring, queues, local, Quiet
<1>12. CASE TimeoutInterrupt
  BY <1>12
     DEF TimeoutInterrupt, TypeOK, ring, queues, local, Quiet
<1>13. CASE TimeoutQueue
  BY <1>13
     DEF TimeoutQueue, TypeOK, ring, queues, local, Quiet
<1>. QED  BY <1>1, <1>2, <1>3, <1>4, <1>5, <1>6, <1>7, <1>8, <1>9, <1>10, <1>11, <1>12, <1>13 DEF Worker, Timeout

-----------------------------------------------------------------------------
(* One writer at a time *)

LEMMA ProcessKeepsOne ==
  ASSUME TypeOK, OneWriter, NEW p \in Procs,
         Inside(p) \/ BeginWrite(p) \/ WriteInterrupted(p) \/ WriteSignal(p)
           \/ ReleasePrepare(p) \/ ReleaseSignal(p)
  PROVE  OneWriter'
<1>1. CASE WriteDown(p)
  BY <1>1
     DEF WriteDown, TypeOK, OneWriter, Writing, Goto
<1>2. CASE WriteCompare(p)
  BY <1>2
     DEF WriteCompare, TypeOK, OneWriter, Writing, Goto, Compare
<1>3. CASE WriteSpace(p)
  BY <1>3
     DEF WriteSpace, TypeOK, OneWriter, Writing, Goto, Contiguous
<1>4. CASE WritePrepare(p)
  BY <1>4
     DEF WritePrepare, TypeOK, OneWriter, Writing, Goto
<1>5. CASE WriteTest(p)
  BY <1>5
     DEF WriteTest, TypeOK, OneWriter, Writing, Goto, Compare
<1>6. CASE WriteTest2(p)
  BY <1>6
     DEF WriteTest2, TypeOK, OneWriter, Writing, Goto, Finish, Contiguous
<1>7. CASE WriteWoken(p)
  BY <1>7
     DEF WriteWoken, TypeOK, OneWriter, Writing, Goto
<1>8. CASE WriteMove(p)
  BY <1>8
     DEF WriteMove, TypeOK, OneWriter, Writing, Goto, Finish
<1>9. CASE WriteStart(p)
  BY <1>9
     DEF WriteStart, TypeOK, OneWriter, Writing, Goto, Finish, start_output
<1>10. CASE ReleaseTest(p)
  BY <1>10
     DEF ReleaseTest, TypeOK, OneWriter, Writing, Goto
<1>11. CASE ReleaseWoken(p)
  BY <1>11
     DEF ReleaseWoken, TypeOK, OneWriter, Writing, Goto
<1>12. CASE BeginWrite(p)
  BY <1>12
     DEF BeginWrite, TypeOK, OneWriter, Writing, Goto
<1>13. CASE WriteInterrupted(p)
  BY <1>13
     DEF WriteInterrupted, TypeOK, OneWriter, Writing, Goto
<1>14. CASE WriteSignal(p)
  BY <1>14
     DEF WriteSignal, TypeOK, OneWriter, Writing, Goto
<1>15. CASE ReleasePrepare(p)
  BY <1>15
     DEF ReleasePrepare, TypeOK, OneWriter, Writing, Goto
<1>16. CASE ReleaseSignal(p)
  BY <1>16
     DEF ReleaseSignal, TypeOK, OneWriter, Writing, Goto
<1>. QED  BY <1>1, <1>2, <1>3, <1>4, <1>5, <1>6, <1>7, <1>8, <1>9, <1>10, <1>11, <1>12, <1>13, <1>14, <1>15, <1>16 DEF Inside

LEMMA DeviceKeepsOne ==
  ASSUME OneWriter,
         Worker \/ PrinterDone \/ Interrupt \/ InterruptQueue \/ TimerFires \/ Timeout
  PROVE  OneWriter'
<1>1. UNCHANGED <<shortp_out_sem, pc>>
  BY DEF Worker, Timeout, Quiet, local, WorkBegin, WorkWait, WorkEmpty, WorkByte, PrinterDone, Interrupt, InterruptQueue, TimerFires, TimeoutTest, TimeoutReset, TimeoutDropped, TimeoutInterrupt, TimeoutQueue
<1>. QED  BY <1>1 DEF OneWriter

-----------------------------------------------------------------------------
(* The output does not stall *)

LEMMA ProcessKeepsGoing ==
  ASSUME TypeOK, NeverStalls, NEW p \in Procs,
         Inside(p) \/ BeginWrite(p) \/ WriteInterrupted(p) \/ WriteSignal(p)
           \/ ReleasePrepare(p) \/ ReleaseSignal(p)
  PROVE  NeverStalls'
<1>1. CASE WriteDown(p)
  BY <1>1
     DEF WriteDown, TypeOK, NeverStalls, Used, Goto, ring, queues, engine
<1>2. CASE WriteCompare(p)
  BY <1>2
     DEF WriteCompare, TypeOK, NeverStalls, Used, Goto, ring, queues, engine, Compare
<1>3. CASE WriteSpace(p)
  BY <1>3
     DEF WriteSpace, TypeOK, NeverStalls, Used, Goto, ring, queues, engine, Contiguous
<1>4. CASE WritePrepare(p)
  BY <1>4
     DEF WritePrepare, TypeOK, NeverStalls, Used, Goto, ring, queues, engine
<1>5. CASE WriteTest(p)
  BY <1>5
     DEF WriteTest, TypeOK, NeverStalls, Used, Goto, ring, queues, engine, Compare
<1>6. CASE WriteTest2(p)
  BY <1>6
     DEF WriteTest2, TypeOK, NeverStalls, Used, Goto, ring, queues, engine, Finish, Contiguous
<1>7. CASE WriteWoken(p)
  BY <1>7
     DEF WriteWoken, TypeOK, NeverStalls, Used, Goto, ring, queues, engine
<1>8. CASE WriteMove(p)
  BY <1>8
     DEF WriteMove, TypeOK, NeverStalls, Used, Goto, ring, queues, engine, Finish
<1>9. CASE WriteStart(p)
  BY <1>9
     DEF WriteStart, TypeOK, NeverStalls, Used, Goto, ring, queues, engine, Finish, start_output
<1>10. CASE ReleaseTest(p)
  BY <1>10
     DEF ReleaseTest, TypeOK, NeverStalls, Used, Goto, ring, queues, engine
<1>11. CASE ReleaseWoken(p)
  BY <1>11
     DEF ReleaseWoken, TypeOK, NeverStalls, Used, Goto, ring, queues, engine
<1>12. CASE BeginWrite(p)
  BY <1>12
     DEF BeginWrite, TypeOK, NeverStalls, Used, Goto, ring, queues, engine
<1>13. CASE WriteInterrupted(p)
  BY <1>13
     DEF WriteInterrupted, TypeOK, NeverStalls, Used, Goto, ring, queues, engine
<1>14. CASE WriteSignal(p)
  BY <1>14
     DEF WriteSignal, TypeOK, NeverStalls, Used, Goto, ring, queues, engine
<1>15. CASE ReleasePrepare(p)
  BY <1>15
     DEF ReleasePrepare, TypeOK, NeverStalls, Used, Goto, ring, queues, engine
<1>16. CASE ReleaseSignal(p)
  BY <1>16
     DEF ReleaseSignal, TypeOK, NeverStalls, Used, Goto, ring, queues, engine
<1>. QED  BY <1>1, <1>2, <1>3, <1>4, <1>5, <1>6, <1>7, <1>8, <1>9, <1>10, <1>11, <1>12, <1>13, <1>14, <1>15, <1>16 DEF Inside

LEMMA DeviceKeepsGoing ==
  ASSUME TypeOK, NeverStalls,
         Worker \/ PrinterDone \/ Interrupt \/ InterruptQueue \/ TimerFires \/ Timeout
  PROVE  NeverStalls'
<1>1. CASE WorkBegin
  BY <1>1
     DEF WorkBegin, TypeOK, NeverStalls, Used, ring
<1>2. CASE WorkWait
  BY <1>2
     DEF WorkWait, TypeOK, NeverStalls, Used, ring
<1>3. CASE WorkEmpty
  BY <1>3, UsedIs, SizeAssumption
     DEF WorkEmpty, TypeOK, NeverStalls, Used, ring, Wake
<1>4. CASE WorkByte
  <2>1. timer' = TRUE /\ UNCHANGED <<head, shortp_output_active, pc>>
    BY <1>4 DEF WorkByte, do_write
  <2>2. Used > 0
    <3>1. head # tail
      BY <1>4 DEF WorkByte
    <3>. QED  BY <3>1, UsedIs, SizeAssumption DEF TypeOK, Used
  <2>. QED  BY <2>1, <2>2 DEF NeverStalls
<1>5. CASE PrinterDone
  BY <1>5
     DEF PrinterDone, TypeOK, NeverStalls, Used, ring, Quiet
<1>6. CASE Interrupt
  BY <1>6
     DEF Interrupt, TypeOK, NeverStalls, Used, ring, Quiet
<1>7. CASE InterruptQueue
  BY <1>7
     DEF InterruptQueue, TypeOK, NeverStalls, Used, ring, Quiet
<1>8. CASE TimerFires
  BY <1>8
     DEF TimerFires, TypeOK, NeverStalls, Used, ring, Quiet
<1>9. CASE TimeoutTest
  BY <1>9
     DEF TimeoutTest, TypeOK, NeverStalls, Used, ring, Quiet
<1>10. CASE TimeoutReset
  BY <1>10
     DEF TimeoutReset, TypeOK, NeverStalls, Used, ring, Quiet
<1>11. CASE TimeoutDropped
  BY <1>11
     DEF TimeoutDropped, TypeOK, NeverStalls, Used, ring, Quiet
<1>12. CASE TimeoutInterrupt
  BY <1>12
     DEF TimeoutInterrupt, TypeOK, NeverStalls, Used, ring, Quiet
<1>13. CASE TimeoutQueue
  BY <1>13
     DEF TimeoutQueue, TypeOK, NeverStalls, Used, ring, Quiet
<1>. QED  BY <1>1, <1>2, <1>3, <1>4, <1>5, <1>6, <1>7, <1>8, <1>9, <1>10, <1>11, <1>12, <1>13 DEF Worker, Timeout

-----------------------------------------------------------------------------

LEMMA StepIInv == ASSUME IInv, [Next]_vars PROVE IInv'
<1>1. CASE UNCHANGED vars
  BY <1>1 DEF vars, ring, queues, engine, local, IInv, TypeOK, OneWriter, NeverStalls, Used
<1>2. ASSUME NEW p \in Procs,
             Inside(p) \/ BeginWrite(p) \/ WriteInterrupted(p) \/ WriteSignal(p)
               \/ ReleasePrepare(p) \/ ReleaseSignal(p)
      PROVE  IInv'
  BY <1>2, ProcessKeepsTypes, ProcessKeepsOne, ProcessKeepsGoing DEF IInv
<1>3. CASE Worker \/ PrinterDone \/ Interrupt \/ InterruptQueue \/ TimerFires \/ Timeout
  BY <1>3, DeviceKeepsTypes, DeviceKeepsOne, DeviceKeepsGoing DEF IInv
<1>. QED  BY <1>1, <1>2, <1>3 DEF Next

\* The three invariants together are inductive.
THEOREM PrintInductive == Spec => []IInv
<1>1. Init => IInv
  BY InitIInv
<1>2. IInv /\ [Next]_vars => IInv'
  BY StepIInv
<1>. QED  BY <1>1, <1>2, PTL DEF Spec

\* Every variable keeps its type; in particular shortp_out_head and
\* shortp_out_tail stay in the page, whatever lengths are written.
THEOREM PrintTypeCorrect == Spec => []TypeOK
<1>1. IInv => TypeOK
  BY DEF IInv
<1>. QED  BY <1>1, PrintInductive, PTL

\* The output never stalls: an active output has a run queued or in progress, or
\* a timer that will see to one, and bytes wait in front of an inactive output
\* only until their writer has started it.
THEOREM OutputGoesOn == Spec => []NeverStalls
<1>1. IInv => NeverStalls
  BY DEF IInv
<1>. QED  BY <1>1, PrintInductive, PTL

\* Writers take turns: one process at most is between down and up of
\* shortp_out_sem.
THEOREM WritersTakeTurns == Spec => []OneWriter
<1>1. IInv => OneWriter
  BY DEF IInv
<1>. QED  BY <1>1, PrintInductive, PTL

-----------------------------------------------------------------------------
(* The order of the bytes, the strobe and the writers who sleep.  A writer *)
(* computes its space from two reads of the tail, which the work item      *)
(* moves meanwhile; what it has computed stays a lower bound, because the  *)
(* tail moves towards the head only.                                       *)

\* The work item that is about to strobe has found the printer ready.
StrobeInv == worker = "lock" => printer = "ready"

\* A writer that saw the tail at or below the head is right about it until it
\* moves the head.
LookInv ==
  \A p \in Procs : pc[p] \in {"w_space2", "w_first2", "w_test2"} /\ ~wrapped => tail <= head

\* A writer that is about to copy has room for it in one piece.
Fits == /\ space > 0
        /\ space <= IF head < tail THEN tail - head - 1
                    ELSE IF tail = 0 THEN PAGE_SIZE - head - 1 ELSE PAGE_SIZE - head
FitInv == \A p \in Procs : pc[p] = "w_move" => Fits

\* A writer that nobody has woken, and whose view of the tail has become wrong since
\* it queued itself, has not had more than SP_MIN_SPACE bytes freed.
LapInv ==
  \A p \in outq : pc[p] = "w_test2" /\ wrapped /\ tail <= head /\ Used > 0
                    => PAGE_SIZE - Used <= SP_MIN_SPACE

RingInv == StrobeInv /\ LookInv /\ FitInv /\ LapInv /\ SleepsWhileFull /\ InOrder

-----------------------------------------------------------------------------
(* Arithmetic *)

\* Below twice the modulus, % is one subtraction at most.
LEMMA RingLap ==
  ASSUME NEW a \in 0 .. PAGE_SIZE - 1, NEW b \in 0 .. PAGE_SIZE
  PROVE  (a + b) % PAGE_SIZE = IF a + b < PAGE_SIZE THEN a + b ELSE a + b - PAGE_SIZE
BY SizeAssumption

LEMMA NumberLap ==
  ASSUME NEW a \in 0 .. Numbers - 1, NEW b \in 0 .. Numbers
  PROVE  (a + b) % Numbers = IF a + b < Numbers THEN a + b ELSE a + b - Numbers
BY SizeAssumption

LEMMA HalfPage == SP_MIN_SPACE \in Nat /\ SP_MIN_SPACE >= 1
BY SizeAssumption DEF SP_MIN_SPACE

LEMMA UsedNow ==
  ASSUME TypeOK
  PROVE  /\ Used = IF tail <= head THEN head - tail ELSE PAGE_SIZE + head - tail
         /\ Used \in 0 .. PAGE_SIZE - 1
         /\ PAGE_SIZE \in Nat /\ head \in Nat /\ tail \in Nat
         /\ head < PAGE_SIZE /\ tail < PAGE_SIZE
<1>1. head \in 0 .. PAGE_SIZE - 1 /\ tail \in 0 .. PAGE_SIZE - 1
  BY DEF TypeOK
<1>2. Used = IF tail <= head THEN head - tail ELSE PAGE_SIZE + head - tail
  BY <1>1, UsedIs DEF Used
<1>. QED  BY <1>1, <1>2, SizeAssumption

LEMMA RingSame == ASSUME UNCHANGED ring PROVE Used' = Used /\ InOrder' = InOrder
BY DEF ring, Used, InOrder

-----------------------------------------------------------------------------
(* The writer copies *)

\* The bytes that shortp_write adds continue the numbering of those in the buffer.
LEMMA MoveKeepsOrder ==
  ASSUME TypeOK, InOrder, Fits, NEW n \in Nat, n <= space, n <= PAGE_SIZE,
         buffer' = [i \in DOMAIN buffer |-> IF i \in head .. head + n - 1
                      THEN (accepted + i - head) % Numbers ELSE buffer[i]],
         head' = incr_out_bp(head, n),
         accepted' = (accepted + n) % Numbers,
         UNCHANGED <<tail, printed>>
  PROVE  InOrder'
<1>. DEFINE At(i)  == (tail + i) % PAGE_SIZE
            Num(i) == (printed + i) % Numbers
<1>0. /\ PAGE_SIZE \in Nat /\ Numbers \in Nat /\ PAGE_SIZE < Numbers
      /\ accepted \in Nat /\ accepted < Numbers /\ printed \in Nat /\ printed < Numbers
      /\ DOMAIN buffer = 0 .. PAGE_SIZE - 1 /\ space \in Int
  BY SizeAssumption DEF TypeOK
<1>1. /\ Used = IF tail <= head THEN head - tail ELSE PAGE_SIZE + head - tail
      /\ Used \in 0 .. PAGE_SIZE - 1
      /\ head \in Nat /\ tail \in Nat /\ head < PAGE_SIZE /\ tail < PAGE_SIZE
  BY UsedNow
<1>2. head' = IF head + n < PAGE_SIZE THEN head + n ELSE 0
  <2>1. head + n <= PAGE_SIZE
    BY <1>0, <1>1 DEF Fits
  <2>2. (head + n) % PAGE_SIZE = IF head + n < PAGE_SIZE THEN head + n ELSE head + n - PAGE_SIZE
    <3>1. head \in 0 .. PAGE_SIZE - 1 /\ n \in 0 .. PAGE_SIZE
      BY <1>0, <1>1
    <3>. QED  BY <3>1, RingLap
  <2>. QED  BY <2>1, <2>2, <1>0, <1>1 DEF incr_out_bp
<1>3. Used' = Used + n /\ Used' < PAGE_SIZE
  <2>1. Used' = IF tail <= head' THEN head' - tail ELSE PAGE_SIZE + head' - tail
    <3>1. head' \in 0 .. PAGE_SIZE - 1 /\ tail \in 0 .. PAGE_SIZE - 1
      BY <1>0, <1>1, <1>2
    <3>. QED  BY <3>1, UsedIs DEF Used
  <2>. QED  BY <2>1, <1>0, <1>1, <1>2 DEF Fits
<1>4. \A i \in 0 .. PAGE_SIZE - 1 :
        /\ At(i) = IF tail + i < PAGE_SIZE THEN tail + i ELSE tail + i - PAGE_SIZE
        /\ Num(i) = IF printed + i < Numbers THEN printed + i ELSE printed + i - Numbers
  <2>1. \A i \in 0 .. PAGE_SIZE - 1 : i \in 0 .. PAGE_SIZE /\ i \in 0 .. Numbers
    BY <1>0
  <2>2. tail \in 0 .. PAGE_SIZE - 1 /\ printed \in 0 .. Numbers - 1
    BY <1>0, <1>1
  <2>. QED  BY <2>1, <2>2, RingLap, NumberLap
<1>5. accepted = IF printed + Used < Numbers THEN printed + Used ELSE printed + Used - Numbers
  <2>1. Used \in 0 .. Numbers /\ printed \in 0 .. Numbers - 1
    BY <1>0, <1>1
  <2>2. (printed + Used) % Numbers
          = IF printed + Used < Numbers THEN printed + Used ELSE printed + Used - Numbers
    BY <2>1, NumberLap
  <2>. QED  BY <2>2 DEF InOrder
<1>. HIDE DEF At, Num
<1>6. ASSUME NEW i \in 0 .. Used' - 1
      PROVE  buffer'[At(i)] = Num(i)
  <2>0. i \in 0 .. PAGE_SIZE - 1 /\ i \in Nat
    BY <1>0, <1>1, <1>3
  <2>1. CASE i < Used
    <3>1. At(i) \in 0 .. PAGE_SIZE - 1 /\ At(i) \notin head .. head + n - 1
      BY <2>0, <2>1, <1>0, <1>1, <1>3, <1>4
    <3>2. buffer'[At(i)] = buffer[At(i)]
      BY <3>1, <1>0
    <3>3. i \in 0 .. Used - 1
      BY <2>0, <2>1, <1>1
    <3>. QED  BY <3>2, <3>3 DEF InOrder, At, Num
  <2>2. CASE i >= Used
    <3>1. At(i) = head + (i - Used) /\ i - Used < n /\ i - Used \in Nat
      <4>1. At(i) = IF tail + i < PAGE_SIZE THEN tail + i ELSE tail + i - PAGE_SIZE
        BY <2>0, <1>4
      <4>2. i - Used < n /\ i - Used \in Nat
        BY <2>0, <2>2, <1>0, <1>1, <1>3
      <4>3. head < tail => head + n < tail
        BY <1>0, <1>1 DEF Fits
      <4>4. tail <= head => head + n <= PAGE_SIZE
        BY <1>0, <1>1 DEF Fits
      <4>. QED  BY <4>1, <4>2, <4>3, <4>4, <2>0, <1>0, <1>1
    <3>2. At(i) \in 0 .. PAGE_SIZE - 1 /\ At(i) \in head .. head + n - 1
      BY <3>1, <2>0, <1>0, <1>1, <1>4
    <3>3. buffer'[At(i)] = (accepted + At(i) - head) % Numbers
      BY <3>2, <1>0
    <3>4. accepted + At(i) - head = accepted + (i - Used)
      BY <3>1, <2>0, <1>0, <1>1
    <3>5. (accepted + (i - Used)) % Numbers
            = IF accepted + (i - Used) < Numbers THEN accepted + (i - Used)
              ELSE accepted + (i - Used) - Numbers
      <4>1. i - Used \in 0 .. Numbers /\ accepted \in 0 .. Numbers - 1
        BY <3>1, <2>0, <1>0, <1>1
      <4>. QED  BY <4>1, NumberLap
    <3>6. (accepted + (i - Used)) % Numbers = Num(i)
      <4>1. Num(i) = IF printed + i < Numbers THEN printed + i ELSE printed + i - Numbers
        BY <2>0, <1>4
      <4>. QED  BY <4>1, <3>1, <3>5, <1>5, <2>0, <2>2, <1>0, <1>1
    <3>. QED  BY <3>3, <3>4, <3>6
  <2>. QED  BY <2>0, <2>1, <2>2, <1>1
<1>7. (printed + Used') % Numbers = accepted'
  <2>1. (printed + Used') % Numbers
          = IF printed + Used' < Numbers THEN printed + Used' ELSE printed + Used' - Numbers
    <3>1. Used' \in 0 .. Numbers /\ printed \in 0 .. Numbers - 1
      BY <1>0, <1>1, <1>3
    <3>. QED  BY <3>1, NumberLap
  <2>2. accepted' = IF accepted + n < Numbers THEN accepted + n ELSE accepted + n - Numbers
    <3>1. n \in 0 .. Numbers /\ accepted \in 0 .. Numbers - 1
      BY <1>0
    <3>. QED  BY <3>1, NumberLap
  <2>. QED  BY <2>1, <2>2, <1>0, <1>1, <1>3, <1>5
<1>. QED  BY <1>6, <1>7 DEF InOrder, At, Num

-----------------------------------------------------------------------------
(* The work item takes a byte *)

LEMMA ByteUsed ==
  ASSUME TypeOK, head # tail, tail' = incr_out_bp(tail, 1), head' = head
  PROVE  /\ tail' = IF tail + 1 < PAGE_SIZE THEN tail + 1 ELSE 0
         /\ Used > 0 /\ Used' = Used - 1
         /\ tail <= head => tail # 0 \/ tail' # 0
         /\ tail <= head => tail' <= head
<1>1. tail' = IF tail + 1 < PAGE_SIZE THEN tail + 1 ELSE 0
  <2>1. tail \in 0 .. PAGE_SIZE - 1 /\ 1 \in 0 .. PAGE_SIZE
    BY UsedNow
  <2>2. (tail + 1) % PAGE_SIZE = IF tail + 1 < PAGE_SIZE THEN tail + 1 ELSE tail + 1 - PAGE_SIZE
    BY <2>1, RingLap
  <2>. QED  BY <2>2, UsedNow DEF incr_out_bp
<1>2. Used' = IF tail' <= head THEN head - tail' ELSE PAGE_SIZE + head - tail'
  <2>1. tail' \in 0 .. PAGE_SIZE - 1 /\ head \in 0 .. PAGE_SIZE - 1
    BY <1>1, UsedNow
  <2>. QED  BY <2>1, UsedIs DEF Used
<1>. QED  BY <1>1, <1>2, UsedNow

LEMMA ByteKeepsOrder ==
  ASSUME TypeOK, InOrder, WorkByte
  PROVE  InOrder'
<1>1. /\ head # tail /\ tail' = incr_out_bp(tail, 1) /\ printed' = (printed + 1) % Numbers
      /\ UNCHANGED <<buffer, head, accepted>>
  BY DEF WorkByte, do_write
<1>2. /\ tail' = IF tail + 1 < PAGE_SIZE THEN tail + 1 ELSE 0
      /\ Used > 0 /\ Used' = Used - 1
  BY <1>1, ByteUsed
<1>3. /\ PAGE_SIZE \in Nat /\ Numbers \in Nat /\ PAGE_SIZE < Numbers /\ Used \in Nat
      /\ Used < PAGE_SIZE /\ printed \in Nat /\ printed < Numbers
      /\ tail \in Nat /\ tail < PAGE_SIZE
  BY SizeAssumption, UsedNow DEF TypeOK
<1>4. printed' = IF printed + 1 < Numbers THEN printed + 1 ELSE 0
  <2>1. printed \in 0 .. Numbers - 1 /\ 1 \in 0 .. Numbers
    BY <1>3
  <2>2. (printed + 1) % Numbers = IF printed + 1 < Numbers THEN printed + 1
                                  ELSE printed + 1 - Numbers
    BY <2>1, NumberLap
  <2>. QED  BY <2>2, <1>1, <1>3
<1>5. \A i \in 0 .. PAGE_SIZE - 1 :
        /\ (tail + i) % PAGE_SIZE = IF tail + i < PAGE_SIZE THEN tail + i ELSE tail + i - PAGE_SIZE
        /\ (printed + i) % Numbers = IF printed + i < Numbers THEN printed + i ELSE printed + i - Numbers
  <2>1. \A i \in 0 .. PAGE_SIZE - 1 : i \in 0 .. PAGE_SIZE /\ i \in 0 .. Numbers
    BY <1>3
  <2>2. tail \in 0 .. PAGE_SIZE - 1 /\ printed \in 0 .. Numbers - 1
    BY <1>3
  <2>. QED  BY <2>1, <2>2, RingLap, NumberLap
<1>6. \A i \in 0 .. PAGE_SIZE - 1 :
        /\ (tail' + i) % PAGE_SIZE = IF tail' + i < PAGE_SIZE THEN tail' + i ELSE tail' + i - PAGE_SIZE
        /\ (printed' + i) % Numbers = IF printed' + i < Numbers THEN printed' + i ELSE printed' + i - Numbers
  <2>1. \A i \in 0 .. PAGE_SIZE - 1 : i \in 0 .. PAGE_SIZE /\ i \in 0 .. Numbers
    BY <1>3
  <2>2. tail' \in 0 .. PAGE_SIZE - 1 /\ printed' \in 0 .. Numbers - 1
    BY <1>2, <1>3, <1>4
  <2>. QED  BY <2>1, <2>2, RingLap, NumberLap
<1>7. ASSUME NEW i \in 0 .. Used' - 1
      PROVE  buffer[(tail' + i) % PAGE_SIZE] = (printed' + i) % Numbers
  <2>1. i \in Nat /\ i + 1 \in 0 .. Used - 1 /\ i \in 0 .. PAGE_SIZE - 1
        /\ i + 1 \in 0 .. PAGE_SIZE - 1
    BY <1>2, <1>3
  <2>2. (tail' + i) % PAGE_SIZE = (tail + (i + 1)) % PAGE_SIZE
    BY <2>1, <1>2, <1>3, <1>5, <1>6
  <2>3. (printed' + i) % Numbers = (printed + (i + 1)) % Numbers
    BY <2>1, <1>3, <1>4, <1>5, <1>6
  <2>4. buffer[(tail + (i + 1)) % PAGE_SIZE] = (printed + (i + 1)) % Numbers
    BY <2>1 DEF InOrder
  <2>. QED  BY <2>2, <2>3, <2>4
<1>8. (printed' + Used') % Numbers = accepted
  <2>1. Used' \in 0 .. PAGE_SIZE - 1 /\ Used \in 0 .. PAGE_SIZE - 1
    BY <1>2, <1>3
  <2>2. /\ (printed + Used) % Numbers
             = IF printed + Used < Numbers THEN printed + Used ELSE printed + Used - Numbers
        /\ (printed' + Used') % Numbers
             = IF printed' + Used' < Numbers THEN printed' + Used'
               ELSE printed' + Used' - Numbers
    BY <2>1, <1>5, <1>6
  <2>3. (printed' + Used') % Numbers = (printed + Used) % Numbers
    BY <2>2, <1>2, <1>3, <1>4
  <2>. QED  BY <2>3 DEF InOrder
<1>. QED  BY <1>1, <1>7, <1>8 DEF InOrder

\* Whoever the run did not wake has no more than SP_MIN_SPACE bytes, or all of them.
LEMMA NotWoken ==
  ASSUME TypeOK, TypeOK', head' = head, Wake, NEW p \in outq'
  PROVE  p \in outq /\ (Used' > 0 => PAGE_SIZE - Used' <= SP_MIN_SPACE)
<1>1. (PAGE_SIZE + tail' - head) % PAGE_SIZE
         = IF head <= tail' THEN tail' - head ELSE PAGE_SIZE + tail' - head
  BY UsedIs DEF TypeOK
<1>2. /\ Used' = IF tail' <= head THEN head - tail' ELSE PAGE_SIZE + head - tail'
      /\ head \in Nat /\ tail' \in Nat /\ PAGE_SIZE \in Nat
  <2>1. /\ tail' \in 0 .. PAGE_SIZE - 1 /\ head \in 0 .. PAGE_SIZE - 1
        /\ Used' = (PAGE_SIZE + head - tail') % PAGE_SIZE
    BY DEF TypeOK, Used
  <2>2. (PAGE_SIZE + head - tail') % PAGE_SIZE
          = IF tail' <= head THEN head - tail' ELSE PAGE_SIZE + head - tail'
    BY <2>1, UsedIs
  <2>. QED  BY <2>1, <2>2, SizeAssumption
<1>3. p \in outq
  BY DEF Wake
<1>4. ~((PAGE_SIZE + tail' - head) % PAGE_SIZE > SP_MIN_SPACE)
  BY DEF Wake
<1>5. ASSUME Used' > 0 PROVE PAGE_SIZE - Used' <= SP_MIN_SPACE
  <2>1. tail' # head /\ PAGE_SIZE - Used' = (PAGE_SIZE + tail' - head) % PAGE_SIZE
    <3>1. tail' # head
      <4>1. ASSUME tail' = head PROVE Used' = 0
        <5>1. Used' = head - tail'
          BY <4>1, <1>2
        <5>. QED  BY <5>1, <4>1, <1>2
      <4>. QED  BY <4>1, <1>5
    <3>2. CASE tail' < head
      BY <3>2, <1>1, <1>2
    <3>3. CASE head < tail'
      BY <3>3, <1>1, <1>2
    <3>. QED  BY <3>1, <3>2, <3>3, <1>2
  <2>2. PAGE_SIZE - Used' \in Int
    BY <1>2
  <2>. QED  BY <2>1, <2>2, <1>4, HalfPage
<1>. QED  BY <1>3, <1>5

-----------------------------------------------------------------------------
(* The steps of processes *)

\* What a step of p that leaves the ring and the printer alone has to see to.
LEMMA Keeps ==
  ASSUME TypeOK, OneWriter, RingInv, NEW p \in Procs, NEW to,
         pc' = [pc EXCEPT ![p] = to], UNCHANGED <<ring, worker, printer>>,
         \A q \in outq' : q = p \/ q \in outq,
         UNCHANGED <<space, wrapped>> \/ pc[p] \in Writing,
         to \in {"w_space2", "w_first2", "w_test2"} /\ ~wrapped' => tail <= head,
         to = "w_move" => Fits',
         p \in outq' /\ to = "w_test2" /\ wrapped' /\ tail <= head /\ Used > 0
           => PAGE_SIZE - Used <= SP_MIN_SPACE,
         p \in outq' /\ to = "w_sleep" /\ Used > 0 => PAGE_SIZE - Used <= SP_MIN_SPACE
  PROVE  RingInv'
<1>. USE DEF RingInv
<1>1. Used' = Used /\ InOrder' /\ head' = head /\ tail' = tail
  BY RingSame DEF ring
<1>2. \A q \in Procs : q # p => pc'[q] = pc[q]
  BY DEF TypeOK
<1>3. pc'[p] = to
  BY DEF TypeOK
<1>4. \A q \in Procs : q # p /\ pc[q] \in Writing => UNCHANGED <<space, wrapped>>
  BY DEF OneWriter
<1>5. outq \subseteq Procs /\ \A q \in outq' : q \in Procs
  BY DEF TypeOK
<1>6. StrobeInv'
  BY DEF StrobeInv
<1>7. LookInv'
  BY <1>1, <1>2, <1>3, <1>4 DEF LookInv, Writing
<1>8. FitInv'
  BY <1>1, <1>2, <1>3, <1>4 DEF FitInv, Fits, Writing
<1>9. LapInv'
  BY <1>1, <1>2, <1>3, <1>4, <1>5 DEF LapInv, Writing
<1>10. SleepsWhileFull'
  BY <1>1, <1>2, <1>3, <1>5 DEF SleepsWhileFull
<1>. QED  BY <1>1, <1>6, <1>7, <1>8, <1>9, <1>10

\* Elsewhere it has to see to nothing.
LEMMA KeepsPlain ==
  ASSUME TypeOK, OneWriter, RingInv, NEW p \in Procs,
         NEW to \in {"user", "w_down", "w_space", "w_first", "w_prep", "w_test", "w_start",
                     "c_prep", "c_test", "c_sleep"},
         pc' = [pc EXCEPT ![p] = to], UNCHANGED <<ring, worker, printer>>,
         \A q \in outq' : q = p \/ q \in outq,
         UNCHANGED <<space, wrapped>> \/ pc[p] \in Writing
  PROVE  RingInv'
BY Keeps

\* Room computed from a right view of the tail is room.
LEMMA RoomFits ==
  ASSUME TypeOK, Contiguous > 0, space' = Contiguous, UNCHANGED ring, ~wrapped => tail <= head
  PROVE  Fits'
BY DEF TypeOK, Contiguous, Fits, ring

\* Without room there is next to none free, or the view of the tail is stale.
LEMMA NoRoom ==
  ASSUME TypeOK, Contiguous <= 0, ~wrapped => tail <= head, ~(wrapped /\ tail <= head)
  PROVE  PAGE_SIZE - Used <= SP_MIN_SPACE
<1>1. Used = PAGE_SIZE - 1
  BY UsedNow DEF Contiguous, TypeOK
<1>. QED  BY <1>1, HalfPage, SizeAssumption

LEMMA MoveKeepsRing ==
  ASSUME IInv, RingInv, NEW p \in Procs, WriteMove(p)
  PROVE  RingInv'
<1>. USE DEF RingInv
<1>0. TypeOK /\ OneWriter /\ Fits /\ pc[p] = "w_move" /\ p \in Procs
      /\ UNCHANGED <<tail, printed, queues, engine>>
  BY DEF IInv, FitInv, WriteMove, Goto, Finish
<1>1. CASE Finish(p, "w_move") /\ UNCHANGED <<buffer, head, accepted>>
  BY <1>0, <1>1, Keeps DEF Finish, Goto, ring, queues, engine, Writing
<1>2. CASE ~(Finish(p, "w_move") /\ UNCHANGED <<buffer, head, accepted>>)
  <2>. DEFINE n == Lesser(space, left)
  <2>1. /\ n \in Nat /\ n <= space /\ n <= PAGE_SIZE
    BY <1>0, UsedNow DEF TypeOK, Fits, Lesser
  <2>2. /\ buffer' = [i \in DOMAIN buffer |-> IF i \in head .. head + n - 1
                        THEN (accepted + i - head) % Numbers ELSE buffer[i]]
        /\ head' = incr_out_bp(head, n)
        /\ accepted' = (accepted + n) % Numbers
        /\ pc' = [pc EXCEPT ![p] = "w_start"]
    BY <1>2 DEF WriteMove, Goto
  <2>. HIDE DEF n
  <2>3. InOrder'
    BY <1>0, <2>1, <2>2, MoveKeepsOrder
  <2>4. \A q \in Procs : pc'[q] \notin Writing \ {"w_start"}
    BY <1>0, <2>2 DEF TypeOK, OneWriter, Writing
  <2>5. StrobeInv' /\ outq' \subseteq Procs
    BY <1>0 DEF StrobeInv, engine, queues, TypeOK
  <2>. QED  BY <2>3, <2>4, <2>5 DEF Writing, LookInv, FitInv, LapInv, SleepsWhileFull
<1>. QED  BY <1>1, <1>2

LEMMA ComparesRight ==
  ASSUME TypeOK, Compare
  PROVE  (~wrapped' => tail <= head) /\ (wrapped' => ~(tail <= head))
<1>1. wrapped' <=> head < tail
  BY Zenon DEF Compare
<1>. QED  BY <1>1, UsedNow

LEMMA ProcessKeepsRing ==
  ASSUME IInv, RingInv, NEW p \in Procs,
         Inside(p) \/ BeginWrite(p) \/ WriteInterrupted(p) \/ WriteSignal(p)
           \/ ReleasePrepare(p) \/ ReleaseSignal(p)
  PROVE  RingInv'
<1>0. TypeOK /\ OneWriter
  BY DEF IInv
<1>. USE <1>0
<1>1. CASE WriteDown(p)
  BY <1>1, KeepsPlain DEF WriteDown, Goto, queues, engine, local, Writing
<1>2. CASE WriteCompare(p)
  <2>1. /\ pc[p] \in {"w_space", "w_first"} /\ UNCHANGED <<ring, queues, engine>>
        /\ \/ pc' = [pc EXCEPT ![p] = "w_space2"]
           \/ pc' = [pc EXCEPT ![p] = "w_first2"]
    BY <1>2 DEF WriteCompare, Goto
  <2>2. ~wrapped' => tail <= head
    BY <1>2, ComparesRight DEF WriteCompare
  <2>. QED  BY <2>1, <2>2, Keeps DEF queues, engine, ring, Writing
<1>3. CASE WriteSpace(p)
  <2>1. pc[p] \in {"w_space2", "w_first2"} /\ UNCHANGED <<ring, queues, engine, wrapped>>
    BY <1>3 DEF WriteSpace, Goto
  <2>2. ~wrapped => tail <= head
    BY <2>1 DEF RingInv, LookInv
  <2>3. CASE space' > 0
    <3>1. pc' = [pc EXCEPT ![p] = "w_move"] /\ space' = Contiguous
      <4>1. Contiguous \in Int /\ space' = Contiguous
        BY <1>3, SpaceIsInt DEF WriteSpace
      <4>2. ~(space' <= 0)
        BY <4>1, <2>3
      <4>. QED  BY <1>3, <4>1, <4>2 DEF WriteSpace, Goto
    <3>2. Fits'
      BY <2>1, <2>2, <2>3, <3>1, RoomFits
    <3>. QED  BY <2>1, <3>1, <3>2, Keeps DEF queues, engine, Writing
  <2>4. CASE ~(space' > 0)
    <3>1. pc' = [pc EXCEPT ![p] = "w_first"] \/ pc' = [pc EXCEPT ![p] = "w_prep"]
      BY <1>3, <2>4 DEF WriteSpace, Goto
    <3>. QED  BY <2>1, <3>1, KeepsPlain DEF queues, engine, Writing
  <2>. QED  BY <2>3, <2>4
<1>4. CASE WritePrepare(p)
  <2>1. /\ pc' = [pc EXCEPT ![p] = "w_test"] /\ UNCHANGED <<ring, engine, local>>
        /\ \A q \in outq' : q = p \/ q \in outq
        /\ pc[p] = "w_prep"
    BY <1>4 DEF WritePrepare, Goto
  <2>. QED  BY <2>1, KeepsPlain DEF engine, local
<1>5. CASE WriteTest(p)
  <2>1. /\ pc[p] = "w_test" /\ UNCHANGED <<ring, queues, engine>>
        /\ pc' = [pc EXCEPT ![p] = "w_test2"]
    BY <1>5 DEF WriteTest, Goto
  <2>2. (~wrapped' => tail <= head) /\ (wrapped' => ~(tail <= head))
    BY <1>5, ComparesRight DEF WriteTest
  <2>. QED  BY <2>1, <2>2, Keeps DEF queues, engine, ring, Writing
<1>6. CASE WriteTest2(p)
  <2>1. pc[p] = "w_test2" /\ UNCHANGED <<ring, emptyq, engine>>
    BY <1>6 DEF WriteTest2, Finish, Goto
  <2>2. ~wrapped => tail <= head
    BY <2>1 DEF RingInv, LookInv
  <2>3. CASE Contiguous > 0 /\ space' = Contiguous /\ pc' = [pc EXCEPT ![p] = "w_move"]
             /\ outq' = outq \ {p} /\ UNCHANGED wrapped
    <3>1. Fits'
      BY <2>1, <2>2, <2>3, RoomFits
    <3>. QED  BY <2>1, <2>3, <3>1, Keeps DEF engine, Writing
  <2>4. CASE Contiguous <= 0 /\ pc' = [pc EXCEPT ![p] = "w_sleep"]
             /\ UNCHANGED <<outq, local>>
    <3>1. p \in outq /\ Used > 0 => PAGE_SIZE - Used <= SP_MIN_SPACE
      <4>1. CASE wrapped /\ tail <= head
        BY <2>1, <4>1 DEF RingInv, LapInv
      <4>2. CASE ~(wrapped /\ tail <= head)
        BY <2>2, <2>4, <4>2, NoRoom
      <4>. QED  BY <4>1, <4>2
    <3>2. UNCHANGED <<ring, worker, printer, space, wrapped, outq>>
      BY <2>1, <2>4 DEF engine, local
    <3>. QED  BY <2>4, <3>1, <3>2, Keeps
  <2>5. CASE Finish(p, "w_test2") /\ outq' = outq \ {p}
    BY <2>1, <2>5, KeepsPlain DEF Finish, Goto, queues, engine, local, Writing
  <2>. QED  BY <1>6, <2>3, <2>4, <2>5 DEF WriteTest2, Goto
<1>7. CASE WriteWoken(p)
  BY <1>7, KeepsPlain DEF WriteWoken, Goto, queues, engine, local, Writing
<1>8. CASE WriteMove(p)
  BY <1>8, MoveKeepsRing
<1>9. CASE WriteStart(p)
  BY <1>9, KeepsPlain DEF WriteStart, Finish, Goto, queues, engine, local, Writing
<1>10. CASE ReleaseTest(p)
  BY <1>10, KeepsPlain DEF ReleaseTest, Goto, queues, engine, local, Writing
<1>11. CASE ReleaseWoken(p)
  BY <1>11, KeepsPlain DEF ReleaseWoken, Goto, queues, engine, local, Writing
<1>12. CASE BeginWrite(p)
  BY <1>12, KeepsPlain DEF BeginWrite, Goto, queues, engine, local, Writing
<1>13. CASE WriteInterrupted(p)
  BY <1>13, KeepsPlain DEF WriteInterrupted, Goto, queues, engine, local, Writing
<1>14. CASE WriteSignal(p)
  BY <1>14, KeepsPlain DEF WriteSignal, Goto, queues, engine, local, Writing
<1>15. CASE ReleasePrepare(p)
  BY <1>15, KeepsPlain DEF ReleasePrepare, Goto, queues, engine, local, Writing
<1>16. CASE ReleaseSignal(p)
  BY <1>16, KeepsPlain DEF ReleaseSignal, Goto, queues, engine, local, Writing
<1>. QED  BY <1>1, <1>2, <1>3, <1>4, <1>5, <1>6, <1>7, <1>8, <1>9, <1>10, <1>11, <1>12, <1>13, <1>14, <1>15, <1>16 DEF Inside

-----------------------------------------------------------------------------
(* The steps of the device *)

\* The tail moves while a writer looks: its view goes stale only when the tail wraps,
\* and then it is too low.
LEMMA ByteKeepsRing ==
  ASSUME IInv, RingInv, WorkByte, TypeOK'
  PROVE  RingInv'
<1>. USE DEF RingInv
<1>0. TypeOK /\ head # tail /\ tail' = incr_out_bp(tail, 1) /\ worker' = "idle" /\ Wake
      /\ UNCHANGED <<head, pc, space, wrapped>>
  BY DEF IInv, WorkByte, do_write, local
<1>1. /\ tail' = IF tail + 1 < PAGE_SIZE THEN tail + 1 ELSE 0
      /\ Used > 0 /\ Used' = Used - 1
      /\ tail <= head => tail' <= head /\ tail' # 0
      /\ head \in Nat /\ tail \in Nat /\ PAGE_SIZE \in Nat
      /\ head < PAGE_SIZE /\ tail < PAGE_SIZE
  BY <1>0, ByteUsed, UsedNow
<1>2. StrobeInv'
  BY <1>0 DEF StrobeInv
<1>3. LookInv'
  BY <1>0, <1>1 DEF LookInv
<1>4. FitInv'
  <2>1. Fits => Fits'
    <3>. SUFFICES ASSUME Fits PROVE Fits'
      OBVIOUS
    <3>1. space \in Int /\ space' = space /\ head' = head
      BY <1>0 DEF TypeOK
    <3>2. CASE head < tail
      BY <3>1, <3>2, <1>1 DEF Fits
    <3>3. CASE tail <= head
      BY <3>1, <3>3, <1>1 DEF Fits
    <3>. QED  BY <3>2, <3>3, <1>1
  <2>. QED  BY <1>0, <2>1 DEF FitInv
<1>5. \A q \in outq' : q \in outq /\ (Used' > 0 => PAGE_SIZE - Used' <= SP_MIN_SPACE)
  BY <1>0, NotWoken
<1>6. LapInv' /\ SleepsWhileFull'
  BY <1>5 DEF LapInv, SleepsWhileFull
<1>7. InOrder'
  BY <1>0, ByteKeepsOrder
<1>. QED  BY <1>2, <1>3, <1>4, <1>6, <1>7

LEMMA DeviceKeepsRing ==
  ASSUME IInv, RingInv, TypeOK',
         Worker \/ PrinterDone \/ Interrupt \/ InterruptQueue \/ TimerFires \/ Timeout
  PROVE  RingInv'
<1>1. CASE WorkByte
  BY <1>1, ByteKeepsRing
<1>2. CASE ~WorkByte
  <2>1. /\ UNCHANGED <<ring, pc, space, wrapped>> /\ \A q \in outq' : q \in outq
        /\ worker' = "lock" => Ready \/ worker = "lock"
        /\ printer' = printer \/ printer' = "ready"
    <3>1. CASE WorkBegin \/ WorkWait
      BY <3>1 DEF WorkBegin, WorkWait, queues, local
    <3>2. CASE WorkEmpty
      BY <3>2 DEF WorkEmpty, Wake, ring, local
    <3>3. CASE PrinterDone \/ Interrupt \/ InterruptQueue \/ TimerFires
      BY <3>3 DEF PrinterDone, Interrupt, InterruptQueue, TimerFires, Quiet, queues, local
    <3>4. CASE Timeout
      BY <3>4 DEF Timeout, TimeoutTest, TimeoutReset, TimeoutDropped, TimeoutInterrupt,
                  TimeoutQueue, Quiet, queues, local
    <3>. QED  BY <1>2, <3>1, <3>2, <3>3, <3>4 DEF Worker
  <2>2. Used' = Used /\ InOrder' /\ head' = head /\ tail' = tail
    BY <2>1, RingSame DEF RingInv, ring
  <2>3. StrobeInv'
    BY <2>1 DEF RingInv, StrobeInv, Ready
  <2>4. LookInv' /\ FitInv' /\ LapInv' /\ SleepsWhileFull'
    BY <2>1, <2>2 DEF RingInv, LookInv, FitInv, Fits, LapInv, SleepsWhileFull
  <2>. QED  BY <2>2, <2>3, <2>4 DEF RingInv
<1>. QED  BY <1>1, <1>2

-----------------------------------------------------------------------------

THEOREM RingInductive == Spec => []RingInv
<1>1. Init => RingInv
  <2>. SUFFICES ASSUME Init PROVE RingInv
    OBVIOUS
  <2>1. Used = 0
    BY SizeAssumption, UsedIs DEF Init, Used
  <2>2. StrobeInv /\ LookInv /\ FitInv /\ LapInv /\ SleepsWhileFull
    BY DEF Init, StrobeInv, LookInv, FitInv, LapInv, SleepsWhileFull
  <2>3. InOrder
    BY <2>1, SizeAssumption DEF Init, InOrder
  <2>. QED  BY <2>2, <2>3 DEF RingInv
<1>2. IInv /\ IInv' /\ RingInv /\ [Next]_vars => RingInv'
  <2>. SUFFICES ASSUME IInv, IInv', RingInv, [Next]_vars PROVE RingInv'
    OBVIOUS
  <2>1. CASE UNCHANGED vars
    <3>1. Used' = Used /\ InOrder'
      BY <2>1, RingSame DEF vars, RingInv
    <3>2. (StrobeInv /\ LookInv /\ FitInv /\ LapInv /\ SleepsWhileFull)'
      BY <2>1, <3>1 DEF vars, ring, queues, engine, local, RingInv, StrobeInv, LookInv, FitInv,
                        Fits, LapInv, SleepsWhileFull
    <3>. QED  BY <3>1, <3>2 DEF RingInv
  <2>2. ASSUME NEW p \in Procs,
               Inside(p) \/ BeginWrite(p) \/ WriteInterrupted(p) \/ WriteSignal(p)
                 \/ ReleasePrepare(p) \/ ReleaseSignal(p)
        PROVE  RingInv'
    BY <2>2, ProcessKeepsRing
  <2>3. CASE Worker \/ PrinterDone \/ Interrupt \/ InterruptQueue \/ TimerFires \/ Timeout
    BY <2>3, DeviceKeepsRing DEF IInv
  <2>. QED  BY <2>1, <2>2, <2>3 DEF Next
<1>. QED  BY <1>1, <1>2, PrintInductive, PTL DEF Spec

\* shortp_write and the work item: the buffer always holds the bytes accepted and not
\* yet printed, in the order in which they were accepted.
THEOREM BytesInOrder == Spec => []InOrder
<1>1. RingInv => InOrder
  BY DEF RingInv
<1>. QED  BY <1>1, RingInductive, PTL

\* While there are bytes to print, a writer that nobody has woken sleeps only if
\* SP_MIN_SPACE bytes or fewer are free, though it looks at the tail twice and the
\* tail moves in between.
THEOREM SleepersHaveNoRoom == Spec => []SleepsWhileFull
<1>1. RingInv => SleepsWhileFull
  BY DEF RingInv
<1>. QED  BY <1>1, RingInductive, PTL

\* shortp_do_work strobes a byte only when shortp_wait has found the printer ready
\* and nothing has been strobed since.
THEOREM StrobesReady == Spec => NeverStrobesBusy
<1>1. RingInv /\ [Next]_vars => [printed' # printed => printer = "ready"]_vars
  <2>. SUFFICES ASSUME RingInv, Next, printed' # printed PROVE printer = "ready"
    OBVIOUS
  <2>1. WorkByte
    BY DEF Next, Inside, Worker, Timeout, Quiet, ring, vars, WriteDown, WriteCompare, WriteSpace,
           WritePrepare, WriteTest, WriteTest2, WriteWoken, WriteMove, WriteStart, ReleaseTest,
           ReleaseWoken, BeginWrite, WriteInterrupted, WriteSignal, ReleasePrepare, ReleaseSignal,
           WorkBegin, WorkWait, WorkEmpty, PrinterDone, Interrupt, InterruptQueue, TimerFires,
           TimeoutTest, TimeoutReset, TimeoutDropped, TimeoutInterrupt, TimeoutQueue
  <2>. QED  BY <2>1 DEF WorkByte, RingInv, StrobeInv
<1>. QED  BY <1>1, RingInductive, PTL DEF Spec, NeverStrobesBusy
=============================================================================
