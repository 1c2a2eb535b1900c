-------------------------- MODULE ScullPipeProofs ---------------------------
(***************************************************************************)
(* Proofs about ScullPipe, for any processes, sizes, counts and modes.     *)
(***************************************************************************)
EXTENDS ScullPipe, FiniteSetTheorems, TLAPS

\* Where the pointers are between any two steps.  They reach buffersize only
\* inside the process that is about to wrap them, and what a transfer under
\* way has computed stays true because nobody else moves them.
PtrInv ==
  /\ rp \in 0 .. buffersize
  /\ wp \in 0 .. buffersize
  /\ buffersize > 0 /\ rp = buffersize => \E p \in Procs : pc[p] = "r_wrap"
  /\ buffersize > 0 /\ wp = buffersize => \E p \in Procs : pc[p] = "w_wrap"
  /\ \A p \in Procs : HasFile(p) => buffersize > 0
  /\ \A p \in Procs :
       /\ pc[p] = "r_adv" => /\ rp + count[p] <= buffersize
                             /\ wp > rp => rp + count[p] <= wp
       /\ pc[p] = "w_adv" => /\ wp + count[p] <= buffersize
                             /\ count[p] <= spacefree

IInv == TypeOK /\ MutualExclusion /\ PtrInv

-----------------------------------------------------------------------------
(* The semaphore: three ways a step of p can go. *)

\* p takes the semaphore as it enters its critical section.
LEMMA MutexTake ==
  ASSUME TypeOK, MutualExclusion, NEW p \in Procs, NEW l \in InCritical,
         Down, Goto(p, l)
  PROVE  MutualExclusion'
  BY DEF TypeOK, MutualExclusion, Down, Goto, env, file

\* p gives it back as it leaves.
LEMMA MutexGive ==
  ASSUME TypeOK, MutualExclusion, NEW p \in Procs, NEW l \in PCs \ InCritical,
         pc[p] \in InCritical, Up, Goto(p, l)
  PROVE  MutualExclusion'
  BY DEF TypeOK, MutualExclusion, Up, Goto, env, file

\* p moves inside its critical section, or outside it.
LEMMA MutexKeep ==
  ASSUME TypeOK, MutualExclusion, NEW p \in Procs, NEW l \in PCs,
         pc[p] \in InCritical <=> l \in InCritical, sem' = sem, Goto(p, l)
  PROVE  MutualExclusion'
  BY DEF TypeOK, MutualExclusion, Goto, env, file

\* Only a process in its critical section gives the semaphore back.
LEMMA UpType ==
  ASSUME TypeOK, MutualExclusion, NEW p \in Procs, pc[p] \in InCritical, Up
  PROVE  sem' \in {0, 1}
  BY DEF TypeOK, MutualExclusion, Up, env, file

-----------------------------------------------------------------------------
(* The pointers. *)

\* While p holds the semaphore and is not about to wrap, both pointers are
\* inside the buffer.
LEMMA PtrInside ==
  ASSUME TypeOK, MutualExclusion, PtrInv, NEW p \in Procs, HasFile(p),
         pc[p] \in InCritical \ {"r_wrap", "w_wrap"}
  PROVE  /\ buffersize \in Nat \ {0}
         /\ rp \in 0 .. buffersize - 1
         /\ wp \in 0 .. buffersize - 1
<1>1. buffersize \in Nat
  BY SizesAssumption DEF TypeOK, env, file
<1>2. pc[p] \in InCritical /\ pc[p] # "r_wrap" /\ pc[p] # "w_wrap"
  OBVIOUS
<1>3. /\ ~ \E q \in Procs : pc[q] = "r_wrap"
      /\ ~ \E q \in Procs : pc[q] = "w_wrap"
  BY <1>2 DEF MutualExclusion, InCritical
<1>4. QED
  BY <1>1, <1>3 DEF PtrInv, TypeOK, env, file

\* The arithmetic of spacefree.
LEMMA ModRange ==
  ASSUME NEW a \in Nat, NEW m \in Nat \ {0}
  PROVE  a % m \in 0 .. m - 1
  OBVIOUS

\* spacefree's remainder is the distance from wp to rp going up, round the end.
LEMMA ModWrap ==
  ASSUME NEW m \in Nat \ {0}, NEW a \in 0 .. m - 1, NEW b \in 0 .. m - 1
  PROVE  (a + m - b) % m = IF b <= a THEN a - b ELSE a + m - b
  OBVIOUS

\* With both pointers inside the buffer, spacefree is the number of bytes that
\* can be written before the pipe looks empty.
LEMMA SpaceFree ==
  ASSUME buffersize \in Nat \ {0}, rp \in 0 .. buffersize - 1,
         wp \in 0 .. buffersize - 1
  PROVE  /\ spacefree \in 0 .. buffersize - 1
         /\ spacefree = IF rp <= wp THEN buffersize - 1 - (wp - rp)
                        ELSE rp - wp - 1
  BY ModWrap DEF spacefree

\* What a read is about to move lies between rp and wp.
LEMMA ReadCountRange ==
  ASSUME buffersize \in Nat \ {0}, rp \in 0 .. buffersize - 1,
         wp \in 0 .. buffersize - 1, rp # wp,
         NEW p \in Procs, count[p] \in Nat
  PROVE  /\ ReadCount(p) \in Nat
         /\ rp + ReadCount(p) <= buffersize
         /\ wp > rp => rp + ReadCount(p) <= wp
         /\ count[p] > 0 => ReadCount(p) > 0
  BY DEF ReadCount, Lesser

\* What a write is about to move fits between wp and rp.
LEMMA WriteCountRange ==
  ASSUME buffersize \in Nat \ {0}, rp \in 0 .. buffersize - 1,
         wp \in 0 .. buffersize - 1, spacefree # 0,
         NEW p \in Procs, count[p] \in Nat
  PROVE  /\ WriteCount(p) \in Nat
         /\ wp + WriteCount(p) <= buffersize
         /\ WriteCount(p) <= spacefree
         /\ count[p] > 0 => WriteCount(p) > 0
  BY SpaceFree DEF WriteCount, Lesser

-----------------------------------------------------------------------------
LEMMA InitIInv == Init => IInv
<1> SUFFICES ASSUME Init PROVE IInv
  OBVIOUS
<1>1. TypeOK
  <2>1. 0 .. alloc - 1 = {}
    BY DEF Init
  <2>2. buf \in [0 .. alloc - 1 -> Byte]
    BY <2>1 DEF Init, NoData
  <2>3. QED
    BY <2>2 DEF Init, TypeOK, PCs, env, file
<1>2. MutualExclusion
  BY DEF Init, MutualExclusion, InCritical
<1>3. PtrInv
  BY DEF Init, PtrInv, HasFile, env
<1>4. QED
  BY <1>1, <1>2, <1>3 DEF IInv

-----------------------------------------------------------------------------
(* Every step preserves MutualExclusion. *)

LEMMA StepMutex ==
  ASSUME TypeOK, MutualExclusion, NEW p \in Procs, Begin(p) \/ Step(p)
  PROVE  MutualExclusion'
<1>1. CASE BeginOpen(p)
  BY <1>1 DEF BeginOpen, Goto, TypeOK, MutualExclusion, InCritical
<1>2. CASE BeginRelease(p)
  BY <1>2 DEF BeginRelease, Goto, TypeOK, MutualExclusion, InCritical
<1>3. CASE BeginRead(p)
  BY <1>3 DEF BeginRead, Goto, TypeOK, MutualExclusion, InCritical
<1>4. CASE BeginWrite(p)
  BY <1>4 DEF BeginWrite, Goto, TypeOK, MutualExclusion, InCritical
<1>5. CASE BeginPoll(p)
  BY <1>5 DEF BeginPoll, Goto, TypeOK, MutualExclusion, InCritical
<1>6. CASE SetAsync(p)
  BY <1>6 DEF SetAsync, TypeOK, MutualExclusion, InCritical
<1>7. CASE SetSize(p)
  BY <1>7 DEF SetSize, TypeOK, MutualExclusion, InCritical
<1>8. CASE Signal(p)
  BY <1>8 DEF Signal, TypeOK, MutualExclusion, InCritical
<1>9. CASE Interrupted(p)
  <2>1. \E l \in {"open", "closed"} : Goto(p, l)
    BY <1>9 DEF Interrupted, Return, Gone, Leave
  <2>2. sem' = sem /\ pc[p] \in PCs \ InCritical
    BY <1>9 DEF Interrupted, InCritical, PCs, InKernel
  <2>3. QED
    BY <2>1, <2>2, MutexKeep DEF InCritical, PCs, InKernel
<1>10. CASE OpenDown(p)
  BY <1>10 DEF OpenDown, TakeSem, Down, Goto, TypeOK, MutualExclusion,
       InCritical
<1>11. CASE OpenAlloc(p)
  BY <1>11 DEF OpenAlloc, Goto, TypeOK, MutualExclusion, InCritical
<1>12. CASE OpenNoMem(p)
  BY <1>12 DEF OpenNoMem, Gone, Leave, Up, Goto, TypeOK, MutualExclusion,
       InCritical
<1>13. CASE OpenReset(p)
  BY <1>13 DEF OpenReset, Return, Leave, Up, Goto, TypeOK, MutualExclusion,
       InCritical
<1>14. CASE ReleaseDown(p)
  BY <1>14 DEF ReleaseDown, TakeSem, Down, Goto, TypeOK, MutualExclusion,
       InCritical
<1>15. CASE Release(p)
  BY <1>15 DEF Release, Gone, Leave, Up, Goto, TypeOK, MutualExclusion,
       InCritical
<1>16. CASE ReadDown(p)
  BY <1>16 DEF ReadDown, TakeSem, Down, Goto, TypeOK, MutualExclusion,
       InCritical
<1>17. CASE ReadEmpty(p)
  <2>1. \E l \in {"open", "r_prep"} : Goto(p, l)
    BY <1>17 DEF ReadEmpty, Return, Leave
  <2>2. Up /\ pc[p] \in InCritical
    BY <1>17 DEF ReadEmpty, InCritical, PCs, InKernel
  <2>3. QED
    BY <2>1, <2>2, MutexGive DEF InCritical, PCs, InKernel
<1>18. CASE ReadPrepare(p)
  BY <1>18 DEF ReadPrepare, Goto, TypeOK, MutualExclusion, InCritical
<1>19. CASE ReadTest(p)
  <2>1. \E l \in {"r_down", "open", "r_sleep"} : Goto(p, l)
    BY <1>19 DEF ReadTest, Return, Leave
  <2>2. sem' = sem /\ pc[p] \in PCs \ InCritical
    BY <1>19 DEF ReadTest, InCritical, PCs, InKernel
  <2>3. QED
    BY <2>1, <2>2, MutexKeep DEF InCritical, PCs, InKernel
<1>20. CASE ReadWoken(p)
  BY <1>20 DEF ReadWoken, Goto, TypeOK, MutualExclusion, InCritical
<1>21. CASE ReadCopy(p)
  <2>1. pc[p] \in InCritical
    BY <1>21 DEF ReadCopy, InCritical
  <2>2. CASE Goto(p, "r_adv") /\ sem' = sem
    BY <2>1, <2>2, MutexKeep DEF InCritical, PCs, InKernel
  <2>3. CASE Up /\ Goto(p, "open")
    BY <2>1, <2>3, MutexGive DEF InCritical, PCs, InKernel
  <2>4. QED
    BY <1>21, <2>2, <2>3 DEF ReadCopy, Return, Leave
<1>22. CASE ReadAdvance(p)
  BY <1>22 DEF ReadAdvance, Goto, TypeOK, MutualExclusion, InCritical
<1>23. CASE ReadWrap(p)
  BY <1>23 DEF ReadWrap, Up, Goto, TypeOK, MutualExclusion, InCritical
<1>24. CASE ReadWake(p)
  BY <1>24 DEF ReadWake, Return, Leave, Goto, TypeOK, MutualExclusion,
       InCritical
<1>25. CASE WriteDown(p)
  BY <1>25 DEF WriteDown, TakeSem, Down, Goto, TypeOK, MutualExclusion,
       InCritical
<1>26. CASE WriteFull(p)
  <2>1. \E l \in {"open", "w_prep"} : Goto(p, l)
    BY <1>26 DEF WriteFull, Return, Leave
  <2>2. Up /\ pc[p] \in InCritical
    BY <1>26 DEF WriteFull, InCritical, PCs, InKernel
  <2>3. QED
    BY <2>1, <2>2, MutexGive DEF InCritical, PCs, InKernel
<1>27. CASE WritePrepare(p)
  BY <1>27 DEF WritePrepare, Goto, TypeOK, MutualExclusion, InCritical
<1>28. CASE WriteTest(p)
  BY <1>28 DEF WriteTest, Goto, TypeOK, MutualExclusion, InCritical
<1>29. CASE WriteWoken(p)
  BY <1>29 DEF WriteWoken, Goto, TypeOK, MutualExclusion, InCritical
<1>30. CASE WriteFinish(p)
  <2>1. \E l \in {"open", "w_down"} : Goto(p, l)
    BY <1>30 DEF WriteFinish, Return, Leave
  <2>2. sem' = sem /\ pc[p] \in PCs \ InCritical
    BY <1>30 DEF WriteFinish, InCritical, PCs, InKernel
  <2>3. QED
    BY <2>1, <2>2, MutexKeep DEF InCritical, PCs, InKernel
<1>31. CASE WriteCopy(p)
  <2>1. pc[p] \in InCritical
    BY <1>31 DEF WriteCopy, InCritical
  <2>2. CASE Goto(p, "w_adv") /\ sem' = sem
    BY <2>1, <2>2, MutexKeep DEF InCritical, PCs, InKernel
  <2>3. CASE Up /\ Goto(p, "open")
    BY <2>1, <2>3, MutexGive DEF InCritical, PCs, InKernel
  <2>4. QED
    BY <1>31, <2>2, <2>3 DEF WriteCopy, Return, Leave
<1>32. CASE WriteAdvance(p)
  BY <1>32 DEF WriteAdvance, Goto, TypeOK, MutualExclusion, InCritical
<1>33. CASE WriteWrap(p)
  BY <1>33 DEF WriteWrap, Up, Goto, TypeOK, MutualExclusion, InCritical
<1>34. CASE WriteWake(p)
  BY <1>34 DEF WriteWake, Goto, TypeOK, MutualExclusion, InCritical
<1>35. CASE WriteFasync(p)
  BY <1>35 DEF WriteFasync, TypeOK, MutualExclusion, InCritical
<1>36. CASE PollDown(p)
  BY <1>36 DEF PollDown, TakeSem, Down, Goto, TypeOK, MutualExclusion,
       InCritical
<1>37. CASE Poll(p)
  <2>1. \E l \in {"open", "p_sleep"} : Goto(p, l)
    BY <1>37 DEF Poll, Return, Leave
  <2>2. Up /\ pc[p] \in InCritical
    BY <1>37 DEF Poll, InCritical, PCs, InKernel
  <2>3. QED
    BY <2>1, <2>2, MutexGive DEF InCritical, PCs, InKernel
<1>38. CASE PollWoken(p)
  <2>1. \E l \in {"open", "p_down"} : Goto(p, l)
    BY <1>38 DEF PollWoken, Return, Leave
  <2>2. sem' = sem /\ pc[p] \in PCs \ InCritical
    BY <1>38 DEF PollWoken, InCritical, PCs, InKernel
  <2>3. QED
    BY <2>1, <2>2, MutexKeep DEF InCritical, PCs, InKernel
<1>39. QED
  BY <1>1, <1>2, <1>3, <1>4, <1>5, <1>6, <1>7, <1>8, <1>9, <1>10, <1>11, <1>12,
       <1>13, <1>14, <1>15, <1>16, <1>17, <1>18, <1>19, <1>20, <1>21, <1>22,
       <1>23, <1>24, <1>25, <1>26, <1>27, <1>28, <1>29, <1>30, <1>31, <1>32,
       <1>33, <1>34, <1>35, <1>36, <1>37, <1>38
     DEF Begin, Step, OpenStep, ReleaseStep, ReadStep, WriteStep, PollStep

-----------------------------------------------------------------------------
(* Every step preserves the types; the lengths computed for a copy are      *)
(* natural numbers because the pointers are where PtrInv says.              *)
\* The variables of a call keep their types when it moves on or returns.
CallTyped == /\ pc' \in [Procs -> PCs]
             /\ sig' \in [Procs -> BOOLEAN]
             /\ count' \in [Procs -> Nat]
             /\ user' \in [Procs -> Seq(Byte)]

LEMMA LeaveType ==
  ASSUME TypeOK, NEW p \in Procs, NEW l \in PCs, Leave(p, l)
  PROVE  CallTyped
  BY DEF TypeOK, CallTyped, Leave, Goto, env, file

LEMMA GotoType ==
  ASSUME TypeOK, NEW p \in Procs, NEW l \in PCs, Goto(p, l),
         UNCHANGED <<call, sig>>
  PROVE  CallTyped
  BY DEF TypeOK, CallTyped, Goto, call, env, file

LEMMA StepTypeOK ==
  ASSUME TypeOK, MutualExclusion, PtrInv, NEW p \in Procs, Begin(p) \/ Step(p)
  PROVE  TypeOK'
<1>1. CASE BeginOpen(p)
  BY <1>1, ModesAssumption, FlagsAssumption DEF BeginOpen, Goto, TypeOK, PCs,
       InKernel, InCritical, device, block, counts, queues, file, call, env
<1>2. CASE BeginRelease(p)
  BY <1>2 DEF BeginRelease, Goto, TypeOK, PCs, InKernel, InCritical, device,
       block, counts, queues, file, call, env
<1>3. CASE BeginRead(p)
  BY <1>3, CountsAssumption DEF BeginRead, Goto, TypeOK, PCs, InKernel,
       InCritical, device, block, counts, queues, file, call, env
<1>4. CASE BeginWrite(p)
  BY <1>4, CountsAssumption DEF BeginWrite, Goto, TypeOK, PCs, InKernel,
       InCritical, device, block, counts, queues, file, call, env
<1>5. CASE BeginPoll(p)
  BY <1>5 DEF BeginPoll, Goto, TypeOK, PCs, InKernel, InCritical, device, block,
       counts, queues, file, call, env
<1>6. CASE SetAsync(p)
  BY <1>6 DEF SetAsync, TypeOK, PCs, InKernel, InCritical, device, block,
       counts, queues, file, call, env
<1>7. CASE SetSize(p)
  BY <1>7, SizesAssumption DEF SetSize, TypeOK, PCs, InKernel, InCritical,
       device, block, counts, queues, file, call, env
<1>8. CASE Signal(p)
  BY <1>8 DEF Signal, TypeOK, PCs, InKernel, InCritical, device, block, counts,
       queues, file, call, env
<1>9. CASE Interrupted(p)
  <2>1. ASSUME Leave(p, "open")
        PROVE  CallTyped
    BY <2>1, LeaveType DEF PCs, InKernel
  <2>2. ASSUME Leave(p, "closed")
        PROVE  CallTyped
    BY <2>2, LeaveType DEF PCs, InKernel
  <2>3. CallTyped
    BY <1>9, <2>1, <2>2 DEF Interrupted, Return, Gone
  <2>4. sem' \in {0, 1}
    BY <1>9 DEF Interrupted, TypeOK, env, file
  <2>5. QED
    BY <1>9, <2>3, <2>4 DEF Interrupted, TypeOK, CallTyped, Return, Gone,
         device, block, counts, queues, file, env
<1>10. CASE OpenDown(p)
  BY <1>10 DEF OpenDown, TakeSem, Down, Goto, TypeOK, PCs, InKernel, InCritical,
       device, block, counts, queues, file, call, env
<1>11. CASE OpenAlloc(p)
  BY <1>11, SizesAssumption DEF OpenAlloc, Goto, TypeOK, PCs, InKernel,
       InCritical, device, block, counts, queues, file, call, env
<1>12. CASE OpenNoMem(p)
  BY <1>12, UpType DEF OpenNoMem, Gone, Leave, Up, Goto, TypeOK, PCs, InKernel,
       InCritical, device, block, counts, queues, file, call, env
<1>13. CASE OpenReset(p)
  BY <1>13, SizesAssumption, UpType DEF OpenReset, Return, Leave, Up, Goto,
       TypeOK, PCs, InKernel, InCritical, device, block, counts, queues, file,
       call, env, Opened
<1>14. CASE ReleaseDown(p)
  BY <1>14 DEF ReleaseDown, TakeSem, Down, Goto, TypeOK, PCs, InKernel,
       InCritical, device, block, counts, queues, file, call, env
<1>15. CASE Release(p)
  <2>1. CallTyped
    BY <1>15, LeaveType DEF Release, Gone, PCs, Closed, LastClose, block
  <2>2. sem' \in {0, 1}
    BY <1>15, UpType DEF Release, InCritical, Closed, LastClose, block
  <2>3. alloc' \in Sizes \cup {0} /\ buf' \in [0 .. alloc' - 1 -> Byte]
    <3>1. CASE alloc' = 0 /\ buf' = NoData
      <4>1. 0 .. alloc' - 1 = {}
        BY <3>1
      <4>2. QED
        BY <3>1, <4>1 DEF NoData
    <3>2. CASE UNCHANGED <<alloc, buf>>
      BY <3>2 DEF TypeOK, env, file
    <3>3. QED
      BY <1>15, <3>1, <3>2 DEF Release, Closed, LastClose, block
  <2>4. nreaders' \in Int /\ nwriters' \in Int
    BY <1>15 DEF Release, TypeOK, env, file, Closed, LastClose, block
  <2>5. mode' \in [Procs -> SUBSET {"R", "W"}] /\ nonblock' \in [Procs ->
       BOOLEAN]
    BY <1>15 DEF Release, Gone, TypeOK, env, file, Closed, LastClose, block
  <2>6. UNCHANGED <<buffersize, rp, wp, inq, outq, flushed, async_queue,
       scull_p_buffer>>
    BY <1>15 DEF Release, queues, Closed, LastClose, block
  <2>7. QED
    BY <2>1, <2>2, <2>3, <2>4, <2>5, <2>6 DEF TypeOK, CallTyped, env, file
<1>16. CASE ReadDown(p)
  BY <1>16 DEF ReadDown, TakeSem, Down, Goto, TypeOK, PCs, InKernel, InCritical,
       device, block, counts, queues, file, call, env
<1>17. CASE ReadEmpty(p)
  <2>1. ASSUME Leave(p, "open")
        PROVE  CallTyped
    BY <2>1, LeaveType DEF PCs, InKernel
  <2>2. ASSUME Goto(p, "r_prep") /\ UNCHANGED <<call, sig>>
        PROVE  CallTyped
    BY <2>2, GotoType DEF PCs, InKernel
  <2>3. CallTyped
    BY <1>17, <2>1, <2>2 DEF ReadEmpty, Return, Gone
  <2>4. sem' \in {0, 1}
    BY <1>17, UpType DEF ReadEmpty, TypeOK, InCritical, env, file
  <2>5. QED
    BY <1>17, <2>3, <2>4 DEF ReadEmpty, TypeOK, CallTyped, Return, Gone, device,
         block, counts, queues, file, env
<1>18. CASE ReadPrepare(p)
  BY <1>18 DEF ReadPrepare, Goto, TypeOK, PCs, InKernel, InCritical, device,
       block, counts, queues, file, call, env
<1>19. CASE ReadTest(p)
  <2>1. ASSUME Leave(p, "open")
        PROVE  CallTyped
    BY <2>1, LeaveType DEF PCs, InKernel
  <2>2. ASSUME Goto(p, "r_down") /\ UNCHANGED <<call, sig>>
        PROVE  CallTyped
    BY <2>2, GotoType DEF PCs, InKernel
  <2>3. ASSUME Goto(p, "r_sleep") /\ UNCHANGED <<call, sig>>
        PROVE  CallTyped
    BY <2>3, GotoType DEF PCs, InKernel
  <2>4. CallTyped
    BY <1>19, <2>1, <2>2, <2>3 DEF ReadTest, Return, Gone
  <2>5. sem' \in {0, 1}
    BY <1>19 DEF ReadTest, TypeOK, env, file
  <2>6. QED
    BY <1>19, <2>4, <2>5 DEF ReadTest, TypeOK, CallTyped, Return, Gone, device,
         block, counts, queues, file, env
<1>20. CASE ReadWoken(p)
  BY <1>20 DEF ReadWoken, Goto, TypeOK, PCs, InKernel, InCritical, device,
       block, counts, queues, file, call, env
<1>21. CASE ReadCopy(p)
  <2>1. pc[p] = "r_check" /\ rp # wp
    BY <1>21 DEF ReadCopy
  <2>2. sem' \in {0, 1}
    BY <1>21, UpType DEF ReadCopy, TypeOK, InCritical, env, file
  <2>3. ASSUME Leave(p, "open") PROVE CallTyped
    BY <2>3, LeaveType DEF PCs, InKernel
  <2>4. ASSUME count' = [count EXCEPT ![p] = ReadCount(p)],
               NEW junk \in Byte,
               user' = [user EXCEPT ![p] = BytesAt(rp, ReadCount(p), junk)],
               Goto(p, "r_adv"), sig' = sig
        PROVE  CallTyped
    <3>1. buffersize \in Nat \ {0} /\ rp \in 0 .. buffersize - 1 /\ wp \in 0 ..
         buffersize - 1
      BY <2>1, PtrInside DEF HasFile, InCritical
    <3>2. ReadCount(p) \in Nat
      BY <2>1, <3>1, ReadCountRange DEF TypeOK, env, file
    <3>3. BytesAt(rp, ReadCount(p), junk) \in Seq(Byte)
      <4>1. alloc \in Nat
        BY SizesAssumption DEF TypeOK, env, file
      <4>2. ASSUME NEW i \in 1 .. ReadCount(p)
            PROVE  (IF rp + i - 1 < alloc THEN buf[rp + i - 1] ELSE junk) \in
                 Byte
        <5>1. rp + i - 1 \in Nat
          BY <3>1, <3>2
        <5>2. rp + i - 1 < alloc => rp + i - 1 \in 0 .. alloc - 1
          BY <4>1, <5>1
        <5>3. QED
          BY <5>2 DEF TypeOK, env, file
      <4>3. BytesAt(rp, ReadCount(p), junk) \in [1 .. ReadCount(p) -> Byte]
        BY <4>2 DEF BytesAt
      <4>4. QED
        BY <3>2, <4>3
    <3>4. QED
      BY <2>4, <3>2, <3>3 DEF TypeOK, CallTyped, Goto, PCs, InKernel,
           InCritical, env, file
  <2>5. CallTyped
    BY <1>21, <2>3, <2>4 DEF ReadCopy, Return
  <2>6. QED
    BY <1>21, <2>2, <2>5 DEF ReadCopy, TypeOK, CallTyped, Return, device, block,
         counts, queues, file, env
<1>22. CASE ReadAdvance(p)
  BY <1>22 DEF ReadAdvance, Goto, TypeOK, PCs, InKernel, InCritical, device,
       block, counts, queues, file, call, env
<1>23. CASE ReadWrap(p)
  BY <1>23, UpType DEF ReadWrap, Up, Goto, TypeOK, PCs, InKernel, InCritical,
       device, block, counts, queues, file, call, env, Wrap
<1>24. CASE ReadWake(p)
  BY <1>24 DEF ReadWake, Return, Leave, Goto, TypeOK, PCs, InKernel, InCritical,
       device, block, counts, queues, file, call, env
<1>25. CASE WriteDown(p)
  BY <1>25 DEF WriteDown, TakeSem, Down, Goto, TypeOK, PCs, InKernel,
       InCritical, device, block, counts, queues, file, call, env
<1>26. CASE WriteFull(p)
  <2>1. ASSUME Leave(p, "open")
        PROVE  CallTyped
    BY <2>1, LeaveType DEF PCs, InKernel
  <2>2. ASSUME Goto(p, "w_prep") /\ UNCHANGED <<call, sig>>
        PROVE  CallTyped
    BY <2>2, GotoType DEF PCs, InKernel
  <2>3. CallTyped
    BY <1>26, <2>1, <2>2 DEF WriteFull, Return, Gone
  <2>4. sem' \in {0, 1}
    BY <1>26, UpType DEF WriteFull, TypeOK, InCritical, env, file
  <2>5. QED
    BY <1>26, <2>3, <2>4 DEF WriteFull, TypeOK, CallTyped, Return, Gone, device,
         block, counts, queues, file, env
<1>27. CASE WritePrepare(p)
  BY <1>27 DEF WritePrepare, Goto, TypeOK, PCs, InKernel, InCritical, device,
       block, counts, queues, file, call, env
<1>28. CASE WriteTest(p)
  BY <1>28 DEF WriteTest, Goto, TypeOK, PCs, InKernel, InCritical, device,
       block, counts, queues, file, call, env
<1>29. CASE WriteWoken(p)
  BY <1>29 DEF WriteWoken, Goto, TypeOK, PCs, InKernel, InCritical, device,
       block, counts, queues, file, call, env
<1>30. CASE WriteFinish(p)
  <2>1. ASSUME Leave(p, "open")
        PROVE  CallTyped
    BY <2>1, LeaveType DEF PCs, InKernel
  <2>2. ASSUME Goto(p, "w_down") /\ UNCHANGED <<call, sig>>
        PROVE  CallTyped
    BY <2>2, GotoType DEF PCs, InKernel
  <2>3. CallTyped
    BY <1>30, <2>1, <2>2 DEF WriteFinish, Return, Gone
  <2>4. sem' \in {0, 1}
    BY <1>30 DEF WriteFinish, TypeOK, env, file
  <2>5. QED
    BY <1>30, <2>3, <2>4 DEF WriteFinish, TypeOK, CallTyped, Return, Gone,
         device, block, counts, queues, file, env
<1>31. CASE WriteCopy(p)
  <2>1. pc[p] = "w_check" /\ spacefree # 0
    BY <1>31 DEF WriteCopy
  <2>2. sem' \in {0, 1}
    BY <1>31, UpType DEF WriteCopy, TypeOK, InCritical, env, file
  <2>3. CASE Leave(p, "open") /\ buf' = buf
    BY <1>31, <2>2, <2>3, LeaveType DEF WriteCopy, TypeOK, CallTyped, counts, PCs,
         queues, file, env
  <2>4. ASSUME count' = [count EXCEPT ![p] = WriteCount(p)],
               NEW data \in [1 .. WriteCount(p) -> Byte],
               buf' = [i \in DOMAIN buf |-> IF i - wp + 1 \in DOMAIN data
                                           THEN data[i - wp + 1] ELSE buf[i]],
               Goto(p, "w_adv"), UNCHANGED <<user, sig>>
        PROVE  TypeOK'
    <3>1. buffersize \in Nat \ {0} /\ rp \in 0 .. buffersize - 1 /\ wp \in 0 ..
         buffersize - 1
      BY <2>1, PtrInside DEF HasFile, InCritical
    <3>2. WriteCount(p) \in Nat
      BY <2>1, <3>1, WriteCountRange DEF TypeOK, env, file
    <3>3. CallTyped
      BY <2>4, <3>2 DEF TypeOK, CallTyped, Goto, PCs, InKernel, InCritical, env,
           file
    <3>4. buf' \in [0 .. alloc - 1 -> Byte]
      BY <2>4 DEF TypeOK, env, file
    <3>5. QED
      BY <1>31, <2>2, <3>3, <3>4 DEF WriteCopy, TypeOK, CallTyped, queues, counts, file,
           env
  <2>5. QED
    BY <1>31, <2>3, <2>4 DEF WriteCopy, Return
<1>32. CASE WriteAdvance(p)
  BY <1>32 DEF WriteAdvance, Goto, TypeOK, PCs, InKernel, InCritical, device,
       block, counts, queues, file, call, env
<1>33. CASE WriteWrap(p)
  BY <1>33, UpType DEF WriteWrap, Up, Goto, TypeOK, PCs, InKernel, InCritical,
       device, block, counts, queues, file, call, env, Wrap
<1>34. CASE WriteWake(p)
  BY <1>34 DEF WriteWake, Goto, TypeOK, PCs, InKernel, InCritical, device,
       block, counts, queues, file, call, env
<1>35. CASE WriteFasync(p)
  BY <1>35 DEF WriteFasync, TypeOK, PCs, InKernel, InCritical, device, block,
       counts, queues, file, call, env
<1>36. CASE PollDown(p)
  BY <1>36 DEF PollDown, TakeSem, Down, Goto, TypeOK, PCs, InKernel, InCritical,
       device, block, counts, queues, file, call, env
<1>37. CASE Poll(p)
  <2>1. ASSUME Leave(p, "open")
        PROVE  CallTyped
    BY <2>1, LeaveType DEF PCs, InKernel
  <2>2. ASSUME Goto(p, "p_sleep") /\ UNCHANGED <<call, sig>>
        PROVE  CallTyped
    BY <2>2, GotoType DEF PCs, InKernel
  <2>3. CallTyped
    BY <1>37, <2>1, <2>2 DEF Poll, Return, Gone
  <2>4. sem' \in {0, 1}
    BY <1>37, UpType DEF Poll, TypeOK, InCritical, env, file
  <2>5. QED
    BY <1>37, <2>3, <2>4 DEF Poll, TypeOK, CallTyped, Return, Gone, device,
         block, counts, queues, file, env
<1>38. CASE PollWoken(p)
  <2>1. ASSUME Leave(p, "open")
        PROVE  CallTyped
    BY <2>1, LeaveType DEF PCs, InKernel
  <2>2. ASSUME Goto(p, "p_down") /\ UNCHANGED <<call, sig>>
        PROVE  CallTyped
    BY <2>2, GotoType DEF PCs, InKernel
  <2>3. CallTyped
    BY <1>38, <2>1, <2>2 DEF PollWoken, Return, Gone
  <2>4. sem' \in {0, 1}
    BY <1>38 DEF PollWoken, TypeOK, env, file
  <2>5. QED
    BY <1>38, <2>3, <2>4 DEF PollWoken, TypeOK, CallTyped, Return, Gone, device,
         block, counts, queues, file, env
<1>39. QED
  BY <1>1, <1>2, <1>3, <1>4, <1>5, <1>6, <1>7, <1>8, <1>9, <1>10, <1>11, <1>12,
       <1>13, <1>14, <1>15, <1>16, <1>17, <1>18, <1>19, <1>20, <1>21, <1>22,
       <1>23, <1>24, <1>25, <1>26, <1>27, <1>28, <1>29, <1>30, <1>31, <1>32,
       <1>33, <1>34, <1>35, <1>36, <1>37, <1>38
     DEF Begin, Step, OpenStep, ReleaseStep, ReadStep, WriteStep, PollStep

-----------------------------------------------------------------------------
(* Every step preserves PtrInv. *)

\* p alone is between down() and up().
LEMMA Alone ==
  ASSUME MutualExclusion, NEW p \in Procs, pc[p] \in InCritical,
         NEW q \in Procs, q # p
  PROVE  pc[q] \notin InCritical
  BY DEF MutualExclusion

LEMMA StepPtr ==
  ASSUME TypeOK, MutualExclusion, PtrInv, NEW p \in Procs, Begin(p) \/ Step(p)
  PROVE  PtrInv'
<1>1. CASE BeginOpen(p)
  BY <1>1 DEF BeginOpen, Goto, PtrInv, TypeOK, HasFile, InCritical, device,
       block, counts, call, file, spacefree, env
<1>2. CASE BeginRelease(p)
  BY <1>2 DEF BeginRelease, Goto, PtrInv, TypeOK, HasFile, InCritical, device,
       block, counts, call, file, spacefree, env
<1>3. CASE BeginRead(p)
  BY <1>3 DEF BeginRead, Goto, PtrInv, TypeOK, HasFile, InCritical, device,
       block, counts, call, file, spacefree, env
<1>4. CASE BeginWrite(p)
  BY <1>4 DEF BeginWrite, Goto, PtrInv, TypeOK, HasFile, InCritical, device,
       block, counts, call, file, spacefree, env
<1>5. CASE BeginPoll(p)
  BY <1>5 DEF BeginPoll, Goto, PtrInv, TypeOK, HasFile, InCritical, device,
       block, counts, call, file, spacefree, env
<1>6. CASE SetAsync(p)
  BY <1>6 DEF SetAsync, PtrInv, TypeOK, HasFile, InCritical, device, block,
       counts, call, file, spacefree, env
<1>7. CASE SetSize(p)
  BY <1>7 DEF SetSize, PtrInv, TypeOK, HasFile, InCritical, device, block,
       counts, call, file, spacefree, env
<1>8. CASE Signal(p)
  BY <1>8 DEF Signal, PtrInv, TypeOK, HasFile, InCritical, device, block,
       counts, call, file, spacefree, env
<1>9. CASE Interrupted(p)
  <2>1. PICK l \in {"open", "closed"} : Goto(p, l)
    BY <1>9 DEF Interrupted, Return, Gone, Leave
  <2>2. /\ pc[p] \in {"r_down", "w_down"} \/ (pc[p] = "o_down" /\ l = "closed")
        /\ UNCHANGED device
        /\ count' = [count EXCEPT ![p] = 0]
    BY <1>9, <2>1 DEF Interrupted, Return, Gone, Leave, Goto, TypeOK, env, file
  <2>3. QED
    BY <2>1, <2>2 DEF PtrInv, TypeOK, HasFile, Goto, device, block, counts,
         spacefree, env, file
<1>10. CASE OpenDown(p)
  BY <1>10 DEF OpenDown, TakeSem, Down, Goto, PtrInv, TypeOK, HasFile,
       InCritical, device, block, counts, call, file, spacefree, env
<1>11. CASE OpenAlloc(p)
  BY <1>11 DEF OpenAlloc, Goto, PtrInv, TypeOK, HasFile, InCritical, device,
       block, counts, call, file, spacefree, env
<1>12. CASE OpenNoMem(p)
  BY <1>12 DEF OpenNoMem, Gone, Leave, Up, Goto, PtrInv, TypeOK, HasFile,
       InCritical, device, block, counts, call, file, spacefree, env
<1>13. CASE OpenReset(p)
  <2>1. pc[p] \in InCritical
    BY <1>13 DEF OpenReset, InCritical, Opened, block
  <2>2. \A q \in Procs : q # p => pc[q] \notin InCritical
    BY <2>1, Alone
  <2>3. buffersize' \in Nat \ {0} /\ rp' = 0 /\ wp' = 0
    BY <1>13, SizesAssumption DEF OpenReset, TypeOK, env, file, Opened, block
  <2>4. pc' = [pc EXCEPT ![p] = "open"]
    BY <1>13 DEF OpenReset, Return, Leave, Goto, Opened, block
  <2>5. \A q \in Procs : pc'[q] \notin {"r_adv", "w_adv"}
    BY <2>2, <2>4 DEF TypeOK, InCritical, env, file
  <2>6. QED
    BY <2>3, <2>5 DEF PtrInv, env
<1>14. CASE ReleaseDown(p)
  BY <1>14 DEF ReleaseDown, TakeSem, Down, Goto, PtrInv, TypeOK, HasFile,
       InCritical, device, block, counts, call, file, spacefree, env
<1>15. CASE Release(p)
  BY <1>15 DEF Release, Gone, Leave, Up, Goto, PtrInv, TypeOK, HasFile,
       InCritical, device, block, counts, call, file, spacefree, env, Closed,
       LastClose
<1>16. CASE ReadDown(p)
  BY <1>16 DEF ReadDown, TakeSem, Down, Goto, PtrInv, TypeOK, HasFile,
       InCritical, device, block, counts, call, file, spacefree, env
<1>17. CASE ReadEmpty(p)
  BY <1>17 DEF ReadEmpty, Return, Leave, Up, Goto, PtrInv, TypeOK, HasFile,
       InCritical, device, block, counts, call, file, spacefree, env
<1>18. CASE ReadPrepare(p)
  BY <1>18 DEF ReadPrepare, Goto, PtrInv, TypeOK, HasFile, InCritical, device,
       block, counts, call, file, spacefree, env
<1>19. CASE ReadTest(p)
  BY <1>19 DEF ReadTest, Return, Leave, Goto, PtrInv, TypeOK, HasFile,
       InCritical, device, block, counts, call, file, spacefree, env
<1>20. CASE ReadWoken(p)
  BY <1>20 DEF ReadWoken, Goto, PtrInv, TypeOK, HasFile, InCritical, device,
       block, counts, call, file, spacefree, env
<1>21. CASE ReadCopy(p)
  <2>1. pc[p] \in InCritical
    BY <1>21 DEF ReadCopy, InCritical
  <2>2. \A q \in Procs : q # p => pc[q] \notin InCritical
    BY <2>1, Alone
  <2>3. pc[p] = "r_check" /\ rp # wp
    BY <1>21 DEF ReadCopy
  <2>4. buffersize \in Nat \ {0} /\ rp \in 0 .. buffersize - 1 /\ wp \in 0 ..
       buffersize - 1
    BY <2>3, PtrInside DEF HasFile, InCritical
  <2>5. UNCHANGED <<rp, wp, buffersize>>
    BY <1>21 DEF ReadCopy, device, block, counts
  <2>6. CASE pc' = [pc EXCEPT ![p] = "open"]
    <3>1. \A q \in Procs : pc'[q] \notin {"r_adv", "w_adv"}
      BY <2>2, <2>6 DEF TypeOK, InCritical, env, file
    <3>2. QED
      BY <2>3, <2>4, <2>5, <2>6, <3>1 DEF PtrInv, TypeOK, HasFile, env, file
  <2>7. CASE /\ count' = [count EXCEPT ![p] = ReadCount(p)]
             /\ pc' = [pc EXCEPT ![p] = "r_adv"]
    <3>1. \A q \in Procs : pc'[q] \in {"r_adv", "w_adv"} => q = p /\ pc'[q] =
         "r_adv"
      BY <2>2, <2>7 DEF TypeOK, InCritical, env, file
    <3>2. count'[p] = ReadCount(p)
      BY <2>7 DEF TypeOK, env, file
    <3>3. rp + count'[p] <= buffersize /\ (wp > rp => rp + count'[p] <= wp)
      BY <2>3, <2>4, <3>2, ReadCountRange DEF TypeOK, env, file
    <3>4. QED
      BY <2>3, <2>4, <2>5, <2>7, <3>1, <3>3 DEF PtrInv, TypeOK, HasFile,
           spacefree, env, file
  <2>8. QED
    BY <1>21, <2>6, <2>7 DEF ReadCopy, Return, Leave, Goto
<1>22. CASE ReadAdvance(p)
  <2>1. pc[p] \in InCritical
    BY <1>22 DEF ReadAdvance, InCritical
  <2>2. \A q \in Procs : q # p => pc[q] \notin InCritical
    BY <2>1, Alone
  <2>3. pc[p] = "r_adv" /\ pc' = [pc EXCEPT ![p] = "r_wrap"]
    BY <1>22 DEF ReadAdvance, Goto
  <2>4. buffersize \in Nat \ {0} /\ rp \in 0 .. buffersize - 1 /\ wp \in 0 ..
       buffersize - 1
    BY <2>3, PtrInside DEF HasFile, InCritical
  <2>5. rp' \in 0 .. buffersize /\ UNCHANGED <<wp, buffersize>>
    BY <1>22, <2>3, <2>4 DEF ReadAdvance, PtrInv, TypeOK, env, file
  <2>6. pc'[p] = "r_wrap"
    BY <2>3 DEF TypeOK, env, file
  <2>7. \A q \in Procs : pc'[q] \notin {"r_adv", "w_adv"}
    BY <2>2, <2>3 DEF TypeOK, InCritical, env, file
  <2>8. \A q \in Procs : HasFile(q)' => buffersize > 0
    BY <2>4
  <2>9. QED
    BY <2>4, <2>5, <2>6, <2>7, <2>8 DEF PtrInv, env
<1>23. CASE ReadWrap(p)
  <2>1. pc[p] \in InCritical
    BY <1>23 DEF ReadWrap, InCritical, Wrap
  <2>2. \A q \in Procs : q # p => pc[q] \notin InCritical
    BY <2>1, Alone
  <2>3. pc[p] = "r_wrap" /\ pc' = [pc EXCEPT ![p] = "r_wake"]
    BY <1>23 DEF ReadWrap, Goto, Wrap
  <2>4. buffersize \in Nat \ {0}
    <3>1. HasFile(p)
      BY <2>3 DEF HasFile
    <3>2. buffersize \in Nat
      BY SizesAssumption DEF TypeOK, env, file
    <3>3. QED
      BY <3>1, <3>2 DEF PtrInv, env
  <2>5. rp' \in 0 .. buffersize - 1 /\ UNCHANGED <<wp, buffersize>>
    BY <1>23, <2>4 DEF ReadWrap, PtrInv, TypeOK, env, file, Wrap
  <2>6. wp \in 0 .. buffersize - 1
    <3>1. \A q \in Procs : pc[q] # "w_wrap"
      BY <2>2, <2>3 DEF InCritical
    <3>2. QED
      BY <2>4, <3>1 DEF PtrInv, TypeOK, env, file
  <2>7. \A q \in Procs : pc'[q] \notin {"r_adv", "w_adv"}
    BY <2>2, <2>3 DEF TypeOK, InCritical, env, file
  <2>8. QED
    BY <2>4, <2>5, <2>6, <2>7 DEF PtrInv, env
<1>24. CASE ReadWake(p)
  BY <1>24 DEF ReadWake, Return, Leave, Goto, PtrInv, TypeOK, HasFile,
       InCritical, device, block, counts, call, file, spacefree, env
<1>25. CASE WriteDown(p)
  BY <1>25 DEF WriteDown, TakeSem, Down, Goto, PtrInv, TypeOK, HasFile,
       InCritical, device, block, counts, call, file, spacefree, env
<1>26. CASE WriteFull(p)
  BY <1>26 DEF WriteFull, Return, Leave, Up, Goto, PtrInv, TypeOK, HasFile,
       InCritical, device, block, counts, call, file, spacefree, env
<1>27. CASE WritePrepare(p)
  BY <1>27 DEF WritePrepare, Goto, PtrInv, TypeOK, HasFile, InCritical, device,
       block, counts, call, file, spacefree, env
<1>28. CASE WriteTest(p)
  BY <1>28 DEF WriteTest, Goto, PtrInv, TypeOK, HasFile, InCritical, device,
       block, counts, call, file, spacefree, env
<1>29. CASE WriteWoken(p)
  BY <1>29 DEF WriteWoken, Goto, PtrInv, TypeOK, HasFile, InCritical, device,
       block, counts, call, file, spacefree, env
<1>30. CASE WriteFinish(p)
  BY <1>30 DEF WriteFinish, Return, Leave, Goto, PtrInv, TypeOK, HasFile,
       InCritical, device, block, counts, call, file, spacefree, env
<1>31. CASE WriteCopy(p)
  <2>1. pc[p] \in InCritical
    BY <1>31 DEF WriteCopy, InCritical
  <2>2. \A q \in Procs : q # p => pc[q] \notin InCritical
    BY <2>1, Alone
  <2>3. pc[p] = "w_check" /\ spacefree # 0
    BY <1>31 DEF WriteCopy
  <2>4. buffersize \in Nat \ {0} /\ rp \in 0 .. buffersize - 1 /\ wp \in 0 ..
       buffersize - 1
    BY <2>3, PtrInside DEF HasFile, InCritical
  <2>5. UNCHANGED <<rp, wp, buffersize>>
    BY <1>31 DEF WriteCopy, device, block, counts
  <2>6. CASE pc' = [pc EXCEPT ![p] = "open"]
    <3>1. \A q \in Procs : pc'[q] \notin {"r_adv", "w_adv"}
      BY <2>2, <2>6 DEF TypeOK, InCritical, env, file
    <3>2. QED
      BY <2>3, <2>4, <2>5, <2>6, <3>1 DEF PtrInv, TypeOK, HasFile, env, file
  <2>7. CASE /\ count' = [count EXCEPT ![p] = WriteCount(p)]
             /\ pc' = [pc EXCEPT ![p] = "w_adv"]
    <3>1. \A q \in Procs : pc'[q] \in {"r_adv", "w_adv"} => q = p /\ pc'[q] =
         "w_adv"
      BY <2>2, <2>7 DEF TypeOK, InCritical, env, file
    <3>2. count'[p] = WriteCount(p)
      BY <2>7 DEF TypeOK, env, file
    <3>3. wp + count'[p] <= buffersize /\ count'[p] <= spacefree
      BY <2>3, <2>4, <3>2, WriteCountRange DEF TypeOK, env, file
    <3>4. QED
      BY <2>3, <2>4, <2>5, <2>7, <3>1, <3>3 DEF PtrInv, TypeOK, HasFile,
           spacefree, env, file
  <2>8. QED
    BY <1>31, <2>6, <2>7 DEF WriteCopy, Return, Leave, Goto
<1>32. CASE WriteAdvance(p)
  <2>1. pc[p] \in InCritical
    BY <1>32 DEF WriteAdvance, InCritical
  <2>2. \A q \in Procs : q # p => pc[q] \notin InCritical
    BY <2>1, Alone
  <2>3. pc[p] = "w_adv" /\ pc' = [pc EXCEPT ![p] = "w_wrap"]
    BY <1>32 DEF WriteAdvance, Goto
  <2>4. buffersize \in Nat \ {0} /\ rp \in 0 .. buffersize - 1 /\ wp \in 0 ..
       buffersize - 1
    BY <2>3, PtrInside DEF HasFile, InCritical
  <2>5. wp' \in 0 .. buffersize /\ UNCHANGED <<rp, buffersize>>
    BY <1>32, <2>3, <2>4 DEF WriteAdvance, PtrInv, TypeOK, env, file
  <2>6. pc'[p] = "w_wrap"
    BY <2>3 DEF TypeOK, env, file
  <2>7. \A q \in Procs : pc'[q] \notin {"r_adv", "w_adv"}
    BY <2>2, <2>3 DEF TypeOK, InCritical, env, file
  <2>8. \A q \in Procs : HasFile(q)' => buffersize > 0
    BY <2>4
  <2>9. QED
    BY <2>4, <2>5, <2>6, <2>7, <2>8 DEF PtrInv, env
<1>33. CASE WriteWrap(p)
  <2>1. pc[p] \in InCritical
    BY <1>33 DEF WriteWrap, InCritical, Wrap
  <2>2. \A q \in Procs : q # p => pc[q] \notin InCritical
    BY <2>1, Alone
  <2>3. pc[p] = "w_wrap" /\ pc' = [pc EXCEPT ![p] = "w_wake"]
    BY <1>33 DEF WriteWrap, Goto, Wrap
  <2>4. buffersize \in Nat \ {0}
    <3>1. HasFile(p)
      BY <2>3 DEF HasFile
    <3>2. buffersize \in Nat
      BY SizesAssumption DEF TypeOK, env, file
    <3>3. QED
      BY <3>1, <3>2 DEF PtrInv, env
  <2>5. wp' \in 0 .. buffersize - 1 /\ UNCHANGED <<rp, buffersize>>
    BY <1>33, <2>4 DEF WriteWrap, PtrInv, TypeOK, env, file, Wrap
  <2>6. rp \in 0 .. buffersize - 1
    <3>1. \A q \in Procs : pc[q] # "r_wrap"
      BY <2>2, <2>3 DEF InCritical
    <3>2. QED
      BY <2>4, <3>1 DEF PtrInv, TypeOK, env, file
  <2>7. \A q \in Procs : pc'[q] \notin {"r_adv", "w_adv"}
    BY <2>2, <2>3 DEF TypeOK, InCritical, env, file
  <2>8. QED
    BY <2>4, <2>5, <2>6, <2>7 DEF PtrInv, env
<1>34. CASE WriteWake(p)
  BY <1>34 DEF WriteWake, Goto, PtrInv, TypeOK, HasFile, InCritical, device,
       block, counts, call, file, spacefree, env
<1>35. CASE WriteFasync(p)
  BY <1>35 DEF WriteFasync, PtrInv, TypeOK, HasFile, InCritical, device, block,
       counts, call, file, spacefree, env
<1>36. CASE PollDown(p)
  BY <1>36 DEF PollDown, TakeSem, Down, Goto, PtrInv, TypeOK, HasFile,
       InCritical, device, block, counts, call, file, spacefree, env
<1>37. CASE Poll(p)
  BY <1>37 DEF Poll, Return, Leave, Up, Goto, PtrInv, TypeOK, HasFile,
       InCritical, device, block, counts, call, file, spacefree, env
<1>38. CASE PollWoken(p)
  BY <1>38 DEF PollWoken, Return, Leave, Goto, PtrInv, TypeOK, HasFile,
       InCritical, device, block, counts, call, file, spacefree, env
<1>39. QED
  BY <1>1, <1>2, <1>3, <1>4, <1>5, <1>6, <1>7, <1>8, <1>9, <1>10, <1>11, <1>12,
       <1>13, <1>14, <1>15, <1>16, <1>17, <1>18, <1>19, <1>20, <1>21, <1>22,
       <1>23, <1>24, <1>25, <1>26, <1>27, <1>28, <1>29, <1>30, <1>31, <1>32,
       <1>33, <1>34, <1>35, <1>36, <1>37, <1>38
     DEF Begin, Step, OpenStep, ReleaseStep, ReadStep, WriteStep, PollStep

-----------------------------------------------------------------------------
\* IInv is inductive, hence an invariant of the pipe.
THEOREM Inductive == Spec => []IInv
<1>1. Init => IInv
  BY InitIInv
<1>2. IInv /\ [Next]_vars => IInv'
  <2> SUFFICES ASSUME IInv, [Next]_vars PROVE IInv'
    OBVIOUS
  <2>1. CASE Next
    <3>1. PICK p \in Procs : Begin(p) \/ Step(p)
      BY <2>1 DEF Next
    <3>2. QED
      BY <3>1, StepTypeOK, StepMutex, StepPtr DEF IInv
  <2>2. CASE UNCHANGED vars
    BY <2>2 DEF IInv, TypeOK, MutualExclusion, PtrInv, HasFile, spacefree, vars,
         device, block, counts, queues, file, call, env
  <2>3. QED
    BY <2>1, <2>2
<1>3. QED
  BY <1>1, <1>2, PTL DEF Spec

\* The semaphore is 0 or 1, the buffer has the length it was allocated with and
\* the lengths moved are natural numbers, in every reachable state.
THEOREM TypeCorrect == Spec => []TypeOK
<1>1. IInv => TypeOK
  BY DEF IInv
<1>2. QED
  BY <1>1, Inductive, PTL

\* At most one process is between down() and up(), on every path of every call.
THEOREM SemaphoreExcludes == Spec => []MutualExclusion
<1>1. IInv => MutualExclusion
  BY DEF IInv
<1>2. QED
  BY <1>1, Inductive, PTL

\* rp and wp stay below buffersize whatever sizes are set by ioctl, and a
\* transfer never overtakes the other pointer nor passes the end.
THEOREM PointersCorrect == Spec => []PointersInBuffer
<1>1. IInv => PointersInBuffer
  <2> SUFFICES ASSUME IInv PROVE PointersInBuffer
    OBVIOUS
  <2>1. buffersize \in Nat
    BY SizesAssumption DEF IInv, TypeOK, env, file
  <2>2. sem = 1 => ~ \E p \in Procs : pc[p] \in {"r_wrap", "w_wrap"}
    BY DEF IInv, MutualExclusion, InCritical
  <2>3. QED
    BY <2>1, <2>2 DEF IInv, PtrInv, TypeOK, PointersInBuffer, env, file
<1>2. QED
  BY <1>1, Inductive, PTL

-----------------------------------------------------------------------------
(* The two wake-up invariants: nobody sleeps in the pipe through the arrival *)
(* of what it waits for.                                                     *)

\* Asleep and still queued: what the two invariants are about.
ReaderSleeps(p) ==
  p \in inq /\ (pc[p] = "r_sleep" \/ (pc[p] = "p_sleep" /\ p \in outq /\ "R" \in mode[p]))

WriterSleeps(p) ==
  p \in outq \ flushed /\ (pc[p] = "w_sleep" \/ (pc[p] = "p_sleep" /\ p \in inq /\ "W" \in mode[p]))

\* A reader sleeps on an empty pipe, or the writer that has ended that is on its way
\* to the wake-up; and it began with a pipe that a reader was not in the middle of.
ReaderInv ==
  /\ (\E p \in Procs : ReaderSleeps(p)) =>
       rp = wp \/ \E q \in Procs : pc[q] \in {"w_wrap", "w_wake"}
  /\ \A p \in Procs : pc[p] = "r_adv" => rp # wp

\* The same for writers and a full pipe.
WriterInv ==
  /\ (\E p \in Procs : WriterSleeps(p)) =>
       spacefree = 0 \/ \E q \in Procs : pc[q] \in {"r_wrap", "r_wake"}
  /\ \A p \in Procs : pc[p] = "w_adv" => spacefree # 0

-----------------------------------------------------------------------------
\* What no step of p does to another process: move it, change its file, or put it
\* on a queue.  Each may be woken.
Aside(p) ==
  \A q \in Procs \ {p} :
    /\ pc'[q] = pc[q] /\ mode'[q] = mode[q]
    /\ (q \in inq' => q \in inq) /\ (q \in outq' => q \in outq)
    /\ (q \in outq' \ flushed' => q \in outq \ flushed)

LEMMA StepAside ==
  ASSUME TypeOK, NEW p \in Procs, Begin(p) \/ Step(p)
  PROVE  Aside(p)
<1>1. CASE BeginOpen(p)
  BY <1>1 DEF BeginOpen, Goto, Aside, TypeOK, queues, env, file
<1>2. CASE BeginRelease(p)
  BY <1>2 DEF BeginRelease, Goto, Aside, TypeOK, queues, env, file
<1>3. CASE BeginRead(p)
  BY <1>3 DEF BeginRead, Goto, Aside, TypeOK, queues, env, file
<1>4. CASE BeginWrite(p)
  BY <1>4 DEF BeginWrite, Goto, Aside, TypeOK, queues, env, file
<1>5. CASE BeginPoll(p)
  BY <1>5 DEF BeginPoll, Goto, Aside, TypeOK, queues, env, file
<1>6. CASE SetAsync(p)
  BY <1>6 DEF SetAsync, Aside, TypeOK, queues, env, file
<1>7. CASE SetSize(p)
  BY <1>7 DEF SetSize, Aside, TypeOK, queues, env, file
<1>8. CASE Signal(p)
  BY <1>8 DEF Signal, Aside, TypeOK, queues, env, file
<1>9. CASE Interrupted(p)
  BY <1>9 DEF Interrupted, Return, Gone, Leave, Goto, Aside, TypeOK, queues, env,
       file
<1>10. CASE OpenDown(p)
  BY <1>10 DEF OpenDown, TakeSem, Goto, Aside, TypeOK, queues, env, file
<1>11. CASE OpenAlloc(p)
  BY <1>11 DEF OpenAlloc, Goto, Aside, TypeOK, queues, env, file
<1>12. CASE OpenNoMem(p)
  BY <1>12 DEF OpenNoMem, Gone, Leave, Goto, Aside, TypeOK, queues, env, file
<1>13. CASE OpenReset(p)
  BY <1>13 DEF OpenReset, Return, Leave, Goto, Aside, TypeOK, queues, env, file
<1>14. CASE ReleaseDown(p)
  BY <1>14 DEF ReleaseDown, TakeSem, Goto, Aside, TypeOK, queues, env, file
<1>15. CASE Release(p)
  BY <1>15 DEF Release, Gone, Leave, Goto, Aside, TypeOK, queues, env, file
<1>16. CASE ReadDown(p)
  BY <1>16 DEF ReadDown, TakeSem, Goto, Aside, TypeOK, queues, env, file
<1>17. CASE ReadEmpty(p)
  BY <1>17 DEF ReadEmpty, Return, Leave, Goto, Aside, TypeOK, queues, env, file
<1>18. CASE ReadPrepare(p)
  BY <1>18 DEF ReadPrepare, Goto, Aside, TypeOK, queues, env, file
<1>19. CASE ReadTest(p)
  BY <1>19 DEF ReadTest, Return, Leave, Goto, Aside, TypeOK, queues, env, file
<1>20. CASE ReadWoken(p)
  BY <1>20 DEF ReadWoken, Goto, Aside, TypeOK, queues, env, file
<1>21. CASE ReadCopy(p)
  BY <1>21 DEF ReadCopy, Return, Leave, Goto, Aside, TypeOK, queues, env, file
<1>22. CASE ReadAdvance(p)
  BY <1>22 DEF ReadAdvance, Goto, Aside, TypeOK, queues, env, file
<1>23. CASE ReadWrap(p)
  BY <1>23 DEF ReadWrap, Goto, Aside, TypeOK, queues, env, file
<1>24. CASE ReadWake(p)
  BY <1>24 DEF ReadWake, Return, Leave, Goto, Aside, TypeOK, queues, env, file
<1>25. CASE WriteDown(p)
  BY <1>25 DEF WriteDown, TakeSem, Goto, Aside, TypeOK, queues, env, file
<1>26. CASE WriteFull(p)
  BY <1>26 DEF WriteFull, Return, Leave, Goto, Aside, TypeOK, queues, env, file
<1>27. CASE WritePrepare(p)
  BY <1>27 DEF WritePrepare, Goto, Aside, TypeOK, queues, env, file
<1>28. CASE WriteTest(p)
  BY <1>28 DEF WriteTest, Goto, Aside, TypeOK, queues, env, file
<1>29. CASE WriteWoken(p)
  BY <1>29 DEF WriteWoken, Goto, Aside, TypeOK, queues, env, file
<1>30. CASE WriteFinish(p)
  BY <1>30 DEF WriteFinish, Return, Leave, Goto, Aside, TypeOK, queues, env, file
<1>31. CASE WriteCopy(p)
  BY <1>31 DEF WriteCopy, Return, Leave, Goto, Aside, TypeOK, queues, env, file
<1>32. CASE WriteAdvance(p)
  BY <1>32 DEF WriteAdvance, Goto, Aside, TypeOK, queues, env, file
<1>33. CASE WriteWrap(p)
  BY <1>33 DEF WriteWrap, Goto, Aside, TypeOK, queues, env, file
<1>34. CASE WriteWake(p)
  BY <1>34 DEF WriteWake, Goto, Aside, TypeOK, queues, env, file
<1>35. CASE WriteFasync(p)
  BY <1>35 DEF WriteFasync, Aside, TypeOK, queues, env, file
<1>36. CASE PollDown(p)
  BY <1>36 DEF PollDown, TakeSem, Goto, Aside, TypeOK, queues, env, file
<1>37. CASE Poll(p)
  BY <1>37 DEF Poll, Return, Leave, Goto, Aside, TypeOK, queues, env, file
<1>38. CASE PollWoken(p)
  BY <1>38 DEF PollWoken, Return, Leave, Goto, Aside, TypeOK, queues, env, file
<1>39. QED
  BY <1>1, <1>2, <1>3, <1>4, <1>5, <1>6, <1>7, <1>8, <1>9, <1>10, <1>11,
     <1>12, <1>13, <1>14, <1>15, <1>16, <1>17, <1>18, <1>19, <1>20, <1>21,
     <1>22, <1>23, <1>24, <1>25, <1>26, <1>27, <1>28, <1>29, <1>30, <1>31,
     <1>32, <1>33, <1>34, <1>35, <1>36, <1>37, <1>38
     DEF Begin, Step, OpenStep, ReleaseStep, ReadStep, WriteStep, PollStep

-----------------------------------------------------------------------------
(* Readers *)

\* A step that neither moves a pointer, nor ends the way to a wake-up, nor puts p to
\* sleep or in the middle of a read.
LEMMA ReaderCalm ==
  ASSUME ReaderInv, NEW p \in Procs, Aside(p), rp' = rp, wp' = wp,
         pc[p] \notin {"w_wrap", "w_wake"}, pc'[p] \notin {"r_sleep", "p_sleep", "r_adv"}
  PROVE  ReaderInv'
  BY DEF ReaderInv, ReaderSleeps, Aside

\* A step that changes nothing of it.
LEMMA ReaderSame ==
  ASSUME ReaderInv, UNCHANGED <<rp, wp, pc, mode, inq, outq>>
  PROVE  ReaderInv'
  BY DEF ReaderInv, ReaderSleeps

LEMMA StepReader ==
  ASSUME IInv, ReaderInv, NEW p \in Procs, Begin(p) \/ Step(p)
  PROVE  ReaderInv'
<1> USE DEF IInv
<1>0. TypeOK /\ MutualExclusion /\ PtrInv /\ Aside(p)
  BY StepAside
<1>1. CASE BeginOpen(p)
  BY <1>0, <1>1, ReaderCalm
     DEF BeginOpen, Goto, TypeOK, device, block, counts, queues, env, file
<1>2. CASE BeginRelease(p)
  BY <1>0, <1>2, ReaderCalm
     DEF BeginRelease, Goto, TypeOK, device, block, counts, queues, env,
         file
<1>3. CASE BeginRead(p)
  BY <1>0, <1>3, ReaderCalm
     DEF BeginRead, Goto, TypeOK, device, block, counts, queues, env, file
<1>4. CASE BeginWrite(p)
  BY <1>0, <1>4, ReaderCalm
     DEF BeginWrite, Goto, TypeOK, device, block, counts, queues, env, file
<1>5. CASE BeginPoll(p)
  BY <1>0, <1>5, ReaderCalm
     DEF BeginPoll, Goto, TypeOK, device, block, counts, queues, env, file
<1>6. CASE SetAsync(p)
  BY <1>6, ReaderSame DEF SetAsync, device, queues, env, file
<1>7. CASE SetSize(p)
  BY <1>7, ReaderSame DEF SetSize, device, queues, env, file
<1>8. CASE Signal(p)
  BY <1>8, ReaderSame DEF Signal, device, queues, env, file
<1>9. CASE Interrupted(p)
  BY <1>0, <1>9, ReaderCalm
     DEF Interrupted, Return, Gone, Leave, Goto, TypeOK, device, block,
         counts, queues, env, file
<1>10. CASE OpenDown(p)
  BY <1>0, <1>10, ReaderCalm
     DEF OpenDown, TakeSem, Goto, TypeOK, device, block, counts, queues,
         env, file
<1>11. CASE OpenAlloc(p)
  BY <1>0, <1>11, ReaderCalm
     DEF OpenAlloc, Goto, TypeOK, device, block, counts, queues, env, file
<1>12. CASE OpenNoMem(p)
  BY <1>0, <1>12, ReaderCalm
     DEF OpenNoMem, Gone, Leave, Goto, TypeOK, device, block, counts,
         queues, env, file
<1>13. CASE OpenReset(p)
  <2>1. rp' = wp'
    BY <1>13 DEF OpenReset
  <2>2. \A q \in Procs : pc'[q] # "r_adv"
    BY <1>0, <1>13 DEF OpenReset, Return, Leave, Goto, TypeOK, MutualExclusion, InCritical
  <2>3. QED
    BY <2>1, <2>2 DEF ReaderInv
<1>14. CASE ReleaseDown(p)
  BY <1>0, <1>14, ReaderCalm
     DEF ReleaseDown, TakeSem, Goto, TypeOK, device, block, counts, queues,
         env, file
<1>15. CASE Release(p)
  BY <1>0, <1>15, ReaderCalm
     DEF Release, Gone, Leave, Goto, TypeOK, device, block, counts, queues,
         env, file
<1>16. CASE ReadDown(p)
  BY <1>0, <1>16, ReaderCalm
     DEF ReadDown, TakeSem, Goto, TypeOK, device, block, counts, queues,
         env, file
<1>17. CASE ReadEmpty(p)
  BY <1>0, <1>17, ReaderCalm
     DEF ReadEmpty, Return, Leave, Goto, TypeOK, device, block, counts,
         queues, env, file
<1>18. CASE ReadPrepare(p)
  BY <1>0, <1>18, ReaderCalm
     DEF ReadPrepare, Goto, TypeOK, device, block, counts, queues, env, file
<1>19. CASE ReadTest(p)
  <2>1. UNCHANGED <<rp, wp>> /\ pc'[p] \notin {"p_sleep", "r_adv"} /\ pc[p] = "r_test"
    BY <1>0, <1>19 DEF ReadTest, Return, Leave, Goto, TypeOK, device
  <2>2. CASE pc'[p] = "r_sleep"
    <3>1. rp = wp
      BY <1>0, <1>19, <2>2 DEF ReadTest, Return, Leave, Goto, TypeOK
    <3>2. \A q \in Procs : pc'[q] = "r_adv" => pc[q] = "r_adv"
      BY <1>0, <2>2 DEF Aside
    <3>3. QED
      BY <2>1, <3>1, <3>2 DEF ReaderInv
  <2>3. CASE pc'[p] # "r_sleep"
    BY <1>0, <2>1, <2>3, ReaderCalm
  <2>4. QED
    BY <2>2, <2>3
<1>20. CASE ReadWoken(p)
  BY <1>0, <1>20, ReaderCalm
     DEF ReadWoken, Goto, TypeOK, device, block, counts, queues, env, file
<1>21. CASE ReadCopy(p)
  <2>1. UNCHANGED <<rp, wp>> /\ rp # wp /\ pc'[p] \in {"r_adv", "open"} /\ pc[p] = "r_check"
    BY <1>0, <1>21 DEF ReadCopy, Return, Leave, Goto, TypeOK, device
  <2>2. QED
    BY <1>0, <2>1 DEF ReaderInv, ReaderSleeps, Aside
<1>22. CASE ReadAdvance(p)
  <2>1. pc[p] = "r_adv" /\ pc'[p] = "r_wrap"
    BY <1>0, <1>22 DEF ReadAdvance, Goto, TypeOK
  <2>2. \A q \in Procs : pc[q] \in {"r_adv", "w_wrap"} => q = p
    BY <1>0, <2>1 DEF MutualExclusion, InCritical
  <2>3. QED
    BY <1>0, <2>1, <2>2 DEF ReaderInv, ReaderSleeps, Aside
<1>23. CASE ReadWrap(p)
  <2>1. pc[p] = "r_wrap" /\ pc'[p] = "r_wake" /\ wp' = wp /\ rp' = Wrap(rp)
    BY <1>0, <1>23 DEF ReadWrap, Goto, TypeOK
  <2>2. \A q \in Procs : pc[q] \in InCritical => q = p
    BY <1>0, <2>1 DEF MutualExclusion, InCritical
  <2>3. rp = wp => rp' = wp'
    <3>1. HasFile(p) /\ buffersize > 0
      BY <1>0, <2>1 DEF HasFile, PtrInv
    <3>2. wp # buffersize
      BY <2>1, <2>2, <3>1, <1>0 DEF PtrInv, InCritical
    <3>3. QED
      BY <2>1, <3>2 DEF Wrap
  <2>4. QED
    BY <1>0, <2>1, <2>2, <2>3 DEF ReaderInv, ReaderSleeps, Aside, InCritical
<1>24. CASE ReadWake(p)
  BY <1>0, <1>24, ReaderCalm
     DEF ReadWake, Return, Leave, Goto, TypeOK, device, block, counts,
         queues, env, file
<1>25. CASE WriteDown(p)
  BY <1>0, <1>25, ReaderCalm
     DEF WriteDown, TakeSem, Goto, TypeOK, device, block, counts, queues,
         env, file
<1>26. CASE WriteFull(p)
  BY <1>0, <1>26, ReaderCalm
     DEF WriteFull, Return, Leave, Goto, TypeOK, device, block, counts,
         queues, env, file
<1>27. CASE WritePrepare(p)
  BY <1>0, <1>27, ReaderCalm
     DEF WritePrepare, Goto, TypeOK, device, block, counts, queues, env,
         file
<1>28. CASE WriteTest(p)
  BY <1>0, <1>28, ReaderCalm
     DEF WriteTest, Goto, TypeOK, device, block, counts, queues, env, file
<1>29. CASE WriteWoken(p)
  BY <1>0, <1>29, ReaderCalm
     DEF WriteWoken, Goto, TypeOK, device, block, counts, queues, env, file
<1>30. CASE WriteFinish(p)
  BY <1>0, <1>30, ReaderCalm
     DEF WriteFinish, Return, Leave, Goto, TypeOK, device, block, counts,
         queues, env, file
<1>31. CASE WriteCopy(p)
  BY <1>0, <1>31, ReaderCalm
     DEF WriteCopy, Return, Leave, Goto, TypeOK, device, block, counts,
         queues, env, file
<1>32. CASE WriteAdvance(p)
  <2>1. pc[p] = "w_adv" /\ pc'[p] = "w_wrap"
    BY <1>0, <1>32 DEF WriteAdvance, Goto, TypeOK
  <2>2. \A q \in Procs : pc'[q] # "r_adv"
    BY <1>0, <2>1 DEF MutualExclusion, InCritical, Aside
  <2>3. QED
    BY <2>1, <2>2 DEF ReaderInv
<1>33. CASE WriteWrap(p)
  <2>1. pc[p] = "w_wrap" /\ pc'[p] = "w_wake"
    BY <1>0, <1>33 DEF WriteWrap, Goto, TypeOK
  <2>2. \A q \in Procs : pc'[q] # "r_adv"
    BY <1>0, <2>1 DEF MutualExclusion, InCritical, Aside
  <2>3. QED
    BY <2>1, <2>2 DEF ReaderInv
<1>34. CASE WriteWake(p)
  <2>1. inq' = {} /\ UNCHANGED <<rp, wp>> /\ pc'[p] = "w_fasync"
    BY <1>0, <1>34 DEF WriteWake, Goto, TypeOK, device
  <2>2. QED
    BY <1>0, <2>1 DEF ReaderInv, ReaderSleeps, Aside
<1>35. CASE WriteFasync(p)
  BY <1>0, <1>35, ReaderCalm
     DEF WriteFasync, TypeOK, device, block, counts, queues, env, file
<1>36. CASE PollDown(p)
  BY <1>0, <1>36, ReaderCalm
     DEF PollDown, TakeSem, Goto, TypeOK, device, block, counts, queues,
         env, file
<1>37. CASE Poll(p)
  <2>1. UNCHANGED <<rp, wp, mode>> /\ pc[p] = "p_crit" /\ pc'[p] \in {"open", "p_sleep"}
    BY <1>0, <1>37 DEF Poll, Return, Leave, Goto, TypeOK, device, env, file
  <2>2. CASE pc'[p] = "p_sleep" /\ "R" \in mode[p]
    <3>1. rp = wp
      BY <1>0, <1>37, <2>2 DEF Poll, PollReady, Return, Leave, Goto, TypeOK
    <3>2. QED
      BY <1>0, <2>1, <2>2, <3>1 DEF ReaderInv, Aside
  <2>3. CASE pc'[p] = "p_sleep" /\ "R" \notin mode[p]
    BY <1>0, <2>1, <2>3 DEF ReaderInv, ReaderSleeps, Aside
  <2>4. CASE pc'[p] = "open"
    BY <1>0, <2>1, <2>4, ReaderCalm
  <2>5. QED
    BY <2>1, <2>2, <2>3, <2>4
<1>38. CASE PollWoken(p)
  BY <1>0, <1>38, ReaderCalm
     DEF PollWoken, Return, Leave, Goto, TypeOK, device, block, counts,
         queues, env, file
<1>39. QED
  BY <1>1, <1>2, <1>3, <1>4, <1>5, <1>6, <1>7, <1>8, <1>9, <1>10, <1>11,
     <1>12, <1>13, <1>14, <1>15, <1>16, <1>17, <1>18, <1>19, <1>20, <1>21,
     <1>22, <1>23, <1>24, <1>25, <1>26, <1>27, <1>28, <1>29, <1>30, <1>31,
     <1>32, <1>33, <1>34, <1>35, <1>36, <1>37, <1>38
     DEF Begin, Step, OpenStep, ReleaseStep, ReadStep, WriteStep, PollStep

\* A reader, or a process that polls for data, never sleeps beside data without a
\* writer that is about to wake it, whatever the others do and however many they are.
THEOREM ReadersAwakened == Spec => []NoLostReaderWakeup
<1>1. Init => ReaderInv
  BY DEF Init, ReaderInv, ReaderSleeps
<1>2. IInv /\ ReaderInv /\ [Next]_vars => ReaderInv'
  <2> SUFFICES ASSUME IInv, ReaderInv, [Next]_vars PROVE ReaderInv'
    OBVIOUS
  <2>1. CASE Next
    BY <2>1, StepReader DEF Next
  <2>2. CASE UNCHANGED vars
    BY <2>2, ReaderSame DEF vars, device, queues, env, file
  <2>3. QED
    BY <2>1, <2>2
<1>3. IInv /\ ReaderInv => NoLostReaderWakeup
  <2>1. IInv => inq \subseteq Procs
    BY DEF IInv, TypeOK
  <2>2. QED
    BY <2>1 DEF ReaderInv, ReaderSleeps, NoLostReaderWakeup, Moving
<1>4. QED
  BY <1>1, <1>2, <1>3, Inductive, PTL DEF Spec

-----------------------------------------------------------------------------
(* Writers *)

\* A step that neither changes the space, nor ends the way to a wake-up, nor puts p to
\* sleep or in the middle of a write.
LEMMA WriterCalm ==
  ASSUME WriterInv, NEW p \in Procs, Aside(p), spacefree' = spacefree,
         pc[p] \notin {"r_wrap", "r_wake"}, pc'[p] \notin {"w_sleep", "p_sleep", "w_adv"}
  PROVE  WriterInv'
  BY DEF WriterInv, WriterSleeps, Aside

\* A step that changes nothing of it.
LEMMA WriterSame ==
  ASSUME WriterInv, UNCHANGED <<rp, wp, buffersize, pc, mode, inq, outq, flushed>>
  PROVE  WriterInv'
  BY DEF WriterInv, WriterSleeps, spacefree

LEMMA StepWriter ==
  ASSUME IInv, WriterInv, NEW p \in Procs, Begin(p) \/ Step(p)
  PROVE  WriterInv'
<1> USE DEF IInv
<1>0. TypeOK /\ MutualExclusion /\ PtrInv /\ Aside(p)
  BY StepAside
<1>1. CASE BeginOpen(p)
  BY <1>0, <1>1, WriterCalm
     DEF BeginOpen, Goto, TypeOK, device, block, counts, queues, env, file,
         spacefree
<1>2. CASE BeginRelease(p)
  BY <1>0, <1>2, WriterCalm
     DEF BeginRelease, Goto, TypeOK, device, block, counts, queues, env,
         file, spacefree
<1>3. CASE BeginRead(p)
  BY <1>0, <1>3, WriterCalm
     DEF BeginRead, Goto, TypeOK, device, block, counts, queues, env, file,
         spacefree
<1>4. CASE BeginWrite(p)
  BY <1>0, <1>4, WriterCalm
     DEF BeginWrite, Goto, TypeOK, device, block, counts, queues, env,
         file, spacefree
<1>5. CASE BeginPoll(p)
  BY <1>0, <1>5, WriterCalm
     DEF BeginPoll, Goto, TypeOK, device, block, counts, queues, env, file,
         spacefree
<1>6. CASE SetAsync(p)
  BY <1>6, WriterSame DEF SetAsync, device, queues, env, file
<1>7. CASE SetSize(p)
  BY <1>7, WriterSame DEF SetSize, device, queues, env, file
<1>8. CASE Signal(p)
  BY <1>8, WriterSame DEF Signal, device, queues, env, file
<1>9. CASE Interrupted(p)
  BY <1>0, <1>9, WriterCalm
     DEF Interrupted, Return, Gone, Leave, Goto, TypeOK, device, block,
         counts, queues, env, file, spacefree
<1>10. CASE OpenDown(p)
  BY <1>0, <1>10, WriterCalm
     DEF OpenDown, TakeSem, Goto, TypeOK, device, block, counts, queues,
         env, file, spacefree
<1>11. CASE OpenAlloc(p)
  BY <1>0, <1>11, WriterCalm
     DEF OpenAlloc, Goto, TypeOK, device, block, counts, queues, env, file,
         spacefree
<1>12. CASE OpenNoMem(p)
  BY <1>0, <1>12, WriterCalm
     DEF OpenNoMem, Gone, Leave, Goto, TypeOK, device, block, counts,
         queues, env, file, spacefree
<1>13. CASE OpenReset(p)
  <2>1. outq' \ flushed' = {}
    BY <1>13 DEF OpenReset
  <2>2. \A q \in Procs : pc'[q] # "w_adv"
    BY <1>0, <1>13 DEF OpenReset, Return, Leave, Goto, TypeOK, MutualExclusion, InCritical
  <2>3. QED
    BY <2>1, <2>2 DEF WriterInv, WriterSleeps
<1>14. CASE ReleaseDown(p)
  BY <1>0, <1>14, WriterCalm
     DEF ReleaseDown, TakeSem, Goto, TypeOK, device, block, counts, queues,
         env, file, spacefree
<1>15. CASE Release(p)
  BY <1>0, <1>15, WriterCalm
     DEF Release, Gone, Leave, Goto, TypeOK, device, block, counts, queues,
         env, file, spacefree
<1>16. CASE ReadDown(p)
  BY <1>0, <1>16, WriterCalm
     DEF ReadDown, TakeSem, Goto, TypeOK, device, block, counts, queues,
         env, file, spacefree
<1>17. CASE ReadEmpty(p)
  BY <1>0, <1>17, WriterCalm
     DEF ReadEmpty, Return, Leave, Goto, TypeOK, device, block, counts,
         queues, env, file, spacefree
<1>18. CASE ReadPrepare(p)
  BY <1>0, <1>18, WriterCalm
     DEF ReadPrepare, Goto, TypeOK, device, block, counts, queues, env,
         file, spacefree
<1>19. CASE ReadTest(p)
  BY <1>0, <1>19, WriterCalm
     DEF ReadTest, Return, Leave, Goto, TypeOK, device, block, counts,
         queues, env, file, spacefree
<1>20. CASE ReadWoken(p)
  BY <1>0, <1>20, WriterCalm
     DEF ReadWoken, Goto, TypeOK, device, block, counts, queues, env, file,
         spacefree
<1>21. CASE ReadCopy(p)
  BY <1>0, <1>21, WriterCalm
     DEF ReadCopy, Return, Leave, Goto, TypeOK, device, block, counts,
         queues, env, file, spacefree
<1>22. CASE ReadAdvance(p)
  <2>1. pc[p] = "r_adv" /\ pc'[p] = "r_wrap"
    BY <1>0, <1>22 DEF ReadAdvance, Goto, TypeOK
  <2>2. \A q \in Procs : pc'[q] # "w_adv"
    BY <1>0, <2>1 DEF MutualExclusion, InCritical, Aside
  <2>3. QED
    BY <2>1, <2>2 DEF WriterInv
<1>23. CASE ReadWrap(p)
  <2>1. pc[p] = "r_wrap" /\ pc'[p] = "r_wake"
    BY <1>0, <1>23 DEF ReadWrap, Goto, TypeOK
  <2>2. \A q \in Procs : pc'[q] # "w_adv"
    BY <1>0, <2>1 DEF MutualExclusion, InCritical, Aside
  <2>3. QED
    BY <2>1, <2>2 DEF WriterInv
<1>24. CASE ReadWake(p)
  <2>1. outq' = {} /\ UNCHANGED <<rp, wp, buffersize>> /\ pc'[p] = "open"
    BY <1>0, <1>24 DEF ReadWake, Return, Leave, Goto, TypeOK, device
  <2>2. spacefree' = spacefree
    BY <2>1 DEF spacefree
  <2>3. QED
    BY <1>0, <2>1, <2>2 DEF WriterInv, WriterSleeps, Aside
<1>25. CASE WriteDown(p)
  BY <1>0, <1>25, WriterCalm
     DEF WriteDown, TakeSem, Goto, TypeOK, device, block, counts, queues,
         env, file, spacefree
<1>26. CASE WriteFull(p)
  BY <1>0, <1>26, WriterCalm
     DEF WriteFull, Return, Leave, Goto, TypeOK, device, block, counts,
         queues, env, file, spacefree
<1>27. CASE WritePrepare(p)
  BY <1>0, <1>27, WriterCalm
     DEF WritePrepare, Goto, TypeOK, device, block, counts, queues, env,
         file, spacefree
<1>28. CASE WriteTest(p)
  <2>1. /\ UNCHANGED <<rp, wp, buffersize>> /\ pc[p] = "w_test"
        /\ pc'[p] = IF spacefree = 0 THEN "w_sleep" ELSE "w_finish"
    BY <1>0, <1>28 DEF WriteTest, Goto, TypeOK, device
  <2>2. spacefree' = spacefree
    BY <2>1 DEF spacefree
  <2>3. QED
    BY <1>0, <2>1, <2>2 DEF WriterInv, WriterSleeps, Aside
<1>29. CASE WriteWoken(p)
  BY <1>0, <1>29, WriterCalm
     DEF WriteWoken, Goto, TypeOK, device, block, counts, queues, env,
         file, spacefree
<1>30. CASE WriteFinish(p)
  BY <1>0, <1>30, WriterCalm
     DEF WriteFinish, Return, Leave, Goto, TypeOK, device, block, counts,
         queues, env, file, spacefree
<1>31. CASE WriteCopy(p)
  <2>1. /\ UNCHANGED <<rp, wp, buffersize>> /\ spacefree # 0
        /\ pc'[p] \in {"w_adv", "open"} /\ pc[p] = "w_check"
    BY <1>0, <1>31 DEF WriteCopy, Return, Leave, Goto, TypeOK
  <2>2. spacefree' = spacefree
    BY <2>1 DEF spacefree
  <2>3. QED
    BY <1>0, <2>1, <2>2 DEF WriterInv, WriterSleeps, Aside
<1>32. CASE WriteAdvance(p)
  <2>1. pc[p] = "w_adv" /\ pc'[p] = "w_wrap"
    BY <1>0, <1>32 DEF WriteAdvance, Goto, TypeOK
  <2>2. \A q \in Procs : pc[q] \in {"w_adv", "r_wrap"} => q = p
    BY <1>0, <2>1 DEF MutualExclusion, InCritical
  <2>3. QED
    BY <1>0, <2>1, <2>2 DEF WriterInv, WriterSleeps, Aside
<1>33. CASE WriteWrap(p)
  <2>1. /\ pc[p] = "w_wrap" /\ pc'[p] = "w_wake"
        /\ UNCHANGED <<rp, buffersize>> /\ wp' = Wrap(wp)
    BY <1>0, <1>33 DEF WriteWrap, Goto, TypeOK
  <2>2. \A q \in Procs : pc[q] \in InCritical => q = p
    BY <1>0, <2>1 DEF MutualExclusion, InCritical
  <2>3. buffersize \in Nat /\ buffersize > 0 /\ rp \in 0 .. buffersize - 1
    <3>1. HasFile(p) /\ buffersize \in Nat
      BY <1>0, <2>1, SizesAssumption DEF HasFile, TypeOK
    <3>2. QED
      BY <2>1, <2>2, <3>1, <1>0 DEF PtrInv, InCritical
  <2>4. spacefree = 0 => spacefree' = 0
    <3>1. CASE wp # buffersize
      BY <2>1, <3>1 DEF Wrap, spacefree
    <3>2. CASE wp = buffersize
      <4>1. rp + buffersize - wp = rp /\ rp % buffersize = rp
        BY <2>3, <3>2
      <4>2. spacefree = rp - 1
        BY <2>3, <3>2, <4>1 DEF spacefree
      <4>3. rp = 1 => (rp + buffersize - 0) % buffersize = 1 % buffersize
        BY <2>3, ModWrap
      <4>4. QED
        BY <2>1, <2>3, <3>2, <4>1, <4>2, <4>3 DEF Wrap, spacefree
    <3>3. QED
      BY <3>1, <3>2
  <2>5. QED
    BY <1>0, <2>1, <2>2, <2>4 DEF WriterInv, WriterSleeps, Aside, InCritical
<1>34. CASE WriteWake(p)
  BY <1>0, <1>34, WriterCalm
     DEF WriteWake, Goto, TypeOK, device, block, counts, queues, env, file,
         spacefree
<1>35. CASE WriteFasync(p)
  BY <1>0, <1>35, WriterCalm
     DEF WriteFasync, TypeOK, device, block, counts, queues, env, file,
         spacefree
<1>36. CASE PollDown(p)
  BY <1>0, <1>36, WriterCalm
     DEF PollDown, TakeSem, Goto, TypeOK, device, block, counts, queues,
         env, file, spacefree
<1>37. CASE Poll(p)
  <2>1. /\ UNCHANGED <<rp, wp, buffersize, mode>>
        /\ pc[p] = "p_crit" /\ pc'[p] \in {"open", "p_sleep"}
    BY <1>0, <1>37 DEF Poll, Return, Leave, Goto, TypeOK, device, env, file
  <2>2. spacefree' = spacefree
    BY <2>1 DEF spacefree
  <2>3. CASE pc'[p] = "p_sleep" /\ "W" \in mode[p]
    <3>1. spacefree = 0
      BY <1>0, <1>37, <2>3 DEF Poll, PollReady, Return, Leave, Goto, TypeOK
    <3>2. QED
      BY <1>0, <2>1, <2>2, <2>3, <3>1 DEF WriterInv, Aside
  <2>4. CASE pc'[p] = "p_sleep" /\ "W" \notin mode[p]
    BY <1>0, <2>1, <2>2, <2>4 DEF WriterInv, WriterSleeps, Aside
  <2>5. CASE pc'[p] = "open"
    BY <1>0, <2>1, <2>2, <2>5, WriterCalm
  <2>6. QED
    BY <2>1, <2>3, <2>4, <2>5
<1>38. CASE PollWoken(p)
  BY <1>0, <1>38, WriterCalm
     DEF PollWoken, Return, Leave, Goto, TypeOK, device, block, counts,
         queues, env, file, spacefree
<1>39. QED
  BY <1>1, <1>2, <1>3, <1>4, <1>5, <1>6, <1>7, <1>8, <1>9, <1>10, <1>11,
     <1>12, <1>13, <1>14, <1>15, <1>16, <1>17, <1>18, <1>19, <1>20, <1>21,
     <1>22, <1>23, <1>24, <1>25, <1>26, <1>27, <1>28, <1>29, <1>30, <1>31,
     <1>32, <1>33, <1>34, <1>35, <1>36, <1>37, <1>38
     DEF Begin, Step, OpenStep, ReleaseStep, ReadStep, WriteStep, PollStep

\* A writer, or a process that polls for space, never sleeps beside free space without
\* a reader that is about to wake it, unless an open has reset the pipe under it.
THEOREM WritersAwakened == Spec => []NoLostWriterWakeup
<1>1. Init => WriterInv
  BY DEF Init, WriterInv, WriterSleeps
<1>2. IInv /\ WriterInv /\ [Next]_vars => WriterInv'
  <2> SUFFICES ASSUME IInv, WriterInv, [Next]_vars PROVE WriterInv'
    OBVIOUS
  <2>1. CASE Next
    BY <2>1, StepWriter DEF Next
  <2>2. CASE UNCHANGED vars
    BY <2>2, WriterSame DEF vars, device, queues, env, file
  <2>3. QED
    BY <2>1, <2>2
<1>3. IInv /\ WriterInv => NoLostWriterWakeup
  <2>1. IInv => outq \ flushed \subseteq Procs
    BY DEF IInv, TypeOK
  <2>2. QED
    BY <2>1 DEF WriterInv, WriterSleeps, NoLostWriterWakeup, Moving
<1>4. QED
  BY <1>1, <1>2, <1>3, Inductive, PTL DEF Spec

-----------------------------------------------------------------------------
(* The life of the buffer *)

\* The files that count as readers, x = "R", or as writers, x = "W".
FilesFor(x) == {p \in Procs : HasFile(p) /\ x \in mode[p]}

\* The two counts count the files; the buffer is there for each of them, and for an
\* open that has just made it; and somebody is left who will free it.
LifeInv ==
  /\ nreaders = Cardinality(FilesFor("R")) /\ nwriters = Cardinality(FilesFor("W"))
  /\ \A p \in Procs : (HasFile(p) /\ mode[p] # {}) \/ pc[p] = "o_reset" => alloc # 0
  /\ alloc # 0 => \E p \in Procs : HasFile(p) \/ pc[p] = "o_reset"

LEMMA FilesFinite ==
  ASSUME NEW x
  PROVE  IsFiniteSet(FilesFor(x)) /\ Cardinality(FilesFor(x)) \in Nat
<1>1. FilesFor(x) \in SUBSET Procs
  BY DEF FilesFor
<1>2. IsFiniteSet(FilesFor(x))
  BY <1>1, ProcsAssumption, FS_Subset
<1>3. QED
  BY <1>2, FS_CardinalityType

\* A step of p that neither gives it a file nor takes it, and leaves the buffer.
LEMMA LifeCalm ==
  ASSUME LifeInv, NEW p \in Procs, Aside(p), UNCHANGED <<alloc, nreaders, nwriters>>,
         HasFile(p)' = HasFile(p), HasFile(p) => mode'[p] = mode[p],
         pc'[p] = "o_reset" <=> pc[p] = "o_reset"
  PROVE  LifeInv'
<1>1. \A q \in Procs : HasFile(q)' = HasFile(q) /\ (HasFile(q) => mode'[q] = mode[q])
                      /\ (pc'[q] = "o_reset" <=> pc[q] = "o_reset")
  BY DEF Aside, HasFile
<1>2. FilesFor("R")' = FilesFor("R") /\ FilesFor("W")' = FilesFor("W")
  BY <1>1 DEF FilesFor
<1>3. QED
  BY <1>1, <1>2 DEF LifeInv

\* The counts after an open has counted the file of p.
LEMMA OpenCounts ==
  ASSUME IInv, LifeInv, NEW p \in Procs, OpenReset(p)
  PROVE  /\ nreaders' = Cardinality(FilesFor("R"))' /\ nwriters' = Cardinality(FilesFor("W"))'
<1>0. TypeOK /\ Aside(p)
  BY StepAside DEF IInv, Step, OpenStep
<1>1. ~HasFile(p) /\ HasFile(p)' /\ mode' = mode
  BY <1>0 DEF OpenReset, Return, Leave, Goto, HasFile, TypeOK, env, file
<1>2. \A x : FilesFor(x)' = IF x \in mode[p] THEN FilesFor(x) \cup {p} ELSE FilesFor(x)
  BY <1>0, <1>1 DEF Aside, FilesFor, HasFile
<1>3. \A x : p \notin FilesFor(x)
  BY <1>1 DEF FilesFor
<1>4. Cardinality(FilesFor("R"))' = IF "R" \in mode[p] THEN Cardinality(FilesFor("R")) + 1
                                   ELSE Cardinality(FilesFor("R"))
  BY <1>2, <1>3, FilesFinite, FS_AddElement
<1>5. Cardinality(FilesFor("W"))' = IF "W" \in mode[p] THEN Cardinality(FilesFor("W")) + 1
                                   ELSE Cardinality(FilesFor("W"))
  BY <1>2, <1>3, FilesFinite, FS_AddElement
<1>6. QED
  BY <1>4, <1>5 DEF OpenReset, Opened, LifeInv

\* ... and after a close has taken it off.
LEMMA CloseCounts ==
  ASSUME IInv, LifeInv, NEW p \in Procs, Release(p)
  PROVE  /\ nreaders' = Cardinality(FilesFor("R"))' /\ nwriters' = Cardinality(FilesFor("W"))'
<1>0. TypeOK /\ Aside(p)
  BY StepAside DEF IInv, Step, ReleaseStep
<1>1. HasFile(p) /\ ~HasFile(p)'
  BY <1>0 DEF Release, Gone, Leave, Goto, HasFile, TypeOK
<1>2. \A x : FilesFor(x)' = FilesFor(x) \ {p}
  BY <1>0, <1>1 DEF Aside, FilesFor, HasFile
<1>3. \A x : p \in FilesFor(x) <=> x \in mode[p]
  BY <1>1 DEF FilesFor
<1>4. Cardinality(FilesFor("R"))' = IF "R" \in mode[p] THEN Cardinality(FilesFor("R")) - 1
                                   ELSE Cardinality(FilesFor("R"))
  BY <1>2, <1>3, FilesFinite, FS_RemoveElement
<1>5. Cardinality(FilesFor("W"))' = IF "W" \in mode[p] THEN Cardinality(FilesFor("W")) - 1
                                   ELSE Cardinality(FilesFor("W"))
  BY <1>2, <1>3, FilesFinite, FS_RemoveElement
<1>6. QED
  BY <1>4, <1>5 DEF Release, Closed, LifeInv

\* The close that brings both counts to zero leaves no file with a mode behind; any
\* other leaves one.
LEMMA StepRelease ==
  ASSUME IInv, LifeInv, NEW p \in Procs, Release(p)
  PROVE  LifeInv'
<1>0. TypeOK /\ MutualExclusion /\ Aside(p) /\ pc[p] = "c_crit" /\ pc'[p] = "closed"
  BY StepAside DEF IInv, Step, ReleaseStep, Release, Gone, Leave, Goto, TypeOK
<1>1. nreaders' = Cardinality(FilesFor("R"))' /\ nwriters' = Cardinality(FilesFor("W"))'
  BY CloseCounts
<1>2. nreaders' \in Nat /\ nwriters' \in Nat
  <2>1. \A x : FilesFor(x)' \subseteq FilesFor(x)
    BY <1>0 DEF FilesFor, HasFile, Aside
  <2>2. \A x : IsFiniteSet(FilesFor(x)') /\ Cardinality(FilesFor(x)') \in Nat
    BY <2>1, FilesFinite, FS_Subset, FS_CardinalityType
  <2>3. QED
    BY <1>1, <2>2
<1>3. nreaders' + nwriters' = 0 <=> FilesFor("R")' = {} /\ FilesFor("W")' = {}
  <2>1. \A x : FilesFor(x)' \subseteq FilesFor(x)
    BY <1>0 DEF FilesFor, HasFile, Aside
  <2>2. \A x : IsFiniteSet(FilesFor(x)')
    BY <2>1, FilesFinite, FS_Subset
  <2>3. \A x : Cardinality(FilesFor(x)') = 0 <=> FilesFor(x)' = {}
    BY <2>2, FS_EmptySet
  <2>4. QED
    BY <1>1, <1>2, <2>3
<1>4. \A q \in Procs : pc'[q] # "o_reset"
  BY <1>0 DEF MutualExclusion, InCritical, Aside
<1>5. CASE nreaders' + nwriters' = 0
  <2>1. alloc' = 0
    BY <1>5 DEF Release, LastClose
  <2>2. \A q \in Procs : HasFile(q)' => mode'[q] = {}
    <3>1. \A q \in Procs : HasFile(q)' => "R" \notin mode'[q] /\ "W" \notin mode'[q]
      BY <1>3, <1>5 DEF FilesFor
    <3>2. \A q \in Procs : HasFile(q)' => mode'[q] \in SUBSET {"R", "W"}
      BY <1>0 DEF HasFile, Aside, TypeOK
    <3>3. QED
      BY <3>1, <3>2
  <2>3. QED
    BY <1>1, <1>4, <2>1, <2>2 DEF LifeInv
<1>6. CASE nreaders' + nwriters' # 0
  <2>1. alloc' = alloc
    BY <1>6 DEF Release, LastClose, block
  <2>2. \E q \in Procs : HasFile(q)'
    BY <1>3, <1>6 DEF FilesFor
  <2>3. \A q \in Procs : HasFile(q)' => HasFile(q) /\ mode'[q] = mode[q]
    BY <1>0 DEF HasFile, Aside
  <2>4. QED
    BY <1>1, <1>4, <2>1, <2>2, <2>3 DEF LifeInv
<1>7. QED
  BY <1>5, <1>6

-----------------------------------------------------------------------------
LEMMA StepLife ==
  ASSUME IInv, LifeInv, NEW p \in Procs, Begin(p) \/ Step(p)
  PROVE  LifeInv'
<1>0. TypeOK /\ MutualExclusion /\ Aside(p)
  BY StepAside DEF IInv
<1>1. CASE BeginOpen(p)
  BY <1>0, <1>1, LifeCalm
     DEF BeginOpen, Goto, TypeOK, HasFile, device, block, counts, env, file
<1>2. CASE BeginRelease(p)
  BY <1>0, <1>2, LifeCalm
     DEF BeginRelease, Goto, TypeOK, HasFile, device, block, counts, env,
         file
<1>3. CASE BeginRead(p)
  BY <1>0, <1>3, LifeCalm
     DEF BeginRead, Goto, TypeOK, HasFile, device, block, counts, env, file
<1>4. CASE BeginWrite(p)
  BY <1>0, <1>4, LifeCalm
     DEF BeginWrite, Goto, TypeOK, HasFile, device, block, counts, env,
         file
<1>5. CASE BeginPoll(p)
  BY <1>0, <1>5, LifeCalm
     DEF BeginPoll, Goto, TypeOK, HasFile, device, block, counts, env, file
<1>6. CASE SetAsync(p)
  BY <1>0, <1>6, LifeCalm
     DEF SetAsync, TypeOK, HasFile, device, block, counts, env, file
<1>7. CASE SetSize(p)
  BY <1>0, <1>7, LifeCalm
     DEF SetSize, TypeOK, HasFile, device, block, counts, env, file
<1>8. CASE Signal(p)
  BY <1>0, <1>8, LifeCalm
     DEF Signal, TypeOK, HasFile, device, block, counts, env, file
<1>9. CASE Interrupted(p)
  BY <1>0, <1>9, LifeCalm
     DEF Interrupted, Return, Gone, Leave, Goto, TypeOK, HasFile, device,
         block, counts, env, file
<1>10. CASE OpenDown(p)
  BY <1>0, <1>10, LifeCalm
     DEF OpenDown, TakeSem, Goto, TypeOK, HasFile, device, block, counts,
         env, file
<1>11. CASE OpenAlloc(p)
  <2>1. pc[p] = "o_alloc" /\ pc'[p] = "o_reset" /\ UNCHANGED <<mode, nreaders, nwriters>>
    BY <1>0, <1>11 DEF OpenAlloc, Goto, TypeOK, counts, env, file
  <2>2. alloc' # 0 /\ (alloc # 0 => alloc' = alloc)
    BY <1>0, <1>11, SizesAssumption DEF OpenAlloc, block, TypeOK
  <2>3. \A q \in Procs : HasFile(q)' = HasFile(q)
    BY <1>0, <2>1 DEF Aside, HasFile
  <2>4. FilesFor("R")' = FilesFor("R") /\ FilesFor("W")' = FilesFor("W")
    BY <2>1, <2>3 DEF FilesFor
  <2>5. QED
    BY <2>1, <2>2, <2>4 DEF LifeInv
<1>12. CASE OpenNoMem(p)
  BY <1>0, <1>12, LifeCalm
     DEF OpenNoMem, Gone, Leave, Goto, TypeOK, HasFile, device, block,
         counts, env, file
<1>13. CASE OpenReset(p)
  <2>1. pc[p] = "o_reset" /\ pc'[p] = "open" /\ alloc' = alloc
    BY <1>0, <1>13 DEF OpenReset, Return, Leave, Goto, TypeOK, block
  <2>2. alloc # 0 /\ HasFile(p)'
    BY <2>1 DEF LifeInv, HasFile
  <2>3. QED
    BY <2>1, <2>2, <1>13, OpenCounts DEF LifeInv
<1>14. CASE ReleaseDown(p)
  BY <1>0, <1>14, LifeCalm
     DEF ReleaseDown, TakeSem, Goto, TypeOK, HasFile, device, block,
         counts, env, file
<1>15. CASE Release(p)
  BY <1>15, StepRelease
<1>16. CASE ReadDown(p)
  BY <1>0, <1>16, LifeCalm
     DEF ReadDown, TakeSem, Goto, TypeOK, HasFile, device, block, counts,
         env, file
<1>17. CASE ReadEmpty(p)
  BY <1>0, <1>17, LifeCalm
     DEF ReadEmpty, Return, Leave, Goto, TypeOK, HasFile, device, block,
         counts, env, file
<1>18. CASE ReadPrepare(p)
  BY <1>0, <1>18, LifeCalm
     DEF ReadPrepare, Goto, TypeOK, HasFile, device, block, counts, env,
         file
<1>19. CASE ReadTest(p)
  BY <1>0, <1>19, LifeCalm
     DEF ReadTest, Return, Leave, Goto, TypeOK, HasFile, device, block,
         counts, env, file
<1>20. CASE ReadWoken(p)
  BY <1>0, <1>20, LifeCalm
     DEF ReadWoken, Goto, TypeOK, HasFile, device, block, counts, env, file
<1>21. CASE ReadCopy(p)
  BY <1>0, <1>21, LifeCalm
     DEF ReadCopy, Return, Leave, Goto, TypeOK, HasFile, device, block,
         counts, env, file
<1>22. CASE ReadAdvance(p)
  BY <1>0, <1>22, LifeCalm
     DEF ReadAdvance, Goto, TypeOK, HasFile, device, block, counts, env,
         file
<1>23. CASE ReadWrap(p)
  BY <1>0, <1>23, LifeCalm
     DEF ReadWrap, Goto, TypeOK, HasFile, device, block, counts, env, file
<1>24. CASE ReadWake(p)
  BY <1>0, <1>24, LifeCalm
     DEF ReadWake, Return, Leave, Goto, TypeOK, HasFile, device, block,
         counts, env, file
<1>25. CASE WriteDown(p)
  BY <1>0, <1>25, LifeCalm
     DEF WriteDown, TakeSem, Goto, TypeOK, HasFile, device, block, counts,
         env, file
<1>26. CASE WriteFull(p)
  BY <1>0, <1>26, LifeCalm
     DEF WriteFull, Return, Leave, Goto, TypeOK, HasFile, device, block,
         counts, env, file
<1>27. CASE WritePrepare(p)
  BY <1>0, <1>27, LifeCalm
     DEF WritePrepare, Goto, TypeOK, HasFile, device, block, counts, env,
         file
<1>28. CASE WriteTest(p)
  BY <1>0, <1>28, LifeCalm
     DEF WriteTest, Goto, TypeOK, HasFile, device, block, counts, env, file
<1>29. CASE WriteWoken(p)
  BY <1>0, <1>29, LifeCalm
     DEF WriteWoken, Goto, TypeOK, HasFile, device, block, counts, env,
         file
<1>30. CASE WriteFinish(p)
  BY <1>0, <1>30, LifeCalm
     DEF WriteFinish, Return, Leave, Goto, TypeOK, HasFile, device, block,
         counts, env, file
<1>31. CASE WriteCopy(p)
  BY <1>0, <1>31, LifeCalm
     DEF WriteCopy, Return, Leave, Goto, TypeOK, HasFile, device, block,
         counts, env, file
<1>32. CASE WriteAdvance(p)
  BY <1>0, <1>32, LifeCalm
     DEF WriteAdvance, Goto, TypeOK, HasFile, device, block, counts, env,
         file
<1>33. CASE WriteWrap(p)
  BY <1>0, <1>33, LifeCalm
     DEF WriteWrap, Goto, TypeOK, HasFile, device, block, counts, env, file
<1>34. CASE WriteWake(p)
  BY <1>0, <1>34, LifeCalm
     DEF WriteWake, Goto, TypeOK, HasFile, device, block, counts, env, file
<1>35. CASE WriteFasync(p)
  BY <1>0, <1>35, LifeCalm
     DEF WriteFasync, TypeOK, HasFile, device, block, counts, env, file
<1>36. CASE PollDown(p)
  BY <1>0, <1>36, LifeCalm
     DEF PollDown, TakeSem, Goto, TypeOK, HasFile, device, block, counts,
         env, file
<1>37. CASE Poll(p)
  BY <1>0, <1>37, LifeCalm
     DEF Poll, Return, Leave, Goto, TypeOK, HasFile, device, block, counts,
         env, file
<1>38. CASE PollWoken(p)
  BY <1>0, <1>38, LifeCalm
     DEF PollWoken, Return, Leave, Goto, TypeOK, HasFile, device, block,
         counts, env, file
<1>39. QED
  BY <1>1, <1>2, <1>3, <1>4, <1>5, <1>6, <1>7, <1>8, <1>9, <1>10, <1>11,
     <1>12, <1>13, <1>14, <1>15, <1>16, <1>17, <1>18, <1>19, <1>20, <1>21,
     <1>22, <1>23, <1>24, <1>25, <1>26, <1>27, <1>28, <1>29, <1>30, <1>31,
     <1>32, <1>33, <1>34, <1>35, <1>36, <1>37, <1>38
     DEF Begin, Step, OpenStep, ReleaseStep, ReadStep, WriteStep, PollStep

\* While a file is open for reading or writing its buffer is there, and once every
\* file is closed it is gone, whichever opens fail and in whatever order they close.
THEOREM BufferLives == Spec => []BufferLifetime
<1>1. Init => LifeInv
  <2> SUFFICES ASSUME Init PROVE LifeInv
    OBVIOUS
  <2>1. \A p \in Procs : pc[p] = "closed" /\ ~HasFile(p)
    BY DEF Init, HasFile
  <2>2. FilesFor("R") = {} /\ FilesFor("W") = {}
    BY <2>1 DEF FilesFor
  <2>3. QED
    BY <2>1, <2>2, FS_EmptySet DEF Init, LifeInv
<1>2. IInv /\ LifeInv /\ [Next]_vars => LifeInv'
  <2> SUFFICES ASSUME IInv, LifeInv, [Next]_vars PROVE LifeInv'
    OBVIOUS
  <2>1. CASE Next
    BY <2>1, StepLife DEF Next
  <2>2. CASE UNCHANGED vars
    <3>1. \A x : FilesFor(x)' = FilesFor(x)
      BY <2>2 DEF vars, FilesFor, HasFile, env, file
    <3>2. QED
      BY <2>2, <3>1 DEF vars, device, block, counts, env, file, LifeInv, HasFile
  <2>3. QED
    BY <2>1, <2>2
<1>3. LifeInv => BufferLifetime
  BY DEF LifeInv, BufferLifetime, HasFile
<1>4. QED
  BY <1>1, <1>2, <1>3, Inductive, PTL DEF Spec
=============================================================================
