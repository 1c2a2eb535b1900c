--------------------------- MODULE ScullUidProofs ---------------------------
(***************************************************************************)
(* Proofs about ScullUid.  Who may have the device follows from what the   *)
(* count counts: the owner changes only when it is zero, and then there is *)
(* nobody left whom the change could disown.  That no wake-up is lost      *)
(* follows from the order in scull_w_open: a process is on the queue       *)
(* before it reads the count, so a last release after that read will still *)
(* find it there.                                                          *)
(***************************************************************************)
EXTENDS ScullUid, FiniteSetTheorems, TLAPS

Waiting == {"w_prep", "w_count", "w_owner", "w_sleep", "w_wake"}

\* Only scullwuid has processes that wait or wake others.
WaitersOnlyIfWaits == \A p \in Procs : pc[p] \in Waiting => Waits

\* Wherever a queued process has found the count positive, it is positive
\* still or there is a wake-up on its way.
Sighted == (\E p \in scull_w_wait : pc[p] \in {"w_owner", "w_sleep"})
              => scull_w_count > 0 \/ \E q \in Procs : pc[q] = "w_wake"

IInv == TypeOK /\ HoldersBelong /\ WaitersOnlyIfWaits /\ Sighted

\* The holders are finitely many.
LEMMA HoldersFinite == IsFiniteSet(Holders) /\ Cardinality(Holders) \in Nat
<1>1. Holders \subseteq Procs
  BY DEF Holders
<1>. QED  BY <1>1, ProcsAssumption, FS_Subset, FS_CardinalityType

\* The counter counts on when a process joins the holders ...
LEMMA Joins ==
  ASSUME NEW p, p \notin Holders, Holders' = Holders \cup {p}
  PROVE  Cardinality(Holders') = Cardinality(Holders) + 1
BY HoldersFinite, FS_AddElement

\* ... and down when one leaves them.
LEMMA Leaves ==
  ASSUME NEW p \in Holders, Holders' = Holders \ {p}
  PROVE  Cardinality(Holders') = Cardinality(Holders) - 1
BY HoldersFinite, FS_RemoveElement

\* The device is free exactly when nobody holds it.
LEMMA FreeMeansNoHolder ==
  ASSUME TypeOK
  PROVE  scull_w_count \in Nat /\ (scull_w_count = 0 <=> Holders = {})
BY HoldersFinite, FS_EmptySet DEF TypeOK

\* What a step of p from one statement to another does to pc and the holders.
LEMMA GotoHolders ==
  ASSUME TypeOK, NEW p \in Procs, NEW from, NEW to \in PCs, Goto(p, from, to)
  PROVE  /\ pc' \in [Procs -> PCs]
         /\ pc[p] = from /\ pc'[p] = to
         /\ \A q \in Procs : q # p => pc'[q] = pc[q]
         /\ Holders' = IF to \in Holding THEN Holders \cup {p} ELSE Holders \ {p}
<1>1. pc' \in [Procs -> PCs] /\ \A q \in Procs : pc'[q] = IF q = p THEN to ELSE pc[q]
  BY DEF Goto, TypeOK
<1>. QED  BY <1>1 DEF Holders, Goto

\* A step that keeps the holders and the lock keeps the count and who belongs.
LEMMA SameHolders ==
  ASSUME IInv, Holders' = Holders, UNCHANGED lock
  PROVE  /\ scull_w_count' = Cardinality(Holders') /\ scull_w_owner' \in Users
         /\ HoldersBelong'
BY DEF IInv, TypeOK, HoldersBelong, Belongs, lock

\* Initially nobody is in the kernel.
LEMMA InitIInv == Init => IInv
<1>. SUFFICES ASSUME Init PROVE IInv
  OBVIOUS
<1>1. Holders = {}
  BY DEF Init, Holders, Holding
<1>2. Cardinality(Holders) = 0
  BY <1>1, FS_EmptySet
<1>. QED
  BY <1>1, <1>2, UsersAssumption
  DEF Init, IInv, TypeOK, PCs, Holding, HoldersBelong, WaitersOnlyIfWaits, Waiting, Sighted

\* A step outside the lock that neither changes who holds the device nor adds
\* a queued process that has found it taken keeps the invariant.
LEMMA QuietStep ==
  ASSUME IInv, NEW p \in Procs, NEW from \in PCs \ Holding, NEW to \in PCs \ Holding,
         Goto(p, from, to), UNCHANGED lock,
         from # "w_wake", to \in Waiting => Waits,
         scull_w_wait' \subseteq Procs, scull_w_wait' \subseteq scull_w_wait \cup {p},
         sem' \in {0, 1}, wronly' \in [Procs -> BOOLEAN],
         to \in {"w_owner", "w_sleep"} /\ p \in scull_w_wait' =>
            scull_w_count > 0 \/ (p \in scull_w_wait /\ from \in {"w_owner", "w_sleep"})
  PROVE  IInv'
<1>. USE DEF IInv
<1>1. /\ pc' \in [Procs -> PCs] /\ Holders' = Holders
      /\ pc[p] = from /\ pc'[p] = to /\ \A q \in Procs : q # p => pc'[q] = pc[q]
  BY GotoHolders DEF Holders
<1>2. TypeOK' /\ HoldersBelong'
  BY <1>1, SameHolders DEF TypeOK
<1>3. WaitersOnlyIfWaits'
  BY <1>1 DEF WaitersOnlyIfWaits
<1>4. Sighted'
  <2>. SUFFICES ASSUME NEW q \in scull_w_wait', pc'[q] \in {"w_owner", "w_sleep"}
                PROVE  scull_w_count' > 0 \/ \E r \in Procs : pc'[r] = "w_wake"
    BY DEF Sighted
  <2>1. scull_w_count > 0 \/ (q \in scull_w_wait /\ pc[q] \in {"w_owner", "w_sleep"})
    <3>1. CASE q = p
      BY <3>1, <1>1
    <3>2. CASE q # p
      BY <3>2, <1>1
    <3>. QED  BY <3>1, <3>2
  <2>2. scull_w_count > 0 \/ \E r \in Procs : pc[r] = "w_wake"
    BY <2>1 DEF Sighted
  <2>3. \A r \in Procs : pc[r] = "w_wake" => pc'[r] = "w_wake"
    BY <1>1
  <2>. QED  BY <2>2, <2>3 DEF lock
<1>. QED  BY <1>2, <1>3, <1>4

\* A step among the statements of a holder, too.
LEMMA HolderStep ==
  ASSUME IInv, NEW p \in Procs, NEW from \in Holding, NEW to \in Holding,
         Goto(p, from, to), UNCHANGED <<lock, scull_w_wait, wronly>>, sem' \in {0, 1}
  PROVE  IInv'
<1>. USE DEF IInv
<1>0. to \in PCs /\ from \notin Waiting /\ to \notin Waiting
  BY DEF PCs, Holding, Waiting
<1>1. /\ pc' \in [Procs -> PCs] /\ Holders' = Holders \cup {p}
      /\ pc[p] = from /\ pc'[p] = to /\ \A q \in Procs : q # p => pc'[q] = pc[q]
  BY <1>0, GotoHolders
<1>2. Holders' = Holders
  BY <1>1 DEF Holders
<1>3. TypeOK' /\ HoldersBelong'
  BY <1>1, <1>2, SameHolders DEF TypeOK
<1>4. WaitersOnlyIfWaits'
  BY <1>0, <1>1 DEF WaitersOnlyIfWaits
<1>5. Sighted'
  BY <1>0, <1>1 DEF Sighted, Waiting, lock, TypeOK
<1>. QED  BY <1>3, <1>4, <1>5

\* scull_w_open takes the device.
LEMMA GrabStep == ASSUME IInv, NEW p \in Procs, OpenGrab(p) PROVE IInv'
<1>. USE DEF IInv
<1>. DEFINE to == IF wronly[p] THEN "w_trim" ELSE "open"
<1>1. Goto(p, "w_lock", to) /\ to \in Holding /\ to \in PCs /\ to \notin Waiting
  BY DEF OpenGrab, Holding, PCs, Waiting
<1>. HIDE DEF to
<1>2. /\ pc' \in [Procs -> PCs] /\ Holders' = Holders \cup {p}
      /\ pc[p] = "w_lock" /\ pc'[p] = to /\ \A q \in Procs : q # p => pc'[q] = pc[q]
  BY <1>1, GotoHolders
<1>3. p \notin Holders
  BY <1>2 DEF Holders, Holding
<1>4. scull_w_count' = Cardinality(Holders') /\ scull_w_count' > 0
  <2>1. Cardinality(Holders') = Cardinality(Holders) + 1
    BY <1>1, <1>2, <1>3, Joins
  <2>2. scull_w_count' = scull_w_count + 1 /\ scull_w_count = Cardinality(Holders)
    BY DEF OpenGrab, Grab, TypeOK
  <2>. QED  BY <2>1, <2>2, HoldersFinite
<1>5. TypeOK'
  BY <1>2, <1>4, UsersAssumption DEF TypeOK, OpenGrab, Grab
<1>6. HoldersBelong'
  <2>1. CASE scull_w_count = 0
    <3>1. Holders' = {p}
      BY <2>1, <1>2, FreeMeansNoHolder
    <3>. QED  BY <2>1, <3>1 DEF HoldersBelong, Belongs, OpenGrab, Grab
  <2>2. CASE scull_w_count # 0
    <3>1. Belongs(p) /\ scull_w_owner' = scull_w_owner
      BY <2>2 DEF OpenGrab, Available, Grab
    <3>. QED  BY <3>1, <1>2 DEF HoldersBelong, Belongs
  <2>. QED  BY <2>1, <2>2
<1>7. WaitersOnlyIfWaits'
  BY <1>1, <1>2 DEF WaitersOnlyIfWaits
<1>8. Sighted'
  BY <1>4 DEF Sighted
<1>. QED  BY <1>5, <1>6, <1>7, <1>8

\* scull_w_release gives it up.
LEMMA ReleaseStep == ASSUME IInv, NEW p \in Procs, Release(p) PROVE IInv'
<1>. USE DEF IInv
<1>. DEFINE to == IF Waits /\ LastRelease THEN "w_wake" ELSE "closed"
<1>1. Goto(p, "open", to) /\ to \notin Holding /\ to \in PCs
  BY DEF Release, Fail, Holding, PCs
<1>2. to \in Waiting => Waits
  BY DEF Waiting
<1>3. Waits /\ scull_w_count' = 0 => to = "w_wake"
  BY DEF LastRelease
<1>. HIDE DEF to
<1>4. /\ pc' \in [Procs -> PCs] /\ Holders' = Holders \ {p}
      /\ pc[p] = "open" /\ pc'[p] = to /\ \A q \in Procs : q # p => pc'[q] = pc[q]
  BY <1>1, GotoHolders
<1>5. p \in Holders
  BY <1>4 DEF Holders, Holding
<1>6. scull_w_count' = Cardinality(Holders') /\ scull_w_count' \in Nat
  <2>1. to \notin Holding
    BY <1>1
  <2>2. Cardinality(Holders') = Cardinality(Holders) - 1
    BY <1>4, <1>5, <2>1, Leaves
  <2>3. scull_w_count' = scull_w_count - 1 /\ scull_w_count = Cardinality(Holders)
    BY DEF Release, TypeOK
  <2>4. scull_w_count # 0 /\ scull_w_count \in Nat
    BY <1>5, FreeMeansNoHolder
  <2>. QED  BY <2>2, <2>3, <2>4
<1>7. scull_w_count' \in Nat
  BY <1>6
<1>8. TypeOK'
  BY <1>4, <1>6 DEF TypeOK, Release, Fail
<1>9. HoldersBelong'
  BY <1>4 DEF HoldersBelong, Belongs, Release
<1>10. WaitersOnlyIfWaits'
  BY <1>2, <1>4 DEF WaitersOnlyIfWaits
<1>11. Sighted'
  <2>1. ASSUME NEW q \in scull_w_wait', pc'[q] \in {"w_owner", "w_sleep"},
               scull_w_count' = 0
        PROVE  pc'[p] = "w_wake"
    <3>1. q \in Procs
      BY <2>1, <1>8 DEF TypeOK
    <3>2. Waits
      BY <2>1, <3>1, <1>10 DEF WaitersOnlyIfWaits, Waiting
    <3>. QED  BY <2>1, <3>2, <1>3, <1>4
  <2>. QED  BY <2>1, <1>7 DEF Sighted
<1>. QED  BY <1>8, <1>9, <1>10, <1>11

\* The wake-up empties the queue.
LEMMA WakeStep == ASSUME IInv, NEW p \in Procs, Wake(p) PROVE IInv'
<1>. USE DEF IInv
<1>1. Goto(p, "w_wake", "closed") /\ "closed" \in PCs /\ "closed" \notin Holding
      /\ "closed" \notin Waiting
  BY DEF Wake, Fail, PCs, Holding, Waiting
<1>2. /\ pc' \in [Procs -> PCs] /\ Holders' = Holders \ {p}
      /\ pc[p] = "w_wake" /\ pc'[p] = "closed"
      /\ \A q \in Procs : q # p => pc'[q] = pc[q]
  BY <1>1, GotoHolders
<1>3. Holders' = Holders
  BY <1>2 DEF Holders, Holding
<1>4. TypeOK' /\ HoldersBelong'
  BY <1>2, <1>3, SameHolders DEF TypeOK, Wake, Fail
<1>5. WaitersOnlyIfWaits'
  BY <1>1, <1>2 DEF WaitersOnlyIfWaits
<1>6. Sighted'
  BY DEF Sighted, Wake
<1>. QED  BY <1>4, <1>5, <1>6

\* Every step keeps IInv.
LEMMA StepIInv == IInv /\ [Next]_vars => IInv'
<1>. SUFFICES ASSUME IInv, [Next]_vars PROVE IInv'
  OBVIOUS
<1>0. TypeOK /\ WaitersOnlyIfWaits
  BY DEF IInv
<1>. DEFINE Outside == PCs \ Holding
<1>00. {"closed", "w_lock", "w_prep", "w_count", "w_owner", "w_sleep", "w_wake"} \subseteq Outside
  BY DEF PCs, Holding
<1>1. ASSUME NEW p \in Procs, BeginOpen(p) PROVE IInv'
  BY <1>0, <1>00, <1>1, QuietStep DEF BeginOpen, TypeOK, Waiting
<1>2. ASSUME NEW p \in Procs, OpenRefused(p) PROVE IInv'
  BY <1>0, <1>00, <1>2, QuietStep DEF OpenRefused, Fail, TypeOK, Waiting
<1>3. ASSUME NEW p \in Procs, WaitPrepare(p) PROVE IInv'
  <2>1. Waits
    BY <1>0, <1>3 DEF WaitPrepare, Goto, WaitersOnlyIfWaits, Waiting
  <2>. QED  BY <1>0, <1>00, <1>3, <2>1, QuietStep DEF WaitPrepare, TypeOK
<1>4. ASSUME NEW p \in Procs, WaitCount(p) PROVE IInv'
  <2>1. Waits
    BY <1>0, <1>4 DEF WaitCount, WaitOver, Goto, WaitersOnlyIfWaits, Waiting
  <2>2. CASE WaitOver(p, "w_count")
    BY <1>0, <1>00, <1>4, <2>1, <2>2, QuietStep DEF WaitCount, WaitOver, TypeOK
  <2>3. CASE scull_w_count # 0 /\ Goto(p, "w_count", "w_owner") /\ UNCHANGED <<scull_w_wait, wronly>>
    <3>1. scull_w_count > 0
      BY <1>0, <2>3, FreeMeansNoHolder
    <3>. QED  BY <1>0, <1>00, <1>4, <2>1, <2>3, <3>1, QuietStep DEF WaitCount, TypeOK
  <2>. QED  BY <1>4, <2>2, <2>3 DEF WaitCount
<1>5. ASSUME NEW p \in Procs, WaitOwner(p) PROVE IInv'
  <2>1. Waits
    BY <1>0, <1>5 DEF WaitOwner, WaitOver, Fail, Goto, WaitersOnlyIfWaits, Waiting
  <2>2. CASE WaitOver(p, "w_owner")
    BY <1>0, <1>00, <1>5, <2>1, <2>2, QuietStep DEF WaitOwner, WaitOver, TypeOK
  <2>3. CASE Goto(p, "w_owner", "w_sleep") /\ UNCHANGED <<scull_w_wait, wronly>>
    BY <1>0, <1>00, <1>5, <2>1, <2>3, QuietStep DEF WaitOwner, TypeOK
  <2>4. CASE Fail(p, "w_owner") /\ scull_w_wait' = scull_w_wait \ {p}
    BY <1>0, <1>00, <1>5, <2>1, <2>4, QuietStep DEF WaitOwner, Fail, TypeOK
  <2>. QED  BY <1>5, <2>2, <2>3, <2>4 DEF WaitOwner
<1>6. ASSUME NEW p \in Procs, WaitSignal(p) \/ WaitWoken(p) PROVE IInv'
  <2>1. Waits
    BY <1>0, <1>6 DEF WaitSignal, WaitWoken, Goto, WaitersOnlyIfWaits, Waiting
  <2>. QED  BY <1>0, <1>00, <1>6, <2>1, QuietStep DEF WaitSignal, WaitWoken, TypeOK
<1>7. ASSUME NEW p \in Procs, OpenTrim(p) \/ Use(p) \/ Used(p) PROVE IInv'
  BY <1>0, <1>7, HolderStep DEF OpenTrim, Use, Used, Holding, TypeOK
<1>8. CASE UNCHANGED vars
  <2>1. Holders' = Holders
    BY <1>8 DEF vars, Holders
  <2>. QED
    BY <1>8, <2>1 DEF vars, lock, IInv, TypeOK, HoldersBelong, Belongs, WaitersOnlyIfWaits, Sighted
<1>. QED
  BY <1>1, <1>2, <1>3, <1>4, <1>5, <1>6, <1>7, <1>8, GrabStep, ReleaseStep, WakeStep
  DEF Next, Inside

\* The invariant that carries the three results below.
THEOREM UidInductive == Spec => []IInv
<1>. QED  BY InitIInv, StepIInv, PTL DEF Spec

\* The types are right, and scull_w_count is the number of opens.
THEOREM UidTypeCorrect == Spec => []TypeOK
<1>1. IInv => TypeOK
  BY DEF IInv
<1>. QED  BY <1>1, UidInductive, PTL

\* Only processes that belong to the owner have the device open.
THEOREM OnlyOwners == Spec => []HoldersBelong
<1>1. IInv => HoldersBelong
  BY DEF IInv
<1>. QED  BY <1>1, UidInductive, PTL

\* No process sleeps for a free device without a wake-up on its way.
THEOREM NoWakeupLost == Spec => []NoLostWakeup
<1>1. IInv => NoLostWakeup
  BY DEF IInv, Sighted, NoLostWakeup
<1>. QED  BY <1>1, UidInductive, PTL
=============================================================================
