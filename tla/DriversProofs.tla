---------------------------- MODULE DriversProofs ---------------------------
(***************************************************************************)
(* Proofs about the smaller drivers, each of them alone.                   *)
(***************************************************************************)
EXTENDS Drivers, Sequences, FiniteSetTheorems, TLAPS

-----------------------------------------------------------------------------
(* ScullSingle.  The invariant that carries the proof says what the        *)
(* counter counts: one, less the processes that have decremented it and    *)
(* not yet incremented it again.  A decrement to zero therefore means that *)
(* no such process was left.                                               *)

\* scull_s_available is 1 minus the number of processes between their
\* decrement and their increment.
Counted == scull_s_available = 1 - Cardinality(Takers)

PcOK == /\ pc \in [Procs -> Holding \cup {"closed", "s_dec", "s_busy"}]
        /\ wronly \in [Procs -> BOOLEAN]

SingleInv == PcOK /\ Counted /\ OneHolder

\* There are finitely many takers, no more than processes.
LEMMA TakersFinite ==
  /\ IsFiniteSet(Takers) /\ Cardinality(Takers) \in Nat
  /\ IsFiniteSet(Procs) /\ Cardinality(Procs) \in Nat
  /\ Cardinality(Takers) <= Cardinality(Procs)
<1>1. Takers \subseteq Procs
  BY DEF Takers
<1>. QED  BY <1>1, ProcsAssumption, FS_Subset, FS_CardinalityType

\* A process that decrements joins the takers, and the count stays right.
LEMMA Taken ==
  ASSUME Counted, NEW p \in Procs, p \notin Takers,
         scull_s_available' = scull_s_available - 1,
         Takers' = Takers \cup {p}
  PROVE  Counted'
<1>1. Cardinality(Takers \cup {p}) = Cardinality(Takers) + 1
  BY TakersFinite, FS_AddElement
<1>. QED  BY <1>1, TakersFinite DEF Counted

\* A process that increments leaves the takers, and the count stays right.
LEMMA GivenBack ==
  ASSUME Counted, NEW p \in Takers,
         scull_s_available' = scull_s_available + 1,
         Takers' = Takers \ {p}
  PROVE  Counted'
<1>1. Cardinality(Takers \ {p}) = Cardinality(Takers) - 1
  BY TakersFinite, FS_RemoveElement
<1>. QED  BY <1>1, TakersFinite DEF Counted

\* A decrement that ends at zero was made when there were no takers.
LEMMA FirstTaker ==
  ASSUME Counted, scull_s_available = 1
  PROVE  Takers = {}
<1>1. Cardinality(Takers) = 0
  BY TakersFinite DEF Counted
<1>. QED  BY <1>1, TakersFinite, FS_EmptySet

\* What a step of p does to the sets of takers and holders.
LEMMA GotoSets ==
  ASSUME PcOK, NEW p \in Procs, NEW from, NEW to, Goto(p, from, to)
  PROVE  /\ Takers' = IF to \in Holding \cup {"s_busy"} THEN Takers \cup {p}
                      ELSE Takers \ {p}
         /\ Holders' = IF to \in Holding THEN Holders \cup {p} ELSE Holders \ {p}
         /\ pc[p] = from
<1>1. \A q \in Procs : pc'[q] = IF q = p THEN to ELSE pc[q]
  BY DEF Goto, PcOK
<1>. QED  BY <1>1 DEF Takers, Holders, Goto

\* Initially nobody has taken anything.
LEMMA InitIInv == Init => SingleInv
<1>. SUFFICES ASSUME Init PROVE SingleInv
  OBVIOUS
<1>1. Takers = {} /\ Holders = {}
  BY DEF Init, Takers, Holders, Holding
<1>2. Cardinality(Takers) = 0
  BY <1>1, FS_EmptySet
<1>. QED  BY <1>1, <1>2 DEF Init, SingleInv, PcOK, Counted, OneHolder, Holding

\* Every step keeps SingleInv.
LEMMA StepIInv == SingleInv /\ [Next]_vars => SingleInv'
<1>. SUFFICES ASSUME SingleInv, [Next]_vars PROVE SingleInv'
  OBVIOUS
<1>. USE DEF SingleInv
<1>1. ASSUME NEW p \in Procs, BeginOpen(p) PROVE SingleInv'
  <2>1. Takers' = Takers /\ Holders' = Holders
    BY <1>1, GotoSets DEF BeginOpen, Goto, Takers, Holders, Holding
  <2>. QED  BY <1>1, <2>1 DEF BeginOpen, Goto, PcOK, Counted, OneHolder
<1>2. ASSUME NEW p \in Procs, OpenTest(p) PROVE SingleInv'
  <2>1. p \notin Takers /\ Takers' = Takers \cup {p}
    BY <1>2, GotoSets DEF OpenTest, Goto, Takers, Holding
  <2>2. Counted'
    BY <1>2, <2>1, Taken DEF OpenTest
  <2>3. PcOK'
    BY <1>2 DEF OpenTest, Goto, PcOK, Holding
  <2>4. CASE Granted
    <3>1. Takers = {}
      BY <1>2, <2>4, FirstTaker, TakersFinite DEF Granted, OpenTest, Counted
    <3>2. Holders' \subseteq {p}
      BY <2>1, <3>1 DEF Takers, Holders
    <3>. QED  BY <2>2, <2>3, <3>2 DEF OneHolder
  <2>5. CASE ~Granted
    <3>1. Holders' = Holders
      BY <1>2, <2>5, GotoSets DEF OpenTest, Goto, Holders, Holding
    <3>. QED  BY <2>2, <2>3, <3>1 DEF OneHolder
  <2>. QED  BY <2>4, <2>5
<1>3. ASSUME NEW p \in Procs, OpenBusy(p) PROVE SingleInv'
  <2>1. p \in Takers /\ Takers' = Takers \ {p} /\ Holders' = Holders
    BY <1>3, GotoSets DEF OpenBusy, Goto, Takers, Holders, Holding
  <2>. QED  BY <1>3, <2>1, GivenBack DEF OpenBusy, Goto, PcOK, OneHolder, atomic_inc
<1>4. ASSUME NEW p \in Procs, OpenTrim(p) \/ Use(p) \/ Used(p) PROVE SingleInv'
  <2>1. Takers' = Takers /\ Holders' = Holders
    BY <1>4, GotoSets DEF OpenTrim, Use, Used, Goto, Takers, Holders, Holding
  <2>. QED  BY <1>4, <2>1 DEF OpenTrim, Use, Used, Goto, PcOK, Counted, OneHolder, Holding
<1>5. ASSUME NEW p \in Procs, Release(p) PROVE SingleInv'
  <2>0. Goto(p, "open", "closed")
    BY <1>5 DEF Release
  <2>1. p \in Takers /\ Takers' = Takers \ {p} /\ Holders' = Holders \ {p}
    BY <2>0, GotoSets DEF Takers, Holding
  <2>. QED  BY <1>5, <2>1, GivenBack DEF Release, Goto, PcOK, OneHolder, atomic_inc
<1>6. CASE UNCHANGED vars
  BY <1>6 DEF vars, PcOK, Counted, OneHolder, Takers, Holders
<1>. QED  BY <1>1, <1>2, <1>3, <1>4, <1>5, <1>6 DEF Next

\* The counter counts and one process at most holds the device, always.
THEOREM SingleInductive == Spec => []SingleInv
<1>. QED  BY InitIInv, StepIInv, PTL DEF Spec

\* scull_s_available stays between 1 and 1 less the number of processes.
THEOREM SingleTypeCorrect == Spec => []TypeOK
<1>1. SingleInv => TypeOK
  BY TakersFinite DEF SingleInv, PcOK, Counted, TypeOK
<1>. QED  BY <1>1, SingleInductive, PTL

\* At most one process has scullsingle open, for any number of processes.
THEOREM OneAtATime == Spec => []OneHolder
<1>1. SingleInv => OneHolder
  BY DEF SingleInv
<1>. QED  BY <1>1, SingleInductive, PTL

\* scull_s_available is 1 again whenever the device is free.
THEOREM ComesBack == Spec => []AvailableWhenFree
<1>1. ASSUME SingleInv, Takers = {} PROVE scull_s_available = 1
  <2>1. Cardinality(Takers) = 0
    BY <1>1, FS_EmptySet
  <2>. QED  BY <1>1, <2>1 DEF SingleInv, Counted
<1>2. SingleInv => AvailableWhenFree
  BY <1>1 DEF AvailableWhenFree
<1>. QED  BY <1>2, SingleInductive, PTL

-----------------------------------------------------------------------------
(* UsbSkel *)

InCall  == {"open", "r_copy", "w_buf", "w_submit", "w_error"}
UsersOf(d) == {f \in Files : at[f] \in InCall /\ f_dev[f] = d}
HeldBuffers == {f \in Files : buf[f] = "held"}

\* The one reference of the hub thread and the interface together.
HubDev == IF hub = "plugged" THEN intfdata ELSE dev

UsbTypeOK ==
  /\ live \subseteq Skels /\ kref \in [Skels -> Nat]
  /\ intfdata \in Skels \cup {Null} /\ dev \in Skels \cup {Null}
  /\ minor \in BOOLEAN /\ bkl \in BOOLEAN
  /\ hub \in {"unplugged", "p_set", "p_register", "p_put", "plugged", "d_clear", "d_minor"}
  /\ at \in [Files -> InCall \cup {"closed", "o_data", "o_get"}]
  /\ f_dev \in [Files -> Skels \cup {Null}]
  /\ urb \in [Files -> {"none", "held"}] /\ buf \in [Files -> {"none", "held"}]
  /\ flight \in Nat /\ memory \in Nat
  /\ oops \in {"none", "null urb", "buffer freed twice"}

\* Where the hub thread is says what it has done.
UsbHub ==
  /\ dev # Null <=> hub \notin {"unplugged", "plugged"}
  /\ intfdata # Null <=> hub \in {"p_register", "plugged", "d_clear"}
  /\ intfdata # Null => intfdata = HubDev
  /\ minor => hub \in {"plugged", "d_clear", "d_minor"}

\* The big kernel lock: one of the opens, or the disconnection.
UsbLock ==
  /\ \A f \in Files : at[f] \in {"o_data", "o_get"} => bkl /\ hub = "plugged"
  /\ \A f, g \in Files : at[f] \in {"o_data", "o_get"} /\ at[g] \in {"o_data", "o_get"} => f = g
  /\ hub \in {"d_clear", "d_minor"} => bkl

UsbFiles ==
  /\ \A f \in Files : f_dev[f] # Null <=> at[f] \in InCall \cup {"o_get"}
  /\ \A f \in Files : at[f] = "o_get" => f_dev[f] = intfdata

\* A reference is counted for every file that is open and for the hub thread.
UsbCount ==
  \A d \in Skels : /\ kref[d] = Cardinality(UsersOf(d)) + (IF HubDev = d THEN 1 ELSE 0)
                   /\ d \in live <=> kref[d] > 0

UsbHeldAt(f) == /\ buf[f] = "held" => at[f] \in {"w_submit", "w_error"}
                /\ at[f] = "w_submit" => buf[f] = "held"

UsbBuffers ==
  /\ \A f \in Files : UsbHeldAt(f)
  /\ memory = flight + Cardinality(HeldBuffers)

UsbInv == UsbTypeOK /\ UsbHub /\ UsbLock /\ UsbFiles /\ UsbCount /\ UsbBuffers

LEMMA UsersFinite ==
  /\ \A d \in Skels : IsFiniteSet(UsersOf(d)) /\ Cardinality(UsersOf(d)) \in Nat
  /\ IsFiniteSet(HeldBuffers) /\ Cardinality(HeldBuffers) \in Nat
<1>1. \A d \in Skels : IsFiniteSet(UsersOf(d))
  BY FilesAssumption, FS_Subset DEF UsersOf
<1>2. IsFiniteSet(HeldBuffers)
  BY FilesAssumption, FS_Subset DEF HeldBuffers
<1>3. QED
  BY <1>1, <1>2, FS_CardinalityType

LEMMA UsbNumbers ==
  UsbInv => /\ memory \in Nat /\ flight \in Nat /\ Cardinality(HeldBuffers) \in Nat
            /\ memory = flight + Cardinality(HeldBuffers)
BY UsersFinite DEF UsbInv, UsbTypeOK, UsbBuffers

\* The component's Cardinality is that of FiniteSets.
LEMMA UsbCardinality == \A S : Usb!Cardinality(S) = Cardinality(S)
BY DEF Usb!Cardinality, Cardinality

LEMMA UsbInitInv == Usb!Init => UsbInv
<1> SUFFICES ASSUME Usb!Init PROVE UsbInv
  OBVIOUS
<1>1. \A d \in Skels : UsersOf(d) = {}
  BY DEF Usb!Init, UsersOf, InCall
<1>2. HeldBuffers = {}
  BY DEF Usb!Init, HeldBuffers
<1>3. UsbCount /\ UsbBuffers
  BY <1>1, <1>2, FS_EmptySet, FilesAssumption DEF Usb!Init, UsbCount, UsbBuffers, UsbHeldAt, HubDev
<1>4. UsbTypeOK
  BY FilesAssumption DEF Usb!Init, UsbTypeOK, InCall
<1>5. QED
  BY <1>3, <1>4, FilesAssumption DEF Usb!Init, UsbInv, UsbHub, UsbLock, UsbFiles, HubDev, InCall

\* The hub thread's own steps leave the files and their buffers alone.
LEMMA UsbHubKeeps ==
  ASSUME UsbInv, Usb!ProbeAlloc \/ Usb!ProbeError \/ Usb!ProbeSet \/ Usb!ProbeRegister
                 \/ Usb!HubPut \/ Usb!DisconnectBegin \/ Usb!DisconnectClear \/ Usb!DisconnectMinor
  PROVE  UsbInv'
<1> USE DEF Usb!Hub
<1>1. UsbTypeOK'
  <2>1. CASE Usb!ProbeAlloc
    <3>1. PICK d \in Skels \ live : kref' = [kref EXCEPT ![d] = 1] /\ live' = live \cup {d} /\ dev' = d
      BY <2>1 DEF Usb!ProbeAlloc
    <3>2. kref' \in [Skels -> Nat]
      BY <3>1 DEF UsbInv, UsbTypeOK
    <3>3. QED
      BY <2>1, <3>1, <3>2 DEF Usb!ProbeAlloc, Usb!write, UsbInv, UsbTypeOK
  <2>2. CASE Usb!HubPut
    <3>1. dev \in Skels /\ HubDev = dev
      BY <2>2 DEF Usb!HubPut, UsbInv, UsbTypeOK, UsbHub, HubDev
    <3>2. kref \in [Skels -> Nat] /\ live \subseteq Skels
      BY DEF UsbInv, UsbTypeOK
    <3>3. kref[dev] = Cardinality(UsersOf(dev)) + 1
      BY <3>1 DEF UsbInv, UsbCount
    <3>4. kref[dev] - 1 \in Nat
      BY <3>1, <3>3, UsersFinite
    <3>5. kref' = [kref EXCEPT ![dev] = kref[dev] - 1] /\ live' \subseteq live
      BY <2>2 DEF Usb!HubPut, Usb!kref_put, Usb!skel_delete
    <3>6. kref' \in [Skels -> Nat]
      BY <3>1, <3>2, <3>4, <3>5
    <3>7. QED
      BY <2>2, <3>2, <3>5, <3>6 DEF Usb!HubPut, Usb!write, UsbInv, UsbTypeOK
  <2>3. CASE Usb!ProbeError \/ Usb!ProbeSet \/ Usb!ProbeRegister
    BY <2>3 DEF Usb!ProbeError, Usb!ProbeSet, Usb!ProbeRegister, Usb!device, Usb!write, UsbInv, UsbTypeOK
  <2>4. CASE Usb!DisconnectBegin \/ Usb!DisconnectClear \/ Usb!DisconnectMinor
    BY <2>4 DEF Usb!DisconnectBegin, Usb!DisconnectClear, Usb!DisconnectMinor, Usb!device, Usb!write,
                UsbInv, UsbTypeOK
  <2>5. QED
    BY <2>1, <2>2, <2>3, <2>4
<1>2. UsbHub'
  <2>1. CASE Usb!ProbeAlloc
    BY <2>1, FilesAssumption DEF Usb!ProbeAlloc, UsbInv, UsbHub, HubDev
  <2>2. CASE Usb!ProbeError \/ Usb!HubPut
    BY <2>2, FilesAssumption DEF Usb!ProbeError, Usb!HubPut, UsbInv, UsbHub, HubDev
  <2>3. CASE Usb!ProbeSet
    BY <2>3, FilesAssumption DEF Usb!ProbeSet, UsbInv, UsbHub, HubDev
  <2>4. CASE Usb!ProbeRegister
    BY <2>4, FilesAssumption DEF Usb!ProbeRegister, UsbInv, UsbHub, HubDev
  <2>5. CASE Usb!DisconnectBegin
    BY <2>5, FilesAssumption DEF Usb!DisconnectBegin, UsbInv, UsbHub, HubDev
  <2>6. CASE Usb!DisconnectClear \/ Usb!DisconnectMinor
    BY <2>6, FilesAssumption DEF Usb!DisconnectClear, Usb!DisconnectMinor, UsbInv, UsbHub, HubDev
  <2>7. QED
    BY <2>1, <2>2, <2>3, <2>4, <2>5, <2>6
<1>8. UNCHANGED <<at, f_dev>>
  BY DEF Usb!ProbeAlloc, Usb!ProbeError, Usb!ProbeSet, Usb!ProbeRegister, Usb!HubPut,
         Usb!DisconnectBegin, Usb!DisconnectClear, Usb!DisconnectMinor
<1>9. UsbLock'
  BY <1>8 DEF Usb!ProbeAlloc, Usb!ProbeError, Usb!ProbeSet, Usb!ProbeRegister, Usb!HubPut,
         Usb!DisconnectBegin, Usb!DisconnectClear, Usb!DisconnectMinor, UsbInv, UsbLock
<1>10. UsbFiles'
  BY <1>8 DEF Usb!ProbeAlloc, Usb!ProbeError, Usb!ProbeSet, Usb!ProbeRegister, Usb!HubPut,
         Usb!DisconnectBegin, Usb!DisconnectClear, Usb!DisconnectMinor, UsbInv, UsbLock, UsbFiles
<1>3. \A d \in Skels : UsersOf(d)' = UsersOf(d)
  BY DEF Usb!ProbeAlloc, Usb!ProbeError, Usb!ProbeSet, Usb!ProbeRegister, Usb!HubPut,
         Usb!DisconnectBegin, Usb!DisconnectClear, Usb!DisconnectMinor, UsersOf
<1>4. HeldBuffers' = HeldBuffers /\ UNCHANGED <<at, buf, flight, memory>>
  BY DEF Usb!ProbeAlloc, Usb!ProbeError, Usb!ProbeSet, Usb!ProbeRegister, Usb!HubPut,
         Usb!DisconnectBegin, Usb!DisconnectClear, Usb!DisconnectMinor, Usb!write, HeldBuffers
<1>5. UsbBuffers'
  BY <1>4 DEF UsbInv, UsbBuffers, UsbHeldAt
<1>6. UsbCount'
  <2>1. CASE Usb!ProbeAlloc
    <3>1. PICK d \in Skels \ live : kref' = [kref EXCEPT ![d] = 1] /\ live' = live \cup {d} /\ dev' = d
      BY <2>1 DEF Usb!ProbeAlloc
    <3>2. HubDev = Null /\ HubDev' = d /\ d # Null
      BY <2>1, <3>1, FilesAssumption DEF Usb!ProbeAlloc, UsbInv, UsbHub, HubDev
    <3>10. kref \in [Skels -> Nat] /\ kref[d] \in Nat
      BY <3>1 DEF UsbInv, UsbTypeOK
    <3>11. kref[d] = Cardinality(UsersOf(d)) + (IF HubDev = d THEN 1 ELSE 0) /\ ~(kref[d] > 0)
      BY <3>1 DEF UsbInv, UsbCount
    <3>3. Cardinality(UsersOf(d)) = 0
      BY <3>2, <3>10, <3>11, <3>1, UsersFinite
    <3>4. SUFFICES ASSUME NEW e \in Skels
                   PROVE  /\ kref'[e] = Cardinality(UsersOf(e))' + (IF HubDev' = e THEN 1 ELSE 0)
                          /\ e \in live' <=> kref'[e] > 0
      BY DEF UsbCount
    <3>5. Cardinality(UsersOf(e))' = Cardinality(UsersOf(e))
      BY <1>3
    <3>6. CASE e = d
      <4>1. kref'[e] = 1
        BY <3>1, <3>6, <3>10
      <4>2. Cardinality(UsersOf(e))' = 0
        BY <3>3, <3>5, <3>6
      <4>3. QED
        BY <3>1, <3>2, <3>6, <4>1, <4>2
    <3>7. CASE e # d
      BY <3>1, <3>2, <3>5, <3>7, FilesAssumption DEF UsbInv, UsbTypeOK, UsbCount
    <3>8. QED
      BY <3>6, <3>7
  <2>4. CASE Usb!HubPut
    <3>1. dev \in Skels /\ HubDev = dev /\ HubDev' = Null
      BY <2>4, FilesAssumption DEF Usb!HubPut, UsbInv, UsbTypeOK, UsbHub, HubDev
    <3>2. kref \in [Skels -> Nat] /\ kref' = [kref EXCEPT ![dev] = @ - 1]
      BY <2>4 DEF Usb!HubPut, Usb!kref_put, UsbInv, UsbTypeOK
    <3>3. live' = IF kref[dev] = 1 THEN live \ {dev} ELSE live
      BY <2>4 DEF Usb!HubPut, Usb!kref_put, Usb!skel_delete
    <3>4. SUFFICES ASSUME NEW e \in Skels
                   PROVE  /\ kref'[e] = Cardinality(UsersOf(e))' + (IF HubDev' = e THEN 1 ELSE 0)
                          /\ e \in live' <=> kref'[e] > 0
      BY DEF UsbCount
    <3>5. Cardinality(UsersOf(e))' = Cardinality(UsersOf(e)) /\ Cardinality(UsersOf(e)) \in Nat
      BY <1>3, UsersFinite
    <3>6. /\ kref[e] = Cardinality(UsersOf(e)) + (IF dev = e THEN 1 ELSE 0)
          /\ e \in live <=> kref[e] > 0
      BY <3>1 DEF UsbInv, UsbCount
    <3>7. CASE e = dev
      BY <3>1, <3>2, <3>3, <3>5, <3>6, <3>7, FilesAssumption
    <3>8. CASE e # dev
      BY <3>1, <3>2, <3>3, <3>5, <3>6, <3>8, FilesAssumption
    <3>9. QED
      BY <3>7, <3>8
  <2>2. CASE ~(Usb!ProbeAlloc \/ Usb!HubPut)
    BY <2>2, <1>3, FilesAssumption
       DEF Usb!ProbeError, Usb!ProbeSet, Usb!ProbeRegister, Usb!Hub,
           Usb!DisconnectBegin, Usb!DisconnectClear, Usb!DisconnectMinor, Usb!device, UsbInv,
           UsbHub, UsbCount, HubDev
  <2>3. QED
    BY <2>1, <2>2, <2>4
<1>7. QED
  BY <1>1, <1>2, <1>5, <1>6, <1>9, <1>10 DEF UsbInv

FileActions(f) == \/ Usb!OpenFind(f) \/ Usb!OpenData(f) \/ Usb!OpenGet(f) \/ Usb!skel_release(f)
                  \/ Usb!skel_read(f) \/ Usb!WriteUrb(f) \/ Usb!WriteBuf(f) \/ Usb!WriteSubmit(f)
                  \/ Usb!WriteError(f)

LEMMA UsbFileType ==
  ASSUME UsbInv, NEW f \in Files, FileActions(f)
  PROVE  UsbTypeOK' /\ UNCHANGED <<hub, dev, intfdata, minor>>
<1>1. UNCHANGED <<hub, dev, intfdata, minor>>
  BY DEF FileActions, Usb!OpenFind, Usb!OpenData, Usb!OpenGet, Usb!skel_release, Usb!skel_read,
         Usb!WriteUrb, Usb!WriteBuf, Usb!WriteSubmit, Usb!WriteError
<1>2. UsbTypeOK
  BY DEF UsbInv
<1>3. at' \in [Files -> InCall \cup {"closed", "o_data", "o_get"}]
  BY <1>2 DEF FileActions, Usb!OpenFind, Usb!OpenData, Usb!OpenGet, Usb!skel_release, Usb!skel_read,
         Usb!WriteUrb, Usb!WriteBuf, Usb!WriteSubmit, Usb!WriteError, Usb!File, UsbTypeOK, InCall
<1>4. f_dev' \in [Files -> Skels \cup {Null}]
  BY <1>2 DEF FileActions, Usb!OpenFind, Usb!OpenData, Usb!OpenGet, Usb!skel_release, Usb!skel_read,
         Usb!WriteUrb, Usb!WriteBuf, Usb!WriteSubmit, Usb!WriteError, UsbTypeOK
<1>5. bkl' \in BOOLEAN
  BY <1>2 DEF FileActions, Usb!OpenFind, Usb!OpenData, Usb!OpenGet, Usb!skel_release, Usb!skel_read,
         Usb!WriteUrb, Usb!WriteBuf, Usb!WriteSubmit, Usb!WriteError, UsbTypeOK
<1>6. /\ urb' \in [Files -> {"none", "held"}] /\ buf' \in [Files -> {"none", "held"}]
      /\ oops' \in {"none", "null urb", "buffer freed twice"}
  BY <1>2 DEF FileActions, Usb!OpenFind, Usb!OpenData, Usb!OpenGet, Usb!skel_release, Usb!skel_read,
         Usb!WriteUrb, Usb!WriteBuf, Usb!WriteSubmit, Usb!WriteError, Usb!write, UsbTypeOK
<1>7. flight' \in Nat /\ memory' \in Nat
  <2>1. CASE Usb!WriteError(f)
    <3>1. buf[f] = "held" => memory - 1 \in Nat
      <4>1. SUFFICES ASSUME buf[f] = "held" PROVE memory - 1 \in Nat
        OBVIOUS
      <4>2. f \in HeldBuffers
        BY <4>1 DEF HeldBuffers
      <4>3. Cardinality(HeldBuffers) # 0
        BY <4>2, UsersFinite, FS_EmptySet
      <4>4. QED
        <5>1. memory = flight + Cardinality(HeldBuffers) /\ memory \in Nat /\ flight \in Nat
          BY <1>2 DEF UsbInv, UsbBuffers, UsbTypeOK
        <5>2. QED
          BY <4>3, <5>1, UsersFinite
    <3>2. QED
      BY <2>1, <3>1, <1>2 DEF Usb!WriteError, UsbTypeOK
  <2>2. CASE ~Usb!WriteError(f)
    <3>1. flight' \in {flight, flight + 1} /\ memory' \in {memory, memory + 1}
      BY <2>2 DEF FileActions, Usb!OpenFind, Usb!OpenData, Usb!OpenGet, Usb!skel_release,
         Usb!skel_read, Usb!WriteUrb, Usb!WriteBuf, Usb!WriteSubmit, Usb!write
    <3>2. QED
      BY <3>1, UsbNumbers
  <2>3. QED
    BY <2>1, <2>2
<1>8. live' \subseteq Skels /\ kref' \in [Skels -> Nat]
  <2>1. CASE Usb!OpenGet(f)
    <3>1. f_dev[f] \in Skels
      BY <2>1, FilesAssumption DEF Usb!OpenGet, Usb!File, UsbInv, UsbFiles, UsbTypeOK
    <3>6. kref \in [Skels -> Nat]
      BY <1>2 DEF UsbTypeOK
    <3>2. kref[f_dev[f]] + 1 \in Nat
      BY <3>1, <3>6
    <3>5. kref' = [kref EXCEPT ![f_dev[f]] = kref[f_dev[f]] + 1]
      BY <2>1 DEF Usb!OpenGet
    <3>3. kref' \in [Skels -> Nat]
      BY <3>1, <3>2, <3>5, <1>2 DEF UsbTypeOK
    <3>4. QED
      BY <3>3, <2>1, <1>2 DEF Usb!OpenGet, UsbTypeOK
  <2>2. CASE Usb!skel_release(f)
    <3>1. f_dev[f] \in Skels /\ f \in UsersOf(f_dev[f])
      BY <2>2, FilesAssumption DEF Usb!skel_release, Usb!File, UsbInv, UsbFiles, UsbTypeOK, InCall, UsersOf
    <3>2. Cardinality(UsersOf(f_dev[f])) # 0
      BY <3>1, UsersFinite, FS_EmptySet
    <3>3. kref[f_dev[f]] - 1 \in Nat
      <4>1. kref[f_dev[f]] = Cardinality(UsersOf(f_dev[f])) + (IF HubDev = f_dev[f] THEN 1 ELSE 0)
        BY <3>1 DEF UsbInv, UsbCount
      <4>2. Cardinality(UsersOf(f_dev[f])) \in Nat
        BY <3>1, UsersFinite
      <4>3. QED
        BY <4>1, <4>2, <3>2
    <3>4. kref' = [kref EXCEPT ![f_dev[f]] = kref[f_dev[f]] - 1] /\ live' \subseteq live
      BY <2>2 DEF Usb!skel_release, Usb!kref_put, Usb!skel_delete
    <3>5. kref' \in [Skels -> Nat]
      BY <3>1, <3>3, <3>4, <1>2 DEF UsbTypeOK
    <3>6. QED
      BY <3>4, <3>5, <1>2 DEF UsbTypeOK
  <2>3. CASE ~(Usb!OpenGet(f) \/ Usb!skel_release(f))
    BY <2>3, <1>2 DEF FileActions, Usb!OpenFind, Usb!OpenData,
         Usb!skel_read, Usb!WriteUrb, Usb!WriteBuf, Usb!WriteSubmit, Usb!WriteError, Usb!device, UsbTypeOK
  <2>4. QED
    BY <2>1, <2>2, <2>3
<1>9. QED
  BY <1>1, <1>2, <1>3, <1>4, <1>5, <1>6, <1>7, <1>8 DEF UsbTypeOK

LEMMA UsbFileLock ==
  ASSUME UsbInv, NEW f \in Files, FileActions(f)
  PROVE  UsbHub' /\ UsbLock' /\ UsbFiles'
<1>1. UNCHANGED <<hub, dev, intfdata, minor>>
  BY UsbFileType
<1>2. UsbHub'
  BY <1>1 DEF UsbInv, UsbHub, HubDev
<1> USE FilesAssumption DEF UsbInv, UsbTypeOK, Usb!File
<1>3. CASE Usb!OpenFind(f)
  <2>1. hub = "plugged" /\ ~bkl
    BY <1>3 DEF Usb!OpenFind, UsbHub, UsbLock
  <2>2. \A g \in Files : at[g] \notin {"o_data", "o_get"}
    BY <2>1 DEF UsbLock
  <2>3. UsbLock'
    BY <2>1, <2>2, <1>1, <1>3 DEF Usb!OpenFind, UsbLock
  <2>4. UsbFiles'
    BY <1>1, <1>3 DEF Usb!OpenFind, UsbFiles, InCall
  <2>5. QED
    BY <1>2, <2>3, <2>4
<1>4. CASE Usb!OpenData(f)
  <2>1. UsbLock'
    BY <1>4, <1>1 DEF Usb!OpenData, UsbLock, UsbHub
  <2>2. UsbFiles'
    BY <1>4, <1>1 DEF Usb!OpenData, UsbFiles, InCall
  <2>3. QED
    BY <1>2, <2>1, <2>2
<1>5. CASE Usb!OpenGet(f)
  <2>1. UsbLock'
    BY <1>5, <1>1 DEF Usb!OpenGet, UsbLock
  <2>2. UsbFiles'
    BY <1>5, <1>1 DEF Usb!OpenGet, UsbFiles, InCall
  <2>3. QED
    BY <1>2, <2>1, <2>2
<1>6. CASE Usb!skel_release(f)
  <2>1. UsbLock'
    BY <1>6, <1>1 DEF Usb!skel_release, UsbLock
  <2>2. UsbFiles'
    BY <1>6, <1>1 DEF Usb!skel_release, UsbFiles, InCall
  <2>3. QED
    BY <1>2, <2>1, <2>2
<1>7. CASE Usb!skel_read(f) \/ Usb!WriteUrb(f) \/ Usb!WriteBuf(f) \/ Usb!WriteSubmit(f) \/ Usb!WriteError(f)
  <2>1. UNCHANGED <<f_dev, bkl>> /\ at[f] \in InCall /\ \E l \in InCall : at' = [at EXCEPT ![f] = l]
    BY <1>7 DEF Usb!skel_read, Usb!WriteUrb, Usb!WriteBuf, Usb!WriteSubmit, Usb!WriteError, InCall
  <2>2. UsbLock'
    BY <2>1, <1>1 DEF UsbLock, InCall
  <2>3. UsbFiles'
    BY <2>1, <1>1 DEF UsbFiles, InCall
  <2>4. QED
    BY <1>2, <2>2, <2>3
<1>8. QED
  BY <1>3, <1>4, <1>5, <1>6, <1>7 DEF FileActions

LEMMA UsbFileCount ==
  ASSUME UsbInv, NEW f \in Files, FileActions(f)
  PROVE  UsbCount'
<1>1. HubDev' = HubDev
  BY UsbFileType DEF HubDev
<1> USE DEF Usb!File
<1>2. CASE Usb!OpenGet(f)
  <2>14. f_dev[f] \in Skels /\ f \notin UsersOf(f_dev[f])
    BY <1>2, FilesAssumption DEF Usb!OpenGet, UsbInv, UsbFiles, UsbTypeOK, UsersOf, InCall
  <2>1. PICK d \in Skels : d = f_dev[f] /\ f \notin UsersOf(d)
    BY <2>14
  <2>2. UsersOf(d)' = UsersOf(d) \cup {f}
    BY <1>2, <2>1 DEF Usb!OpenGet, UsbInv, UsbTypeOK, UsersOf, InCall
  <2>3. \A e \in Skels \ {d} : UsersOf(e)' = UsersOf(e)
    BY <1>2, <2>1 DEF Usb!OpenGet, UsbInv, UsbTypeOK, UsersOf, InCall
  <2>4. Cardinality(UsersOf(d))' = Cardinality(UsersOf(d)) + 1
    BY <2>1, <2>2, UsersFinite, FS_AddElement
  <2>5. kref \in [Skels -> Nat] /\ kref' = [kref EXCEPT ![d] = kref[d] + 1] /\ UNCHANGED live
    BY <1>2, <2>1 DEF Usb!OpenGet, UsbInv, UsbTypeOK
  <2>6. kref'[d] = kref[d] + 1 /\ kref[d] = Cardinality(UsersOf(d)) + (IF HubDev = d THEN 1 ELSE 0)
    BY <2>1, <2>5 DEF UsbInv, UsbCount
  <2>7. d = intfdata /\ d # Null
    BY <1>2, <2>1, FilesAssumption DEF Usb!OpenGet, UsbInv, UsbFiles
  <2>8. kref[d] > 0 /\ HubDev = d
    BY <2>6, <2>7, <2>1, UsersFinite DEF UsbInv, UsbHub
  <2>9. d \in live' /\ kref'[d] > 0
    BY <2>1, <2>5, <2>6, <2>8 DEF UsbInv, UsbCount
  <2>10. SUFFICES ASSUME NEW e \in Skels
                  PROVE  /\ kref'[e] = Cardinality(UsersOf(e))' + (IF HubDev' = e THEN 1 ELSE 0)
                         /\ e \in live' <=> kref'[e] > 0
    BY DEF UsbCount
  <2>11. CASE e = d
    <3>1. kref'[d] = Cardinality(UsersOf(d))' + (IF HubDev' = d THEN 1 ELSE 0)
      BY <2>1, <2>4, <2>6, <2>8, <1>1, UsersFinite
    <3>2. QED
      BY <3>1, <2>9, <2>11
  <2>12. CASE e # d
    <3>1. kref'[e] = kref[e] /\ Cardinality(UsersOf(e))' = Cardinality(UsersOf(e))
      BY <2>3, <2>5, <2>12
    <3>2. QED
      BY <3>1, <2>5, <1>1 DEF UsbInv, UsbCount
  <2>13. QED
    BY <2>11, <2>12
<1>3. CASE Usb!skel_release(f)
  <2>15. f_dev[f] \in Skels /\ f \in UsersOf(f_dev[f])
    BY <1>3, FilesAssumption DEF Usb!skel_release, UsbInv, UsbFiles, UsbTypeOK, UsersOf, InCall
  <2>1. PICK d \in Skels : d = f_dev[f] /\ f \in UsersOf(d)
    BY <2>15
  <2>14. \A g \in Files : /\ at'[g] = IF g = f THEN "closed" ELSE at[g]
                          /\ f_dev'[g] = IF g = f THEN Null ELSE f_dev[g]
    BY <1>3 DEF Usb!skel_release, UsbInv, UsbTypeOK
  <2>2. UsersOf(d)' = UsersOf(d) \ {f}
    BY <2>14, <2>1, FilesAssumption DEF UsersOf, InCall
  <2>3. \A e \in Skels \ {d} : UsersOf(e)' = UsersOf(e)
    BY <2>14, <2>1, FilesAssumption DEF UsersOf, InCall
  <2>4. Cardinality(UsersOf(d))' = Cardinality(UsersOf(d)) - 1
    BY <2>1, <2>2, UsersFinite, FS_RemoveElement
  <2>5. kref \in [Skels -> Nat] /\ kref' = [kref EXCEPT ![d] = kref[d] - 1]
    BY <1>3, <2>1 DEF Usb!skel_release, Usb!kref_put, UsbInv, UsbTypeOK
  <2>6. live' = IF kref[d] = 1 THEN live \ {d} ELSE live
    BY <1>3, <2>1 DEF Usb!skel_release, Usb!kref_put, Usb!skel_delete
  <2>7. kref'[d] = kref[d] - 1 /\ kref[d] = Cardinality(UsersOf(d)) + (IF HubDev = d THEN 1 ELSE 0)
    BY <2>1, <2>5 DEF UsbInv, UsbCount
  <2>8. d \in live <=> kref[d] > 0
    BY <2>1 DEF UsbInv, UsbCount
  <2>9. Cardinality(UsersOf(d)) # 0
    BY <2>1, UsersFinite, FS_EmptySet
  <2>10. SUFFICES ASSUME NEW e \in Skels
                  PROVE  /\ kref'[e] = Cardinality(UsersOf(e))' + (IF HubDev' = e THEN 1 ELSE 0)
                         /\ e \in live' <=> kref'[e] > 0
    BY DEF UsbCount
  <2>11. CASE e = d
    <3>1. kref'[d] = Cardinality(UsersOf(d))' + (IF HubDev' = d THEN 1 ELSE 0)
      BY <2>1, <2>4, <2>7, <1>1, UsersFinite
    <3>2. d \in live' <=> kref'[d] > 0
      BY <2>1, <2>6, <2>7, <2>8, <2>9, UsersFinite
    <3>3. QED
      BY <3>1, <3>2, <2>11
  <2>12. CASE e # d
    <3>1. kref'[e] = kref[e] /\ Cardinality(UsersOf(e))' = Cardinality(UsersOf(e))
      BY <2>3, <2>5, <2>12
    <3>2. QED
      BY <3>1, <2>6, <2>12, <1>1 DEF UsbInv, UsbCount
  <2>13. QED
    BY <2>11, <2>12
<1>4. CASE ~(Usb!OpenGet(f) \/ Usb!skel_release(f))
  <2>1. \A d \in Skels : UsersOf(d)' = UsersOf(d)
    BY <1>4 DEF FileActions, Usb!OpenFind, Usb!OpenData, Usb!skel_read, Usb!WriteUrb, Usb!WriteBuf,
                Usb!WriteSubmit, Usb!WriteError, UsersOf, InCall, UsbInv, UsbTypeOK
  <2>2. UNCHANGED <<live, kref>>
    BY <1>4 DEF FileActions, Usb!OpenFind, Usb!OpenData, Usb!skel_read, Usb!WriteUrb, Usb!WriteBuf,
                Usb!WriteSubmit, Usb!WriteError, Usb!device
  <2>3. QED
    BY <2>1, <2>2, <1>1 DEF UsbInv, UsbCount
<1>5. QED
  BY <1>2, <1>3, <1>4

LEMMA UsbFileBuffers ==
  ASSUME UsbInv, NEW f \in Files, FileActions(f)
  PROVE  UsbBuffers'
<1> DEFINE H == HeldBuffers
<1>1. /\ \A g \in Files : UsbHeldAt(g)
      /\ memory = flight + Cardinality(HeldBuffers) /\ UsbTypeOK
  BY DEF UsbInv, UsbBuffers
<1>2. flight \in Nat /\ memory \in Nat /\ Cardinality(HeldBuffers) \in Nat
  BY <1>1, UsersFinite DEF UsbTypeOK
<1> USE DEF Usb!File
<1>3. CASE Usb!WriteBuf(f)
  <2>1. CASE buf' = buf
    <3>1. at' = [at EXCEPT ![f] = "w_error"] /\ UNCHANGED <<memory, flight>>
      BY <1>3, <2>1, <1>1 DEF Usb!WriteBuf, UsbTypeOK, UsbHeldAt
    <3>2. HeldBuffers' = HeldBuffers
      BY <2>1 DEF HeldBuffers
    <3>3. \A g \in Files : UsbHeldAt(g)'
      BY <3>1, <2>1, <1>1 DEF UsbTypeOK, UsbHeldAt
    <3>4. QED
      BY <3>1, <3>2, <3>3, <1>1 DEF UsbBuffers
  <2>2. CASE buf' # buf
    <3>1. /\ at[f] = "w_buf" /\ at' = [at EXCEPT ![f] = "w_submit"] /\ buf' = [buf EXCEPT ![f] = "held"]
          /\ memory' = memory + 1 /\ flight' = flight
      BY <1>3, <2>2 DEF Usb!WriteBuf
    <3>6. buf[f] # "held" /\ \A g \in Files : buf'[g] = IF g = f THEN "held" ELSE buf[g]
      BY <3>1, <1>1 DEF UsbHeldAt, UsbTypeOK
    <3>2. f \notin HeldBuffers /\ HeldBuffers' = HeldBuffers \cup {f}
      BY <3>6 DEF HeldBuffers
    <3>3. Cardinality(HeldBuffers)' = Cardinality(HeldBuffers) + 1
      BY <3>2, UsersFinite, FS_AddElement
    <3>4. \A g \in Files : UsbHeldAt(g)'
      BY <3>1, <1>1 DEF UsbTypeOK, UsbHeldAt
    <3>5. QED
      BY <3>1, <3>3, <3>4, <1>1, <1>2 DEF UsbBuffers
  <2>3. QED
    BY <2>1, <2>2
<1>4. CASE Usb!WriteSubmit(f) /\ at' = [at EXCEPT ![f] = "open"]
  <2>1. /\ at[f] = "w_submit" /\ buf' = [buf EXCEPT ![f] = "none"] /\ flight' = flight + 1 /\ memory' = memory
    BY <1>4, <1>1 DEF Usb!WriteSubmit, UsbTypeOK
  <2>6. buf[f] = "held" /\ \A g \in Files : buf'[g] = IF g = f THEN "none" ELSE buf[g]
    BY <2>1, <1>1 DEF UsbHeldAt, UsbTypeOK
  <2>2. f \in HeldBuffers /\ HeldBuffers' = HeldBuffers \ {f}
    BY <2>6 DEF HeldBuffers
  <2>3. Cardinality(HeldBuffers)' = Cardinality(HeldBuffers) - 1
    BY <2>2, UsersFinite, FS_RemoveElement
  <2>4. \A g \in Files : UsbHeldAt(g)'
    BY <2>1, <1>1, <1>4 DEF UsbTypeOK, UsbHeldAt
  <2>5. QED
    BY <2>1, <2>3, <2>4, <1>1, <1>2 DEF UsbBuffers
<1>5. CASE Usb!WriteError(f)
  <2>1. /\ at[f] = "w_error" /\ at' = [at EXCEPT ![f] = "open"] /\ buf' = [buf EXCEPT ![f] = "none"]
        /\ flight' = flight /\ memory' = IF buf[f] = "held" THEN memory - 1 ELSE memory
    BY <1>5 DEF Usb!WriteError
  <2>2. \A g \in Files : UsbHeldAt(g)'
    BY <2>1, <1>1 DEF UsbTypeOK, UsbHeldAt
  <2>3. CASE buf[f] = "held"
    <3>1. f \in HeldBuffers /\ HeldBuffers' = HeldBuffers \ {f}
      BY <2>1, <2>3, <1>1 DEF HeldBuffers, UsbTypeOK
    <3>2. Cardinality(HeldBuffers)' = Cardinality(HeldBuffers) - 1
      BY <3>1, UsersFinite, FS_RemoveElement
    <3>3. QED
      BY <2>1, <2>2, <2>3, <3>2, <1>1, <1>2 DEF UsbBuffers
  <2>4. CASE buf[f] # "held"
    <3>1. HeldBuffers' = HeldBuffers
      BY <2>1, <2>4, <1>1 DEF HeldBuffers, UsbTypeOK
    <3>2. QED
      BY <2>1, <2>2, <2>4, <3>1, <1>1 DEF UsbBuffers
  <2>5. QED
    BY <2>3, <2>4
<1>6. CASE ~Usb!WriteBuf(f) /\ ~Usb!WriteError(f) /\ ~(Usb!WriteSubmit(f) /\ at' = [at EXCEPT ![f] = "open"])
  <2>1. UNCHANGED <<buf, flight, memory>> /\ at' = [at EXCEPT ![f] = at'[f]] /\ at'[f] # at[f]
    BY <1>6, <1>1 DEF FileActions, Usb!OpenFind, Usb!OpenData, Usb!OpenGet, Usb!skel_release,
         Usb!skel_read, Usb!WriteUrb, Usb!WriteSubmit, Usb!write, UsbTypeOK
  <2>2. at[f] = "w_submit" => at'[f] = "w_error"
    BY <1>6, <1>1 DEF FileActions, Usb!OpenFind, Usb!OpenData, Usb!OpenGet, Usb!skel_release,
         Usb!skel_read, Usb!WriteUrb, Usb!WriteSubmit, UsbTypeOK
  <2>3. at[f] # "w_error" /\ at'[f] # "w_submit"
    BY <1>6, <1>1 DEF FileActions, Usb!OpenFind, Usb!OpenData, Usb!OpenGet, Usb!skel_release,
         Usb!skel_read, Usb!WriteUrb, Usb!WriteSubmit, UsbTypeOK
  <2>4. \A g \in Files : UsbHeldAt(g)'
    BY <2>1, <2>2, <2>3, <1>1 DEF UsbTypeOK, UsbHeldAt
  <2>5. HeldBuffers' = HeldBuffers
    BY <2>1 DEF HeldBuffers
  <2>6. QED
    BY <2>1, <2>4, <2>5, <1>1 DEF UsbBuffers
<1>7. QED
  BY <1>3, <1>4, <1>5, <1>6

LEMMA UsbStepInv == UsbInv /\ [Usb!Next]_usb_vars => UsbInv'
<1> SUFFICES ASSUME UsbInv, [Usb!Next]_usb_vars PROVE UsbInv'
  OBVIOUS
<1>1. CASE UNCHANGED usb_vars
  <2>1. HeldBuffers' = HeldBuffers /\ \A d \in Skels : UsersOf(d)' = UsersOf(d)
    BY <1>1 DEF usb_vars, HeldBuffers, UsersOf
  <2>2. QED
    BY <1>1, <2>1 DEF usb_vars, UsbInv, UsbTypeOK, UsbHub, UsbLock, UsbFiles, UsbCount, UsbBuffers, UsbHeldAt, HubDev
<1>2. CASE Usb!skel_write_bulk_callback
  <2>1. HeldBuffers' = HeldBuffers /\ \A d \in Skels : UsersOf(d)' = UsersOf(d)
    BY <1>2 DEF Usb!skel_write_bulk_callback, HeldBuffers, UsersOf
  <2>2. UsbTypeOK'
    <3>1. flight - 1 \in Nat /\ memory - 1 \in Nat
      BY <1>2, UsbNumbers DEF Usb!skel_write_bulk_callback
    <3>2. QED
      BY <1>2, <3>1 DEF Usb!skel_write_bulk_callback, Usb!device, UsbInv, UsbTypeOK
  <2>3. UsbHub' /\ UsbLock' /\ UsbFiles'
    BY <1>2 DEF Usb!skel_write_bulk_callback, UsbInv, UsbHub, UsbLock, UsbFiles, HubDev
  <2>4. UsbCount'
    BY <1>2, <2>1 DEF Usb!skel_write_bulk_callback, Usb!device, UsbInv, UsbCount, HubDev
  <2>5. UsbBuffers'
    <3>1. (memory = flight + Cardinality(HeldBuffers))'
      BY <1>2, <2>1, UsbNumbers DEF Usb!skel_write_bulk_callback
    <3>2. QED
      BY <1>2, <3>1 DEF Usb!skel_write_bulk_callback, UsbInv, UsbBuffers, UsbHeldAt
  <2>6. QED
    BY <2>2, <2>3, <2>4, <2>5 DEF UsbInv
<1>3. ASSUME NEW f \in Files, FileActions(f) PROVE UsbInv'
  BY <1>3, UsbFileType, UsbFileLock, UsbFileCount, UsbFileBuffers DEF UsbInv
<1>4. CASE Usb!ProbeAlloc \/ Usb!ProbeError \/ Usb!ProbeSet \/ Usb!ProbeRegister
           \/ Usb!HubPut \/ Usb!DisconnectBegin \/ Usb!DisconnectClear \/ Usb!DisconnectMinor
  BY <1>4, UsbHubKeeps
<1>5. CASE Usb!Fault
  BY <1>5, <1>1 DEF Usb!Fault, Usb!vars, Usb!device, Usb!write, usb_vars
<1>6. QED
  BY <1>1, <1>2, <1>3, <1>4, <1>5 DEF Usb!Next, FileActions

\* The counts are exact: a struct usb_skel is deleted by whoever is last to refer to it
\* and under nobody's feet, and no buffer of skel_write is lost or freed early, with any
\* number of open files and of devices plugged in one after the other.
THEOREM UsbSpecLifetimes == Usb!Spec => []UsbLifetimes
<1>1. UsbInv => UsbLifetimes
  <2> SUFFICES ASSUME UsbInv PROVE UsbLifetimes
    OBVIOUS
  <2>1. ASSUME NEW d \in Skels, d \in live PROVE Usb!Refers(d)
    <3>1. CASE HubDev = d
      BY <3>1 DEF HubDev, Usb!Refers
    <3>2. CASE HubDev # d
      <4>1. Cardinality(UsersOf(d)) # 0
        BY <2>1, <3>2, UsersFinite DEF UsbInv, UsbCount
      <4>2. PICK f \in Files : f \in UsersOf(d)
        BY <4>1, FS_EmptySet DEF UsersOf
      <4>3. QED
        BY <4>2 DEF UsersOf, Usb!Refers
    <3>3. QED
      BY <3>1, <3>2
  <2>2. ASSUME NEW d \in Skels, Usb!Refers(d) PROVE d \in live
    <3>1. d # Null
      BY FilesAssumption
    <3>2. CASE HubDev = d
      BY <3>2, UsersFinite DEF UsbInv, UsbCount
    <3>3. CASE HubDev # d
      <4>1. PICK f \in Files : f_dev[f] = d
        BY <3>1, <3>3, <2>2 DEF Usb!Refers, HubDev, UsbInv, UsbHub
      <4>2. at[f] \in InCall
        BY <4>1, <3>1, <3>3 DEF UsbInv, UsbFiles, UsbHub, UsbLock
      <4>3. f \in UsersOf(d)
        BY <4>1, <4>2 DEF UsersOf
      <4>4. Cardinality(UsersOf(d)) # 0
        BY <4>3, UsersFinite, FS_EmptySet
      <4>5. QED
        BY <4>4, <3>3, UsersFinite DEF UsbInv, UsbCount
    <3>4. QED
      BY <3>2, <3>3
  <2>3. memory = flight + Cardinality({f \in Files : buf[f] = "held"})
    BY DEF UsbInv, UsbBuffers, HeldBuffers
  <2>4. QED
    BY <2>1, <2>2, <2>3, UsbCardinality DEF UsbLifetimes, Usb!Lifetimes
<1>2. UsbInv /\ [Usb!Next]_Usb!vars => UsbInv'
  BY UsbStepInv DEF Usb!vars, Usb!device, Usb!write, usb_vars
<1>3. QED
  BY <1>1, <1>2, UsbInitInv, PTL DEF Usb!Spec

-----------------------------------------------------------------------------
(* TinyTty, until the first accident *)

TtyUsers(t) == {o \in Openers : o_pc[o] \in {"open", "closing"} /\ o_tiny[o] = t}

TtyTypeOK ==
  /\ table \in Ports \cup {Null} /\ made \subseteq Ports /\ firing \subseteq Ports
  /\ driver_data \in Ports \cup {Null}
  /\ open_count \in [Ports -> Nat] /\ timer \in [Ports -> {"none", "off", "pending"}]
  /\ o_pc \in [Openers -> {"closed", "find", "create", "enter", "open", "closing"}]
  /\ o_tiny \in [Openers -> Ports \cup {Null}]

\* There is one port, and who has one has that one.
TtyPort ==
  /\ \A t \in made : t = table
  /\ table # Null => table \in made
  /\ \A o \in Openers : /\ o_pc[o] \in {"closed", "find", "create"} => o_tiny[o] = Null
                        /\ o_pc[o] \in {"enter", "closing"} => o_tiny[o] # Null
                        /\ o_tiny[o] # Null => o_tiny[o] = table

TtyCount == \A t \in Ports : open_count[t] = Cardinality(TtyUsers(t))

TtyTickAt(t) == /\ timer[t] = "pending" => t \notin firing /\ open_count[t] > 0
                /\ t \in firing => open_count[t] > 0
                /\ open_count[t] > 0 => timer[t] = "pending" \/ t \in firing
TtyTick == \A t \in Ports : TtyTickAt(t)

TtyInv == accident = {} => TtyTypeOK /\ TtyPort /\ TtyCount /\ TtyTick

LEMMA TtyCardinality == \A S : Tty!Cardinality(S) = Cardinality(S)
BY DEF Tty!Cardinality, Cardinality

LEMMA TtyUsersFinite ==
  \A t \in Ports : IsFiniteSet(TtyUsers(t)) /\ Cardinality(TtyUsers(t)) \in Nat
<1>1. \A t \in Ports : IsFiniteSet(TtyUsers(t))
  BY PortsAssumption, FS_Subset DEF TtyUsers
<1>2. QED
  BY <1>1, FS_CardinalityType

LEMMA TtyInitInv == Tty!TtyInit => TtyInv
<1> SUFFICES ASSUME Tty!TtyInit PROVE TtyTypeOK /\ TtyPort /\ TtyCount /\ TtyTick
  BY DEF TtyInv
<1>1. \A t \in Ports : TtyUsers(t) = {}
  BY PortsAssumption DEF Tty!TtyInit, TtyUsers
<1>2. TtyCount
  BY <1>1, FS_EmptySet DEF Tty!TtyInit, TtyCount
<1>3. TtyTypeOK /\ TtyPort /\ TtyTick
  BY PortsAssumption DEF Tty!TtyInit, TtyTypeOK, TtyPort, TtyTick, TtyTickAt
<1>4. QED
  BY <1>2, <1>3

TtyGood == TtyTypeOK /\ TtyPort /\ TtyCount /\ TtyTick

\* A step that opens or closes no counted file keeps the count.
LEMMA TtyCountKept ==
  ASSUME TtyGood, UNCHANGED open_count, \A t \in Ports : TtyUsers(t)' = TtyUsers(t)
  PROVE  TtyCount'
BY DEF TtyGood, TtyCount

LEMMA TtyTickKept ==
  ASSUME TtyGood, UNCHANGED <<open_count, timer, firing>> PROVE TtyTick'
BY DEF TtyGood, TtyTick, TtyTickAt

LEMMA TtyFindKeeps ==
  ASSUME TtyGood, NEW o \in Openers, accident' = {}, Tty!OpenNull(o) \/ Tty!OpenFind(o) \/ Tty!OpenCreate(o)
  PROVE  TtyGood'
<1> USE PortsAssumption DEF Tty!To
<1>1. TtyTypeOK'
  BY DEF Tty!OpenNull, Tty!OpenFind, Tty!OpenCreate, TtyGood, TtyTypeOK
<1>2. TtyPort'
  <2>1. CASE Tty!OpenNull(o)
    BY <2>1 DEF Tty!OpenNull, TtyGood, TtyTypeOK, TtyPort
  <2>2. CASE Tty!OpenFind(o)
    BY <2>2 DEF Tty!OpenFind, TtyGood, TtyTypeOK, TtyPort
  <2>3. CASE Tty!OpenCreate(o)
    <3>1. CASE table' = table
      BY <2>3, <3>1 DEF Tty!OpenCreate, TtyGood, TtyTypeOK, TtyPort
    <3>2. CASE table' # table
      <4>1. table = Null /\ made = {}
        BY <2>3, <3>2 DEF Tty!OpenCreate, Tty!Accident, TtyGood, TtyTypeOK, TtyPort
      <4>2. \A q \in Openers : o_tiny[q] = Null
        BY <4>1 DEF TtyGood, TtyPort
      <4>3. PICK t \in Ports : /\ table' = t /\ made' = made \cup {t}
                               /\ o_pc' = [o_pc EXCEPT ![o] = "enter"] /\ o_tiny' = [o_tiny EXCEPT ![o] = t]
        BY <2>3, <3>2 DEF Tty!OpenCreate
      <4>4. \A q \in Openers : /\ o_pc'[q] = IF q = o THEN "enter" ELSE o_pc[q]
                              /\ o_tiny'[q] = IF q = o THEN t ELSE Null
        BY <4>2, <4>3 DEF TtyGood, TtyTypeOK
      <4>5. \A q \in Openers : o_pc[q] \notin {"enter", "closing"}
        BY <4>2 DEF TtyGood, TtyPort
      <4>6. QED
        BY <4>1, <4>3, <4>4, <4>5 DEF TtyPort
    <3>3. QED
      BY <3>1, <3>2
  <2>4. QED
    BY <2>1, <2>2, <2>3
<1>3. \A t \in Ports : TtyUsers(t)' = TtyUsers(t)
  <2>1. \A q \in Openers \ {o} : o_pc'[q] = o_pc[q] /\ o_tiny'[q] = o_tiny[q]
    BY DEF Tty!OpenNull, Tty!OpenFind, Tty!OpenCreate, TtyGood, TtyTypeOK
  <2>2. o_pc[o] \notin {"open", "closing"} /\ (o_pc'[o] \notin {"open", "closing"} \/ o_tiny'[o] = Null)
    BY DEF Tty!OpenNull, Tty!OpenFind, Tty!OpenCreate, TtyGood, TtyTypeOK, TtyPort
  <2>3. QED
    BY <2>1, <2>2 DEF TtyUsers
<1>4. UNCHANGED <<open_count, timer, firing>>
  BY DEF Tty!OpenNull, Tty!OpenFind, Tty!OpenCreate
<1>5. QED
  BY <1>1, <1>2, <1>3, <1>4, TtyCountKept, TtyTickKept DEF TtyGood

LEMMA TtyEnterKeeps ==
  ASSUME TtyGood, NEW o \in Openers, accident' = {}, Tty!OpenEnter(o)
  PROVE  TtyGood'
<1> USE PortsAssumption
<1>1. PICK t \in Ports : t = o_tiny[o] /\ t = table
  BY DEF Tty!OpenEnter, TtyGood, TtyTypeOK, TtyPort
<1>2. /\ o_pc[o] = "enter" /\ o_pc' = [o_pc EXCEPT ![o] = "open"]
      /\ driver_data' = t /\ open_count' = [open_count EXCEPT ![t] = open_count[t] + 1]
      /\ UNCHANGED <<table, made, firing, o_tiny>>
      /\ IF open_count[t] = 0 THEN timer' = [timer EXCEPT ![t] = "pending"] /\ timer[t] # "pending"
         ELSE UNCHANGED timer
  BY <1>1 DEF Tty!OpenEnter, Tty!To, Tty!add_timer, Tty!Accident
<1>3. open_count \in [Ports -> Nat] /\ open_count[t] \in Nat
  BY DEF TtyGood, TtyTypeOK
<1>4. open_count' \in [Ports -> Nat] /\ timer' \in [Ports -> {"none", "off", "pending"}]
  BY <1>2, <1>3 DEF TtyGood, TtyTypeOK
<1>5. TtyTypeOK'
  BY <1>2, <1>4 DEF TtyGood, TtyTypeOK
<1>6. TtyPort'
  BY <1>1, <1>2 DEF TtyGood, TtyTypeOK, TtyPort
<1>7. \A q \in Openers : o_pc'[q] = IF q = o THEN "open" ELSE o_pc[q]
  BY <1>2 DEF TtyGood, TtyTypeOK
<1>8. o \notin TtyUsers(t) /\ TtyUsers(t)' = TtyUsers(t) \cup {o}
  BY <1>1, <1>2, <1>7 DEF TtyUsers
<1>9. \A u \in Ports \ {t} : TtyUsers(u)' = TtyUsers(u)
  BY <1>1, <1>2, <1>7 DEF TtyUsers
<1>10. Cardinality(TtyUsers(t))' = Cardinality(TtyUsers(t)) + 1
  BY <1>8, TtyUsersFinite, FS_AddElement
<1>11. open_count'[t] = open_count[t] + 1 /\ \A u \in Ports \ {t} : open_count'[u] = open_count[u]
  BY <1>2, <1>3
<1>12. TtyCount'
  <2>1. SUFFICES ASSUME NEW u \in Ports PROVE open_count'[u] = Cardinality(TtyUsers(u))'
    BY DEF TtyCount
  <2>2. CASE u = t
    BY <1>10, <1>11, <2>2 DEF TtyGood, TtyCount
  <2>3. CASE u # t
    <3>1. TtyUsers(u)' = TtyUsers(u)
      BY <1>9, <2>3
    <3>2. QED
      BY <1>11, <2>3, <3>1 DEF TtyGood, TtyCount
  <2>4. QED
    BY <2>2, <2>3
<1>13. TtyTick'
  <2>1. SUFFICES ASSUME NEW u \in Ports PROVE TtyTickAt(u)'
    BY DEF TtyTick
  <2>2. TtyTickAt(u) /\ timer \in [Ports -> {"none", "off", "pending"}]
    BY DEF TtyGood, TtyTick, TtyTypeOK
  <2>3. CASE u = t
    BY <1>2, <1>3, <1>11, <2>2, <2>3 DEF TtyTickAt
  <2>4. CASE u # t
    BY <1>2, <1>11, <2>2, <2>4 DEF TtyTickAt
  <2>5. QED
    BY <2>3, <2>4
<1>14. QED
  BY <1>5, <1>6, <1>12, <1>13 DEF TtyGood

LEMMA TtyCloseKeeps ==
  ASSUME TtyGood, NEW o \in Openers, accident' = {}, Tty!Close(o)
  PROVE  TtyGood'
<1> USE PortsAssumption
<1>1. /\ o_pc[o] = "open" /\ driver_data = o_tiny[o] /\ o_tiny' = [o_tiny EXCEPT ![o] = o_tiny[o]]
      /\ o_pc' = [o_pc EXCEPT ![o] = IF driver_data = Null THEN "closed" ELSE "closing"]
      /\ UNCHANGED <<table, made, driver_data, open_count, timer, firing>>
  BY DEF Tty!Close, Tty!To, Tty!Accident
<1>2. o_tiny' = o_tiny
  BY <1>1 DEF TtyGood, TtyTypeOK
<1>3. TtyTypeOK' /\ TtyPort'
  BY <1>1, <1>2 DEF TtyGood, TtyTypeOK, TtyPort
<1>4. \A q \in Openers : o_pc'[q] = IF q # o THEN o_pc[q] ELSE IF o_tiny[o] = Null THEN "closed" ELSE "closing"
  BY <1>1 DEF TtyGood, TtyTypeOK
<1>5. \A t \in Ports : TtyUsers(t)' = TtyUsers(t)
  BY <1>1, <1>2, <1>4 DEF TtyUsers
<1>6. QED
  BY <1>1, <1>3, <1>5, TtyCountKept, TtyTickKept DEF TtyGood

LEMMA TtyDoCloseKeeps ==
  ASSUME TtyGood, NEW o \in Openers, accident' = {}, Tty!do_close(o)
  PROVE  TtyGood'
<1> USE PortsAssumption
<1>1. PICK t \in Ports : t = o_tiny[o] /\ t = table
  BY DEF Tty!do_close, Tty!To, TtyGood, TtyTypeOK, TtyPort
<1>2. o_pc[o] = "closing" /\ o \in TtyUsers(t)
  BY <1>1 DEF Tty!do_close, Tty!To, TtyUsers
<1>3. Cardinality(TtyUsers(t)) # 0
  BY <1>2, TtyUsersFinite, FS_EmptySet
<1>4. open_count[t] = Cardinality(TtyUsers(t)) /\ open_count[t] - 1 \in Nat /\ open_count[t] # 0
  BY <1>3, TtyUsersFinite DEF TtyGood, TtyCount
<1>5. /\ o_pc' = [o_pc EXCEPT ![o] = "closed"] /\ o_tiny' = [o_tiny EXCEPT ![o] = Null]
      /\ open_count' = [open_count EXCEPT ![t] = open_count[t] - 1]
      /\ UNCHANGED <<table, made, driver_data, firing>>
  BY <1>1, <1>4 DEF Tty!do_close, Tty!To
<1>6. IF open_count[t] > 1 THEN UNCHANGED timer
      ELSE t \notin firing /\ timer[t] # "none" /\ timer' = [timer EXCEPT ![t] = "off"]
  BY <1>1, <1>4 DEF Tty!do_close, Tty!Accident, TtyGood, TtyTypeOK
<1>7. open_count \in [Ports -> Nat] /\ open_count' \in [Ports -> Nat]
  BY <1>4, <1>5 DEF TtyGood, TtyTypeOK
<1>8. timer' \in [Ports -> {"none", "off", "pending"}]
  BY <1>6 DEF TtyGood, TtyTypeOK
<1>9. TtyTypeOK'
  BY <1>5, <1>7, <1>8 DEF TtyGood, TtyTypeOK
<1>10. TtyPort'
  BY <1>5 DEF TtyGood, TtyTypeOK, TtyPort
<1>11. \A q \in Openers : /\ o_pc'[q] = IF q = o THEN "closed" ELSE o_pc[q]
                          /\ o_tiny'[q] = IF q = o THEN Null ELSE o_tiny[q]
  BY <1>5 DEF TtyGood, TtyTypeOK
<1>12. \A u \in Ports : TtyUsers(u)' = TtyUsers(u) \ {o}
  BY <1>11 DEF TtyUsers
<1>13. \A u \in Ports \ {t} : o \notin TtyUsers(u)
  BY <1>1 DEF TtyUsers
<1>14. Cardinality(TtyUsers(t))' = Cardinality(TtyUsers(t)) - 1
  BY <1>2, <1>12, TtyUsersFinite, FS_RemoveElement
<1>15. open_count'[t] = open_count[t] - 1 /\ \A u \in Ports \ {t} : open_count'[u] = open_count[u]
  BY <1>5, <1>7
<1>16. TtyCount'
  <2>1. SUFFICES ASSUME NEW u \in Ports PROVE open_count'[u] = Cardinality(TtyUsers(u))'
    BY DEF TtyCount
  <2>2. CASE u = t
    BY <1>4, <1>14, <1>15, <2>2
  <2>3. CASE u # t
    <3>1. TtyUsers(u)' = TtyUsers(u)
      BY <1>12, <1>13, <2>3
    <3>2. QED
      BY <1>15, <2>3, <3>1 DEF TtyGood, TtyCount
  <2>4. QED
    BY <2>2, <2>3
<1>17. TtyTick'
  <2>1. SUFFICES ASSUME NEW u \in Ports PROVE TtyTickAt(u)'
    BY DEF TtyTick
  <2>2. TtyTickAt(u) /\ timer \in [Ports -> {"none", "off", "pending"}]
    BY DEF TtyGood, TtyTick, TtyTypeOK
  <2>3. CASE u = t
    <3>1. CASE open_count[t] > 1
      BY <1>5, <1>6, <1>7, <1>15, <2>2, <2>3, <3>1 DEF TtyTickAt
    <3>2. CASE ~(open_count[t] > 1)
      <4>1. open_count'[t] = 0 /\ timer'[t] = "off" /\ t \notin firing'
        BY <1>4, <1>5, <1>6, <1>7, <1>15, <2>2, <3>2
      <4>2. QED
        BY <4>1, <2>3 DEF TtyTickAt
    <3>3. QED
      BY <3>1, <3>2
  <2>4. CASE u # t
    BY <1>5, <1>6, <1>15, <2>2, <2>4 DEF TtyTickAt
  <2>5. QED
    BY <2>3, <2>4
<1>18. QED
  BY <1>9, <1>10, <1>16, <1>17 DEF TtyGood

LEMMA TtyTimerKeeps ==
  ASSUME TtyGood, NEW t \in Ports, accident' = {}, Tty!Fire(t) \/ Tty!Resubmit(t)
  PROVE  TtyGood'
<1>1. UNCHANGED <<table, made, driver_data, open_count, o_pc, o_tiny>>
  BY DEF Tty!Fire, Tty!Resubmit
<1>2. \A u \in Ports : TtyUsers(u)' = TtyUsers(u)
  BY <1>1 DEF TtyUsers
<1>3. TtyTypeOK' /\ TtyPort'
  BY <1>1 DEF Tty!Fire, Tty!Resubmit, Tty!add_timer, TtyGood, TtyTypeOK, TtyPort
<1>4. TtyTick'
  <2>1. SUFFICES ASSUME NEW u \in Ports PROVE TtyTickAt(u)'
    BY DEF TtyTick
  <2>2. TtyTickAt(u) /\ timer \in [Ports -> {"none", "off", "pending"}]
    BY DEF TtyGood, TtyTick, TtyTypeOK
  <2>3. CASE u = t
    BY <1>1, <2>2, <2>3 DEF Tty!Fire, Tty!Resubmit, Tty!add_timer, TtyTickAt
  <2>4. CASE u # t
    BY <1>1, <2>2, <2>4 DEF Tty!Fire, Tty!Resubmit, Tty!add_timer, TtyTickAt
  <2>5. QED
    BY <2>3, <2>4
<1>5. QED
  BY <1>1, <1>2, <1>3, <1>4, TtyCountKept DEF TtyGood

LEMMA TtyStepInv == TtyInv /\ [Tty!TtyNext]_Tty!tty_vars => TtyInv'
<1> SUFFICES ASSUME TtyInv, [Tty!TtyNext]_Tty!tty_vars, accident' = {} PROVE TtyGood'
  BY DEF TtyInv, TtyGood
<1>1. accident = {}
  BY DEF Tty!TtyNext, Tty!OpenNull, Tty!OpenFind, Tty!OpenCreate, Tty!OpenEnter, Tty!Close, Tty!do_close,
         Tty!Write, Tty!Modem, Tty!Miwait, Tty!Fire, Tty!Resubmit, Tty!add_timer, Tty!Accident, Tty!tty_vars
<1>2. TtyGood
  BY <1>1 DEF TtyInv, TtyGood
<1>3. ASSUME UNCHANGED <<table, made, driver_data, open_count, timer, firing, o_pc, o_tiny>> PROVE TtyGood'
  <2>1. \A u \in Ports : TtyUsers(u)' = TtyUsers(u)
    BY <1>3 DEF TtyUsers
  <2>2. TtyTypeOK' /\ TtyPort'
    BY <1>2, <1>3 DEF TtyGood, TtyTypeOK, TtyPort
  <2>3. QED
    BY <1>2, <1>3, <2>1, <2>2, TtyCountKept, TtyTickKept DEF TtyGood
<1>4. CASE UNCHANGED Tty!tty_vars
  BY <1>3, <1>4 DEF Tty!tty_vars
<1>5. ASSUME NEW o \in Openers, Tty!Write(o) \/ Tty!Modem(o) \/ Tty!Miwait(o) PROVE TtyGood'
  BY <1>3, <1>5 DEF Tty!Write, Tty!Modem, Tty!Miwait, Tty!tty_vars
<1>6. QED
  BY <1>2, <1>4, <1>5, TtyFindKeeps, TtyEnterKeeps, TtyCloseKeeps, TtyDoCloseKeeps, TtyTimerKeeps
     DEF Tty!TtyNext

\* Any number of processes that open and close the port leave its timer pending or
\* running exactly while the port is open, and the count is theirs, until an accident.
THEOREM TtySpecTimer == Tty!TtyInit /\ [][Tty!TtyNext]_Tty!tty_vars => []TtyTimer
<1>1. TtyInv => TtyTimer
  <2> SUFFICES ASSUME TtyInv, accident = {}, NEW t \in made
               PROVE  /\ t = table
                      /\ open_count[t] = Tty!Cardinality({o \in Openers : o_pc[o] \in {"open", "closing"}
                                                                        /\ o_tiny[o] = t})
                      /\ (timer[t] = "pending" \/ t \in firing) <=> open_count[t] > 0
                      /\ ~ (timer[t] = "pending" /\ t \in firing)
    BY DEF TtyTimer, Tty!TimerWhileOpen
  <2>1. TtyTypeOK /\ TtyPort /\ TtyCount /\ TtyTick /\ t \in Ports
    BY DEF TtyInv, TtyTypeOK
  <2>2. open_count[t] = Cardinality(TtyUsers(t))
    BY <2>1 DEF TtyCount
  <2>3. TtyTickAt(t)
    BY <2>1 DEF TtyTick
  <2>4. QED
    BY <2>1, <2>2, <2>3, TtyCardinality DEF TtyPort, TtyUsers, TtyTickAt
<1>2. QED
  BY <1>1, TtyInitInv, TtyStepInv, PTL

-----------------------------------------------------------------------------
(* ScullPriv, until something has gone wrong *)

PrivKeys == Ttys \cup {Null}

PrivTypeOK ==
  /\ smp \in BOOLEAN /\ tty \in [Callers -> PrivKeys]
  /\ scull_c_list \in Seq(PrivKeys) /\ scull_c_lock \subseteq Callers
  /\ p_pc \in [Callers -> {"closed", "key", "lock", "alloc", "trim", "open", "use"}]
  /\ key \in [Callers -> PrivKeys] /\ p_wronly \in [Callers -> BOOLEAN]
  /\ private_data \in [Callers -> Nat]

\* Who sleeps in kmalloc holds the lock, alone on several processors, and on one
\* only beside those that make a clone for another terminal.
PrivLock ==
  /\ \A p \in Callers : p \in scull_c_lock <=> p_pc[p] = "alloc"
  /\ \A p, q \in scull_c_lock : smp \/ key[p] = key[q] => p = q

\* No terminal has two clones, nor one while another is made for it.
PrivList ==
  /\ \A i, j \in DOMAIN scull_c_list : scull_c_list[i] = scull_c_list[j] => i = j
  /\ \A p \in scull_c_lock, i \in DOMAIN scull_c_list : scull_c_list[i] # key[p]

\* Whoever has a clone has that of its terminal.
PrivHas(p) == private_data[p] \in DOMAIN scull_c_list /\ scull_c_list[private_data[p]] = key[p]
PrivOwn == \A p \in Callers : Priv!HasClone(p) => PrivHas(p)

PrivGood == PrivTypeOK /\ PrivLock /\ PrivList /\ PrivOwn
PrivInv == broken = {} => PrivGood

LEMMA PrivInitInv == Priv!PrivInit => PrivInv
<1> SUFFICES ASSUME Priv!PrivInit PROVE PrivGood
  BY DEF PrivInv
<1>1. scull_c_list = <<>> /\ scull_c_list \in Seq(PrivKeys) /\ DOMAIN scull_c_list = {}
  BY DEF Priv!PrivInit
<1>2. PrivTypeOK
  BY <1>1 DEF Priv!PrivInit, PrivTypeOK, PrivKeys
<1>3. PrivLock /\ PrivList
  BY <1>1 DEF Priv!PrivInit, PrivLock, PrivList
<1>4. PrivOwn
  BY DEF Priv!PrivInit, PrivOwn, Priv!HasClone
<1>5. QED
  BY <1>2, <1>3, <1>4 DEF PrivGood

\* A step that leaves list, lock and keys alone keeps what is said of them.
LEMMA PrivKept ==
  ASSUME PrivGood, UNCHANGED <<smp, scull_c_list, scull_c_lock, key>>,
         \A p \in Callers : p_pc'[p] = "alloc" <=> p_pc[p] = "alloc"
  PROVE  PrivLock' /\ PrivList'
BY DEF PrivGood, PrivLock, PrivList

LEMMA PrivQuietKeeps ==
  ASSUME PrivGood, NEW p \in Callers,
         \/ \E t \in {Null} \cup Ttys : Priv!ChangeTty(p, t)
         \/ Priv!OpenTest(p) \/ Priv!OpenTrim(p) \/ Priv!StartUse(p) \/ Priv!EndUse(p)
  PROVE  PrivGood'
<1>1. /\ PrivTypeOK' /\ UNCHANGED <<smp, scull_c_list, scull_c_lock, key, private_data>>
      /\ \A q \in Callers : p_pc'[q] = "alloc" <=> p_pc[q] = "alloc"
      /\ \A q \in Callers : Priv!HasClone(q)' => Priv!HasClone(q)
  <2> USE DEF PrivGood, PrivTypeOK, PrivKeys, Priv!HasClone, Priv!open_vars, Priv!To
  <2>1. CASE \E t \in {Null} \cup Ttys : Priv!ChangeTty(p, t)
    BY <2>1 DEF Priv!ChangeTty
  <2>2. CASE Priv!OpenTest(p)
    BY <2>2 DEF Priv!OpenTest
  <2>3. CASE Priv!OpenTrim(p)
    BY <2>3 DEF Priv!OpenTrim
  <2>4. CASE Priv!StartUse(p)
    BY <2>4 DEF Priv!StartUse
  <2>5. CASE Priv!EndUse(p)
    BY <2>5 DEF Priv!EndUse
  <2>6. QED
    BY <2>1, <2>2, <2>3, <2>4, <2>5
<1>2. PrivOwn'
  BY <1>1 DEF PrivGood, PrivOwn, PrivHas
<1>3. QED
  BY <1>1, <1>2, PrivKept DEF PrivGood

LEMMA PrivKeyKeeps ==
  ASSUME PrivGood, NEW p \in Callers, Priv!OpenKey(p) \/ Priv!Release(p)
  PROVE  PrivGood'
<1>1. /\ p_pc[p] \in {"key", "open"} /\ p_pc'[p] \in {"lock", "closed"}
      /\ UNCHANGED <<smp, scull_c_list, scull_c_lock>>
      /\ \A q \in Callers : q # p => /\ p_pc'[q] = p_pc[q] /\ key'[q] = key[q]
                                     /\ private_data'[q] = private_data[q]
  BY DEF PrivGood, PrivTypeOK, Priv!OpenKey, Priv!Release, Priv!To
<1>2. PrivTypeOK'
  <2>1. CASE Priv!OpenKey(p)
    BY <2>1 DEF PrivGood, PrivTypeOK, PrivKeys, Priv!OpenKey, Priv!To
  <2>2. CASE Priv!Release(p)
    BY <2>2 DEF PrivGood, PrivTypeOK, PrivKeys, Priv!Release, Priv!To
  <2>3. QED
    BY <2>1, <2>2
<1>3. p \notin scull_c_lock
  BY <1>1 DEF PrivGood, PrivLock
<1>4. PrivLock' /\ PrivList'
  <2>1. \A q \in scull_c_lock : q \in Callers /\ q # p /\ key'[q] = key[q]
    BY <1>1, <1>3 DEF PrivGood, PrivTypeOK
  <2>2. PrivLock'
    BY <1>1, <1>3, <2>1 DEF PrivGood, PrivLock
  <2>3. PrivList'
    BY <1>1, <2>1 DEF PrivGood, PrivList
  <2>4. QED
    BY <2>2, <2>3
<1>5. PrivOwn'
  BY <1>1 DEF PrivGood, PrivOwn, PrivHas, Priv!HasClone
<1>6. QED
  BY <1>2, <1>4, <1>5 DEF PrivGood

LEMMA PrivLookupKeeps ==
  ASSUME PrivGood, broken = {}, broken' = {}, NEW p \in Callers, Priv!OpenLookup(p)
  PROVE  PrivGood'
<1> USE DEF PrivGood
<1>1. /\ UNCHANGED <<smp, tty, scull_c_list, key, p_wronly>> /\ p_pc[p] = "lock"
      /\ \A q \in Callers : q # p => p_pc'[q] = p_pc[q]
      /\ p \notin scull_c_lock
  BY DEF PrivTypeOK, PrivLock, Priv!OpenLookup, Priv!Got, Priv!To
<1>2. CASE \E i \in Priv!Found(key[p]) : Priv!Got(p, "lock", i)
  <2>1. PICK i \in Priv!Found(key[p]) : Priv!Got(p, "lock", i)
    BY <1>2
  <2>2. i \in DOMAIN scull_c_list /\ scull_c_list[i] = key[p] /\ i \in Nat
    BY <2>1 DEF Priv!Found, PrivTypeOK
  <2>3. p_pc'[p] \in {"trim", "open"} /\ scull_c_lock' = scull_c_lock
    BY <2>1, <1>1 DEF Priv!Got, Priv!To, Priv!OpenLookup, PrivTypeOK
  <2>4. PrivTypeOK'
    BY <2>1, <2>2, <2>3, <1>1 DEF Priv!Got, Priv!To, PrivTypeOK
  <2>5. PrivLock' /\ PrivList'
    BY <1>1, <2>3, PrivKept
  <2>6. PrivOwn'
    BY <1>1, <2>1, <2>2 DEF Priv!Got, PrivOwn, PrivHas, Priv!HasClone, PrivTypeOK
  <2>7. QED
    BY <2>4, <2>5, <2>6
<1>3. CASE Priv!Found(key[p]) = {} /\ Priv!To(p, "lock", "alloc")
  <2>1. scull_c_lock' = scull_c_lock \cup {p} /\ private_data' = private_data /\ p_pc'[p] = "alloc"
    BY <1>1, <1>3 DEF Priv!OpenLookup, Priv!To, PrivTypeOK, Priv!Got
  <2>2. PrivTypeOK'
    BY <1>1, <1>3, <2>1 DEF Priv!To, PrivTypeOK
  <2>3. \A q \in scull_c_lock : ~smp /\ key[q] # key[p]
    BY <1>3, <1>1 DEF Priv!OpenLookup, Priv!LockFree, Priv!Got, Priv!To, PrivTypeOK
  <2>4. PrivLock'
    BY <1>1, <2>1, <2>3 DEF PrivLock
  <2>5. \A i \in DOMAIN scull_c_list : scull_c_list[i] # key[p]
    <3> SUFFICES ASSUME NEW i \in DOMAIN scull_c_list, scull_c_list[i] = key[p] PROVE FALSE
      OBVIOUS
    <3>1. \A j \in DOMAIN scull_c_list : scull_c_list[j] = key[p] => j <= i
      BY DEF PrivList, PrivTypeOK
    <3>2. QED
      BY <3>1, <1>3 DEF Priv!Found
  <2>6. PrivList'
    BY <1>1, <2>1, <2>5 DEF PrivList
  <2>7. PrivOwn'
    BY <1>1, <2>1 DEF PrivOwn, PrivHas, Priv!HasClone
  <2>8. QED
    BY <2>2, <2>4, <2>6, <2>7
<1>4. QED
  BY <1>2, <1>3 DEF Priv!OpenLookup

LEMMA PrivCreateKeeps ==
  ASSUME PrivGood, NEW p \in Callers, Priv!OpenCreate(p)
  PROVE  PrivGood'
<1> USE DEF PrivGood
<1>1. /\ UNCHANGED <<smp, tty>> /\ p_pc[p] = "alloc" /\ p \in scull_c_lock
      /\ scull_c_lock' = scull_c_lock \ {p}
      /\ \A q \in Callers : q # p => p_pc'[q] = p_pc[q] /\ key'[q] = key[q] /\ private_data'[q] = private_data[q]
      /\ p_pc'[p] \in {"trim", "open", "closed"}
  BY DEF PrivTypeOK, PrivLock, Priv!OpenCreate, Priv!Got, Priv!To
<1>2. PrivLock'
  BY <1>1 DEF PrivLock, PrivTypeOK
<1>3. CASE /\ scull_c_list' = Append(scull_c_list, key[p])
           /\ Priv!Got(p, "alloc", Len(scull_c_list) + 1) /\ UNCHANGED <<key, p_wronly>>
  <2>1. /\ Len(scull_c_list) \in Nat /\ DOMAIN scull_c_list = 1..Len(scull_c_list)
        /\ DOMAIN scull_c_list' = 1..Len(scull_c_list) + 1
        /\ scull_c_list'[Len(scull_c_list) + 1] = key[p]
        /\ \A i \in DOMAIN scull_c_list : scull_c_list'[i] = scull_c_list[i]
        /\ scull_c_list' \in Seq(PrivKeys)
    BY <1>3 DEF PrivTypeOK
  <2>2. PrivTypeOK'
    BY <1>1, <1>3, <2>1 DEF PrivTypeOK, Priv!Got, Priv!To
  <2>3. PrivList'
    <3>1. \A i \in DOMAIN scull_c_list : scull_c_list[i] # key[p]
      BY <1>1 DEF PrivList
    <3>2. \A i, j \in DOMAIN scull_c_list' : scull_c_list'[i] = scull_c_list'[j] => i = j
      BY <2>1, <3>1 DEF PrivList
    <3>3. \A q \in scull_c_lock' : key[q] # key[p] /\ q \in scull_c_lock
      BY <1>1 DEF PrivLock
    <3>4. \A q \in scull_c_lock', i \in DOMAIN scull_c_list' : scull_c_list'[i] # key'[q]
      BY <1>3, <2>1, <3>3 DEF PrivList
    <3>5. QED
      BY <3>2, <3>4 DEF PrivList
  <2>4. PrivHas(p)'
    BY <1>3, <2>1 DEF PrivHas, Priv!Got, PrivTypeOK
  <2>5. \A q \in Callers : q # p /\ Priv!HasClone(q)' => PrivHas(q)'
    BY <1>1, <2>1 DEF PrivHas, PrivOwn, Priv!HasClone
  <2>6. QED
    BY <1>2, <2>2, <2>3, <2>4, <2>5 DEF PrivOwn
<1>4. CASE /\ Priv!To(p, "alloc", "closed")
           /\ key' = [key EXCEPT ![p] = Null] /\ p_wronly' = [p_wronly EXCEPT ![p] = FALSE]
           /\ UNCHANGED <<scull_c_list, private_data>>
  <2>1. PrivTypeOK'
    BY <1>1, <1>4 DEF PrivTypeOK, PrivKeys, Priv!To
  <2>2. p_pc'[p] = "closed"
    BY <1>4 DEF PrivTypeOK, Priv!To
  <2>3. PrivList'
    BY <1>1, <1>4 DEF PrivList, PrivTypeOK
  <2>4. PrivOwn'
    BY <1>1, <1>4, <2>2 DEF PrivOwn, PrivHas, Priv!HasClone
  <2>5. QED
    BY <1>2, <2>1, <2>3, <2>4
<1>5. QED
  BY <1>3, <1>4 DEF Priv!OpenCreate

LEMMA PrivUnloadKeeps == PrivGood /\ Priv!Unload => PrivGood'
<1> SUFFICES ASSUME PrivGood, Priv!Unload PROVE PrivGood'
  OBVIOUS
<1>1. scull_c_lock = {}
  BY DEF PrivGood, PrivTypeOK, PrivLock, Priv!Unload
<1>2. scull_c_list' \in Seq(PrivKeys) /\ DOMAIN scull_c_list' = {}
  BY DEF Priv!Unload
<1>3. PrivTypeOK'
  BY <1>2 DEF PrivGood, PrivTypeOK, Priv!Unload, Priv!open_vars
<1>4. PrivLock' /\ PrivList'
  BY <1>1, <1>2 DEF PrivGood, PrivLock, PrivList, Priv!Unload, Priv!open_vars
<1>5. PrivOwn'
  BY DEF PrivOwn, Priv!HasClone, Priv!Unload, Priv!open_vars
<1>6. QED
  BY <1>3, <1>4, <1>5 DEF PrivGood

LEMMA PrivStepInv == PrivInv /\ [Priv!PrivNext]_Priv!priv_vars => PrivInv'
<1> SUFFICES ASSUME PrivInv, [Priv!PrivNext]_Priv!priv_vars, broken' = {} PROVE PrivGood'
  BY DEF PrivInv
<1>1. broken = {}
  BY DEF Priv!PrivNext, Priv!Unload, Priv!ChangeTty, Priv!OpenTest, Priv!OpenKey, Priv!OpenLookup, Priv!OpenCreate,
         Priv!OpenTrim, Priv!StartUse, Priv!EndUse, Priv!Release, Priv!priv_vars
<1>2. PrivGood
  BY <1>1 DEF PrivInv
<1>3. CASE UNCHANGED Priv!priv_vars
  <2>1. UNCHANGED <<smp, tty, scull_c_list, scull_c_lock, p_pc, key, p_wronly, private_data>>
    BY <1>3 DEF Priv!priv_vars, Priv!open_vars
  <2>2. QED
    BY <1>2, <2>1 DEF PrivGood, PrivTypeOK, PrivLock, PrivList, PrivOwn, PrivHas, Priv!HasClone
<1>4. QED
  BY <1>1, <1>2, <1>3, PrivUnloadKeeps, PrivQuietKeeps, PrivKeyKeeps, PrivLookupKeeps, PrivCreateKeeps
     DEF Priv!PrivNext

\* For any number of processes and terminals, on one processor or several, whoever
\* has a clone shares it with exactly those of its terminal, until an open loses its
\* terminal half way or, on one processor, overtakes one that sleeps in kmalloc.
THEOREM PrivSpecHolds == Priv!PrivInit /\ [][Priv!PrivNext]_Priv!priv_vars => []PrivHolds
<1>1. PrivInv => PrivHolds
  <2> SUFFICES ASSUME PrivInv, broken = {} PROVE Priv!PrivateClones
    BY DEF PrivHolds, Priv!PrivateClones
  <2>1. PrivGood
    BY DEF PrivInv
  <2>2. \A p, q \in Callers : Priv!HasClone(p) /\ Priv!HasClone(q) =>
          ((private_data[p] = private_data[q]) <=> (key[p] = key[q]))
    BY <2>1 DEF PrivGood, PrivOwn, PrivHas, PrivList
  <2>3. \A p \in Callers : Priv!HasClone(p) => private_data[p] \in Priv!Found(key[p])
    BY <2>1 DEF PrivGood, PrivOwn, PrivHas, PrivList, PrivTypeOK, Priv!Found
  <2>4. QED
    BY <2>2, <2>3 DEF Priv!PrivateClones
<1>2. QED
  BY <1>1, PrivInitInv, PrivStepInv, PTL

-----------------------------------------------------------------------------
(* Sbull *)

DiskHas == {d \in Disks : d_pc[d] \in {"open", "release"}}

DiskTypeOK ==
  /\ bd_sem \in Disks \cup {"nobody"} /\ dev_lock \in Disks \cup {"nobody"} /\ users \in Nat
  /\ d_pc \in [Disks -> {"closed", "del_timer", "lock", "revalidate", "count", "open", "release", "idle"}]
  /\ data \in [0..Sectors - 1 -> 0..2]

\* One process at a time opens or releases, and it has dev->lock while it should.
DiskLocks ==
  \A d \in Disks :
    /\ d_pc[d] \in {"del_timer", "lock", "revalidate", "count", "release", "idle"} <=> bd_sem = d
    /\ d_pc[d] \in {"revalidate", "count", "idle"} <=> dev_lock = d

DiskCount == users = Cardinality(DiskHas)

\* The timer is only there while nobody uses the disk or is past its deletion.
DiskTimer ==
  /\ ~insane
  /\ b_timer \/ invalidating => users = 0 /\ \A d \in Disks : d_pc[d] \notin {"lock", "revalidate", "count"}
  /\ media_change => users = 0 /\ \A d \in Disks : d_pc[d] # "count"

DiskData == uneven \/ data = content

DiskInv == DiskTypeOK /\ DiskLocks /\ DiskCount /\ DiskTimer /\ DiskData

LEMMA DiskHasFinite == IsFiniteSet(DiskHas) /\ Cardinality(DiskHas) \in Nat
<1>1. IsFiniteSet(DiskHas)
  BY DisksAssumption, FS_Subset DEF DiskHas
<1>2. QED
  BY <1>1, FS_CardinalityType

LEMMA DiskInitInv == Disk!SbullInit => DiskInv
<1> SUFFICES ASSUME Disk!SbullInit PROVE DiskInv
  OBVIOUS
<1>1. DiskHas = {}
  BY DEF Disk!SbullInit, DiskHas
<1>2. DiskCount
  BY <1>1, FS_EmptySet DEF Disk!SbullInit, DiskCount
<1>3. DiskTypeOK
  BY DEF Disk!SbullInit, Disk!Blank, DiskTypeOK
<1>4. DiskLocks
  BY DisksAssumption DEF Disk!SbullInit, DiskLocks
<1>5. DiskTimer /\ DiskData
  BY DEF Disk!SbullInit, DiskTimer, DiskData
<1>6. QED
  BY <1>2, <1>3, <1>4, <1>5 DEF DiskInv

\* A step of the process d that moves nothing but its program counter, the locks, the
\* timer and the flag, and neither enters nor leaves the users.
LEMMA DiskCountKept ==
  ASSUME DiskCount, UNCHANGED users, NEW d \in Disks,
         d_pc[d] \in {"open", "release"} <=> d_pc'[d] \in {"open", "release"},
         \A q \in Disks \ {d} : d_pc'[q] = d_pc[q]
  PROVE  DiskCount'
<1>1. DiskHas' = DiskHas
  BY DEF DiskHas
<1>2. QED
  BY <1>1 DEF DiskCount

LEMMA DiskOpenKeeps ==
  ASSUME DiskInv, NEW d \in Disks,
         Disk!BlkOpen(d) \/ Disk!DelTimerSync(d) \/ Disk!OpenLock(d) \/ Disk!Revalidate(d) \/ Disk!BlkRelease(d)
  PROVE  DiskInv'
<1>1. DiskTypeOK /\ DiskLocks /\ DiskCount /\ DiskTimer /\ DiskData
  BY DEF DiskInv
<1>2. UNCHANGED users /\ DiskCount'
  <2>1. /\ UNCHANGED users
        /\ d_pc[d] \in {"open", "release"} <=> d_pc'[d] \in {"open", "release"}
        /\ \A q \in Disks \ {d} : d_pc'[q] = d_pc[q]
    BY <1>1 DEF DiskTypeOK, Disk!BlkOpen, Disk!DelTimerSync, Disk!OpenLock, Disk!Revalidate, Disk!BlkRelease, Disk!On
  <2>2. QED
    BY <1>1, <2>1, DiskCountKept
<1>3. CASE Disk!BlkOpen(d) \/ Disk!BlkRelease(d)
  <2>1. /\ UNCHANGED <<dev_lock, media_change, b_timer, invalidating, data, content, insane, uneven>>
        /\ bd_sem = "nobody" /\ bd_sem' = d
        /\ \E to \in {"del_timer", "release"} : d_pc' = [d_pc EXCEPT ![d] = to]
        /\ d_pc[d] \in {"closed", "open"}
    BY <1>3 DEF Disk!BlkOpen, Disk!BlkRelease, Disk!On
  <2>2. DiskTypeOK' /\ DiskLocks'
    BY <1>1, <1>2, <2>1, DisksAssumption DEF DiskTypeOK, DiskLocks
  <2>3. DiskTimer' /\ DiskData'
    BY <1>1, <1>2, <2>1 DEF DiskTypeOK, DiskTimer, DiskData
  <2>4. QED
    BY <1>2, <2>2, <2>3 DEF DiskInv
<1>4. CASE Disk!DelTimerSync(d)
  <2>1. /\ UNCHANGED <<bd_sem, dev_lock, media_change, data, content, insane, uneven>>
        /\ d_pc[d] = "del_timer" /\ d_pc' = [d_pc EXCEPT ![d] = "lock"]
        /\ ~invalidating /\ ~invalidating' /\ ~b_timer'
    BY <1>4 DEF Disk!DelTimerSync, Disk!On
  <2>2. DiskTypeOK' /\ DiskLocks'
    BY <1>1, <1>2, <2>1 DEF DiskTypeOK, DiskLocks
  <2>3. DiskTimer' /\ DiskData'
    BY <1>1, <1>2, <2>1 DEF DiskTypeOK, DiskTimer, DiskData
  <2>4. QED
    BY <1>2, <2>2, <2>3 DEF DiskInv
<1>5. CASE Disk!OpenLock(d)
  <2>1. /\ UNCHANGED <<bd_sem, media_change, b_timer, invalidating, data, content, insane, uneven>>
        /\ d_pc[d] = "lock" /\ dev_lock = "nobody" /\ dev_lock' = d
        /\ d_pc' = [d_pc EXCEPT ![d] = IF users = 0 /\ media_change THEN "revalidate" ELSE "count"]
    BY <1>5 DEF Disk!OpenLock, Disk!On
  <2>2. DiskTypeOK' /\ DiskLocks'
    BY <1>1, <1>2, <2>1, DisksAssumption DEF DiskTypeOK, DiskLocks
  <2>3. DiskTimer' /\ DiskData'
    BY <1>1, <1>2, <2>1 DEF DiskTypeOK, DiskTimer, DiskData
  <2>4. QED
    BY <1>2, <2>2, <2>3 DEF DiskInv
<1>6. CASE Disk!Revalidate(d)
  <2>1. /\ UNCHANGED <<bd_sem, dev_lock, b_timer, invalidating, insane, uneven>>
        /\ d_pc[d] = "revalidate" /\ d_pc' = [d_pc EXCEPT ![d] = "count"]
        /\ ~media_change' /\ data' = content' /\ data' \in [0..Sectors - 1 -> 0..2]
    BY <1>6 DEF Disk!Revalidate, Disk!On, Disk!Blank
  <2>2. DiskTypeOK' /\ DiskLocks'
    BY <1>1, <1>2, <2>1 DEF DiskTypeOK, DiskLocks
  <2>3. DiskTimer' /\ DiskData'
    BY <1>1, <1>2, <2>1 DEF DiskTypeOK, DiskTimer, DiskData
  <2>4. QED
    BY <1>2, <2>2, <2>3 DEF DiskInv
<1>7. QED
  BY <1>3, <1>4, <1>5, <1>6

LEMMA DiskOpenCountKeeps ==
  ASSUME DiskInv, NEW d \in Disks, Disk!OpenCount(d)
  PROVE  DiskInv'
<1>1. DiskTypeOK /\ DiskLocks /\ DiskCount /\ DiskTimer /\ DiskData
  BY DEF DiskInv
<1>2. /\ UNCHANGED <<media_change, b_timer, invalidating, data, content, insane, uneven>>
      /\ d_pc[d] = "count" /\ d_pc' = [d_pc EXCEPT ![d] = "open"]
      /\ users' = users + 1 /\ dev_lock' = "nobody" /\ bd_sem' = "nobody"
  BY DEF Disk!OpenCount, Disk!On
<1>3. DiskCount'
  <2>1. DiskHas' = DiskHas \cup {d} /\ d \notin DiskHas
    BY <1>1, <1>2 DEF DiskTypeOK, DiskHas
  <2>2. Cardinality(DiskHas') = Cardinality(DiskHas) + 1
    BY <2>1, DiskHasFinite, FS_AddElement
  <2>3. QED
    BY <1>1, <1>2, <2>2 DEF DiskCount
<1>4. bd_sem = d /\ dev_lock = d
  BY <1>1, <1>2 DEF DiskLocks
<1>5. DiskTypeOK' /\ DiskLocks'
  BY <1>1, <1>2, <1>4, DisksAssumption DEF DiskTypeOK, DiskLocks
<1>6. DiskTimer' /\ DiskData'
  BY <1>1, <1>2 DEF DiskTypeOK, DiskTimer, DiskData
<1>7. QED
  BY <1>3, <1>5, <1>6 DEF DiskInv

LEMMA DiskReleaseKeeps ==
  ASSUME DiskInv, NEW d \in Disks, Disk!ReleaseLock(d)
  PROVE  DiskInv'
<1>1. DiskTypeOK /\ DiskLocks /\ DiskCount /\ DiskTimer /\ DiskData
  BY DEF DiskInv
<1>2. /\ UNCHANGED <<bd_sem, media_change, b_timer, invalidating, data, content, insane, uneven>>
      /\ d_pc[d] = "release" /\ d_pc' = [d_pc EXCEPT ![d] = "idle"]
      /\ users' = users - 1 /\ dev_lock = "nobody" /\ dev_lock' = d
  BY DEF Disk!ReleaseLock, Disk!On
<1>3. users # 0 /\ users' \in Nat /\ DiskCount'
  <2>1. DiskHas' = DiskHas \ {d} /\ d \in DiskHas
    BY <1>1, <1>2 DEF DiskTypeOK, DiskHas
  <2>2. Cardinality(DiskHas') = Cardinality(DiskHas) - 1
    BY <2>1, DiskHasFinite, FS_RemoveElement
  <2>3. Cardinality(DiskHas') \in Nat
    BY <2>1, DiskHasFinite, FS_RemoveElement, FS_CardinalityType
  <2>4. QED
    BY <1>1, <1>2, <2>2, <2>3, DiskHasFinite DEF DiskCount
<1>4. DiskTypeOK' /\ DiskLocks'
  BY <1>1, <1>2, <1>3, DisksAssumption DEF DiskTypeOK, DiskLocks
<1>5. DiskTimer' /\ DiskData'
  BY <1>1, <1>2, <1>3 DEF DiskTypeOK, DiskTimer, DiskData
<1>6. QED
  BY <1>3, <1>4, <1>5 DEF DiskInv

LEMMA DiskTimerKeeps ==
  ASSUME DiskInv, NEW d \in Disks, Disk!ReleaseTimer(d)
  PROVE  DiskInv'
<1>1. DiskTypeOK /\ DiskLocks /\ DiskCount /\ DiskTimer /\ DiskData
  BY DEF DiskInv
<1>2. /\ UNCHANGED <<users, media_change, invalidating, data, content, insane, uneven>>
      /\ d_pc[d] = "idle" /\ d_pc' = [d_pc EXCEPT ![d] = "closed"]
      /\ dev_lock' = "nobody" /\ bd_sem' = "nobody" /\ (b_timer' => b_timer \/ users = 0)
  BY DEF Disk!ReleaseTimer, Disk!On
<1>3. bd_sem = d /\ dev_lock = d
  BY <1>1, <1>2 DEF DiskLocks
<1>4. DiskCount'
  BY <1>1, <1>2, DiskCountKept DEF DiskTypeOK
<1>5. DiskTypeOK' /\ DiskLocks'
  BY <1>1, <1>2, <1>3, DisksAssumption DEF DiskTypeOK, DiskLocks
<1>6. \A q \in Disks : d_pc'[q] \notin {"lock", "revalidate", "count"}
  <2>1. ASSUME NEW q \in Disks, q # d PROVE d_pc[q] \notin {"lock", "revalidate", "count"}
    BY <1>1, <1>3, <2>1 DEF DiskLocks
  <2>2. QED
    BY <1>1, <1>2, <2>1 DEF DiskTypeOK
<1>7. DiskTimer' /\ DiskData'
  BY <1>1, <1>2, <1>6 DEF DiskTypeOK, DiskTimer, DiskData
<1>8. QED
  BY <1>4, <1>5, <1>7 DEF DiskInv

LEMMA DiskExpireKeeps ==
  ASSUME DiskInv, Disk!Expire \/ Disk!sbull_invalidate
  PROVE  DiskInv'
<1>1. DiskTypeOK /\ DiskLocks /\ DiskCount /\ DiskTimer /\ DiskData
  BY DEF DiskInv
<1>2. UNCHANGED <<bd_sem, dev_lock, users, data, content, d_pc, uneven>>
  BY DEF Disk!Expire, Disk!sbull_invalidate
<1>3. DiskTypeOK' /\ DiskLocks' /\ DiskCount' /\ DiskData'
  BY <1>1, <1>2 DEF DiskTypeOK, DiskLocks, DiskCount, DiskHas, DiskData
<1>4. CASE Disk!Expire
  <2>1. b_timer /\ ~b_timer' /\ UNCHANGED <<media_change, insane>>
    BY <1>4 DEF Disk!Expire
  <2>2. DiskTimer'
    BY <1>1, <1>2, <2>1 DEF DiskTimer
  <2>3. QED
    BY <1>3, <2>2 DEF DiskInv
<1>5. CASE Disk!sbull_invalidate
  <2>1. users = 0 /\ \A d \in Disks : d_pc[d] # "count"
    BY <1>1, <1>5 DEF DiskTimer, Disk!sbull_invalidate
  <2>2. UNCHANGED <<b_timer, insane>> /\ ~invalidating'
    BY <1>5, <2>1 DEF Disk!sbull_invalidate
  <2>3. DiskTimer'
    BY <1>1, <1>2, <2>1, <2>2 DEF DiskTimer
  <2>4. QED
    BY <1>3, <2>3 DEF DiskInv
<1>6. QED
  BY <1>3, <1>4, <1>5 DEF DiskInv

\* The array with n sectors from s on set to v.
DiskSet(array, s, n, v) == [x \in 0..Sectors - 1 |-> IF x \in s..s + n - 1 THEN v ELSE array[x]]

\* A transfer inside the disk sets its sectors, and two of them side by side are one.
LEMMA DiskTransfer ==
  ASSUME NEW array \in [0..Sectors - 1 -> 0..2], NEW s \in Nat, NEW n \in Nat, NEW v \in 1..2,
         s + n <= Sectors
  PROVE  /\ Disk!sbull_transfer(array, s, n, v) = DiskSet(array, s, n, v)
         /\ DiskSet(array, s, n, v) \in [0..Sectors - 1 -> 0..2]
BY DisksAssumption DEF Disk!sbull_transfer, DiskSet

LEMMA DiskTransferTwice ==
  ASSUME NEW array \in [0..Sectors - 1 -> 0..2], NEW s \in Nat, NEW n \in Nat, NEW m \in Nat, NEW v \in 1..2,
         NEW t \in Nat, t = s + n, NEW k \in Nat, k = n + m, s + k <= Sectors
  PROVE  Disk!sbull_transfer(Disk!sbull_transfer(array, s, n, v), t, m, v) = DiskSet(array, s, k, v)
<1>1. s + n <= Sectors /\ t + m <= Sectors
  BY DisksAssumption
<1>2. PICK half \in [0..Sectors - 1 -> 0..2] :
        half = DiskSet(array, s, n, v) /\ Disk!sbull_transfer(array, s, n, v) = half
  BY <1>1, DiskTransfer
<1>3. Disk!sbull_transfer(half, t, m, v) = DiskSet(half, t, m, v)
  BY <1>1, DiskTransfer
<1>4. DiskSet(half, t, m, v) = DiskSet(array, s, k, v)
  BY <1>2, DisksAssumption DEF DiskSet
<1>5. QED
  BY <1>2, <1>3, <1>4

LEMMA DiskRequestKeeps == DiskInv /\ Disk!Request => DiskInv'
<1> SUFFICES ASSUME DiskInv, Disk!Request PROVE DiskInv'
  OBVIOUS
<1>1. DiskTypeOK /\ DiskLocks /\ DiskCount /\ DiskTimer /\ DiskData
  BY DEF DiskInv
<1>2. UNCHANGED <<bd_sem, dev_lock, users, media_change, b_timer, invalidating, d_pc, insane>>
  BY DEF Disk!Request
<1>3. PICK s \in 0..Sectors - 1, v \in 1..2, first \in 1..Sectors, second \in 0..Sectors :
        /\ s + first + second <= Sectors
        /\ data' = IF request_mode = "simple" THEN Disk!sbull_request(data, s, first, second, v)
                   ELSE Disk!sbull_xfer_bio(data, s, first, second, v)
        /\ content' = [x \in DOMAIN content |-> IF x \in s..s + first + second - 1 THEN v ELSE content[x]]
        /\ uneven' = (uneven \/ (request_mode # "simple" /\ second \notin {0, first}))
  BY DEF Disk!Request
<1> Sectors \in Nat /\ first \in Nat /\ second \in Nat /\ s \in Nat /\ data \in [0..Sectors - 1 -> 0..2]
  BY <1>1, DisksAssumption DEF DiskTypeOK
<1>4. PICK t \in Nat, k \in Nat : t = s + first /\ k = first + second /\ s + k <= Sectors /\ t <= Sectors
  BY <1>3
<1>5. Disk!sbull_transfer(Disk!sbull_transfer(data, s, first, v), t, second, v) = DiskSet(data, s, k, v)
  <2>1. SUFFICES ASSUME NEW array \in [0..Sectors - 1 -> 0..2], array = data
                 PROVE  Disk!sbull_transfer(Disk!sbull_transfer(array, s, first, v), t, second, v)
                          = DiskSet(array, s, k, v)
    OBVIOUS
  <2>2. s \in Nat /\ first \in Nat /\ second \in Nat /\ v \in 1..2
    OBVIOUS
  <2>3. QED
    BY <1>4, <2>2, DiskTransferTwice
<1>6. /\ Disk!sbull_request(data, s, first, second, v) = DiskSet(data, s, k, v)
      /\ second \in {0, first} => Disk!sbull_xfer_bio(data, s, first, second, v) = DiskSet(data, s, k, v)
  <2>1. Disk!sbull_request(data, s, first, second, v) = DiskSet(data, s, k, v)
    BY <1>4, <1>5 DEF Disk!sbull_request
  <2>2. CASE second = 0
    <3>1. Disk!sbull_xfer_bio(data, s, first, second, v) = DiskSet(data, s, first, v)
      BY <1>4, <2>2, DiskTransfer DEF Disk!sbull_xfer_bio
    <3>2. k = first
      BY <1>4, <2>2
    <3>3. QED
      BY <2>1, <3>1, <3>2
  <2>3. CASE second = first /\ second # 0
    BY <1>4, <1>5, <2>1, <2>3 DEF Disk!sbull_xfer_bio
  <2>4. QED
    BY <2>1, <2>2, <2>3
<1>7. data' \in [0..Sectors - 1 -> 0..2]
  <2>1. ASSUME NEW array \in [0..Sectors - 1 -> 0..2], NEW o, NEW n
        PROVE  Disk!sbull_transfer(array, o, n, v) \in [0..Sectors - 1 -> 0..2]
    BY DEF Disk!sbull_transfer
  <2>2. Disk!sbull_request(data, s, first, second, v) \in [0..Sectors - 1 -> 0..2]
    BY <2>1 DEF Disk!sbull_request
  <2>3. Disk!sbull_xfer_bio(data, s, first, second, v) \in [0..Sectors - 1 -> 0..2]
    BY <2>1 DEF Disk!sbull_xfer_bio
  <2>4. QED
    BY <1>3, <2>2, <2>3
<1>8. DiskData'
  <2>1. SUFFICES ASSUME ~uneven' PROVE data' = content'
    BY DEF DiskData
  <2>2. ~uneven /\ (request_mode = "simple" \/ second \in {0, first})
    BY <1>3, <2>1
  <2>3. content = data
    BY <1>1, <2>2 DEF DiskData
  <2>4. data' = DiskSet(data, s, k, v)
    BY <1>3, <1>6, <2>2
  <2>5. DiskSet(data, s, k, v) =
          [x \in 0..Sectors - 1 |-> IF x \in s..s + first + second - 1 THEN v ELSE data[x]]
    BY <1>4 DEF DiskSet
  <2>6. QED
    BY <1>3, <2>3, <2>4, <2>5
<1>9. DiskTypeOK' /\ DiskLocks' /\ DiskCount' /\ DiskTimer'
  <2>1. DiskTypeOK'
    BY <1>1, <1>2, <1>7 DEF DiskTypeOK
  <2>2. DiskLocks' /\ DiskCount' /\ DiskTimer'
    BY <1>1, <1>2 DEF DiskLocks, DiskCount, DiskHas, DiskTimer
  <2>3. QED
    BY <2>1, <2>2
<1>10. QED
  BY <1>8, <1>9 DEF DiskInv

LEMMA DiskStepInv == DiskInv /\ [Disk!SbullNext]_Disk!disk_vars => DiskInv'
<1> SUFFICES ASSUME DiskInv, [Disk!SbullNext]_Disk!disk_vars PROVE DiskInv'
  OBVIOUS
<1>1. CASE UNCHANGED Disk!disk_vars
  BY <1>1 DEF Disk!disk_vars, DiskInv, DiskTypeOK, DiskLocks, DiskCount, DiskHas, DiskTimer, DiskData
<1>2. CASE Disk!SbullNext
  BY <1>2, DiskOpenKeeps, DiskOpenCountKeeps, DiskReleaseKeeps, DiskTimerKeeps, DiskExpireKeeps,
     DiskRequestKeeps DEF Disk!SbullNext
<1>3. QED
  BY <1>1, <1>2

\* For any number of processes and any size of the disk: the timer function finds no
\* user, the medium a user sees is not said to have changed, and the disk holds what was
\* written unless a mode that takes whole bios got uneven segments.
THEOREM DiskSpecSound == Disk!SbullInit /\ [][Disk!SbullNext]_Disk!disk_vars => []DiskSound
<1>1. DiskInv => DiskSound
  BY DEF DiskInv, DiskTypeOK, DiskTimer, DiskData, DiskSound, Disk!MediaSound
<1>2. QED
  BY <1>1, DiskInitInv, DiskStepInv, PTL

-----------------------------------------------------------------------------
(* ScullBlocks: blocks of one size, and the pages of one mapping           *)

\* The size that every quantum has while the device is plain.
BlkSize == IF driver = "c" THEN cache ELSE 1

BlkQuietPc == {"closed", "open", "read", "write"}
BlkMapPc   == {"m_load", "m_store", "mapped", "u_store"}
BlkPc      == {"closed", "open", "read", "write", "m_load", "m_store", "mapped", "u_store"}

BlkEmpty == Blocks!NoData
BlkItem  == {BlkEmpty} \cup [1 .. Qset -> {0, BlkSize}]

BlkTypeOK ==
  /\ driver \in {"c", "p", "v", "d"} /\ BlkSize \in Nat \ {0}
  /\ b_pc \in [Callers -> BlkPc]
  /\ pos \in [Callers -> Nat] /\ size \in Nat
  /\ geo \in [Callers -> {0, BlkSize}]
  /\ DOMAIN reg = Callers

\* All of the present size: the parameter, the device, its blocks, and the copies of a call.
BlkUniform ==
  /\ param = BlkSize /\ quantum = BlkSize
  /\ list \in Seq(BlkItem)
  /\ \A p \in Callers : b_pc[p] \in {"read", "write"} => geo[p] = BlkSize

BlkGood == BlkTypeOK /\ BlkUniform /\ fault # "overrun"
BlkInv  == plain => BlkGood

\* Division of an offset by the size of an item, and of the rest by that of a quantum.
LEMMA BlkDivision ==
  ASSUME NEW m \in Nat \ {0}, NEW i \in Nat
  PROVE  i \div m \in Nat /\ i % m \in 0 .. m - 1 /\ i = (i \div m) * m + (i % m)
  OBVIOUS

LEMMA BlkProduct ==
  ASSUME NEW a \in Nat, NEW b \in Nat, NEW c \in Nat, a <= b
  PROVE  a * c <= b * c
  OBVIOUS

\* An offset's quantum is one of its item's.
LEMMA BlkPlace ==
  ASSUME NEW q \in Nat \ {0}, NEW i \in Nat
  PROVE  /\ Blocks!Item(q, i) \in Nat \ {0}
         /\ Blocks!SPos(q, i) \in 1 .. Qset
         /\ Blocks!QPos(q, i) \in 0 .. q - 1
<1> DEFINE m == q * Qset
           r == i % m
           s == r \div q
<1>1. Qset \in Nat \ {0} /\ m \in Nat \ {0}
  BY QuantaAssumption
<1>2. i \div m \in Nat /\ r \in 0 .. m - 1
  <2> HIDE DEF m
  <2>1. QED
    BY <1>1, BlkDivision
<1>3. i % q \in 0 .. q - 1
  BY BlkDivision
<1> HIDE DEF r
<1>4. r \in Nat /\ r < q * Qset
  BY <1>1, <1>2
<1>5. s \in Nat /\ r % q \in 0 .. q - 1 /\ r = s * q + (r % q)
  BY <1>4, BlkDivision
<1> HIDE DEF s
<1>6. s < Qset
  <2> SUFFICES ASSUME Qset <= s PROVE FALSE
    BY <1>1, <1>5
  <2>1. Qset * q <= s * q
    BY <1>1, <1>5, BlkProduct
  <2>2. s * q \in Nat /\ Qset * q \in Nat /\ q * Qset = Qset * q
    BY <1>1, <1>5
  <2>3. QED
    BY <1>4, <1>5, <2>1, <2>2
<1>7. QED
  BY <1>1, <1>2, <1>3, <1>5, <1>6 DEF Blocks!Item, Blocks!SPos, Blocks!QPos, r, s

\* A transfer that is cut at the end of the quantum.
LEMMA BlkCut ==
  ASSUME NEW q \in Nat \ {0}, NEW i \in Nat, NEW n \in Nat
  PROVE  /\ Blocks!ToEnd(q, i, n) \in Nat
         /\ Blocks!QPos(q, i) + Blocks!ToEnd(q, i, n) <= q
<1> DEFINE o == Blocks!QPos(q, i)
<1>1. o \in 0 .. q - 1
  BY BlkPlace
<1>2. Blocks!ToEnd(q, i, n) = IF n > q - o THEN q - o ELSE n
  BY DEF Blocks!ToEnd
<1> HIDE DEF o
<1>3. QED
  BY <1>1, <1>2 DEF o

LEMMA BlkSeq ==
  ASSUME NEW T, NEW n \in Nat, NEW f \in [1 .. n -> T]
  PROVE  f \in Seq(T) /\ Len(f) = n
  OBVIOUS

\* The list that a call has followed, and what it finds at a place of it.
LEMMA BlkFollowed ==
  ASSUME BlkGood, NEW k \in Nat \ {0},
         NEW l, l = Blocks!Followed(k)
  PROVE  /\ l \in Seq(BlkItem) /\ Len(l) >= Len(list) /\ Len(l) >= k
         /\ \A j \in 1 .. Len(list) : l[j] = list[j]
<1> DEFINE n == IF k > Len(list) THEN k ELSE Len(list)
<1>1. list \in Seq(BlkItem) /\ Len(list) \in Nat
  BY DEF BlkGood, BlkUniform
<1>2. n \in Nat /\ n >= Len(list) /\ n >= k
  BY <1>1
<1>3. l = [j \in 1 .. n |-> IF j <= Len(list) THEN list[j] ELSE BlkEmpty]
  BY DEF Blocks!Followed, BlkEmpty
<1> HIDE DEF n
<1>4. l \in [1 .. n -> BlkItem]
  BY <1>1, <1>2, <1>3 DEF BlkItem
<1>5. l \in Seq(BlkItem) /\ Len(l) = n
  BY <1>2, <1>4, BlkSeq
<1>6. \A j \in 1 .. Len(list) : l[j] = list[j]
  BY <1>1, <1>2, <1>3
<1>7. QED
  BY <1>2, <1>5, <1>6

LEMMA BlkBlock ==
  ASSUME BlkGood, NEW l \in Seq(BlkItem), NEW k \in Nat \ {0}, NEW s \in 1 .. Qset
  PROVE  Blocks!Block(l, k, s) \in {0, BlkSize}
<1>1. CASE k > Len(l) \/ l[k] = BlkEmpty
  BY <1>1 DEF Blocks!Block, BlkEmpty
<1>2. CASE ~(k > Len(l) \/ l[k] = BlkEmpty)
  <2>1. l[k] \in [1 .. Qset -> {0, BlkSize}]
    BY <1>2 DEF BlkItem
  <2>2. QED
    BY <1>2, <2>1 DEF Blocks!Block, BlkEmpty
<1>3. QED
  BY <1>1, <1>2

LEMMA BlkInitInv == Blocks!Init => BlkInv
<1> SUFFICES ASSUME Blocks!Init, plain PROVE BlkGood
  BY DEF BlkInv
<1>1. param \in Nat \ {0} /\ cache = param /\ quantum = param /\ driver \in {"c", "p", "v", "d"}
  BY QuantaAssumption DEF Blocks!Init
<1>2. driver = "c" \/ param = 1
  BY DEF Blocks!Init
<1>3. param = BlkSize /\ BlkSize \in Nat \ {0}
  BY <1>1, <1>2 DEF BlkSize
<1>4. list = <<BlkEmpty>> /\ list \in Seq(BlkItem)
  BY DEF Blocks!Init, BlkEmpty, BlkItem
<1>5. BlkTypeOK
  BY <1>1, <1>3 DEF Blocks!Init, BlkTypeOK, BlkPc
<1>6. QED
  BY <1>1, <1>3, <1>4, <1>5 DEF BlkGood, BlkUniform, Blocks!Init

-----------------------------------------------------------------------------
\* What every driver's call amounts to.
BlkOpen(p)  == Blocks!Opens(p) /\ (Blocks!Trim \/ UNCHANGED <<Blocks!device, pte>>)
BlkBegin(p) == \E l \in {"read", "write"} : Blocks!Begin(p, l)
BlkStop(p)  == \E l \in {"read", "write"} : Blocks!Interrupted(p, l)
BlkWrite(p) == \E new \in {BlkSize} : Blocks!Write(p, new, new)
BlkVma(p)   == /\ driver # "c"
               /\ Blocks!Mmap(p) \/ Blocks!VmaOpen(p) \/ Blocks!VmaClose(p) \/ Blocks!Nopage(p)
BlkOther(p) == Blocks!Release(p) \/ Blocks!Ioctl(p) \/ Blocks!Llseek(p) \/ Blocks!Deferred(p)

\* While the device is plain, the block a writer allocates and clears has the one size,
\* also for an item that follow has added, whose order field is zero.
LEMMA BlkCalls ==
  ASSUME BlkGood, Blocks!Next
  PROVE  \/ UNCHANGED blocks_vars
         \/ \E p \in Callers :
              \/ BlkOpen(p) \/ BlkBegin(p) \/ BlkStop(p) \/ BlkOther(p) \/ BlkVma(p)
              \/ Blocks!Read(p) \/ BlkWrite(p) \/ Blocks!FollowFault(p)
<1>1. CASE Blocks!Faulted
  BY <1>1 DEF Blocks!Faulted, Blocks!vars, Blocks!static, Blocks!device, Blocks!user, blocks_vars
<1>2. ASSUME NEW p \in Callers,
             Blocks!scullc(p) \/ Blocks!scullp(p) \/ Blocks!scullv(p) \/ Blocks!sculld(p)
      PROVE  \/ BlkOpen(p) \/ BlkBegin(p) \/ BlkStop(p) \/ BlkOther(p) \/ BlkVma(p)
             \/ Blocks!Read(p) \/ BlkWrite(p) \/ Blocks!FollowFault(p)
  <2>1. CASE Blocks!scullc(p)
    <3>1. driver = "c" /\ param = BlkSize /\ cache = BlkSize
      BY <2>1 DEF BlkGood, BlkUniform, BlkSize, Blocks!scullc, Blocks!scullc_open,
         Blocks!scullc_release, Blocks!scullc_read, Blocks!scullc_write, Blocks!scullc_follow,
         Blocks!scullc_ioctl, Blocks!scullc_llseek, Blocks!scullc_aio
    <3>2. CASE Blocks!scullc_write(p)
      BY <3>1, <3>2 DEF Blocks!scullc_write, BlkWrite, BlkBegin, BlkStop
    <3>3. CASE ~Blocks!scullc_write(p)
      BY <2>1, <3>3 DEF Blocks!scullc, Blocks!scullc_open, Blocks!scullc_trim,
         Blocks!scullc_release, Blocks!scullc_read, Blocks!scullc_follow,
         Blocks!scullc_ioctl, Blocks!scullc_llseek, Blocks!scullc_aio,
         BlkOpen, BlkBegin, BlkStop, BlkOther
    <3>4. QED
      BY <3>2, <3>3
  <2>2. CASE Blocks!scullp(p)
    <3>1. driver = "p"
      BY <2>2
  DEF Blocks!scullp, Blocks!scullp_open, Blocks!scullp_release, Blocks!scullp_read,
         Blocks!scullp_write, Blocks!scullp_follow, Blocks!scullp_ioctl, Blocks!scullp_llseek,
         Blocks!scullp_aio, Blocks!scullp_mmap, Blocks!scullp_vma, Blocks!scullp_vma_nopage
    <3>2. Blocks!OrderOf(p) = BlkSize
      BY <3>1 DEF Blocks!OrderOf, BlkSize, BlkGood, BlkUniform
    <3>3. CASE Blocks!scullp_write(p)
      BY <3>2, <3>3 DEF Blocks!scullp_write, BlkWrite, BlkBegin, BlkStop
    <3>4. CASE ~Blocks!scullp_write(p)
      BY <2>2, <3>1, <3>4 DEF Blocks!scullp, Blocks!scullp_open, Blocks!scullp_trim,
         Blocks!scullp_release, Blocks!scullp_read, Blocks!scullp_follow, Blocks!scullp_ioctl,
         Blocks!scullp_llseek, Blocks!scullp_aio, Blocks!scullp_mmap, Blocks!scullp_vma,
         Blocks!scullp_vma_nopage, BlkOpen, BlkBegin, BlkStop, BlkOther, BlkVma
    <3>5. QED
      BY <3>3, <3>4
  <2>3. CASE Blocks!scullv(p)
    <3>1. driver = "v"
      BY <2>3
  DEF Blocks!scullv, Blocks!scullv_open, Blocks!scullv_release, Blocks!scullv_read,
         Blocks!scullv_write, Blocks!scullv_follow, Blocks!scullv_ioctl, Blocks!scullv_llseek,
         Blocks!scullv_aio, Blocks!scullv_mmap, Blocks!scullv_vma, Blocks!scullv_vma_nopage
    <3>2. Blocks!OrderOf(p) = BlkSize
      BY <3>1 DEF Blocks!OrderOf, BlkSize, BlkGood, BlkUniform
    <3>3. CASE Blocks!scullv_write(p)
      BY <3>2, <3>3 DEF Blocks!scullv_write, BlkWrite, BlkBegin, BlkStop
    <3>4. CASE ~Blocks!scullv_write(p)
      BY <2>3, <3>1, <3>4 DEF Blocks!scullv, Blocks!scullv_open, Blocks!scullv_trim,
         Blocks!scullv_release, Blocks!scullv_read, Blocks!scullv_follow, Blocks!scullv_ioctl,
         Blocks!scullv_llseek, Blocks!scullv_aio, Blocks!scullv_mmap, Blocks!scullv_vma,
         Blocks!scullv_vma_nopage, BlkOpen, BlkBegin, BlkStop, BlkOther, BlkVma
    <3>5. QED
      BY <3>3, <3>4
  <2>4. CASE Blocks!sculld(p)
    <3>1. driver = "d"
      BY <2>4
  DEF Blocks!sculld, Blocks!sculld_open, Blocks!sculld_release, Blocks!sculld_read,
         Blocks!sculld_write, Blocks!sculld_follow, Blocks!sculld_ioctl, Blocks!sculld_llseek,
         Blocks!sculld_aio, Blocks!sculld_mmap, Blocks!sculld_vma, Blocks!sculld_vma_nopage
    <3>2. Blocks!OrderOf(p) = BlkSize
      BY <3>1 DEF Blocks!OrderOf, BlkSize, BlkGood, BlkUniform
    <3>3. CASE Blocks!sculld_write(p)
      BY <3>2, <3>3 DEF Blocks!sculld_write, BlkWrite, BlkBegin, BlkStop
    <3>4. CASE ~Blocks!sculld_write(p)
      BY <2>4, <3>1, <3>4 DEF Blocks!sculld, Blocks!sculld_open, Blocks!sculld_trim,
         Blocks!sculld_release, Blocks!sculld_read, Blocks!sculld_follow, Blocks!sculld_ioctl,
         Blocks!sculld_llseek, Blocks!sculld_aio, Blocks!sculld_mmap, Blocks!sculld_vma,
         Blocks!sculld_vma_nopage, BlkOpen, BlkBegin, BlkStop, BlkOther, BlkVma
    <3>5. QED
      BY <3>3, <3>4
  <2>5. QED
    BY <1>2, <2>1, <2>2, <2>3, <2>4
<1>3. QED
  BY <1>1, <1>2 DEF Blocks!Next

-----------------------------------------------------------------------------
LEMMA BlkSizeKept ==
  ASSUME UNCHANGED Blocks!static
  PROVE  BlkSize' = BlkSize /\ BlkItem' = BlkItem
  BY DEF Blocks!static, BlkSize, BlkItem

LEMMA BlkOpenKeeps ==
  ASSUME BlkGood, NEW p \in Callers, BlkOpen(p)
  PROVE  BlkGood'
<1>1. /\ UNCHANGED <<driver, param, cache, pos, geo, reg, fault>>
      /\ b_pc' = [b_pc EXCEPT ![p] = "open"] /\ BlkSize' = BlkSize /\ BlkItem' = BlkItem
  BY BlkSizeKept DEF BlkOpen, Blocks!Opens, Blocks!Goto, Blocks!static
<1>2. \/ list' = list /\ size' = size /\ quantum' = quantum
      \/ list' = <<BlkEmpty>> /\ size' = 0 /\ quantum' = param
  BY DEF BlkOpen, Blocks!Trim, Blocks!device, BlkEmpty
<1>3. list' \in Seq(BlkItem) /\ size' \in Nat /\ quantum' = BlkSize
  <2>1. <<BlkEmpty>> \in Seq(BlkItem)
    BY DEF BlkItem
  <2>2. list \in Seq(BlkItem) /\ size \in Nat /\ quantum = BlkSize /\ param = BlkSize
    BY DEF BlkGood, BlkTypeOK, BlkUniform
  <2>3. CASE list' = list /\ size' = size /\ quantum' = quantum
    BY <2>2, <2>3
  <2>4. CASE list' = <<BlkEmpty>> /\ size' = 0 /\ quantum' = param
    BY <2>1, <2>2, <2>4
  <2>5. QED
    BY <1>2, <2>3, <2>4
<1>4. BlkTypeOK'
  BY <1>1, <1>3 DEF BlkGood, BlkTypeOK, BlkPc
<1>5. BlkUniform'
  BY <1>1, <1>3 DEF BlkGood, BlkTypeOK, BlkUniform
<1>6. QED
  BY <1>1, <1>4, <1>5 DEF BlkGood

\* A step that leaves the device alone, and the parameter as it was.
LEMMA BlkQuietKeeps ==
  ASSUME BlkGood, UNCHANGED <<Blocks!static, Blocks!device, param>>,
         b_pc' \in [Callers -> BlkPc],
         pos' \in [Callers -> Nat], geo' \in [Callers -> {0, BlkSize}], DOMAIN reg' = Callers,
         \A p \in Callers : b_pc'[p] \in {"read", "write"} => geo'[p] = BlkSize,
         fault' # "overrun"
  PROVE  BlkGood'
<1>1. BlkSize' = BlkSize /\ BlkItem' = BlkItem
  BY BlkSizeKept
<1>2. UNCHANGED <<driver, cache, param, quantum, size, list>>
  BY DEF Blocks!static, Blocks!device
<1>3. BlkTypeOK'
  BY <1>1, <1>2 DEF BlkGood, BlkTypeOK
<1>4. BlkUniform'
  BY <1>1, <1>2 DEF BlkGood, BlkUniform
<1>5. QED
  BY <1>3, <1>4 DEF BlkGood

LEMMA BlkUserKeeps ==
  ASSUME BlkGood, plain, plain', NEW p \in Callers,
         \/ BlkBegin(p) \/ BlkStop(p) \/ BlkOther(p) \/ BlkVma(p) \/ Blocks!FollowFault(p)
  PROVE  BlkGood'
<1> USE DEF BlkGood, BlkTypeOK, BlkUniform, BlkPc
<1>1. CASE BlkBegin(p)
  <2>1. PICK l \in {"read", "write"} : Blocks!Begin(p, l)
    BY <1>1 DEF BlkBegin
  <2>2. /\ UNCHANGED <<Blocks!static, Blocks!device, param, pos, reg, fault>>
        /\ b_pc' = [b_pc EXCEPT ![p] = l] /\ geo' = [geo EXCEPT ![p] = BlkSize]
    BY <2>1 DEF Blocks!Begin, Blocks!Goto
  <2>3. QED
    BY <2>2, BlkQuietKeeps
<1>2. CASE BlkStop(p)
  <2>1. PICK l \in {"read", "write"} : Blocks!Interrupted(p, l)
    BY <1>2 DEF BlkStop
  <2>2. /\ UNCHANGED <<Blocks!static, Blocks!device, param, pos, reg, fault>>
        /\ b_pc' = [b_pc EXCEPT ![p] = "open"] /\ geo' = [geo EXCEPT ![p] = 0]
    BY <2>1 DEF Blocks!Interrupted, Blocks!Goto
  <2>3. QED
    BY <2>2, BlkQuietKeeps
<1>3. CASE Blocks!Release(p)
  <2>1. /\ UNCHANGED <<Blocks!static, Blocks!device, param, geo, reg, fault>>
        /\ b_pc' = [b_pc EXCEPT ![p] = "closed"] /\ pos' = [pos EXCEPT ![p] = 0]
    BY <1>3 DEF Blocks!Release, Blocks!Goto
  <2>2. QED
    BY <2>1, BlkQuietKeeps
<1>4. CASE Blocks!Ioctl(p)
  <2>1. /\ UNCHANGED <<Blocks!static, Blocks!device, b_pc, pos, geo, reg, fault>>
        /\ param' = BlkSize
    BY <1>4 DEF Blocks!Ioctl, Blocks!user, BlkSize
  <2>2. QED
    BY <2>1, BlkQuietKeeps
<1>5. CASE Blocks!Llseek(p)
  <2>1. UNCHANGED <<Blocks!static, Blocks!device, param, b_pc, geo, reg, fault>>
    BY <1>5 DEF Blocks!Llseek
  <2>2. pos' \in [Callers -> Nat]
    <3>1. PICK i \in 0 .. MaxPos : pos' = [pos EXCEPT ![p] = i]
      BY <1>5 DEF Blocks!Llseek, Blocks!Offsets
    <3>2. i \in Nat
      BY QuantaAssumption
    <3>3. QED
      BY <3>1, <3>2
  <2>3. QED
    BY <2>1, <2>2, BlkQuietKeeps
<1>6. CASE Blocks!Deferred(p)
  <2>1. UNCHANGED <<Blocks!static, Blocks!device, param, b_pc, pos, geo, reg, fault>>
    BY <1>6 DEF Blocks!Deferred, Blocks!user
  <2>2. QED
    BY <2>1, BlkQuietKeeps
<1>7. CASE Blocks!FollowFault(p)
  <2>1. /\ UNCHANGED <<Blocks!static, Blocks!device, param, b_pc, pos, geo, reg>>
        /\ fault' = "null"
    BY <1>7 DEF Blocks!FollowFault, Blocks!Fail, Blocks!user
  <2>2. QED
    BY <2>1, BlkQuietKeeps
<1>8. CASE BlkVma(p)
  <2>1. /\ UNCHANGED <<Blocks!static, Blocks!device, param, pos, geo, fault>>
        /\ \/ UNCHANGED b_pc
           \/ \E l \in {"m_load", "m_store", "mapped", "u_store", "open"} : b_pc' = [b_pc EXCEPT ![p] = l]
        /\ UNCHANGED reg \/ \E v : reg' = [reg EXCEPT ![p] = v]
    BY <1>8 DEF BlkVma, Blocks!Mmap, Blocks!VmaOpen, Blocks!VmaClose, Blocks!Nopage, Blocks!Goto
  <2>2. b_pc' \in [Callers -> BlkPc]
    BY <2>1
  <2>3. DOMAIN reg' = Callers
    BY <2>1
  <2>4. \A q \in Callers : b_pc'[q] \in {"read", "write"} => b_pc[q] = b_pc'[q]
    BY <2>1
  <2>5. QED
    BY <2>1, <2>2, <2>3, <2>4, BlkQuietKeeps
<1>9. QED
  BY <1>1, <1>2, <1>3, <1>4, <1>5, <1>6, <1>7, <1>8 DEF BlkOther

\* The end of a call that has left the list and the size in order.
LEMMA BlkOverKeeps ==
  ASSUME BlkGood, NEW p \in Callers, NEW n \in Nat, Blocks!Over(p, n),
         list' \in Seq(BlkItem), size' \in Nat, fault' # "overrun"
  PROVE  BlkGood'
<1>1. /\ UNCHANGED <<Blocks!static, param, quantum, reg>>
      /\ b_pc' = [b_pc EXCEPT ![p] = "open"] /\ geo' = [geo EXCEPT ![p] = 0]
      /\ pos' = [pos EXCEPT ![p] = @ + n] \/ UNCHANGED pos
  BY DEF Blocks!Over
<1>2. BlkSize' = BlkSize /\ BlkItem' = BlkItem
  BY <1>1, BlkSizeKept
<1>3. pos' \in [Callers -> Nat]
  <2>1. pos \in [Callers -> Nat] /\ pos[p] + n \in Nat
    BY DEF BlkGood, BlkTypeOK
  <2>2. CASE pos' = [pos EXCEPT ![p] = @ + n]
    BY <2>1, <2>2
  <2>3. QED
    BY <1>1, <2>1, <2>2
<1>4. BlkTypeOK'
  BY <1>1, <1>2, <1>3 DEF BlkGood, BlkTypeOK, BlkPc, Blocks!static
<1>5. BlkUniform'
  BY <1>1, <1>2 DEF BlkGood, BlkTypeOK, BlkUniform
<1>6. QED
  BY <1>4, <1>5 DEF BlkGood

\* Where a call is, and what it finds there.
LEMMA BlkHere ==
  ASSUME BlkGood, NEW p \in Callers, b_pc[p] \in {"read", "write"},
         NEW k, k = Blocks!Item(geo[p], pos[p]),
         NEW s, s = Blocks!SPos(geo[p], pos[p]),
         NEW l, l = Blocks!Followed(k)
  PROVE  /\ geo[p] = BlkSize /\ BlkSize \in Nat \ {0} /\ pos[p] \in Nat
         /\ k \in Nat \ {0} /\ s \in 1 .. Qset
         /\ l \in Seq(BlkItem) /\ k \in 1 .. Len(l) /\ Len(l) >= Len(list)
         /\ \A j \in 1 .. Len(list) : l[j] = list[j]
         /\ Blocks!Block(l, k, s) \in {0, BlkSize}
<1>1. geo[p] = BlkSize /\ BlkSize \in Nat \ {0} /\ pos[p] \in Nat
  BY DEF BlkGood, BlkTypeOK, BlkUniform
<1>2. k \in Nat \ {0} /\ s \in 1 .. Qset
  BY <1>1, BlkPlace
<1>3. /\ l \in Seq(BlkItem) /\ Len(l) >= Len(list) /\ Len(l) >= k
      /\ \A j \in 1 .. Len(list) : l[j] = list[j]
  BY <1>2, BlkFollowed
<1>4. k \in 1 .. Len(l)
  BY <1>2, <1>3
<1>5. Blocks!Block(l, k, s) \in {0, BlkSize}
  BY <1>2, <1>3, BlkBlock
<1>6. QED
  BY <1>1, <1>2, <1>3, <1>4, <1>5

LEMMA BlkReadKeeps ==
  ASSUME BlkGood, NEW p \in Callers, Blocks!Read(p)
  PROVE  BlkGood'
<1> DEFINE q == geo[p]
           i == pos[p]
           k == Blocks!Item(q, i)
           s == Blocks!SPos(q, i)
           l == Blocks!Followed(k)
           b == Blocks!Block(l, k, s)
<1>1. /\ b_pc[p] = "read"
      /\ \/ Blocks!Over(p, 0) /\ UNCHANGED fault
         \/ /\ i <= size /\ b # 0
            /\ \E c \in {1, 2} :
                 LET n == Blocks!ToEnd(q, i, IF i + c > size THEN size - i ELSE c) IN
                 /\ Blocks!Over(p, n)
                 /\ fault' = IF Blocks!QPos(q, i) + n > b /\ n > 0 THEN "overrun" ELSE fault
      /\ list' = list \/ list' = l
      /\ UNCHANGED size
  BY DEF Blocks!Read
<1>2. /\ q = BlkSize /\ BlkSize \in Nat \ {0} /\ i \in Nat
      /\ l \in Seq(BlkItem) /\ b \in {0, BlkSize}
  BY <1>1, BlkHere
<1>3. list' \in Seq(BlkItem) /\ size' \in Nat /\ fault # "overrun" /\ size \in Nat
  BY <1>1, <1>2 DEF BlkGood, BlkTypeOK, BlkUniform
<1> HIDE DEF q, i, k, s, l, b
<1>4. CASE Blocks!Over(p, 0) /\ UNCHANGED fault
  BY <1>3, <1>4, BlkOverKeeps
<1>5. ASSUME NEW c \in {1, 2}, i <= size, b # 0,
             NEW n, n = Blocks!ToEnd(q, i, IF i + c > size THEN size - i ELSE c),
             Blocks!Over(p, n),
             fault' = IF Blocks!QPos(q, i) + n > b /\ n > 0 THEN "overrun" ELSE fault
      PROVE  BlkGood'
  <2>1. (IF i + c > size THEN size - i ELSE c) \in Nat
    BY <1>2, <1>3, <1>5
  <2>2. n \in Nat /\ Blocks!QPos(q, i) + n <= q /\ Blocks!QPos(q, i) \in 0 .. q - 1
    BY <1>2, <1>5, <2>1, BlkCut, BlkPlace
  <2>3. b = q
    BY <1>2, <1>5
  <2>4. fault' = fault
    BY <1>2, <1>5, <2>2, <2>3
  <2>5. QED
    BY <1>3, <1>5, <2>2, <2>4, BlkOverKeeps
<1>6. QED
  BY <1>1, <1>4, <1>5

\* What a write leaves: the list it has followed, perhaps with a table for the item,
\* perhaps with a block in it.
LEMMA BlkWritten ==
  ASSUME BlkGood, NEW p \in Callers, b_pc[p] = "write",
         NEW k, k = Blocks!Item(geo[p], pos[p]),
         NEW s, s = Blocks!SPos(geo[p], pos[p]),
         NEW l, l = Blocks!Followed(k),
         NEW t, t = IF l[k] = BlkEmpty THEN [j \in 1 .. Qset |-> 0] ELSE l[k]
  PROVE  /\ t \in [1 .. Qset -> {0, BlkSize}]
         /\ [l EXCEPT ![k] = t] \in Seq(BlkItem)
         /\ [l EXCEPT ![k] = [t EXCEPT ![s] = BlkSize]] \in Seq(BlkItem)
<1>1. l \in Seq(BlkItem) /\ k \in 1 .. Len(l) /\ s \in 1 .. Qset
  BY BlkHere
<1>2. t \in [1 .. Qset -> {0, BlkSize}]
  <2>1. CASE l[k] = BlkEmpty
    BY <2>1
  <2>2. CASE l[k] # BlkEmpty
    BY <1>1, <2>2 DEF BlkItem
  <2>3. QED
    BY <2>1, <2>2
<1>3. [t EXCEPT ![s] = BlkSize] \in [1 .. Qset -> {0, BlkSize}]
  BY <1>2
<1>4. t \in BlkItem /\ [t EXCEPT ![s] = BlkSize] \in BlkItem
  BY <1>2, <1>3 DEF BlkItem
<1>5. QED
  BY <1>1, <1>2, <1>4

\* The cases of a write, by what happens to the list and to the fault.
LEMMA BlkWriteCases ==
  ASSUME BlkGood, NEW p \in Callers, BlkWrite(p),
         NEW k, k = Blocks!Item(geo[p], pos[p]),
         NEW s, s = Blocks!SPos(geo[p], pos[p]),
         NEW l, l = Blocks!Followed(k),
         NEW t, t = IF l[k] = BlkEmpty THEN [j \in 1 .. Qset |-> 0] ELSE l[k]
  PROVE  /\ b_pc[p] = "write" /\ fault' = fault /\ size' \in Nat
         /\ \E n \in Nat : Blocks!Over(p, n)
         /\ list' \in {l, [l EXCEPT ![k] = t], [l EXCEPT ![k] = [t EXCEPT ![s] = BlkSize]]}
<1> DEFINE q == geo[p]
           i == pos[p]
           b == Blocks!Block(l, k, s)
<1>1. /\ b_pc[p] = "write"
      /\ \/ /\ list' \in {l, [l EXCEPT ![k] = t]}
            /\ Blocks!Over(p, 0) /\ UNCHANGED <<size, fault>>
         \/ /\ list' = [l EXCEPT ![k] = [t EXCEPT ![s] = IF b = 0 THEN BlkSize ELSE b]]
            /\ \/ Blocks!Over(p, 0) /\ UNCHANGED <<size, fault>>
               \/ \E c \in {1, 2} :
                    LET n == Blocks!ToEnd(q, i, c) IN
                    /\ Blocks!Over(p, n)
                    /\ size' = IF size < i + n THEN i + n ELSE size
                    /\ fault' = IF \/ b = 0 /\ BlkSize > BlkSize
                                   \/ Blocks!QPos(q, i) + n > (IF b = 0 THEN BlkSize ELSE b)
                                THEN "overrun" ELSE fault
  BY DEF BlkWrite, Blocks!Write, BlkEmpty
<1>2. q = BlkSize /\ BlkSize \in Nat \ {0} /\ i \in Nat /\ b \in {0, BlkSize}
  BY <1>1, BlkHere
<1>3. (IF b = 0 THEN BlkSize ELSE b) = BlkSize /\ ~(BlkSize > BlkSize)
  BY <1>2
<1>4. size \in Nat
  BY DEF BlkGood, BlkTypeOK
<1> HIDE DEF q, i, b
<1>5. ASSUME NEW c \in {1, 2}, NEW n, n = Blocks!ToEnd(q, i, c),
             size' = IF size < i + n THEN i + n ELSE size,
             fault' = IF \/ b = 0 /\ BlkSize > BlkSize
                         \/ Blocks!QPos(q, i) + n > (IF b = 0 THEN BlkSize ELSE b)
                      THEN "overrun" ELSE fault
      PROVE  n \in Nat /\ size' \in Nat /\ fault' = fault
  <2>1. n \in Nat /\ Blocks!QPos(q, i) + n <= q /\ Blocks!QPos(q, i) \in 0 .. q - 1
    BY <1>2, <1>5, BlkCut, BlkPlace
  <2>2. ~(Blocks!QPos(q, i) + n > BlkSize)
    BY <1>2, <2>1
  <2>3. QED
    BY <1>2, <1>3, <1>4, <1>5, <2>1, <2>2
<1>6. QED
  BY <1>1, <1>3, <1>4, <1>5

LEMMA BlkWriteKeeps ==
  ASSUME BlkGood, NEW p \in Callers, BlkWrite(p)
  PROVE  BlkGood'
<1> DEFINE k == Blocks!Item(geo[p], pos[p])
           s == Blocks!SPos(geo[p], pos[p])
           l == Blocks!Followed(k)
           t == IF l[k] = BlkEmpty THEN [j \in 1 .. Qset |-> 0] ELSE l[k]
<1>1. /\ b_pc[p] = "write" /\ fault' = fault /\ size' \in Nat
      /\ \E n \in Nat : Blocks!Over(p, n)
      /\ list' \in {l, [l EXCEPT ![k] = t], [l EXCEPT ![k] = [t EXCEPT ![s] = BlkSize]]}
  BY BlkWriteCases
<1>2. /\ [l EXCEPT ![k] = t] \in Seq(BlkItem)
      /\ [l EXCEPT ![k] = [t EXCEPT ![s] = BlkSize]] \in Seq(BlkItem)
      /\ l \in Seq(BlkItem)
  BY <1>1, BlkWritten, BlkHere
<1>3. list' \in Seq(BlkItem) /\ fault' # "overrun"
  BY <1>1, <1>2 DEF BlkGood
<1>4. QED
  BY <1>1, <1>3, BlkOverKeeps

\* A device that is plain was plain: in what every driver's calls amount to.
BlkCallOf(p) ==
  \/ Blocks!Opens(p) \/ BlkBegin(p) \/ BlkStop(p) \/ BlkOther(p)
  \/ Blocks!Mmap(p) \/ Blocks!VmaOpen(p) \/ Blocks!VmaClose(p) \/ Blocks!Nopage(p)
  \/ (\E n : Blocks!Over(p, n)) \/ Blocks!FollowFault(p)

LEMMA BlkPlainBefore ==
  ASSUME Blocks!Next, plain'
  PROVE  plain
<1> SUFFICES ASSUME NEW p \in Callers,
                    Blocks!scullc(p) \/ Blocks!scullp(p) \/ Blocks!scullv(p) \/ Blocks!sculld(p)
             PROVE  plain
  BY DEF Blocks!Next, Blocks!Faulted, Blocks!vars
<1>0. ASSUME Blocks!Read(p) PROVE BlkCallOf(p)
  BY <1>0 DEF Blocks!Read, BlkCallOf
<1>9. ASSUME NEW new, NEW zeroed, Blocks!Write(p, new, zeroed) PROVE BlkCallOf(p)
  BY <1>9 DEF Blocks!Write, BlkCallOf
<1>1. ASSUME BlkCallOf(p) PROVE plain
  BY <1>1 DEF BlkCallOf, Blocks!Opens, BlkBegin, Blocks!Begin, BlkStop, Blocks!Interrupted, BlkOther,
     Blocks!Release, Blocks!Ioctl, Blocks!Llseek, Blocks!Deferred, Blocks!Mmap, Blocks!VmaOpen,
     Blocks!VmaClose, Blocks!Nopage, Blocks!Over, Blocks!FollowFault, Blocks!Fail
<1>2. CASE Blocks!scullc(p)
  BY <1>0, <1>9, <1>1, <1>2 
  DEF Blocks!scullc, Blocks!scullc_open, Blocks!scullc_release, Blocks!scullc_read,
     Blocks!scullc_write, Blocks!scullc_follow, Blocks!scullc_ioctl,
     Blocks!scullc_llseek, Blocks!scullc_aio, BlkCallOf,
     BlkBegin, BlkStop, BlkOther
<1>3. CASE Blocks!scullp(p)
  BY <1>0, <1>9, <1>1, <1>3
  DEF Blocks!scullp, Blocks!scullp_open, Blocks!scullp_release, Blocks!scullp_read,
     Blocks!scullp_write, Blocks!scullp_follow, Blocks!scullp_ioctl,
     Blocks!scullp_llseek, Blocks!scullp_aio, Blocks!scullp_mmap, Blocks!scullp_vma,
     Blocks!scullp_vma_nopage, BlkCallOf,
     BlkBegin, BlkStop, BlkOther
<1>4. CASE Blocks!scullv(p)
  BY <1>0, <1>9, <1>1, <1>4
  DEF Blocks!scullv, Blocks!scullv_open, Blocks!scullv_release, Blocks!scullv_read,
     Blocks!scullv_write, Blocks!scullv_follow, Blocks!scullv_ioctl,
     Blocks!scullv_llseek, Blocks!scullv_aio, Blocks!scullv_mmap, Blocks!scullv_vma,
     Blocks!scullv_vma_nopage, BlkCallOf,
     BlkBegin, BlkStop, BlkOther
<1>5. CASE Blocks!sculld(p)
  BY <1>0, <1>9, <1>1, <1>5
  DEF Blocks!sculld, Blocks!sculld_open, Blocks!sculld_release, Blocks!sculld_read,
     Blocks!sculld_write, Blocks!sculld_follow, Blocks!sculld_ioctl,
     Blocks!sculld_llseek, Blocks!sculld_aio, Blocks!sculld_mmap, Blocks!sculld_vma,
     Blocks!sculld_vma_nopage, BlkCallOf,
     BlkBegin, BlkStop, BlkOther
<1>6. QED
  BY <1>2, <1>3, <1>4, <1>5

LEMMA BlkStepInv == BlkInv /\ [Blocks!Next]_blocks_vars => BlkInv'
<1> SUFFICES ASSUME BlkInv, [Blocks!Next]_blocks_vars, plain' PROVE BlkGood'
  BY DEF BlkInv
<1>1. CASE UNCHANGED blocks_vars
  <2>1. BlkGood
    BY <1>1 DEF BlkInv, blocks_vars
  <2>2. UNCHANGED <<Blocks!static, Blocks!device, param, b_pc, pos, geo, reg, fault>>
    BY <1>1 DEF blocks_vars, Blocks!static, Blocks!device
  <2>3. QED
    BY <2>1, <2>2, BlkQuietKeeps DEF BlkGood, BlkTypeOK, BlkUniform
<1>2. CASE Blocks!Next
  <2>1. plain
    BY <1>2, BlkPlainBefore
  <2>2. BlkGood
    BY <2>1 DEF BlkInv
  <2>3. CASE UNCHANGED blocks_vars
    BY <1>1, <2>3
  <2>4. ASSUME NEW p \in Callers,
               \/ BlkOpen(p) \/ BlkBegin(p) \/ BlkStop(p) \/ BlkOther(p) \/ BlkVma(p)
               \/ Blocks!Read(p) \/ BlkWrite(p) \/ Blocks!FollowFault(p)
        PROVE  BlkGood'
    BY <2>1, <2>2, <2>4, BlkOpenKeeps, BlkUserKeeps, BlkReadKeeps, BlkWriteKeeps
  <2>5. QED
    BY <1>2, <2>2, <2>3, <2>4, BlkCalls
<1>3. QED
  BY <1>1, <1>2

\* Whatever the sizes, the driver and the number of processes: no call passes the end of
\* a block of a device whose quanta have always been as loaded, or of one page.
THEOREM BlocksSpecWithin == Blocks!Init /\ [][Blocks!Next]_blocks_vars => []BlocksWithin
<1>1. BlkInv => BlocksWithin
  BY DEF BlkInv, BlkGood, BlocksWithin, Blocks!WithinBlocks
<1>2. QED
  BY <1>1, BlkInitInv, BlkStepInv, PTL

-----------------------------------------------------------------------------
(* The pages of a mapping.  One process maps: vmas is changed without the  *)
(* semaphore, and two that map at once may lose an increment.              *)

OneMapper == \A p, q \in Mappers : p = q

\* The place of page o in a device of pages.
BlkPage(o) == <<Blocks!Item(1, o), Blocks!SPos(1, o)>>
BlkHas(l, k, s) == Blocks!Block(l, k, s) # 0

\* The count is that of the mappings, a process that is changing it has read the
\* present one, and only a mapping has pages.
BlkCounts ==
  /\ DOMAIN pte = Callers
  /\ \A p \in Callers :
       /\ b_pc[p] \in BlkMapPc => p \in Mappers /\ driver # "c"
       /\ b_pc[p] \in {"m_load", "m_store"} => vmas = 0
       /\ b_pc[p] = "m_store" => reg[p] = 0
       /\ b_pc[p] \in {"mapped", "u_store"} => vmas = 1
       /\ b_pc[p] = "u_store" => reg[p] = 1
       /\ b_pc[p] # "mapped" => pte[p] = Blocks!NoPages
       /\ DOMAIN pte[p] = Blocks!Offsets
  /\ (\A p \in Callers : b_pc[p] \notin {"mapped", "u_store"}) => vmas = 0

BlkPages ==
  \A p \in Callers : \A o \in Blocks!Offsets :
    pte[p][o] # Blocks!Nothing =>
      /\ pte[p][o] = BlkPage(o)
      /\ BlkHas(list, Blocks!Item(1, o), Blocks!SPos(1, o))

MapInv == plain => BlkGood /\ BlkCounts /\ BlkPages

LEMMA BlkPageIs ==
  ASSUME NEW o \in Blocks!Offsets
  PROVE  /\ BlkPage(o) = <<o \div Qset + 1, (o % Qset) + 1>>
         /\ Blocks!Item(1, o) = o \div Qset + 1 /\ Blocks!SPos(1, o) = (o % Qset) + 1
         /\ Blocks!Item(1, o) \in Nat \ {0} /\ Blocks!SPos(1, o) \in 1 .. Qset
<1>1. o \in Nat /\ Qset \in Nat \ {0} /\ 1 * Qset = Qset
  BY QuantaAssumption DEF Blocks!Offsets
<1>2. o % Qset \in Nat /\ \A n \in Nat : n \div 1 = n
  BY <1>1
<1>3. Blocks!Item(1, o) = o \div Qset + 1 /\ Blocks!SPos(1, o) = (o % Qset) + 1
  BY <1>1, <1>2 DEF Blocks!Item, Blocks!SPos
<1>4. Blocks!Item(1, o) \in Nat \ {0} /\ Blocks!SPos(1, o) \in 1 .. Qset
  BY <1>1, BlkPlace
<1>5. QED
  BY <1>3, <1>4 DEF BlkPage

\* What the list has, it keeps.
BlkGrown == \A k \in Nat \ {0}, s \in 1 .. Qset : BlkHas(list, k, s) => BlkHas(list, k, s)'

LEMMA BlkPagesKept ==
  ASSUME BlkPages, BlkGrown, UNCHANGED pte
  PROVE  BlkPages'
BY BlkPageIs DEF BlkPages, BlkGrown, BlkPage, Blocks!Item, Blocks!SPos

\* A step of a process that is not mapping and does not begin to.
LEMMA BlkApartKeeps ==
  ASSUME BlkTypeOK, BlkCounts, BlkPages, NEW p \in Callers, BlkGrown,
         UNCHANGED <<driver, vmas, pte, reg>>,
         \/ UNCHANGED b_pc
         \/ \E l \in BlkQuietPc : b_pc[p] \in BlkQuietPc /\ b_pc' = [b_pc EXCEPT ![p] = l]
  PROVE  BlkCounts' /\ BlkPages'
<1>1. BlkPages'
  BY BlkPagesKept
<1>2. \A q \in Callers : b_pc'[q] = b_pc[q] \/ (b_pc[q] \in BlkQuietPc /\ b_pc'[q] \in BlkQuietPc)
  BY DEF BlkTypeOK
<1>3. \A q \in Callers : (b_pc'[q] # "mapped" => b_pc[q] # "mapped")
                         /\ \A l \in BlkMapPc : b_pc'[q] = l <=> b_pc[q] = l
  BY <1>2 DEF BlkQuietPc, BlkMapPc
<1>4. BlkCounts'
  BY <1>3 DEF BlkCounts, BlkMapPc, Blocks!NoPages, Blocks!Offsets
<1>5. QED
  BY <1>1, <1>4

\* What was in the list is in the list that a call has followed, and in what a
\* write makes of it.
LEMMA BlkFollowedGrown ==
  ASSUME BlkGood, NEW p \in Callers, b_pc[p] \in {"read", "write"},
         NEW k, k = Blocks!Item(geo[p], pos[p]),
         NEW l, l = Blocks!Followed(k),
         list' = list \/ list' = l
  PROVE  BlkGrown
<1>1. /\ Len(l) >= Len(list) /\ Len(l) \in Nat /\ Len(list) \in Nat
      /\ \A j \in 1 .. Len(list) : l[j] = list[j]
  BY BlkHere DEF BlkGood, BlkUniform
<1>2. CASE list' = list
  BY <1>2 DEF BlkGrown, BlkHas, Blocks!Block
<1>3. CASE list' = l
  <2> SUFFICES ASSUME NEW j \in Nat \ {0}, NEW z \in 1 .. Qset, BlkHas(list, j, z)
               PROVE  BlkHas(l, j, z)
    BY <1>3 DEF BlkGrown, BlkHas, Blocks!Block
  <2>1. j \in 1 .. Len(list) /\ list[j] # Blocks!NoData /\ list[j][z] # 0
    BY <1>1 DEF BlkHas, Blocks!Block
  <2>2. l[j] = list[j] /\ ~(j > Len(l))
    BY <1>1, <2>1
  <2>3. QED
    BY <2>1, <2>2 DEF BlkHas, Blocks!Block
<1>4. QED
  BY <1>2, <1>3

LEMMA BlkWriteGrown ==
  ASSUME BlkGood, NEW p \in Callers, BlkWrite(p)
  PROVE  BlkGrown
<1> DEFINE k == Blocks!Item(geo[p], pos[p])
           s == Blocks!SPos(geo[p], pos[p])
           l == Blocks!Followed(k)
           t == IF l[k] = BlkEmpty THEN [j \in 1 .. Qset |-> 0] ELSE l[k]
<1>1. /\ b_pc[p] = "write"
      /\ list' \in {l, [l EXCEPT ![k] = t], [l EXCEPT ![k] = [t EXCEPT ![s] = BlkSize]]}
  BY BlkWriteCases
<1>2. t \in [1 .. Qset -> {0, BlkSize}]
  BY <1>1, BlkWritten
<1>3. /\ l \in Seq(BlkItem) /\ k \in 1 .. Len(l) /\ s \in 1 .. Qset
      /\ Len(l) >= Len(list) /\ Len(list) \in Nat
      /\ \A j \in 1 .. Len(list) : l[j] = list[j]
      /\ BlkSize \in Nat \ {0}
  BY <1>1, BlkHere DEF BlkGood, BlkUniform
<1>4. CASE list' = l
  BY <1>1, <1>4, BlkFollowedGrown
<1>5. ASSUME NEW u \in {t, [t EXCEPT ![s] = BlkSize]}, list' = [l EXCEPT ![k] = u]
      PROVE  BlkGrown
  <2> SUFFICES ASSUME NEW j \in Nat \ {0}, NEW z \in 1 .. Qset, BlkHas(list, j, z)
               PROVE  Blocks!Block(list', j, z) # 0
    BY DEF BlkGrown, BlkHas, Blocks!Block
  <2>1. j \in 1 .. Len(list) /\ list[j] # Blocks!NoData /\ list[j][z] # 0
    BY <1>3 DEF BlkHas, Blocks!Block
  <2>2. l[j] = list[j] /\ j \in 1 .. Len(l)
    BY <1>3, <2>1
  <2>3. Len(list') = Len(l)
    BY <1>3, <1>5
  <2>4. u # Blocks!NoData
    <3>1. u \in [1 .. Qset -> {0, BlkSize}]
      BY <1>2, <1>3
    <3>2. 1 \in DOMAIN u /\ 1 \notin DOMAIN Blocks!NoData
      BY <3>1, QuantaAssumption DEF Blocks!NoData
    <3>3. QED
      BY <3>2
  <2>5. CASE j = k
    <3>1. t = l[k]
      BY <2>1, <2>2, <2>5 DEF BlkEmpty
    <3>2. u[z] # 0
      BY <1>2, <1>3, <2>1, <2>2, <2>5, <3>1
    <3>3. list'[j] = u
      BY <1>3, <1>5, <2>5
    <3> HIDE DEF k, s, l, t
    <3>4. QED
      BY <2>2, <2>3, <2>4, <3>2, <3>3 DEF Blocks!Block
  <2>6. CASE j # k
    <3>1. list'[j] = list[j]
      BY <1>3, <1>5, <2>2, <2>6
    <3> HIDE DEF k, s, l, t
    <3>2. QED
      BY <2>1, <2>2, <2>3, <3>1 DEF Blocks!Block
  <2>7. QED
    BY <2>5, <2>6
<1>6. QED
  BY <1>1, <1>4, <1>5

\* The end of a call, and a call that the list is not changed by.
LEMMA BlkOverApart ==
  ASSUME BlkTypeOK, BlkCounts, BlkPages, BlkGrown, NEW p \in Callers, NEW n,
         b_pc[p] \in {"read", "write"}, Blocks!Over(p, n)
  PROVE  BlkCounts' /\ BlkPages'
<1>1. /\ UNCHANGED <<driver, vmas, pte, reg>> /\ b_pc' = [b_pc EXCEPT ![p] = "open"]
      /\ b_pc[p] \in BlkQuietPc /\ "open" \in BlkQuietPc
  BY DEF Blocks!Over, Blocks!static, BlkQuietPc
<1>2. QED
  BY <1>1, BlkApartKeeps

\* Trimmed, the device has no pages that are mapped, because nothing maps it.
LEMMA BlkOpenApart ==
  ASSUME BlkTypeOK, BlkCounts, BlkPages, NEW p \in Callers, BlkOpen(p)
  PROVE  BlkCounts' /\ BlkPages'
<1>1. /\ UNCHANGED <<driver, vmas, reg>> /\ b_pc' = [b_pc EXCEPT ![p] = "open"]
      /\ b_pc[p] \in BlkQuietPc /\ "open" \in BlkQuietPc
  BY DEF BlkOpen, Blocks!Opens, Blocks!Goto, Blocks!static, BlkQuietPc
<1>2. CASE UNCHANGED <<Blocks!device, pte>>
  <2>1. BlkGrown
    BY <1>2 DEF BlkGrown, BlkHas, Blocks!Block, Blocks!device
  <2>2. QED
    BY <1>1, <1>2, <2>1, BlkApartKeeps
<1>3. CASE vmas = 0 /\ pte' = [q \in Callers |-> [o \in Blocks!Offsets |->
                                 IF pte[q][o] = Blocks!Nothing THEN Blocks!Nothing ELSE <<"stale">>]]
  <2>1. \A q \in Callers : b_pc[q] \notin {"mapped", "u_store"}
    BY <1>3 DEF BlkCounts
  <2>2. \A q \in Callers : pte[q] = Blocks!NoPages
    BY <2>1 DEF BlkCounts
  <2>3. ASSUME NEW q \in Callers PROVE pte'[q] = Blocks!NoPages /\ pte'[q] = pte[q]
    BY <1>3, <2>2 DEF Blocks!NoPages
  <2>4. DOMAIN pte' = Callers /\ \A q \in Callers : DOMAIN pte'[q] = Blocks!Offsets
    BY <1>3
  <2>5. BlkPages'
    BY <2>3 DEF BlkPages, Blocks!NoPages
  <2>6. \A q \in Callers : b_pc'[q] = b_pc[q] \/ b_pc'[q] = "open"
    BY <1>1 DEF BlkTypeOK
  <2>7. BlkCounts'
    <3>1. \A q \in Callers :
            /\ b_pc'[q] \in BlkMapPc => b_pc'[q] = b_pc[q]
            /\ b_pc'[q] \notin {"mapped", "u_store"}
      BY <2>1, <2>6 DEF BlkMapPc
    <3>2. \A q \in Callers :
            /\ b_pc'[q] \in BlkMapPc => q \in Mappers /\ driver' # "c"
            /\ b_pc'[q] \in {"m_load", "m_store"} => vmas' = 0
            /\ b_pc'[q] = "m_store" => reg'[q] = 0
      BY <1>1, <3>1 DEF BlkCounts, BlkMapPc
    <3>3. vmas' = 0
      BY <1>1, <1>3
    <3>4. QED
      BY <2>3, <2>4, <3>1, <3>2, <3>3 DEF BlkCounts, Blocks!NoPages, Blocks!Offsets
  <2>8. QED
    BY <2>5, <2>7
<1>4. QED
  BY <1>2, <1>3 DEF BlkOpen, Blocks!Trim

LEMMA BlkUserApart ==
  ASSUME BlkGood, BlkCounts, BlkPages, NEW p \in Callers,
         BlkBegin(p) \/ BlkStop(p) \/ BlkOther(p) \/ Blocks!FollowFault(p)
  PROVE  BlkCounts' /\ BlkPages'
<1>1. UNCHANGED <<driver, vmas, pte, reg, list>>
  BY DEF BlkBegin, Blocks!Begin, BlkStop, Blocks!Interrupted, BlkOther, Blocks!Release, Blocks!Ioctl,
     Blocks!Llseek, Blocks!Deferred, Blocks!FollowFault, Blocks!Fail, Blocks!static, Blocks!device,
     Blocks!user
<1>2. BlkGrown
  BY <1>1 DEF BlkGrown, BlkHas, Blocks!Block
<1>3. \/ UNCHANGED b_pc
      \/ \E l \in BlkQuietPc : b_pc[p] \in BlkQuietPc /\ b_pc' = [b_pc EXCEPT ![p] = l]
  BY DEF BlkBegin, Blocks!Begin, BlkStop, Blocks!Interrupted, BlkOther, Blocks!Release, Blocks!Ioctl,
     Blocks!Llseek, Blocks!Deferred, Blocks!FollowFault, Blocks!Fail, Blocks!user,
     Blocks!Goto, BlkQuietPc
<1>4. QED
  BY <1>1, <1>2, <1>3, BlkApartKeeps DEF BlkGood

\* The one mapper's own steps.
LEMMA BlkVmaKeeps ==
  ASSUME OneMapper, BlkGood, BlkCounts, BlkPages, NEW p \in Callers,
         BlkVma(p), p \in Mappers
  PROVE  BlkCounts' /\ BlkPages'
<1>1. UNCHANGED <<driver, list>> /\ driver # "c" /\ DOMAIN b_pc = Callers /\ DOMAIN reg = Callers
  BY DEF BlkVma, Blocks!Mmap, Blocks!VmaOpen, Blocks!VmaClose, Blocks!Nopage, Blocks!static,
     Blocks!device, BlkGood, BlkTypeOK
<1>2. \A q \in Callers \ {p} : b_pc[q] \notin BlkMapPc
  BY DEF OneMapper, BlkCounts
<1>3. BlkGrown
  BY <1>1 DEF BlkGrown, BlkHas, Blocks!Block
<1>4. ASSUME NEW l, b_pc' = [b_pc EXCEPT ![p] = l],
             \A q \in Callers \ {p} : pte'[q] = pte[q], DOMAIN pte' = Callers,
             DOMAIN pte'[p] = Blocks!Offsets,
             l \in {"m_load", "m_store"} => vmas' = 0,
             l = "m_store" => reg'[p] = 0,
             l \in {"mapped", "u_store"} => vmas' = 1,
             l = "u_store" => reg'[p] = 1,
             l # "mapped" => pte'[p] = Blocks!NoPages,
             l \notin {"mapped", "u_store"} => vmas' = 0
      PROVE  BlkCounts'
  <2>1. b_pc'[p] = l /\ \A q \in Callers \ {p} : b_pc'[q] = b_pc[q] /\ b_pc'[q] \notin BlkMapPc
    BY <1>1, <1>2, <1>4
  <2>2. \A q \in Callers \ {p} : pte'[q] = Blocks!NoPages /\ DOMAIN pte'[q] = Blocks!Offsets
    BY <1>2, <1>4 DEF BlkCounts, BlkMapPc
  <2>3. QED
    BY <1>1, <1>4, <2>1, <2>2 DEF BlkCounts, BlkMapPc, Blocks!NoPages, Blocks!Offsets
<1>5. vmas = 0 \/ b_pc[p] \in {"mapped", "u_store"}
  <2> SUFFICES ASSUME b_pc[p] \notin {"mapped", "u_store"} PROVE vmas = 0
    OBVIOUS
  <2>1. \A q \in Callers : b_pc[q] \notin {"mapped", "u_store"}
    BY <1>2 DEF BlkMapPc
  <2>2. QED
    BY <2>1 DEF BlkCounts
<1>6. CASE Blocks!Mmap(p)
  <2>1. UNCHANGED <<vmas, reg, pte>> /\ b_pc[p] = "open" /\ b_pc' = [b_pc EXCEPT ![p] = "m_load"]
    BY <1>6 DEF Blocks!Mmap, Blocks!Goto
  <2>2. BlkCounts'
    BY <1>4, <1>5, <2>1 DEF BlkCounts
  <2>3. QED
    BY <1>3, <2>1, <2>2, BlkPagesKept
<1>7. CASE Blocks!VmaOpen(p)
  <2>1. CASE /\ b_pc[p] = "m_load" /\ b_pc' = [b_pc EXCEPT ![p] = "m_store"]
             /\ reg' = [reg EXCEPT ![p] = vmas] /\ UNCHANGED <<vmas, pte>>
    <3>1. reg'[p] = 0
      BY <1>1, <2>1 DEF BlkCounts
    <3>2. BlkCounts'
      BY <1>4, <1>5, <2>1, <3>1 DEF BlkCounts
    <3>3. QED
      BY <1>3, <2>1, <3>2, BlkPagesKept
  <2>2. CASE /\ b_pc[p] = "m_store" /\ b_pc' = [b_pc EXCEPT ![p] = "mapped"]
             /\ vmas' = reg[p] + 1 /\ UNCHANGED pte
    <3>1. vmas' = 1
      BY <2>2 DEF BlkCounts
    <3>2. BlkCounts'
      BY <1>4, <2>2, <3>1 DEF BlkCounts
    <3>3. QED
      BY <1>3, <2>2, <3>2, BlkPagesKept
  <2>3. QED
    BY <1>7, <2>1, <2>2 DEF Blocks!VmaOpen, Blocks!Goto
<1>8. CASE Blocks!VmaClose(p)
  <2>1. CASE /\ b_pc[p] = "mapped" /\ b_pc' = [b_pc EXCEPT ![p] = "u_store"]
             /\ reg' = [reg EXCEPT ![p] = vmas] /\ pte' = [pte EXCEPT ![p] = Blocks!NoPages]
             /\ UNCHANGED vmas
    <3>1. vmas' = 1 /\ reg'[p] = 1
      BY <1>1, <2>1 DEF BlkCounts
    <3>2. pte'[p] = Blocks!NoPages /\ \A q \in Callers \ {p} : pte'[q] = pte[q]
      BY <2>1 DEF BlkCounts
    <3>3. BlkCounts'
      BY <1>4, <2>1, <3>1, <3>2 DEF BlkCounts, Blocks!NoPages
    <3>4. BlkPages'
      <4>1. \A q \in Callers : pte'[q] = pte[q] \/ pte'[q] = Blocks!NoPages
        BY <3>2
      <4>2. \A q \in Callers, o \in Blocks!Offsets :
               pte'[q][o] # Blocks!Nothing => pte'[q][o] = pte[q][o]
        BY <4>1 DEF Blocks!NoPages
      <4>3. QED
        BY <1>1, <4>2 DEF BlkPages, BlkHas, BlkPage, Blocks!Item, Blocks!SPos, Blocks!Block
    <3>5. QED
      BY <3>3, <3>4
  <2>2. CASE /\ b_pc[p] = "u_store" /\ b_pc' = [b_pc EXCEPT ![p] = "open"]
             /\ vmas' = reg[p] - 1 /\ UNCHANGED pte
    <3>1. vmas' = 0
      BY <2>2 DEF BlkCounts
    <3>2. BlkCounts'
      BY <1>4, <2>2, <3>1 DEF BlkCounts
    <3>3. QED
      BY <1>3, <2>2, <3>2, BlkPagesKept
  <2>3. QED
    BY <1>8, <2>1, <2>2 DEF Blocks!VmaClose, Blocks!Goto
<1>9. CASE Blocks!Nopage(p)
  <2>1. PICK o \in Blocks!Offsets :
           /\ Blocks!Block(list, o \div Qset + 1, (o % Qset) + 1) # 0
           /\ pte' = [pte EXCEPT ![p][o] = <<o \div Qset + 1, (o % Qset) + 1>>]
    BY <1>9 DEF Blocks!Nopage
  <2>2. UNCHANGED <<vmas, b_pc, reg, list>> /\ b_pc[p] = "mapped"
    BY <1>9 DEF Blocks!Nopage, Blocks!device
  <2>3. /\ DOMAIN pte' = Callers /\ DOMAIN pte'[p] = Blocks!Offsets
        /\ pte'[p][o] = BlkPage(o)
        /\ \A q \in Callers, z \in Blocks!Offsets : q # p \/ z # o => pte'[q][z] = pte[q][z]
        /\ \A q \in Callers \ {p} : pte'[q] = pte[q]
    BY <2>1, BlkPageIs DEF BlkCounts
  <2>4. b_pc' = [b_pc EXCEPT ![p] = "mapped"]
    BY <1>1, <2>2 DEF BlkGood, BlkTypeOK
  <2>5. vmas' = 1
    BY <2>2 DEF BlkCounts
  <2>6. BlkCounts'
    BY <1>4, <2>3, <2>4, <2>5
  <2>7. BlkHas(list, Blocks!Item(1, o), Blocks!SPos(1, o))
    BY <2>1, BlkPageIs DEF BlkHas
  <2>8. BlkPages'
    BY <2>2, <2>3, <2>7 DEF BlkPages, BlkHas, BlkPage, Blocks!Item, Blocks!SPos, Blocks!Block
  <2>9. QED
    BY <2>6, <2>8
<1>10. QED
  BY <1>6, <1>7, <1>8, <1>9 DEF BlkVma

\* Only the mapper is where a mapping's steps begin.
LEMMA BlkVmaMapper ==
  ASSUME BlkCounts, NEW p \in Callers, BlkVma(p)
  PROVE  p \in Mappers
BY DEF BlkCounts, BlkVma, Blocks!Mmap, Blocks!VmaOpen, Blocks!VmaClose, Blocks!Nopage, Blocks!Goto,
   BlkMapPc

LEMMA MapInitInv == Blocks!Init => MapInv
<1> SUFFICES ASSUME Blocks!Init, plain PROVE BlkCounts /\ BlkPages
  BY BlkInitInv DEF MapInv, BlkInv
<1>1. /\ vmas = 0 /\ b_pc = [p \in Callers |-> "closed"]
      /\ pte = [p \in Callers |-> Blocks!NoPages]
  BY DEF Blocks!Init
<1>2. QED
  BY <1>1 DEF BlkCounts, BlkMapPc, BlkPages, Blocks!NoPages

LEMMA MapStepInv ==
  ASSUME OneMapper
  PROVE  MapInv /\ [Blocks!Next]_blocks_vars => MapInv'
<1> SUFFICES ASSUME MapInv, [Blocks!Next]_blocks_vars, plain' PROVE BlkGood' /\ BlkCounts' /\ BlkPages'
  BY DEF MapInv
<1>1. CASE UNCHANGED blocks_vars
  <2>1. BlkGood /\ BlkCounts /\ BlkPages /\ UNCHANGED <<driver, vmas, pte, reg, b_pc, list>>
    BY <1>1 DEF MapInv, blocks_vars
  <2>2. BlkCounts' /\ BlkPages'
    BY <2>1 DEF BlkCounts, BlkPages, BlkHas, BlkPage, Blocks!Item, Blocks!SPos, Blocks!Block,
       Blocks!NoPages, Blocks!Offsets
  <2>3. BlkGood'
    BY <1>1, <2>1, BlkStepInv DEF BlkInv
  <2>4. QED
    BY <2>2, <2>3
<1>2. CASE Blocks!Next
  <2>1. plain
    BY <1>2, BlkPlainBefore
  <2>2. BlkGood /\ BlkCounts /\ BlkPages /\ BlkTypeOK
    BY <2>1 DEF MapInv, BlkGood
  <2>3. BlkGood'
    BY <2>2, BlkStepInv DEF BlkInv
  <2>4. ASSUME NEW p \in Callers, BlkOpen(p) PROVE BlkCounts' /\ BlkPages'
    BY <2>2, <2>4, BlkOpenApart
  <2>5. ASSUME NEW p \in Callers,
               BlkBegin(p) \/ BlkStop(p) \/ BlkOther(p) \/ Blocks!FollowFault(p)
        PROVE  BlkCounts' /\ BlkPages'
    BY <2>2, <2>5, BlkUserApart
  <2>6. ASSUME NEW p \in Callers, BlkVma(p) PROVE BlkCounts' /\ BlkPages'
    BY <2>2, <2>6, BlkVmaKeeps, BlkVmaMapper
  <2>7. ASSUME NEW p \in Callers, Blocks!Read(p) PROVE BlkCounts' /\ BlkPages'
    <3> DEFINE k == Blocks!Item(geo[p], pos[p])
    <3>1. /\ b_pc[p] = "read" /\ (list' = list \/ list' = Blocks!Followed(k))
          /\ \E n : Blocks!Over(p, n)
      BY <2>7 DEF Blocks!Read
    <3>2. BlkGrown
      BY <2>2, <3>1, BlkFollowedGrown
    <3>3. QED
      BY <2>2, <3>1, <3>2, BlkOverApart
  <2>8. ASSUME NEW p \in Callers, BlkWrite(p) PROVE BlkCounts' /\ BlkPages'
    <3>1. b_pc[p] = "write" /\ \E n \in Nat : Blocks!Over(p, n)
      BY <2>2, <2>8, BlkWriteCases
    <3>2. BlkGrown
      BY <2>2, <2>8, BlkWriteGrown
    <3>3. QED
      BY <2>2, <3>1, <3>2, BlkOverApart
  <2>9. QED
    BY <1>1, <1>2, <2>2, <2>3, <2>4, <2>5, <2>6, <2>7, <2>8, BlkCalls
<1>3. QED
  BY <1>1, <1>2

\* As long as one process maps the device, what it finds at a page is what a read finds
\* there: a trim waits for the last mapping, and a write moves nothing.
THEOREM BlocksSpecMapped ==
  ASSUME OneMapper
  PROVE  Blocks!Init /\ [][Blocks!Next]_blocks_vars => []BlocksMapped
<1>1. ASSUME MapInv PROVE BlocksMapped
  <2> SUFFICES ASSUME plain, NEW p \in Callers, NEW o \in Blocks!Offsets,
                      pte[p][o] # Blocks!Nothing
               PROVE  /\ pte[p][o] = <<Blocks!Item(quantum, o), Blocks!SPos(quantum, o)>>
                      /\ Blocks!Block(list, Blocks!Item(quantum, o), Blocks!SPos(quantum, o)) # 0
    BY DEF BlocksMapped, Blocks!MappedIsCurrent
  <2>1. BlkGood /\ BlkCounts /\ BlkPages
    BY <1>1 DEF MapInv
  <2>2. b_pc[p] = "mapped"
    BY <2>1 DEF BlkCounts, Blocks!NoPages
  <2>3. driver # "c"
    BY <2>1, <2>2 DEF BlkCounts, BlkMapPc
  <2>4. quantum = 1
    BY <2>1, <2>3 DEF BlkGood, BlkUniform, BlkSize
  <2>5. QED
    BY <2>1, <2>4 DEF BlkPages, BlkPage, BlkHas
<1>2. QED
  BY <1>1, MapInitInv, MapStepInv, PTL

-----------------------------------------------------------------------------
(* ScullStudies.  Until something has gone wrong, an array or a quantum    *)
(* that a write makes is where the position says and no byte of any other  *)
(* moves.  exercise/scull and scull_page hand out zeroed quanta, so that   *)
(* each byte of theirs, written or not, is the file's.  scull_cache does   *)
(* not, and is a file below its size only: what it holds there was         *)
(* written without a gap, and lies within the cache's objects.             *)

StItem == [len : Nat, cell : [0..3 -> Seq(Nat)]]

\* Bytes of a quantum that is allocated.
StRoom == IF study = "cache" THEN csize ELSE x_geo.q

StList(lst) ==
  /\ lst \in Seq(StItem)
  /\ \A i \in 1..Len(lst), s \in 0..3 :
       lst[i].cell[s] # <<>> => Len(lst[i].cell[s]) = StRoom

StTypes ==
  /\ x_geo \in Study!Geometry /\ x_param \in Study!Geometry
  /\ csize \in Nat \ {0} /\ x_size \in Nat /\ file \in [Study!Positions -> Nat]
  /\ StList(items)

\* The byte of a position in a list.
StByte(lst, p) ==
  IF Study!Has(lst, p)
  THEN lst[Study!Item(p) + 1].cell[Study!SPos(p)][Study!QPos(p) + 1] ELSE 0

\* The list holds a file of sz bytes, f.
StHolds(lst, sz, f) ==
  \A p \in Study!Positions :
    (study = "cache" => p < sz) =>
      /\ StByte(lst, p) = f[p]
      /\ study = "cache" => Study!Has(lst, p) /\ Study!QPos(p) < csize

\* What may have gone wrong with each device.
StWrong ==
  /\ study \in {"scull", "cache", "page"}
  /\ study = "scull" => wrong = {}
  /\ study = "cache" => wrong \subseteq {"semaphore", "twice", "hole", "moved array",
                                         "past the object", "no item", "trim"}
  /\ study = "page"  => wrong \subseteq {"past the pages", "no item", "no array"}

StGood == StTypes /\ StHolds(items, x_size, file)

StInv == StWrong /\ (wrong = {} => StGood)

\* There are four geometries.
LEMMA StGeometry ==
  ASSUME NEW g \in Study!Geometry
  PROVE  g.q \in {2, 4} /\ g.n \in {1, 2}
BY DEF Study!Geometry, Study!PAGE_SIZE

LEMMA StGeo ==
  ASSUME StTypes
  PROVE  x_geo \in Study!Geometry /\ x_geo.q \in Nat \ {0}
<1>1. x_geo \in Study!Geometry
  BY DEF StTypes
<1>. QED  BY <1>1, StGeometry

\* Where a position lies, and that it is the only one there.
LEMMA StPlace ==
  ASSUME x_geo \in Study!Geometry, NEW p \in Nat
  PROVE  /\ Study!Item(p) \in Nat /\ Study!SPos(p) \in 0..3 /\ Study!QPos(p) \in 0..x_geo.q - 1
         /\ p = Study!Item(p) * (x_geo.q * x_geo.n) + Study!SPos(p) * x_geo.q + Study!QPos(p)
<1>1. CASE x_geo.q = 2 /\ x_geo.n = 1
  BY <1>1, SMT DEF Study!Item, Study!SPos, Study!QPos
<1>2. CASE x_geo.q = 2 /\ x_geo.n = 2
  BY <1>2, SMT DEF Study!Item, Study!SPos, Study!QPos
<1>3. CASE x_geo.q = 4 /\ x_geo.n = 1
  BY <1>3, SMT DEF Study!Item, Study!SPos, Study!QPos
<1>4. CASE x_geo.q = 4 /\ x_geo.n = 2
  BY <1>4, SMT DEF Study!Item, Study!SPos, Study!QPos
<1>. QED  BY <1>1, <1>2, <1>3, <1>4, StGeometry

\* The positions that follow one in its quantum.
LEMMA StSpan ==
  ASSUME x_geo \in Study!Geometry, NEW p \in Nat, NEW x \in Nat, NEW k \in Nat,
         Study!QPos(p) + k <= x_geo.q
  PROVE  x \in p..p + k - 1 <=>
           /\ Study!Item(x) = Study!Item(p) /\ Study!SPos(x) = Study!SPos(p)
           /\ Study!QPos(x) \in Study!QPos(p)..Study!QPos(p) + k - 1
<1>. DEFINE Same == /\ Study!Item(x) = Study!Item(p) /\ Study!SPos(x) = Study!SPos(p)
                    /\ Study!QPos(x) \in Study!QPos(p)..Study!QPos(p) + k - 1
<1>1. Same => x \in p..p + k - 1
  <2>. HAVE Same
  <2>1. x - p = Study!QPos(x) - Study!QPos(p)
    <3>1. CASE x_geo.q = 2 /\ x_geo.n = 1
      BY <3>1, SMT DEF Study!Item, Study!SPos, Study!QPos
    <3>2. CASE x_geo.q = 2 /\ x_geo.n = 2
      BY <3>2, SMT DEF Study!Item, Study!SPos, Study!QPos
    <3>3. CASE x_geo.q = 4 /\ x_geo.n = 1
      BY <3>3, SMT DEF Study!Item, Study!SPos, Study!QPos
    <3>4. CASE x_geo.q = 4 /\ x_geo.n = 2
      BY <3>4, SMT DEF Study!Item, Study!SPos, Study!QPos
    <3>. QED  BY <3>1, <3>2, <3>3, <3>4, StGeometry
  <2>. QED  BY <2>1, StPlace, StGeometry
<1>2. x \in p..p + k - 1 => Same
  <2>1. CASE x_geo.q = 2 /\ x_geo.n = 1
    BY <2>1, SMT DEF Study!Item, Study!SPos, Study!QPos
  <2>2. CASE x_geo.q = 2 /\ x_geo.n = 2
    BY <2>2, SMT DEF Study!Item, Study!SPos, Study!QPos
  <2>3. CASE x_geo.q = 4 /\ x_geo.n = 1
    BY <2>3, SMT DEF Study!Item, Study!SPos, Study!QPos
  <2>4. CASE x_geo.q = 4 /\ x_geo.n = 2
    BY <2>4, SMT DEF Study!Item, Study!SPos, Study!QPos
  <2>. QED  BY <2>1, <2>2, <2>3, <2>4, StGeometry
<1>. QED  BY <1>1, <1>2

\* A list with the same bytes at the same positions as another one.
StSame(lst, new) ==
  \A x \in Nat : /\ Study!Has(new, x) <=> Study!Has(lst, x)
                 /\ StByte(new, x) = StByte(lst, x)

\* An array without quanta.
LEMMA StArrayType ==
  ASSUME NEW len \in Nat
  PROVE  /\ Study!Array(len) \in StItem /\ Study!Array(len).len = len
         /\ \A s \in 0..3 : Study!Array(len).cell[s] = <<>>
BY DEF Study!Array, StItem

\* The items that a search adds are empty.
LEMMA StFollow ==
  ASSUME StTypes, NEW n \in Nat, NEW lst \in Study!follow(n)
  PROVE  StList(lst) /\ StSame(items, lst)
<1>1. PICK e \in 0..(IF n < Len(items) THEN 0 ELSE n + 1 - Len(items)), a \in Study!FirstItem :
        lst = Study!Longer(e, a)
  BY DEF Study!follow
<1>. DEFINE more == [k \in 1..e |-> IF k = 1 /\ items = <<>> THEN a ELSE Study!NoArray]
<1>2. items \in Seq(StItem) /\ Len(items) \in Nat /\ e \in Nat
  BY <1>1 DEF StTypes, StList
<1>3. x_param.q \in Nat
  BY StGeometry DEF StTypes
<1>4. /\ a \in StItem /\ Study!NoArray \in StItem
      /\ \A s \in 0..3 : a.cell[s] = <<>> /\ Study!NoArray.cell[s] = <<>>
  BY <1>3, StArrayType DEF Study!FirstItem, Study!NoArray
<1>5. more \in Seq(StItem) /\ Len(more) = e
  BY <1>2, <1>4
<1>6. \A k \in 1..e : \A s \in 0..3 : more[k].cell[s] = <<>>
  BY <1>4
<1>. HIDE DEF more
<1>7. /\ lst \in Seq(StItem) /\ Len(lst) = Len(items) + e
      /\ \A i \in 1..Len(items) : lst[i] = items[i]
      /\ \A i \in Len(items) + 1..Len(items) + e : lst[i] = more[i - Len(items)]
  BY <1>1, <1>2, <1>5 DEF more, Study!Longer
<1>8. \A i \in Len(items) + 1..Len(items) + e : \A s \in 0..3 : lst[i].cell[s] = <<>>
  <2>. TAKE i \in Len(items) + 1..Len(items) + e
  <2>1. i - Len(items) \in 1..e /\ lst[i] = more[i - Len(items)]
    BY <1>2, <1>7
  <2>. QED  BY <2>1, <1>6
<1>9. StList(lst)
  <2>. SUFFICES ASSUME NEW i \in 1..Len(lst), NEW s \in 0..3, lst[i].cell[s] # <<>>
                PROVE  Len(lst[i].cell[s]) = StRoom
    BY <1>7 DEF StList
  <2>1. i \in 1..Len(items)
    BY <1>2, <1>7, <1>8
  <2>. QED  BY <2>1, <1>7 DEF StTypes, StList
<1>10. ASSUME NEW x \in Nat
       PROVE  (Study!Has(lst, x) <=> Study!Has(items, x)) /\ StByte(lst, x) = StByte(items, x)
  <2>1. Study!Item(x) \in Nat /\ Study!SPos(x) \in 0..3
    BY StPlace DEF StTypes
  <2>2. CASE Study!Item(x) < Len(items)
    <3>1. lst[Study!Item(x) + 1] = items[Study!Item(x) + 1]
      BY <2>1, <2>2, <1>2, <1>7
    <3>. QED  BY <3>1, <2>1, <2>2, <1>2, <1>7 DEF Study!Has, StByte
  <2>3. CASE ~ Study!Item(x) < Len(items)
    <3>1. ~ Study!Has(lst, x)
      BY <2>1, <2>3, <1>2, <1>7, <1>8 DEF Study!Has
    <3>. QED  BY <3>1, <2>3 DEF Study!Has, StByte
  <2>. QED  BY <2>2, <2>3
<1>. QED  BY <1>9, <1>10 DEF StSame

\* So is the array that a write makes.
LEMMA StArrayed ==
  ASSUME StTypes, NEW lst, StList(lst), NEW p \in Nat, Study!Item(p) < Len(lst)
  PROVE  LET new == Study!WithArray(lst, p)
         IN  /\ StList(new) /\ StSame(lst, new) /\ Len(new) = Len(lst)
             /\ new[Study!Item(p) + 1].len > 0
<1>. DEFINE new == Study!WithArray(lst, p)  i == Study!Item(p) + 1
<1>1. x_geo.n \in 1..2 /\ Study!Item(p) \in Nat
  BY StGeometry, StPlace DEF StTypes
<1>2. lst \in Seq(StItem) /\ Len(lst) \in Nat /\ i \in 1..Len(lst)
  BY <1>1 DEF StList
<1>3. lst[i] \in StItem
  BY <1>2
<1>4. CASE lst[i].len > 0
  <2>1. new = lst
    BY <1>4 DEF Study!WithArray
  <2>. QED  BY <2>1, <1>4 DEF StSame
<1>5. CASE ~ lst[i].len > 0
  <2>1. new = [lst EXCEPT ![i] = Study!Array(x_geo.n)]
    BY <1>5 DEF Study!WithArray
  <2>2. /\ new \in Seq(StItem) /\ Len(new) = Len(lst) /\ new[i] = Study!Array(x_geo.n)
        /\ \A j \in 1..Len(lst) : j # i => new[j] = lst[j]
    BY <2>1, <1>1, <1>2, StArrayType
  <2>. HIDE DEF new
  <2>3. \A s \in 0..3 : new[i].cell[s] = <<>>
    BY <2>2, <1>1, StArrayType
  <2>4. StList(new)
    BY <2>2, <2>3 DEF StList
  <2>5. new[i].len > 0
    BY <2>2, <1>1, StArrayType
  <2>6. ASSUME NEW x \in Nat
        PROVE  (Study!Has(new, x) <=> Study!Has(lst, x)) /\ StByte(new, x) = StByte(lst, x)
    <3>1. Study!Item(x) \in Nat /\ Study!SPos(x) \in 0..3
      BY StPlace DEF StTypes
    <3>2. CASE Study!Item(x) + 1 = i
      <4>1. ~ Study!Has(new, x) /\ ~ Study!Has(lst, x)
        BY <3>1, <3>2, <2>3, <1>5 DEF Study!Has
      <4>. QED  BY <4>1 DEF StByte
    <3>3. CASE Study!Item(x) + 1 # i
      BY <3>1, <3>3, <2>2, <1>2 DEF Study!Has, StByte
    <3>. QED  BY <3>2, <3>3
  <2>. QED  BY <2>2, <2>4, <2>5, <2>6 DEF StSame, new
<1>. QED  BY <1>4, <1>5

\* A new quantum of scull and scull_page is zeroed, as its bytes were; in
\* any device the bytes that were there stay.
LEMMA StQuantumed ==
  ASSUME StTypes, NEW lst, StList(lst), NEW p \in Nat,
         Study!Item(p) < Len(lst), lst[Study!Item(p) + 1].len > 0
  PROVE  LET new == Study!WithQuantum(lst, p)
         IN  /\ StList(new) /\ Len(new) = Len(lst) /\ Study!Has(new, p)
             /\ \A x \in Nat :
                  /\ Study!Has(lst, x) => Study!Has(new, x)
                  /\ (study = "cache" => Study!Has(lst, x)) => StByte(new, x) = StByte(lst, x)
<1>. DEFINE new == Study!WithQuantum(lst, p)  i == Study!Item(p) + 1  s == Study!SPos(p)
            zero == IF study = "cache" THEN [b \in 1..csize |-> Study!Junk]
                                       ELSE [b \in 1..x_geo.q |-> 0]
<1>1. x_geo.q \in Nat \ {0} /\ csize \in Nat \ {0} /\ Study!Item(p) \in Nat /\ s \in 0..3
  <2>1. x_geo \in Study!Geometry /\ csize \in Nat \ {0}
    BY DEF StTypes
  <2>2. x_geo.q \in {2, 4}
    BY <2>1, StGeometry
  <2>3. Study!Item(p) \in Nat /\ Study!SPos(p) \in 0..3
    BY <2>1, StPlace
  <2>. QED  BY <2>1, <2>2, <2>3
<1>2. lst \in Seq(StItem) /\ Len(lst) \in Nat /\ i \in 1..Len(lst)
  BY <1>1 DEF StList
<1>3. lst[i] \in StItem
  BY <1>2
<1>4. CASE lst[i].cell[s] # <<>>
  <2>1. new = lst
    BY <1>4 DEF Study!WithQuantum
  <2>2. Study!Has(lst, p)
    BY <1>4, <1>1 DEF Study!Has
  <2>. QED  BY <2>1, <2>2
<1>5. CASE lst[i].cell[s] = <<>>
  <2>1. new = [lst EXCEPT ![i].cell[s] = zero]
    BY <1>5 DEF Study!WithQuantum
  <2>2. zero \in Seq(Nat) /\ Len(zero) = StRoom /\ StRoom \in Nat \ {0}
    BY <1>1 DEF StRoom, Study!Junk
  <2>3. zero # <<>>
    <3>. SUFFICES ASSUME zero = <<>>
                  PROVE  FALSE
      OBVIOUS
    <3>1. Len(zero) = 0
      OBVIOUS
    <3>. QED  BY <3>1, <2>2
  <2>4. study # "cache" => \A b \in 1..x_geo.q : zero[b] = 0
    OBVIOUS
  <2>. HIDE DEF zero
  <2>5. /\ new \in Seq(StItem) /\ Len(new) = Len(lst)
        /\ new[i].len = lst[i].len /\ new[i].cell = [lst[i].cell EXCEPT ![s] = zero]
        /\ \A j \in 1..Len(lst) : j # i => new[j] = lst[j]
    <3>. DEFINE row == [lst[i] EXCEPT !.cell[s] = zero]
    <3>1. new = [lst EXCEPT ![i] = row]
      BY <2>1
    <3>2. /\ row \in StItem /\ row.len = lst[i].len
          /\ row.cell = [lst[i].cell EXCEPT ![s] = zero]
      BY <2>2, <1>1, <1>3 DEF StItem
    <3>. HIDE DEF row, new
    <3>. QED  BY <3>1, <3>2, <1>2
  <2>. HIDE DEF new
  <2>6. new[i].cell[s] = zero /\ \A r \in 0..3 : r # s => new[i].cell[r] = lst[i].cell[r]
    BY <2>5, <1>1, <1>3 DEF StItem
  <2>7. StList(new)
    <3>. SUFFICES ASSUME NEW j \in 1..Len(new), NEW r \in 0..3, new[j].cell[r] # <<>>
                  PROVE  Len(new[j].cell[r]) = StRoom
      BY <2>5 DEF StList
    <3>1. CASE j = i /\ r = s
      BY <3>1, <2>2, <2>6
    <3>2. CASE j = i /\ r # s
      BY <3>2, <2>6, <1>2 DEF StList
    <3>3. CASE j # i
      BY <3>3, <2>5 DEF StList
    <3>. QED  BY <3>1, <3>2, <3>3
  <2>8. Study!Has(new, p)
    BY <2>3, <2>5, <2>6, <1>1 DEF Study!Has
  <2>9. ASSUME NEW x \in Nat
        PROVE  /\ Study!Has(lst, x) => Study!Has(new, x)
               /\ (study = "cache" => Study!Has(lst, x)) => StByte(new, x) = StByte(lst, x)
    <3>1. /\ Study!Item(x) \in Nat /\ Study!SPos(x) \in 0..3
          /\ Study!QPos(x) \in 0..x_geo.q - 1
      BY StPlace DEF StTypes
    <3>2. CASE Study!Item(x) + 1 # i
      <4>1. Study!Has(lst, x) <=> Study!Has(new, x)
        BY <3>1, <3>2, <2>5, <1>2 DEF Study!Has
      <4>2. StByte(new, x) = StByte(lst, x)
        BY <4>1, <3>1, <3>2, <2>5, <1>2 DEF StByte, Study!Has
      <4>. QED  BY <4>1, <4>2
    <3>3. CASE Study!Item(x) + 1 = i /\ Study!SPos(x) # s
      <4>1. Study!Has(lst, x) <=> Study!Has(new, x)
        BY <3>1, <3>3, <2>5, <2>6, <1>2 DEF Study!Has
      <4>2. StByte(new, x) = StByte(lst, x)
        BY <4>1, <3>1, <3>3, <2>6 DEF StByte
      <4>. QED  BY <4>1, <4>2
    <3>4. CASE Study!Item(x) + 1 = i /\ Study!SPos(x) = s
      <4>1. ~ Study!Has(lst, x)
        BY <3>4, <1>5 DEF Study!Has
      <4>2. study # "cache" => StByte(new, x) = 0
        BY <3>1, <3>4, <2>4, <2>6, <1>1 DEF StByte
      <4>. QED  BY <4>1, <4>2 DEF StByte
    <3>. QED  BY <3>2, <3>3, <3>4
  <2>. QED  BY <2>5, <2>7, <2>8, <2>9 DEF new
<1>. QED  BY <1>4, <1>5

\* The bytes copied are at the positions of the call, and no other moves.
LEMMA StFilled ==
  ASSUME StTypes, NEW lst, StList(lst), NEW p \in Nat, Study!Has(lst, p),
         NEW k \in Nat, NEW v \in Nat,
         Study!QPos(p) + k <= x_geo.q, Study!QPos(p) + k <= StRoom
  PROVE  LET new == Study!Fill(lst, p, Study!QPos(p), k, v)
         IN  /\ StList(new)
             /\ \A x \in Nat :
                  /\ Study!Has(lst, x) => Study!Has(new, x)
                  /\ IF x \in p..p + k - 1
                     THEN Study!Has(new, x) /\ Study!QPos(x) < StRoom /\ StByte(new, x) = v
                     ELSE Study!QPos(x) < StRoom => StByte(new, x) = StByte(lst, x)
<1>. DEFINE o == Study!QPos(p)  i == Study!Item(p) + 1  s == Study!SPos(p)
            new == Study!Fill(lst, p, o, k, v)
            q == lst[i].cell[s]
            full == [b \in DOMAIN q |-> IF b - 1 \in o..o + k - 1 THEN v ELSE q[b]]
<1>1. /\ Study!Item(p) \in Nat /\ s \in 0..3 /\ o \in Nat /\ x_geo.q \in Nat
      /\ Study!Item(p) < Len(lst) /\ lst[i].len > 0 /\ q # <<>>
  BY StGeometry, StPlace DEF StTypes, Study!Has
<1>2. lst \in Seq(StItem) /\ Len(lst) \in Nat /\ i \in 1..Len(lst)
  BY <1>1 DEF StList
<1>3. lst[i] \in StItem
  BY <1>2
<1>4. q \in Seq(Nat) /\ Len(q) = StRoom /\ StRoom \in Nat
  BY <1>1, <1>2, <1>3 DEF StList, StItem, StTypes, StRoom
<1>5. new = [lst EXCEPT ![i].cell[s] = full]
  BY DEF Study!Fill
<1>6. full \in Seq(Nat) /\ Len(full) = StRoom
  <2>1. DOMAIN q = 1..StRoom /\ \A b \in 1..StRoom : q[b] \in Nat
    BY <1>4
  <2>. HIDE DEF q
  <2>2. full = [b \in 1..StRoom |-> IF b - 1 \in o..o + k - 1 THEN v ELSE q[b]]
    BY <2>1
  <2>3. \A b \in 1..StRoom : (IF b - 1 \in o..o + k - 1 THEN v ELSE q[b]) \in Nat
    BY <2>1
  <2>. HIDE DEF full
  <2>. QED  BY <2>2, <2>3, <1>4
<1>7. \A b \in 1..StRoom : full[b] = IF b - 1 \in o..o + k - 1 THEN v ELSE q[b]
  BY <1>4
<1>8. full # <<>>
  <2>. SUFFICES ASSUME full = <<>>
                PROVE  FALSE
    OBVIOUS
  <2>1. Len(full) = 0 /\ Len(q) = 0
    BY <1>4, <1>6
  <2>. QED  BY <2>1, <1>1, <1>4
<1>. HIDE DEF full, q
<1>9. /\ new \in Seq(StItem) /\ Len(new) = Len(lst)
      /\ new[i].len = lst[i].len /\ new[i].cell = [lst[i].cell EXCEPT ![s] = full]
      /\ \A j \in 1..Len(lst) : j # i => new[j] = lst[j]
  <2>. DEFINE row == [lst[i] EXCEPT !.cell[s] = full]
  <2>1. new = [lst EXCEPT ![i] = row]
    BY <1>5
  <2>2. /\ row \in StItem /\ row.len = lst[i].len
        /\ row.cell = [lst[i].cell EXCEPT ![s] = full]
    BY <1>6, <1>1, <1>3 DEF StItem
  <2>. HIDE DEF row, new
  <2>. QED  BY <2>1, <2>2, <1>2
<1>. HIDE DEF new
<1>10. new[i].cell[s] = full /\ \A r \in 0..3 : r # s => new[i].cell[r] = lst[i].cell[r]
  BY <1>9, <1>1, <1>3 DEF StItem
<1>11. StList(new)
  <2>. SUFFICES ASSUME NEW j \in 1..Len(new), NEW r \in 0..3, new[j].cell[r] # <<>>
                PROVE  Len(new[j].cell[r]) = StRoom
    BY <1>9 DEF StList
  <2>1. CASE j = i /\ r = s
    BY <2>1, <1>6, <1>10
  <2>2. CASE j = i /\ r # s
    BY <2>2, <1>2, <1>10 DEF StList
  <2>3. CASE j # i
    BY <2>3, <1>9 DEF StList
  <2>. QED  BY <2>1, <2>2, <2>3
<1>12. ASSUME NEW x \in Nat
       PROVE  /\ Study!Has(lst, x) <=> Study!Has(new, x)
              /\ IF x \in p..p + k - 1
                 THEN Study!Has(new, x) /\ Study!QPos(x) < StRoom /\ StByte(new, x) = v
                 ELSE Study!QPos(x) < StRoom => StByte(new, x) = StByte(lst, x)
  <2>1. /\ Study!Item(x) \in Nat /\ Study!SPos(x) \in 0..3 /\ Study!QPos(x) \in Nat
        /\ Study!QPos(x) < x_geo.q
    BY StPlace, StGeometry DEF StTypes
  <2>2. x \in p..p + k - 1 <=>
          /\ Study!Item(x) = Study!Item(p) /\ Study!SPos(x) = s
          /\ Study!QPos(x) \in o..o + k - 1
    BY StSpan DEF StTypes
  <2>3. CASE Study!Item(x) # Study!Item(p)
    <3>1. Study!Item(x) + 1 # i
      BY <2>1, <2>3, <1>1
    <3>2. Study!Has(lst, x) <=> Study!Has(new, x)
      BY <3>1, <2>1, <1>9, <1>2 DEF Study!Has
    <3>3. StByte(new, x) = StByte(lst, x)
      BY <3>1, <3>2, <2>1, <1>9, <1>2 DEF StByte, Study!Has
    <3>. QED  BY <3>2, <3>3, <2>2, <2>3
  <2>4. CASE Study!Item(x) = Study!Item(p) /\ Study!SPos(x) # s
    <3>1. Study!Has(lst, x) <=> Study!Has(new, x)
      BY <2>1, <2>4, <1>9, <1>10, <1>2 DEF Study!Has
    <3>2. StByte(new, x) = StByte(lst, x)
      BY <3>1, <2>1, <2>4, <1>10 DEF StByte
    <3>. QED  BY <3>1, <3>2, <2>2, <2>4
  <2>5. CASE Study!Item(x) = Study!Item(p) /\ Study!SPos(x) = s
    <3>1. Study!Has(lst, x) /\ Study!Has(new, x)
      BY <2>5, <1>1, <1>8, <1>9, <1>10 DEF Study!Has, q
    <3>2. StByte(new, x) = full[Study!QPos(x) + 1] /\ StByte(lst, x) = q[Study!QPos(x) + 1]
      BY <3>1, <2>5, <1>10 DEF StByte, q
    <3>3. CASE Study!QPos(x) \in o..o + k - 1
      <4>1. Study!QPos(x) < StRoom
        BY <3>3, <1>1, <1>4, <2>1
      <4>2. full[Study!QPos(x) + 1] = v
        BY <4>1, <3>3, <2>1, <1>4, <1>7
      <4>. QED  BY <4>1, <4>2, <3>1, <3>2, <3>3, <2>2, <2>5
    <3>4. CASE Study!QPos(x) \notin o..o + k - 1
      <4>1. Study!QPos(x) < StRoom => full[Study!QPos(x) + 1] = q[Study!QPos(x) + 1]
        BY <3>4, <2>1, <1>4, <1>7
      <4>. QED  BY <4>1, <3>1, <3>2, <3>4, <2>2
    <3>. QED  BY <3>3, <3>4
  <2>. QED  BY <2>3, <2>4, <2>5
<1>. QED  BY <1>11, <1>12 DEF new

\* The file after v has been copied to k bytes from p on.
StPut(p, k, v) == [x \in Study!Positions |-> IF x \in p..p + k - 1 THEN v ELSE file[x]]

\* What a call that copies k bytes leaves: the file with these bytes, of
\* the old size or, where the file had no gap before p, up to their end.
LEMMA StWritten ==
  ASSUME StGood, NEW p \in Nat, NEW n \in Nat, NEW lst \in Study!follow(n),
         Study!Item(p) < Len(lst), NEW k \in Nat, NEW v \in Nat, NEW sz \in Nat,
         Study!QPos(p) + k <= x_geo.q, Study!QPos(p) + k <= StRoom,
         study = "cache" =>
           \/ sz = x_size
           \/ p <= x_size /\ sz = IF p + k > x_size THEN p + k ELSE x_size
  PROVE  LET there == Study!WithQuantum(Study!WithArray(lst, p), p)
             new == Study!Fill(there, p, Study!QPos(p), k, v)
         IN  StList(new) /\ StHolds(new, sz, StPut(p, k, v))
<1>. DEFINE arr == Study!WithArray(lst, p)
            there == Study!WithQuantum(arr, p)
            new == Study!Fill(there, p, Study!QPos(p), k, v)
<1>1. StTypes /\ StHolds(items, x_size, file)
  BY DEF StGood
<1>2. StList(lst) /\ StSame(items, lst)
  BY <1>1, StFollow
<1>3. /\ StList(arr) /\ StSame(lst, arr) /\ Len(arr) = Len(lst)
      /\ arr[Study!Item(p) + 1].len > 0
  BY <1>1, <1>2, StArrayed
<1>. HIDE DEF arr
<1>4. /\ StList(there) /\ Study!Has(there, p)
      /\ \A x \in Nat :
           /\ Study!Has(arr, x) => Study!Has(there, x)
           /\ (study = "cache" => Study!Has(arr, x)) => StByte(there, x) = StByte(arr, x)
  BY <1>1, <1>3, StQuantumed
<1>. HIDE DEF there
<1>5. /\ StList(new)
      /\ \A x \in Nat :
           /\ Study!Has(there, x) => Study!Has(new, x)
           /\ IF x \in p..p + k - 1
              THEN Study!Has(new, x) /\ Study!QPos(x) < StRoom /\ StByte(new, x) = v
              ELSE Study!QPos(x) < StRoom => StByte(new, x) = StByte(there, x)
  BY <1>1, <1>4, StFilled
<1>. HIDE DEF new
<1>6. ASSUME NEW x \in Study!Positions, study = "cache" => x < sz
      PROVE  /\ StByte(new, x) = StPut(p, k, v)[x]
             /\ study = "cache" => Study!Has(new, x) /\ Study!QPos(x) < csize
  <2>0. x \in Nat /\ x_size \in Nat
    BY <1>1, StudiedAssumption DEF Study!Positions, StTypes
  <2>1. CASE x \in p..p + k - 1
    BY <2>0, <2>1, <1>5 DEF StPut, StRoom
  <2>2. CASE x \notin p..p + k - 1
    <3>1. study = "cache" => x < x_size
      BY <1>6, <2>0, <2>2
    <3>2. /\ StByte(items, x) = file[x]
          /\ study = "cache" => Study!Has(items, x) /\ Study!QPos(x) < csize
      BY <3>1, <1>1 DEF StHolds
    <3>3. Study!QPos(x) < StRoom
      <4>1. x_geo.q \in Nat /\ Study!QPos(x) \in 0..x_geo.q - 1
        BY <2>0, <1>1, StGeo, StPlace
      <4>. QED  BY <4>1, <3>2 DEF StRoom
    <3>4. (Study!Has(arr, x) <=> Study!Has(items, x)) /\ StByte(arr, x) = StByte(items, x)
      BY <2>0, <1>2, <1>3 DEF StSame
    <3>5. study = "cache" => Study!Has(new, x)
      BY <2>0, <3>2, <3>4, <1>4, <1>5
    <3>6. StByte(new, x) = file[x]
      BY <2>0, <2>2, <3>2, <3>3, <3>4, <1>4, <1>5
    <3>7. StPut(p, k, v)[x] = file[x]
      BY <2>2 DEF StPut
    <3>. QED  BY <3>2, <3>5, <3>6, <3>7
  <2>. QED  BY <2>1, <2>2
<1>. QED  BY <1>5, <1>6 DEF StHolds, new, there, arr

\* What a call leaves that got no further than to make items or an array.
LEMMA StMade ==
  ASSUME StGood, NEW p \in Nat, NEW n \in Nat, NEW lst \in Study!follow(n), NEW v \in Nat
  PROVE  /\ StList(lst) /\ StHolds(lst, x_size, StPut(p, 0, v)) /\ StPut(p, 0, v) = file
         /\ Study!Item(p) < Len(lst) =>
              LET new == Study!WithArray(lst, p)
              IN  StList(new) /\ StHolds(new, x_size, StPut(p, 0, v))
<1>1. StTypes /\ StHolds(items, x_size, file)
  BY DEF StGood
<1>2. StPut(p, 0, v) = file
  BY <1>1 DEF StPut, StTypes
<1>3. StList(lst) /\ StSame(items, lst)
  BY <1>1, StFollow
<1>4. Study!Positions \subseteq Nat
  BY StudiedAssumption DEF Study!Positions
<1>5. ASSUME NEW new, StSame(items, new)
      PROVE  StHolds(new, x_size, file)
  BY <1>1, <1>4, <1>5 DEF StHolds, StSame
<1>6. ASSUME Study!Item(p) < Len(lst)
      PROVE  StList(Study!WithArray(lst, p)) /\ StSame(items, Study!WithArray(lst, p))
  <2>1. StList(Study!WithArray(lst, p)) /\ StSame(lst, Study!WithArray(lst, p))
    BY <1>1, <1>3, <1>6, StArrayed
  <2>. QED  BY <2>1, <1>3 DEF StSame
<1>. QED  BY <1>2, <1>3, <1>5, <1>6

\* The next state, from what a call leaves.
LEMMA StNextGood ==
  ASSUME StTypes, StList(items'), x_size' \in Nat,
         file' \in [Study!Positions -> Nat], StHolds(items', x_size', file'),
         UNCHANGED <<study, x_geo, x_param, csize>>
  PROVE  StGood'
<1>1. StTypes'
  BY DEF StTypes, StList, StRoom, Study!Geometry, Study!Positions
<1>2. StHolds(items, x_size, file)'
  BY DEF StHolds, StByte, Study!Has, Study!Item, Study!SPos, Study!QPos, Study!Positions
<1>. QED  BY <1>1, <1>2 DEF StGood

LEMMA StPutType ==
  ASSUME StTypes, NEW p, NEW k, NEW v \in Nat
  PROVE  StPut(p, k, v) \in [Study!Positions -> Nat]
BY DEF StPut, StTypes

\* A call that fails after k bytes, and one that succeeds.
LEMMA StFails ==
  ASSUME StGood, NEW lst, StList(lst), NEW p, NEW k, NEW v \in Nat,
         StHolds(lst, x_size, StPut(p, k, v)),
         Study!Fails(lst, p, k, v), UNCHANGED <<study, x_geo, x_param, csize>>
  PROVE  StGood'
<1>1. items' = lst /\ file' = StPut(p, k, v) /\ x_size' = x_size
  BY DEF Study!Fails, StPut
<1>. QED  BY <1>1, StNextGood, StPutType DEF StGood, StTypes

LEMMA StStore ==
  ASSUME StGood, NEW lst, StList(lst), NEW p \in Nat, NEW k \in Nat, NEW v \in Nat,
         StHolds(lst, IF p + k > x_size THEN p + k ELSE x_size, StPut(p, k, v)),
         Study!Store(lst, p, k, v), UNCHANGED <<study, x_geo, x_param, csize>>
  PROVE  StGood'
<1>1. /\ items' = lst /\ file' = StPut(p, k, v)
      /\ x_size' = IF p + k > x_size THEN p + k ELSE x_size
  BY DEF Study!Store, StPut
<1>2. x_size' \in Nat
  BY <1>1 DEF StGood, StTypes
<1>. QED  BY <1>1, <1>2, StNextGood, StPutType DEF StGood

-----------------------------------------------------------------------------
\* A copy is of a byte at least, and ends in the quantum.
LEMMA StLeast ==
  ASSUME StTypes, NEW p \in Nat, NEW cnt \in 1..MaxCount
  PROVE  LET k == Study!Least(cnt, x_geo.q - Study!QPos(p))
         IN  /\ k \in Nat /\ k <= cnt /\ k > 0
             /\ Study!QPos(p) \in Nat /\ Study!QPos(p) + k <= x_geo.q
<1>1. x_geo.q \in Nat /\ Study!QPos(p) \in 0..x_geo.q - 1
  BY StPlace, StGeo
<1>. QED  BY <1>1, StudiedAssumption DEF Study!Least

LEMMA StScullWrite ==
  ASSUME StGood, NEW p \in Study!Positions, NEW cnt \in 1..MaxCount, NEW v \in 1..2,
         Study!scull_write(p, cnt, v)
  PROVE  StGood'
<1>0. p \in Nat /\ v \in Nat /\ StTypes /\ StHolds(items, x_size, file)
  BY StudiedAssumption DEF Study!Positions, StGood
<1>1. study = "scull" /\ UNCHANGED <<study, x_geo, x_param, csize>>
  BY DEF Study!scull_write, Study!quiet
<1>2. PICK lst \in Study!follow(Study!Item(p)) :
        IF Study!Item(p) >= Len(lst) THEN Study!Fails(lst, p, 0, v)
        ELSE LET there == Study!WithQuantum(Study!WithArray(lst, p), p)
                 k == Study!Least(cnt, x_geo.q - Study!QPos(p))
             IN  \/ Study!Fails(lst, p, 0, v) \/ Study!Fails(Study!WithArray(lst, p), p, 0, v)
                 \/ \E d \in 0..k - 1 :
                      Study!Fails(Study!Fill(there, p, Study!QPos(p), d, v), p, d, v)
                 \/ Study!Store(Study!Fill(there, p, Study!QPos(p), k, v), p, k, v)
  BY DEF Study!scull_write
<1>. DEFINE there == Study!WithQuantum(Study!WithArray(lst, p), p)
            k == Study!Least(cnt, x_geo.q - Study!QPos(p))
            new(d) == Study!Fill(there, p, Study!QPos(p), d, v)
<1>3. Study!Item(p) \in Nat /\ StRoom = x_geo.q
  BY <1>0, <1>1, StPlace DEF StTypes, StRoom
<1>4. Len(lst) \in Nat
  BY <1>0, <1>3, StMade DEF StList
<1>5. CASE Study!Fails(lst, p, 0, v)
  BY <1>0, <1>1, <1>3, <1>5, StMade, StFails
<1>6. CASE Study!Item(p) < Len(lst) /\ Study!Fails(Study!WithArray(lst, p), p, 0, v)
  BY <1>0, <1>1, <1>3, <1>6, StMade, StFails
<1>7. k \in Nat /\ Study!QPos(p) \in Nat /\ Study!QPos(p) + k <= x_geo.q /\ x_geo.q \in Nat
  BY <1>0, StLeast, StGeo
<1>. HIDE DEF k
<1>8. ASSUME Study!Item(p) < Len(lst), NEW d \in 0..k - 1, Study!Fails(new(d), p, d, v)
      PROVE  StGood'
  <2>1. d \in Nat /\ Study!QPos(p) + d <= x_geo.q /\ x_size \in Nat
    BY <1>0, <1>7 DEF StTypes
  <2>2. StList(new(d)) /\ StHolds(new(d), x_size, StPut(p, d, v))
    BY <2>1, <1>0, <1>3, <1>8, StWritten
  <2>. QED  BY <2>1, <2>2, <1>0, <1>1, <1>8, StFails
<1>9. CASE Study!Item(p) < Len(lst) /\ Study!Store(new(k), p, k, v)
  <2>. DEFINE sz == IF p + k > x_size THEN p + k ELSE x_size
  <2>1. sz \in Nat
    BY <1>0, <1>7 DEF StTypes
  <2>2. StList(new(k)) /\ StHolds(new(k), sz, StPut(p, k, v))
    BY <2>1, <1>0, <1>1, <1>3, <1>7, <1>9, StWritten
  <2>. QED  BY <2>2, <1>0, <1>1, <1>7, <1>9, StStore
<1>. QED  BY <1>2, <1>3, <1>4, <1>5, <1>6, <1>8, <1>9 DEF k

LEMMA StCacheWrite ==
  ASSUME StGood, NEW p \in Study!Positions, NEW cnt \in 1..MaxCount, NEW v \in 1..2,
         wrong = {}, wrong' = {}, Study!scullc_write(p, cnt, v)
  PROVE  StGood'
<1>0. p \in Nat /\ v \in Nat /\ StTypes /\ StHolds(items, x_size, file)
  BY StudiedAssumption DEF Study!Positions, StGood
<1>. DEFINE first == Study!Least(cnt, x_geo.q - Study!QPos(p))
<1>1. /\ study = "cache" /\ UNCHANGED <<study, x_geo, x_param, csize>>
      /\ Study!QPos(p) + first <= csize
  BY DEF Study!scullc_write, Study!quiet
<1>2. PICK lst \in Study!follow(Study!Item(p)) :
       IF Study!Item(p) >= Len(lst) THEN Study!Fails(lst, p, 0, v) /\ UNCHANGED <<wrong, up>>
       ELSE LET there == Study!WithQuantum(Study!WithArray(lst, p), p)
                once  == Study!Fill(there, p, Study!QPos(p), first, v)
            IN  \/ /\ lst[Study!Item(p) + 1].len = 0
                   /\ Study!Fails(lst, p, 0, v) /\ up' = FALSE /\ Study!Spoils({"semaphore"})
                \/ Study!Fails(Study!WithArray(lst, p), p, 0, v) /\ UNCHANGED <<wrong, up>>
                \/ /\ \E d \in 0..first - 1 :
                        Study!Fails(Study!Fill(there, p, Study!QPos(p), d, v), p, d, v)
                   /\ UNCHANGED <<wrong, up>>
                \/ /\ \E d \in 0..cnt - first - 1 :
                        Study!Fails(Study!Fill(once, p, 0, d, v), p, first, v)
                   /\ Study!Spoils({"twice"}) /\ UNCHANGED up
                \/ /\ Study!Store(IF cnt = first THEN once
                                  ELSE Study!Fill(once, p, 0, cnt - first, v), p, cnt, v)
                   /\ Study!Spoils((IF cnt = first THEN {} ELSE {"twice"}) \cup
                                   (IF p > x_size THEN {"hole"} ELSE {}))
                   /\ UNCHANGED up
  BY DEF Study!scullc_write
<1>. DEFINE there == Study!WithQuantum(Study!WithArray(lst, p), p)
            new(d) == Study!Fill(there, p, Study!QPos(p), d, v)
<1>3. Study!Item(p) \in Nat /\ StRoom = csize /\ csize \in Nat /\ x_size \in Nat
  BY <1>0, <1>1, StPlace DEF StTypes, StRoom
<1>4. Len(lst) \in Nat
  BY <1>0, <1>3, StMade DEF StList
<1>5. CASE Study!Fails(lst, p, 0, v)
  BY <1>0, <1>1, <1>3, <1>5, StMade, StFails
<1>6. CASE Study!Item(p) < Len(lst) /\ Study!Fails(Study!WithArray(lst, p), p, 0, v)
  BY <1>0, <1>1, <1>3, <1>6, StMade, StFails
<1>7. /\ first \in Nat /\ Study!QPos(p) \in Nat /\ Study!QPos(p) + first <= x_geo.q
      /\ x_geo.q \in Nat
  BY <1>0, StLeast, StGeo
<1>. HIDE DEF first
<1>8. ASSUME Study!Item(p) < Len(lst), NEW d \in 0..first - 1, Study!Fails(new(d), p, d, v)
      PROVE  StGood'
  <2>1. d \in Nat /\ Study!QPos(p) + d <= x_geo.q /\ Study!QPos(p) + d <= StRoom
    BY <1>1, <1>3, <1>7
  <2>2. StList(new(d)) /\ StHolds(new(d), x_size, StPut(p, d, v))
    BY <2>1, <1>0, <1>3, <1>8, StWritten
  <2>. QED  BY <2>1, <2>2, <1>0, <1>1, <1>8, StFails
<1>9. CASE /\ Study!Item(p) < Len(lst) /\ cnt = first /\ p <= x_size
           /\ Study!Store(new(first), p, first, v)
  <2>. DEFINE sz == IF p + first > x_size THEN p + first ELSE x_size
  <2>1. sz \in Nat
    BY <1>0, <1>3, <1>7
  <2>2. StList(new(first)) /\ StHolds(new(first), sz, StPut(p, first, v))
    BY <2>1, <1>0, <1>1, <1>3, <1>7, <1>9, StWritten
  <2>. QED  BY <2>2, <1>0, <1>1, <1>7, <1>9, StStore
<1>10. ASSUME NEW why, Study!Spoils(why)
       PROVE  why = {}
  BY <1>10 DEF Study!Spoils
<1>11. CASE /\ Study!Store(IF cnt = first THEN new(first)
                           ELSE Study!Fill(new(first), p, 0, cnt - first, v), p, cnt, v)
            /\ Study!Spoils((IF cnt = first THEN {} ELSE {"twice"}) \cup
                            (IF p > x_size THEN {"hole"} ELSE {}))
            /\ Study!Item(p) < Len(lst)
  <2>1. (IF cnt = first THEN {} ELSE {"twice"}) \cup (IF p > x_size THEN {"hole"} ELSE {}) = {}
    BY <1>10, <1>11
  <2>2. cnt = first /\ ~ p > x_size
    BY <2>1
  <2>3. p <= x_size
    BY <2>2, <1>0, <1>3
  <2>. QED  BY <2>2, <2>3, <1>9, <1>11
<1>12. ~ Study!Spoils({"semaphore"}) /\ ~ Study!Spoils({"twice"})
  BY <1>10
<1>13. CASE Study!Item(p) >= Len(lst)
  BY <1>2, <1>13, <1>5
<1>14. CASE ~ Study!Item(p) >= Len(lst)
  <2>1. Study!Item(p) < Len(lst)
    BY <1>3, <1>4, <1>14
  <2>. QED  BY <2>1, <1>2, <1>5, <1>6, <1>8, <1>11, <1>12, <1>14
<1>. QED  BY <1>13, <1>14

LEMMA StPageWrite ==
  ASSUME StGood, NEW p \in Study!Positions, NEW cnt \in 1..MaxCount, NEW v \in 1..2,
         wrong' = {}, Study!scullp_write(p, cnt, v)
  PROVE  StGood'
<1>0. p \in Nat /\ v \in Nat /\ StTypes /\ StHolds(items, x_size, file)
  BY StudiedAssumption DEF Study!Positions, StGood
<1>1. study = "page" /\ Study!Item(p) = 0
  BY DEF Study!scullp_write
<1>2. PICK lst \in Study!follow(0) \ {<<>>} :
       LET there == Study!WithQuantum(Study!WithArray(lst, p), p)
       IN  \/ (Study!Fails(items, p, 0, v) \/ Study!Fails(lst, p, 0, v)
               \/ Study!Fails(Study!WithArray(lst, p), p, 0, v))
                /\ UNCHANGED <<Study!quiet, wrong, up>>
           \/ \E k \in Study!Clipped(cnt, Study!QPos(p)) :
                IF Study!QPos(p) + k > x_geo.q THEN Study!Wreck("past the pages")
                ELSE /\ \/ Study!Store(Study!Fill(there, p, Study!QPos(p), k, v), p, k, v)
                        \/ \E d \in 0..k - 1 :
                             Study!Fails(Study!Fill(there, p, Study!QPos(p), d, v), p, d, v)
                     /\ UNCHANGED <<Study!quiet, wrong, up>>
  BY DEF Study!scullp_write
<1>. DEFINE there == Study!WithQuantum(Study!WithArray(lst, p), p)
            new(d) == Study!Fill(there, p, Study!QPos(p), d, v)
            same == UNCHANGED <<study, x_geo, x_param, csize>>
<1>3. /\ StRoom = x_geo.q /\ x_geo.q \in Nat /\ x_size \in Nat
      /\ Study!QPos(p) \in Nat /\ Study!QPos(p) <= x_geo.q
  <2>1. x_geo.q \in Nat /\ Study!QPos(p) \in 0..x_geo.q - 1
    BY <1>0, StGeo, StPlace
  <2>. QED  BY <2>1, <1>0, <1>1 DEF StTypes, StRoom
<1>4. Len(lst) \in Nat /\ Study!Item(p) < Len(lst) /\ lst \in Study!follow(0)
  <2>1. lst \in Seq(StItem) /\ Len(lst) \in Nat
    BY <1>0, StMade DEF StList
  <2>2. ASSUME Len(lst) = 0
        PROVE  lst = <<>>
    BY <2>1, <2>2
  <2>3. lst \in Study!follow(0) /\ lst # <<>>
    OBVIOUS
  <2>. QED  BY <2>1, <2>2, <2>3, <1>1
<1>5. ASSUME same, Study!Fails(items, p, 0, v)
      PROVE  StGood'
  <2>1. StPut(p, 0, v) = file
    BY <1>0, <1>4, StMade
  <2>. QED  BY <2>1, <1>0, <1>5, StFails DEF StTypes
<1>6. ASSUME same, Study!Fails(lst, p, 0, v) \/ Study!Fails(Study!WithArray(lst, p), p, 0, v)
      PROVE  StGood'
  BY <1>0, <1>4, <1>6, StMade, StFails
<1>7. ASSUME NEW k \in Study!Clipped(cnt, Study!QPos(p))
      PROVE  k \in Nat
  BY <1>3, <1>7, StudiedAssumption DEF Study!Clipped, Study!Least, Study!PAGE_SIZE
<1>8. ~ Study!Wreck("past the pages")
  BY DEF Study!Wreck
<1>9. ASSUME same, NEW k \in Nat, Study!QPos(p) + k <= x_geo.q, Study!Store(new(k), p, k, v)
      PROVE  StGood'
  <2>. DEFINE sz == IF p + k > x_size THEN p + k ELSE x_size
  <2>1. sz \in Nat
    BY <1>0, <1>3
  <2>2. StList(new(k)) /\ StHolds(new(k), sz, StPut(p, k, v))
    BY <2>1, <1>0, <1>1, <1>3, <1>4, <1>9, StWritten
  <2>. QED  BY <2>2, <1>0, <1>9, StStore
<1>10. ASSUME same, NEW k \in Nat, Study!QPos(p) + k <= x_geo.q, NEW d \in 0..k - 1,
              Study!Fails(new(d), p, d, v)
       PROVE  StGood'
  <2>1. d \in Nat /\ Study!QPos(p) + d <= x_geo.q
    BY <1>3, <1>10
  <2>2. StList(new(d)) /\ StHolds(new(d), x_size, StPut(p, d, v))
    BY <2>1, <1>0, <1>1, <1>3, <1>4, StWritten
  <2>. QED  BY <2>1, <2>2, <1>0, <1>10, StFails
<1>11. CASE /\ \/ Study!Fails(items, p, 0, v) \/ Study!Fails(lst, p, 0, v)
               \/ Study!Fails(Study!WithArray(lst, p), p, 0, v)
            /\ UNCHANGED <<Study!quiet, wrong, up>>
  BY <1>5, <1>6, <1>11 DEF Study!quiet
<1>12. ASSUME NEW k \in Study!Clipped(cnt, Study!QPos(p)),
              IF Study!QPos(p) + k > x_geo.q THEN Study!Wreck("past the pages")
              ELSE /\ \/ Study!Store(new(k), p, k, v)
                      \/ \E d \in 0..k - 1 : Study!Fails(new(d), p, d, v)
                   /\ UNCHANGED <<Study!quiet, wrong, up>>
       PROVE  StGood'
  <2>1. k \in Nat
    BY <1>7
  <2>2. ~ Study!QPos(p) + k > x_geo.q
    BY <1>8, <1>12
  <2>3. Study!QPos(p) + k <= x_geo.q
    BY <2>1, <2>2, <1>3
  <2>4. same /\ (Study!Store(new(k), p, k, v) \/ \E d \in 0..k - 1 : Study!Fails(new(d), p, d, v))
    BY <2>2, <1>12 DEF Study!quiet
  <2>5. CASE Study!Store(new(k), p, k, v)
    BY <2>1, <2>3, <2>4, <2>5, <1>9
  <2>6. CASE \E d \in 0..k - 1 : Study!Fails(new(d), p, d, v)
    BY <2>1, <2>3, <2>4, <2>6, <1>10
  <2>. QED  BY <2>4, <2>5, <2>6
<1>. QED  BY <1>2, <1>11, <1>12

\* A page write beyond the first item: an item more at most.
LEMMA StPageLost ==
  ASSUME StGood, NEW p \in Study!Positions, wrong' = {}, Study!scullp_write_Lost(p)
  PROVE  StGood'
<1>0. p \in Nat /\ StTypes
  BY StudiedAssumption DEF Study!Positions, StGood
<1>1. ~ Study!Wreck("no item")
  BY DEF Study!Wreck
<1>2. PICK lst \in Study!follow(0) : Study!Fails(lst, p, 0, 0)
  BY <1>1 DEF Study!scullp_write_Lost
<1>3. UNCHANGED <<study, x_geo, x_param, csize>>
  BY <1>1 DEF Study!scullp_write_Lost, Study!quiet
<1>. QED  BY <1>0, <1>2, <1>3, StMade, StFails

\* A read of scull_cache may make items.
LEMMA StCacheRead ==
  ASSUME StGood, NEW p \in Study!Positions, NEW cnt, wrong' = {}, Study!scullc_read(p, cnt)
  PROVE  StGood'
<1>0. p \in Nat /\ StTypes /\ Study!Item(p) \in Nat
  BY StudiedAssumption, StGeo, StPlace DEF Study!Positions, StGood
<1>1. ~ Study!Wreck("no item")
  BY DEF Study!Wreck
<1>2. PICK lst \in Study!follow(Study!Item(p)) :
        items' = lst /\ UNCHANGED <<Study!quiet, x_size, file, wrong, up>>
  BY <1>1 DEF Study!scullc_read
<1>3. StList(lst) /\ StHolds(lst, x_size, file)
  BY <1>0, StMade
<1>. QED  BY <1>0, <1>2, <1>3, StNextGood DEF Study!quiet, StTypes

\* An open of scull_cache empties the device and takes the parameters over.
LEMMA StCacheOpen ==
  ASSUME StGood, wrong' = {}, Study!scullc_open
  PROVE  StGood'
<1>1. ~ Study!Wreck("trim")
  BY DEF Study!Wreck
<1>2. /\ study = "cache" /\ x_geo' = x_param /\ items' = <<>> /\ x_size' = 0
      /\ file' = [p \in Study!Positions |-> 0] /\ UNCHANGED <<study, x_param, csize>>
  BY <1>1 DEF Study!scullc_open
<1>3. StTypes'
  BY <1>2 DEF StGood, StTypes, StList, Study!Geometry, Study!Positions
<1>4. StHolds(items, x_size, file)'
  <2>1. \A p \in Study!Positions : ~ p < 0
    BY StudiedAssumption DEF Study!Positions
  <2>. QED  BY <2>1, <1>2 DEF StHolds, Study!Positions
<1>. QED  BY <1>3, <1>4 DEF StGood

LEMMA StIoctl ==
  ASSUME StGood, Study!Ioctl
  PROVE  StGood'
<1>1. x_param' \in Study!Geometry /\ UNCHANGED <<study, x_geo, csize, items, x_size, file>>
  BY DEF Study!Ioctl
<1>2. StTypes'
  BY <1>1 DEF StGood, StTypes, StList, StRoom, Study!Geometry, Study!Positions
<1>3. StHolds(items, x_size, file)'
  BY <1>1 DEF StGood, StHolds, StByte, Study!Has, Study!Item, Study!SPos, Study!QPos, Study!Positions
<1>. QED  BY <1>2, <1>3 DEF StGood

LEMMA StQuiet ==
  ASSUME StGood, UNCHANGED study_vars
  PROVE  StGood'
<1>1. /\ UNCHANGED <<study, x_geo, x_param, csize>>
      /\ items' = items /\ x_size' = x_size /\ file' = file
  BY DEF study_vars
<1>. QED  BY <1>1, StNextGood DEF StGood, StTypes

\* Each device's accidents are its own, and none is taken back.
LEMMA StWrongKept ==
  ASSUME StWrong, [Study!StudyNext]_study_vars
  PROVE  StWrong' /\ wrong \subseteq wrong'
<1>1. ASSUME NEW p \in Study!Positions, NEW cnt \in 1..MaxCount, NEW v \in 1..2
      PROVE  /\ Study!scull_write(p, cnt, v) => StWrong' /\ wrong \subseteq wrong'
             /\ Study!scullc_write(p, cnt, v) => StWrong' /\ wrong \subseteq wrong'
             /\ Study!scullp_write(p, cnt, v) => StWrong' /\ wrong \subseteq wrong'
  <2>1. ASSUME Study!scull_write(p, cnt, v)
        PROVE  StWrong' /\ wrong \subseteq wrong'
    <3>1. study' = study /\ wrong' = wrong
      BY <2>1 DEF Study!scull_write, Study!quiet
    <3>. QED  BY <3>1 DEF StWrong
  <2>2. ASSUME Study!scullc_write(p, cnt, v)
        PROVE  StWrong' /\ wrong \subseteq wrong'
    <3>1. study = "cache" /\ study' = study
      BY <2>2 DEF Study!scullc_write, Study!quiet
    <3>2. \/ wrong' = wrong
          \/ wrong' = wrong \cup {"semaphore"} \/ wrong' = wrong \cup {"twice"}
          \/ wrong' = wrong \cup {"hole"} \/ wrong' = wrong \cup {"twice", "hole"}
      BY <2>2, Zenon DEF Study!scullc_write, Study!Spoils
    <3>. QED  BY <3>1, <3>2 DEF StWrong
  <2>3. ASSUME Study!scullp_write(p, cnt, v)
        PROVE  StWrong' /\ wrong \subseteq wrong'
    <3>1. study = "page" /\ study' = study
          /\ (wrong' = wrong \/ wrong' = wrong \cup {"past the pages"})
      BY <2>3, Zenon DEF Study!scullp_write, Study!quiet, Study!Wreck
    <3>. QED  BY <3>1 DEF StWrong
  <2>. QED  BY <2>1, <2>2, <2>3
<1>2. ASSUME NEW p \in Study!Positions, NEW cnt \in 1..MaxCount,
             Study!scullc_write_Wrecks(p, cnt) \/ Study!scullc_read(p, cnt)
      PROVE  StWrong' /\ wrong \subseteq wrong'
  <2>1. /\ study = "cache" /\ study' = study
        /\ \/ wrong' = wrong \/ wrong' = wrong \cup {"moved array"}
           \/ wrong' = wrong \cup {"past the object"} \/ wrong' = wrong \cup {"no item"}
    BY <1>2, Zenon DEF Study!scullc_write_Wrecks, Study!scullc_read, Study!quiet, Study!Wreck
  <2>. QED  BY <2>1 DEF StWrong
<1>3. ASSUME NEW p \in Study!Positions, Study!scullp_write_Lost(p) \/ Study!scullp_read(p)
      PROVE  StWrong' /\ wrong \subseteq wrong'
  <2>1. /\ study = "page" /\ study' = study
        /\ \/ wrong' = wrong \/ wrong' = wrong \cup {"no array"}
           \/ wrong' = wrong \cup {"no item"}
    BY <1>3, Zenon DEF Study!scullp_write_Lost, Study!scullp_read, Study!quiet, Study!Wreck
  <2>. QED  BY <2>1 DEF StWrong
<1>4. ASSUME Study!scull_open \/ Study!Ioctl \/ UNCHANGED study_vars
      PROVE  StWrong' /\ wrong \subseteq wrong'
  <2>1. study' = study /\ wrong' = wrong
    BY <1>4 DEF Study!scull_open, Study!Ioctl, Study!study_vars, study_vars
  <2>. QED  BY <2>1 DEF StWrong
<1>5. ASSUME Study!scullc_open
      PROVE  StWrong' /\ wrong \subseteq wrong'
  <2>1. study = "cache" /\ study' = study /\ (wrong' = wrong \/ wrong' = wrong \cup {"trim"})
    BY <1>5 DEF Study!scullc_open, Study!Wreck
  <2>. QED  BY <2>1 DEF StWrong
<1>. QED  BY <1>1, <1>2, <1>3, <1>4, <1>5 DEF Study!StudyNext

LEMMA StStep == StInv /\ [Study!StudyNext]_study_vars => StInv'
<1>. SUFFICES ASSUME StInv, [Study!StudyNext]_study_vars
              PROVE  StInv'
  OBVIOUS
<1>1. StWrong' /\ wrong \subseteq wrong'
  BY StWrongKept DEF StInv
<1>2. ASSUME wrong' = {}
      PROVE  StGood'
  <2>1. wrong = {} /\ StGood
    BY <1>1, <1>2 DEF StInv
  <2>2. ASSUME NEW p \in Study!Positions, NEW cnt \in 1..MaxCount, NEW v \in 1..2,
               \/ Study!scull_write(p, cnt, v) \/ Study!scullc_write(p, cnt, v)
               \/ Study!scullp_write(p, cnt, v)
        PROVE  StGood'
    BY <1>2, <2>1, <2>2, StScullWrite, StCacheWrite, StPageWrite
  <2>3. ASSUME NEW p \in Study!Positions, NEW cnt \in 1..MaxCount
        PROVE  ~ Study!scullc_write_Wrecks(p, cnt)
    BY <1>2 DEF Study!scullc_write_Wrecks, Study!Wreck
  <2>4. ASSUME NEW p \in Study!Positions
        PROVE  ~ Study!scullp_read(p)
    BY <1>2 DEF Study!scullp_read, Study!Wreck
  <2>5. CASE Study!scull_open \/ UNCHANGED study_vars
    BY <2>1, <2>5, StQuiet DEF Study!scull_open, Study!study_vars, study_vars
  <2>. QED  BY <1>2, <2>1, <2>2, <2>3, <2>4, <2>5, StCacheRead, StPageLost, StCacheOpen, StIoctl
            DEF Study!StudyNext
<1>. QED  BY <1>1, <1>2 DEF StInv

LEMMA StInitInv == Study!StudyInit => StInv
<1>. SUFFICES ASSUME Study!StudyInit
              PROVE  StInv
  OBVIOUS
<1>1. x_geo \in Study!Geometry /\ x_param = x_geo /\ csize = x_geo.q /\ x_geo.q \in {2, 4}
  BY StGeometry DEF Study!StudyInit
<1>2. items = <<>> /\ x_size = 0 /\ file = [p \in Study!Positions |-> 0]
  BY DEF Study!StudyInit
<1>3. StTypes
  BY <1>1, <1>2 DEF StTypes, StList
<1>4. ASSUME NEW p \in Study!Positions
      PROVE  ~ p < 0 /\ StByte(items, p) = 0
  <2>1. p \in Nat
    BY StudiedAssumption DEF Study!Positions
  <2>2. Study!Item(p) \in Nat
    BY <2>1, <1>3, StGeo, StPlace
  <2>3. ~ Study!Has(items, p)
    BY <2>2, <1>2 DEF Study!Has
  <2>. QED  BY <2>1, <2>3 DEF StByte
<1>5. StHolds(items, x_size, file)
  BY <1>2, <1>4 DEF StHolds
<1>. QED  BY <1>3, <1>5 DEF Study!StudyInit, StInv, StGood, StWrong

\* exercise/scull.c:302-372, scullc.c and scullp.c: each rewritten device is
\* a file below its size until an accident of its own list, and
\* exercise/scull, which has none, always; for any positions and counts.
THEOREM StudiesSpecKept ==
  Study!StudyInit /\ [][Study!StudyNext]_study_vars => []StudiesKept
<1>1. StInv => StudiesKept
  <2>1. ASSUME StInv
        PROVE  wrong = {} => \A p \in Study!Positions : p < x_size => Study!Byte(p) = file[p]
    BY <2>1 DEF StInv, StGood, StHolds, StByte, Study!Byte
  <2>2. ASSUME StInv
        PROVE  wrong \subseteq
                 (CASE study = "scull" -> {}
                    [] study = "cache" -> {"semaphore", "twice", "hole", "moved array",
                                           "past the object", "no item", "trim"}
                    [] OTHER           -> {"past the pages", "no item", "no array"})
    BY <2>2 DEF StInv, StWrong
  <2>. QED  BY <2>1, <2>2 DEF StudiesKept, Study!KeptAsWritten
<1>. QED  BY <1>1, StInitInv, StStep, PTL
=============================================================================
