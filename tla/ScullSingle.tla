----------------------------- MODULE ScullSingle ----------------------------
(***************************************************************************)
(* Book/scull/access.c: scullsingle, the device that one process at a time *)
(* may have open.  There is no lock: an open takes the device with one     *)
(* atomic decrement, and one that does not get it undoes that with an      *)
(* increment of its own, so other processes see the counter in between.    *)
(***************************************************************************)
EXTENDS Integers, FiniteSets

CONSTANT Procs  \* processes

ASSUME ProcsAssumption == IsFiniteSet(Procs)

VARIABLES scull_s_available,  \* the counter, ATOMIC_INIT(1)
          pc,                 \* the statement each process is about to execute
          wronly              \* wronly[p]: p opens with O_WRONLY

vars == <<scull_s_available, pc, wronly>>

Init == /\ scull_s_available = 1
        /\ pc = [p \in Procs |-> "closed"]
        /\ wronly = [p \in Procs |-> FALSE]

Goto(p, from, to) == pc[p] = from /\ pc' = [pc EXCEPT ![p] = to]

atomic_inc == scull_s_available' = scull_s_available + 1

BeginOpen(p) ==
  /\ Goto(p, "closed", "s_dec")
  /\ \E w \in BOOLEAN : wronly' = [wronly EXCEPT ![p] = w]
  /\ UNCHANGED scull_s_available

\* Mutant of Granted: off by one.
Granted_OneTooMany == scull_s_available' >= -1
Granted == scull_s_available' = 0

\* atomic_dec_and_test
OpenTest(p) ==
  /\ scull_s_available' = scull_s_available - 1
  /\ \/ Granted /\ Goto(p, "s_dec", IF wronly[p] THEN "s_trim" ELSE "open")
     \/ ~Granted /\ Goto(p, "s_dec", "s_busy")
  /\ UNCHANGED wronly

\* Mutant of OpenBusy: the decrement is not undone.
OpenBusy_NoInc(p) ==
  /\ Goto(p, "s_busy", "closed")
  /\ wronly' = [wronly EXCEPT ![p] = FALSE]
  /\ UNCHANGED scull_s_available

\* -EBUSY
OpenBusy(p) ==
  /\ Goto(p, "s_busy", "closed")
  /\ wronly' = [wronly EXCEPT ![p] = FALSE]
  /\ atomic_inc

OpenTrim(p) == Goto(p, "s_trim", "open") /\ UNCHANGED <<scull_s_available, wronly>>

\* scull_read and scull_write, which use the data under the semaphore.
Use(p)  == Goto(p, "open", "s_use") /\ UNCHANGED <<scull_s_available, wronly>>
Used(p) == Goto(p, "s_use", "open") /\ UNCHANGED <<scull_s_available, wronly>>

Release(p) ==
  /\ Goto(p, "open", "closed")
  /\ wronly' = [wronly EXCEPT ![p] = FALSE]
  /\ atomic_inc

Next == \E p \in Procs :
  \/ BeginOpen(p) \/ OpenTest(p) \/ OpenBusy(p) \/ OpenTrim(p)
  \/ Use(p) \/ Used(p) \/ Release(p)

Spec == Init /\ [][Next]_vars

-----------------------------------------------------------------------------
(* Properties *)

Holding == {"s_trim", "open", "s_use"}

Holders == {p \in Procs : pc[p] \in Holding}
Takers  == {p \in Procs : pc[p] \in Holding \cup {"s_busy"}}

\* The types of the variables.  The counter is never above one, and goes below
\* zero only as far as there are processes.
TypeOK == /\ scull_s_available \in 1 - Cardinality(Procs) .. 1
          /\ pc \in [Procs -> Holding \cup {"closed", "s_dec", "s_busy"}]
          /\ wronly \in [Procs -> BOOLEAN]

\* scull_s_open lets one process in at a time, however the decrements and the
\* increments of the others fall between its own steps.  scull_trim, which it
\* calls without the semaphore, so never meets a read or a write.
OneHolder == \A p, q \in Holders : p = q

\* Every failed open gives back what it took: whenever nobody has the device
\* and no open is under way, scull_s_available is 1 and the next open succeeds.
AvailableWhenFree == Takers = {} => scull_s_available = 1
=============================================================================
