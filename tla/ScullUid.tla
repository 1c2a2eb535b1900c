------------------------------ MODULE ScullUid ------------------------------
(***************************************************************************)
(* Book/scull/access.c: sculluid and scullwuid, the devices that the       *)
(* processes of one user at a time may have open.  They differ only in     *)
(* what an open does that is not let in: sculluid fails with -EBUSY, and   *)
(* scullwuid waits (or fails with -EAGAIN).  The names are those of        *)
(* scullwuid; for sculluid read scull_u_.                                  *)
(*                                                                         *)
(* What runs between spin_lock and spin_unlock is one action, as nothing   *)
(* that looks at count and owner there sleeps.  The condition of           *)
(* wait_event_interruptible is evaluated without the lock: its two reads   *)
(* are two actions.                                                        *)
(***************************************************************************)
EXTENDS Integers, FiniteSets

CONSTANTS Procs,    \* processes
          Users,    \* user ids
          uid,      \* uid[p], current->uid
          euid,     \* euid[p], current->euid
          Capable,  \* the processes with CAP_DAC_OVERRIDE
          root,     \* user 0, which an uninitialised owner is
          Waits     \* TRUE for scullwuid, FALSE for sculluid

ASSUME ProcsAssumption == IsFiniteSet(Procs)
ASSUME UsersAssumption == /\ root \in Users
                          /\ uid \in [Procs -> Users] /\ euid \in [Procs -> Users]
                          /\ Capable \subseteq Procs /\ Waits \in BOOLEAN

VARIABLES scull_w_count,  \* how many times the device is open
          scull_w_owner,  \* the user it belongs to while it is
          scull_w_wait,   \* processes queued and not yet woken
          sem,            \* dev->sem, of the scull_dev underneath
          pc, wronly

lock == <<scull_w_count, scull_w_owner>>
vars == <<lock, scull_w_wait, sem, pc, wronly>>

Init == /\ scull_w_count = 0 /\ scull_w_owner = root /\ scull_w_wait = {}
        /\ sem = 1
        /\ pc = [p \in Procs |-> "closed"]
        /\ wronly = [p \in Procs |-> FALSE]

Goto(p, from, to) == pc[p] = from /\ pc' = [pc EXCEPT ![p] = to]

-----------------------------------------------------------------------------
(* scull_u_open, scull_w_open *)

Belongs(p) == p \in Capable \/ scull_w_owner \in {uid[p], euid[p]}

\* scull_w_available, evaluated by p.
Available(p) == scull_w_count = 0 \/ Belongs(p)

BeginOpen(p) ==
  /\ Goto(p, "closed", "w_lock")
  /\ \E w \in BOOLEAN : wronly' = [wronly EXCEPT ![p] = w]
  /\ UNCHANGED <<lock, scull_w_wait, sem>>

\* Mutant of Grab: the owner is set by every open.
Grab_Always(p) == scull_w_owner' = uid[p] /\ scull_w_count' = scull_w_count + 1
\* Mutant of Grab: only the first open is counted.
Grab_FirstOnly(p) == IF scull_w_count = 0
                     THEN scull_w_owner' = uid[p] /\ scull_w_count' = 1
                     ELSE UNCHANGED lock
Grab(p) == /\ scull_w_owner' = IF scull_w_count = 0 THEN uid[p] ELSE scull_w_owner
           /\ scull_w_count' = scull_w_count + 1

\* Mutant of OpenGrab: what was true before the lock is not tested again.
OpenGrab_NoTest(p) ==
  /\ Goto(p, "w_lock", IF wronly[p] THEN "w_trim" ELSE "open")
  /\ Grab(p)
  /\ UNCHANGED <<scull_w_wait, sem, wronly>>

OpenGrab(p) ==
  /\ Available(p)
  /\ Goto(p, "w_lock", IF wronly[p] THEN "w_trim" ELSE "open")
  /\ Grab(p)
  /\ UNCHANGED <<scull_w_wait, sem, wronly>>

Fail(p, from) == Goto(p, from, "closed") /\ wronly' = [wronly EXCEPT ![p] = FALSE]

\* -EBUSY of sculluid; -EAGAIN of scullwuid when O_NONBLOCK is set, or the wait.
OpenRefused(p) ==
  /\ ~Available(p)
  /\ \/ Fail(p, "w_lock")
     \/ Waits /\ Goto(p, "w_lock", "w_prep") /\ UNCHANGED wronly
  /\ UNCHANGED <<lock, scull_w_wait, sem>>

OpenTrim(p) ==
  /\ Goto(p, "w_trim", "open")
  /\ UNCHANGED <<lock, scull_w_wait, sem, wronly>>

-----------------------------------------------------------------------------
(* wait_event_interruptible(scull_w_wait, scull_w_available()) *)

WaitPrepare(p) ==
  /\ Goto(p, "w_prep", "w_count")
  /\ scull_w_wait' = scull_w_wait \cup {p}
  /\ UNCHANGED <<lock, sem, wronly>>

WaitOver(p, from) == /\ Goto(p, from, "w_lock")
                     /\ scull_w_wait' = scull_w_wait \ {p}
                     /\ UNCHANGED wronly

WaitCount(p) ==
  /\ \/ scull_w_count = 0 /\ WaitOver(p, "w_count")
     \/ scull_w_count # 0 /\ Goto(p, "w_count", "w_owner") /\ UNCHANGED <<scull_w_wait, wronly>>
  /\ UNCHANGED <<lock, sem>>

\* A process that may not have the device sleeps, unless a signal is pending:
\* then the open returns -ERESTARTSYS.
WaitOwner(p) ==
  /\ \/ Belongs(p) /\ WaitOver(p, "w_owner")
     \/ ~Belongs(p) /\ Goto(p, "w_owner", "w_sleep") /\ UNCHANGED <<scull_w_wait, wronly>>
     \/ ~Belongs(p) /\ Fail(p, "w_owner") /\ scull_w_wait' = scull_w_wait \ {p}
  /\ UNCHANGED <<lock, sem>>

\* A signal ends the sleep; the condition is tested once more all the same.
WaitSignal(p) ==
  /\ Goto(p, "w_sleep", "w_prep")
  /\ UNCHANGED <<lock, scull_w_wait, sem, wronly>>

WaitWoken(p) ==
  /\ p \notin scull_w_wait
  /\ Goto(p, "w_sleep", "w_prep")
  /\ UNCHANGED <<lock, scull_w_wait, sem, wronly>>

-----------------------------------------------------------------------------
(* scull_u_release, scull_w_release *)

\* Mutant of LastRelease: wakes the others when one open is left.
LastRelease_One == scull_w_count' = 1
LastRelease == scull_w_count' = 0

Release(p) ==
  /\ scull_w_count' = scull_w_count - 1
  /\ \/ Waits /\ LastRelease /\ Goto(p, "open", "w_wake") /\ UNCHANGED wronly
     \/ ~(Waits /\ LastRelease) /\ Fail(p, "open")
  /\ UNCHANGED <<scull_w_owner, scull_w_wait, sem>>

\* Mutant of Wake: one waiter is woken, as if it were exclusive.
Wake_One(p) ==
  /\ Fail(p, "w_wake")
  /\ \/ scull_w_wait = {} /\ UNCHANGED scull_w_wait
     \/ \E q \in scull_w_wait : scull_w_wait' = scull_w_wait \ {q}
  /\ UNCHANGED <<lock, sem>>

\* wake_up_interruptible_sync: no waiter is exclusive, all are woken.
Wake(p) ==
  /\ Fail(p, "w_wake")
  /\ scull_w_wait' = {}
  /\ UNCHANGED <<lock, sem>>

-----------------------------------------------------------------------------
(* scull_read and scull_write of the scull_dev underneath *)

Use(p) == /\ Goto(p, "open", "use")
          /\ sem = 1 /\ sem' = 0
          /\ UNCHANGED <<lock, scull_w_wait, wronly>>

Used(p) == /\ Goto(p, "use", "open")
           /\ sem' = 1
           /\ UNCHANGED <<lock, scull_w_wait, wronly>>

\* What p does by itself once it has entered the kernel; the rest is the
\* choice of a user.
Inside(p) ==
  \/ OpenGrab(p) \/ OpenRefused(p) \/ OpenTrim(p)
  \/ WaitPrepare(p) \/ WaitCount(p) \/ WaitOwner(p) \/ WaitWoken(p)
  \/ Wake(p) \/ Used(p)

Next == \E p \in Procs :
          Inside(p) \/ BeginOpen(p) \/ WaitSignal(p) \/ Release(p) \/ Use(p)

Spec == Init /\ [][Next]_vars

\* The scheduler runs every process that is in the kernel and not asleep.
FairSpec == Spec /\ \A p \in Procs : WF_vars(Inside(p))

-----------------------------------------------------------------------------
(* Properties *)

Holding == {"w_trim", "open", "use"}
Holders == {p \in Procs : pc[p] \in Holding}

PCs == Holding \cup {"closed", "w_lock", "w_prep", "w_count", "w_owner", "w_sleep", "w_wake"}

\* The types of the variables, and what scull_w_count counts: the processes
\* that have the device open.
TypeOK == /\ scull_w_count = Cardinality(Holders)
          /\ scull_w_owner \in Users
          /\ scull_w_wait \subseteq Procs
          /\ sem \in {0, 1}
          /\ pc \in [Procs -> PCs]
          /\ wronly \in [Procs -> BOOLEAN]

\* Everyone who has the device open may use what belongs to its owner, also
\* those who were let in by an owner that has closed it since, and those who
\* waited while it changed hands.
HoldersBelong == \A p \in Holders : Belongs(p)

\* No lost wake-up in scull_w_open and scull_w_release: while a process that
\* nobody has woken sleeps, the device is not free, unless the last release is
\* about to wake it.
NoLostWakeup == (\E p \in Procs : pc[p] = "w_sleep" /\ p \in scull_w_wait)
                   => scull_w_count > 0 \/ \E q \in Procs : pc[q] = "w_wake"

\* A process that waits for scullwuid does not sleep through a moment at which
\* the device is free: it wakes up, if only to find it taken again.
WaiterWoken == \A p \in Procs :
  pc[p] = "w_sleep" /\ scull_w_count = 0 ~> pc[p] # "w_sleep"
=============================================================================
