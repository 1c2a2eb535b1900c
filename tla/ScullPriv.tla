----------------------------- MODULE ScullPriv ------------------------------
(***************************************************************************)
(* Book/scull/access.c: scullpriv, which has one clone of the device for   *)
(* each controlling terminal, found or made by the first open and kept     *)
(* until the module is unloaded.  What is read and written is the bare     *)
(* device's, see ScullMem; here a call only holds the clone's semaphore.   *)
(*                                                                         *)
(* kmalloc may sleep under the spin lock.  On one processor a spin lock    *)
(* keeps out nobody while its holder sleeps; on several it does.  (That    *)
(* the others then spin for that long, perhaps for ever, is not followed.) *)
(***************************************************************************)
EXTENDS Naturals, Sequences

CONSTANTS Openers,   \* processes; each uses one open file
          Ttys,      \* terminals, none of which is NoTty
          NoTty      \* current->signal->tty is null

VARIABLES smp,          \* is the kernel built for several processors?
          tty,          \* the controlling terminal of each process
          scull_c_list, \* the keys of the clones, in the order they were made
          scull_c_lock, \* who holds the lock, seen from outside
          p_pc, key, wronly, private_data,
          broken        \* history: what has gone wrong

open_vars == <<p_pc, key, wronly, private_data>>
priv_vars == <<smp, tty, scull_c_list, scull_c_lock, open_vars, broken>>

PrivInit ==
  /\ smp \in BOOLEAN /\ tty \in [Openers -> {NoTty} \cup Ttys]
  /\ scull_c_list = <<>> /\ scull_c_lock = {}
  /\ p_pc = [p \in Openers |-> "closed"] /\ key = [p \in Openers |-> NoTty]
  /\ wronly = [p \in Openers |-> FALSE] /\ private_data = [p \in Openers |-> 0]
  /\ broken = {}

To(p, from, to) == p_pc[p] = from /\ p_pc' = [p_pc EXCEPT ![p] = to]

\* Another terminal is taken, given up or hung up, whatever the process does.
ChangeTty(p, t) == /\ tty' = [tty EXCEPT ![p] = t]
                   /\ UNCHANGED <<smp, scull_c_list, scull_c_lock, open_vars, broken>>

-----------------------------------------------------------------------------
\* scull_c_open without a terminal returns -EINVAL and changes nothing.
OpenTest(p) ==
  /\ tty[p] # NoTty /\ To(p, "closed", "key")
  /\ \E w \in BOOLEAN : wronly' = [wronly EXCEPT ![p] = w]
  /\ UNCHANGED <<smp, tty, scull_c_list, scull_c_lock, key, private_data, broken>>

\* The terminal is looked up again, untested.
OpenKey(p) ==
  /\ To(p, "key", "lock")
  /\ key' = [key EXCEPT ![p] = tty[p]]
  /\ broken' = IF tty[p] = NoTty THEN broken \cup {"no tty"} ELSE broken
  /\ UNCHANGED <<smp, tty, scull_c_list, scull_c_lock, wronly, private_data>>

\* The clones are found from the last to the first, as list_add goes to the head.
Found(k) == {i \in DOMAIN scull_c_list :
               scull_c_list[i] = k /\ \A j \in DOMAIN scull_c_list : scull_c_list[j] = k => j <= i}

Got(p, from, clone) == /\ To(p, from, IF wronly[p] THEN "trim" ELSE "open")
                       /\ private_data' = [private_data EXCEPT ![p] = clone]

\* Mutant of LockFree: the list is searched without the lock.
LockFree_No == TRUE
LockFree == smp => scull_c_lock = {}

\* scull_c_lookfor_device, up to kmalloc.
OpenLookup(p) ==
  /\ LockFree
  /\ \/ /\ \E i \in Found(key[p]) : Got(p, "lock", i)
        /\ UNCHANGED <<scull_c_lock, broken>>
     \/ /\ Found(key[p]) = {} /\ To(p, "lock", "alloc")
        /\ scull_c_lock' = scull_c_lock \cup {p}
        /\ broken' = IF ~smp /\ \E q \in scull_c_lock : key[q] = key[p]
                     THEN broken \cup {"twins"} ELSE broken
        /\ UNCHANGED private_data
  /\ UNCHANGED <<smp, tty, scull_c_list, key, wronly>>

\* A new clone, or -ENOMEM.
OpenCreate(p) ==
  /\ \/ /\ scull_c_list' = Append(scull_c_list, key[p])
        /\ Got(p, "alloc", Len(scull_c_list) + 1) /\ UNCHANGED <<key, wronly>>
     \/ /\ To(p, "alloc", "closed")
        /\ key' = [key EXCEPT ![p] = NoTty] /\ wronly' = [wronly EXCEPT ![p] = FALSE]
        /\ UNCHANGED <<scull_c_list, private_data>>
  /\ scull_c_lock' = scull_c_lock \ {p}
  /\ UNCHANGED <<smp, tty, broken>>

\* scull_trim runs without the semaphore: others may be in the clone.
OpenTrim(p) == /\ To(p, "trim", "open")
               /\ UNCHANGED <<smp, tty, scull_c_list, scull_c_lock, key, wronly, private_data, broken>>

-----------------------------------------------------------------------------
\* scull_read, scull_write: the clone's semaphore is held.
StartUse(p) ==
  /\ \A q \in Openers : ~(p_pc[q] = "use" /\ private_data[q] = private_data[p])
  /\ To(p, "open", "use")
  /\ UNCHANGED <<smp, tty, scull_c_list, scull_c_lock, key, wronly, private_data, broken>>

EndUse(p) == /\ To(p, "use", "open")
             /\ UNCHANGED <<smp, tty, scull_c_list, scull_c_lock, key, wronly, private_data, broken>>

\* scull_c_release: the clone stays.
Release(p) ==
  /\ To(p, "open", "closed")
  /\ key' = [key EXCEPT ![p] = NoTty] /\ wronly' = [wronly EXCEPT ![p] = FALSE]
  /\ private_data' = [private_data EXCEPT ![p] = 0]
  /\ UNCHANGED <<smp, tty, scull_c_list, scull_c_lock, broken>>

\* scull_access_cleanup frees the clones; an open file keeps the module loaded.
Unload ==
  /\ \A p \in Openers : p_pc[p] = "closed"
  /\ scull_c_list' = <<>>
  /\ UNCHANGED <<smp, tty, scull_c_lock, open_vars, broken>>

PrivNext == \/ Unload
            \/ \E p \in Openers :
                 \/ \E t \in {NoTty} \cup Ttys : ChangeTty(p, t)
                 \/ OpenTest(p) \/ OpenKey(p) \/ OpenLookup(p) \/ OpenCreate(p) \/ OpenTrim(p)
                 \/ StartUse(p) \/ EndUse(p) \/ Release(p)

-----------------------------------------------------------------------------
HasClone(p) == p_pc[p] \in {"trim", "open", "use"}

\* Files that were opened from one terminal have one clone and those opened from
\* different terminals have different ones, so that the trim of an open for writing
\* falls into a read or write of the same terminal at most.  Two things break it:
\* a terminal that is gone between the test and its use, and, on one processor, a
\* second open of the terminal while the first sleeps in kmalloc.
PrivateClones ==
  broken = {} =>
    /\ \A p, q \in Openers : HasClone(p) /\ HasClone(q) =>
         ((private_data[p] = private_data[q]) <=> (key[p] = key[q]))
    /\ \A p \in Openers : HasClone(p) => private_data[p] \in Found(key[p])
=============================================================================
