------------------------------- MODULE Fifos --------------------------------
(***************************************************************************)
(* Two FIFO devices with their own ways to sleep: old/globalfifo ("fifo"), *)
(* which sets the task's state by hand around a mutex, and exercise/       *)
(* scullpip ("pipe"), which uses wait_event_interruptible around a         *)
(* semaphore.  Reads and writes mirror each other, so an action is for one *)
(* operation op, "r" or "w".                                               *)
(***************************************************************************)
EXTENDS Integers, Sequences, FiniteSets

CONSTANTS Users,     \* processes; each uses one open file
          Cap,       \* GLOBALFIFO_SIZE, scullpipe_buff_size: positive
          MaxSent    \* bound: bytes that are ever written

VARIABLES kind,
          opened, buff,       \* open files; is the buffer there?
          lock,               \* the count of the mutex or the semaphore
          cell, r_ptr, w_ptr, size,
          at_op, moved,       \* where each process is, and the bytes it has copied
          written, taken,     \* history: the bytes written and read
          spoilt              \* history: what has broken the FIFO

store_vars == <<cell, r_ptr, w_ptr, size>>
fifo_vars == <<kind, opened, buff, lock, store_vars, at_op, moved, written, taken, spoilt>>

Idle == <<"-", "idle">>

FifoInit ==
  /\ kind \in {"fifo", "pipe"}
  /\ opened = {} /\ buff = (kind = "fifo") /\ lock = 1
  /\ cell = [i \in 0..Cap - 1 |-> 0] /\ r_ptr = 0 /\ w_ptr = 0 /\ size = 0
  /\ at_op = [u \in Users |-> Idle] /\ moved = [u \in Users |-> <<>>]
  /\ written = <<>> /\ taken = <<>> /\ spoilt = {}

Other(op) == IF op = "r" THEN "w" ELSE "r"
Blocked(op) == size = (IF op = "r" THEN 0 ELSE Cap)

Inside == {u \in Users : at_op[u][2] \in {"in", "copied"}}
Because(what, happens) == IF happens THEN {what} ELSE {}

\* mutex_lock, down_interruptible; then the process is inside, perhaps with another.
Lock(u) == /\ lock > 0 /\ lock' = lock - 1
           /\ spoilt' = spoilt \cup Because("two inside", Inside \ {u} # {})
Unlock(n) == lock' = lock + n

\* More ups than there are users change nothing, and are not counted.
ExtraUp == Unlock(IF lock + Cardinality(Inside) < Cardinality(Users) THEN 1 ELSE 0)

Step(u, op, from, to) == at_op[u] = <<op, from>> /\ at_op' = [at_op EXCEPT ![u] = <<op, to>>]
Leave(u, op, from) == at_op[u] = <<op, from>> /\ at_op' = [at_op EXCEPT ![u] = Idle]

\* wake_up_interruptible, as the processes that have set their state see it.
Wakened(ats, op) == [u \in Users |-> IF ats[u] # <<op, "asleep">> THEN ats[u]
                                     ELSE <<op, IF kind = "fifo" THEN "relock" ELSE "event">>]

-----------------------------------------------------------------------------
\* scullpipe_open gives the semaphore up twice when it has made the buffer.
Open(u) ==
  /\ u \notin opened
  /\ IF kind = "fifo"
     THEN opened' = opened \cup {u} /\ UNCHANGED <<buff, lock, store_vars, spoilt>>
     ELSE /\ lock > 0 /\ spoilt' = spoilt \cup Because("two inside", Inside # {})
          /\ \/ /\ opened' = opened \cup {u} /\ buff' = TRUE
                /\ IF buff THEN UNCHANGED <<lock, store_vars>>
                   ELSE /\ ExtraUp /\ r_ptr' = 0 /\ w_ptr' = 0 /\ size' = 0
                        /\ UNCHANGED cell
             \/ ~buff /\ UNCHANGED <<opened, buff, lock, store_vars>>   \* -ENOMEM
  /\ UNCHANGED <<kind, at_op, moved, written, taken>>

\* scullpipe_release frees an empty buffer, whoever else has the device open.
Release(u) ==
  /\ u \in opened /\ at_op[u] = Idle /\ opened' = opened \ {u}
  /\ IF kind = "fifo" THEN UNCHANGED <<buff, spoilt>>
     ELSE /\ lock > 0 /\ buff' = (buff /\ size # 0)
          /\ spoilt' = spoilt \cup Because("two inside", Inside # {})
  /\ UNCHANGED <<kind, lock, store_vars, at_op, moved, written, taken>>

Start(u, op) ==
  /\ u \in opened /\ at_op[u] = Idle /\ (op = "w" => Len(written) < MaxSent)
  /\ Lock(u) /\ at_op' = [at_op EXCEPT ![u] = <<op, "in">>]
  /\ UNCHANGED <<kind, opened, buff, store_vars, moved, written, taken>>

NonBlock(u, op) ==
  /\ Blocked(op) /\ Leave(u, op, "in") /\ Unlock(1)
  /\ UNCHANGED <<kind, opened, buff, store_vars, moved, written, taken, spoilt>>

\* Nothing to do: the writer of globalfifo sets its state first, the reader unlocks first.
Sleep_ReaderFirst(u, op) ==
  /\ Blocked(op) /\ Unlock(1)
  /\ Step(u, op, "in", IF kind = "pipe" THEN "event" ELSE "unlocked")
  /\ UNCHANGED <<kind, opened, buff, store_vars, moved, written, taken, spoilt>>
Sleep(u, op) ==
  /\ Blocked(op) /\ Unlock(1)
  /\ Step(u, op, "in", IF kind = "pipe" THEN "event" ELSE IF op = "r" THEN "unlocked" ELSE "asleep")
  /\ UNCHANGED <<kind, opened, buff, store_vars, moved, written, taken, spoilt>>

SetState(u, op) ==
  /\ Step(u, op, "unlocked", "asleep")
  /\ UNCHANGED <<kind, opened, buff, lock, store_vars, moved, written, taken, spoilt>>

\* wait_event_interruptible tests once it is on the queue.
Event(u, op) ==
  /\ Step(u, op, "event", IF Blocked(op) THEN "asleep" ELSE "relock")
  /\ UNCHANGED <<kind, opened, buff, lock, store_vars, moved, written, taken, spoilt>>

Signal(u, op) ==
  /\ Leave(u, op, "asleep")
  /\ UNCHANGED <<kind, opened, buff, lock, store_vars, moved, written, taken, spoilt>>

Relock(u, op) ==
  /\ Lock(u) /\ Step(u, op, "relock", "in")
  /\ UNCHANGED <<kind, opened, buff, store_vars, moved, written, taken>>

-----------------------------------------------------------------------------
Front(n) == [i \in 1..n |-> cell[(r_ptr + i - 1) % Cap]]

CopyOut(u) ==
  /\ ~Blocked("r") /\ Step(u, "r", "in", "copied")
  /\ \E n \in 1..size : moved' = [moved EXCEPT ![u] = Front(n)]
  /\ spoilt' = spoilt \cup Because("freed", ~buff)
  /\ UNCHANGED <<kind, opened, buff, lock, store_vars, written, taken>>

\* The write of scullpipe finds no room to compare with: it never wraps.
CopyIn(u) ==
  /\ ~Blocked("w") /\ Step(u, "w", "in", "copied")
  /\ \E n \in 1..Cap - size :
       LET from == IF kind = "pipe" THEN w_ptr ELSE size
           new  == [i \in 1..n |-> Len(written) + i]
       IN  /\ n <= MaxSent - Len(written)
           /\ moved' = [moved EXCEPT ![u] = new]
           /\ cell' = [c \in 0..Cap - 1 |-> IF c \in from..from + n - 1 THEN new[c - from + 1] ELSE cell[c]]
           /\ spoilt' = spoilt \cup Because("freed", ~buff) \cup Because("past the end", from + n > Cap)
  /\ UNCHANGED <<kind, opened, buff, lock, r_ptr, w_ptr, size, written, taken>>

Fault(u, op) ==
  /\ ~Blocked(op) /\ Leave(u, op, "in") /\ Unlock(1)
  /\ UNCHANGED <<kind, opened, buff, store_vars, moved, written, taken, spoilt>>

\* The bytes count; globalfifo wakes inside the mutex, scullpipe after the semaphore.
Done(u, op) ==
  LET k == Len(moved[u])
      missed == kind = "fifo" /\ \E q \in Users : at_op[q] = <<Other(op), "unlocked">>
      rest == [at_op EXCEPT ![u] = IF kind = "fifo" THEN Idle ELSE <<op, "wake">>]
  IN  /\ at_op[u] = <<op, "copied">> /\ Unlock(1) /\ moved' = [moved EXCEPT ![u] = <<>>]
      /\ at_op' = IF kind = "fifo" THEN Wakened(rest, Other(op)) ELSE rest
      /\ spoilt' = spoilt \cup Because("missed", missed)
      /\ IF op = "r"
         THEN /\ size' = size - k /\ taken' = taken \o moved[u]
              /\ r_ptr' = IF kind = "pipe" THEN (r_ptr + k) % Cap ELSE r_ptr
              /\ cell' = IF kind = "pipe" THEN cell
                         ELSE [c \in 0..Cap - 1 |-> IF c + k < Cap THEN cell[c + k] ELSE 0]
              /\ UNCHANGED <<w_ptr, written>>
         ELSE /\ size' = size + k /\ written' = written \o moved[u]
              /\ w_ptr' = IF kind = "pipe" THEN w_ptr + k ELSE w_ptr
              /\ UNCHANGED <<r_ptr, cell, taken>>
      /\ UNCHANGED <<kind, opened, buff>>

Wake(u, op) ==
  /\ at_op[u] = <<op, "wake">>
  /\ at_op' = Wakened([at_op EXCEPT ![u] = Idle], Other(op))
  /\ UNCHANGED <<kind, opened, buff, lock, store_vars, moved, written, taken, spoilt>>

\* GLOBALFIFO_CLEAR: the wake-up of the writers follows the unlock.
Clear(u) ==
  /\ kind = "fifo" /\ u \in opened /\ at_op[u] = Idle /\ lock > 0
  /\ cell' = [c \in 0..Cap - 1 |-> 0] /\ size' = 0 /\ taken' = written
  /\ at_op' = [at_op EXCEPT ![u] = <<"r", "wake">>]
  /\ UNCHANGED <<kind, opened, buff, lock, r_ptr, w_ptr, moved, written, spoilt>>

FifoNext ==
  \E u \in Users :
    \/ Open(u) \/ Release(u) \/ CopyOut(u) \/ CopyIn(u) \/ Clear(u)
    \/ \E op \in {"r", "w"} :
         \/ Start(u, op) \/ NonBlock(u, op) \/ Sleep(u, op) \/ SetState(u, op) \/ Event(u, op)
         \/ Signal(u, op) \/ Relock(u, op) \/ Fault(u, op) \/ Done(u, op) \/ Wake(u, op)

-----------------------------------------------------------------------------
(* What is read is what was written, in order and once, until one of the   *)
(* known accidents; and a process sleeps beside work only while its wake-up*)
(* is on the way.  In globalfifo the one accident is a write that wakes the*)
(* reader between its unlock and its new state (globalfifo.c:56); a writer *)
(* has no such gap, clearing included.                                     *)
FifosKept ==
  /\ spoilt \subseteq {"missed"} => taken \o Front(size) = written
  /\ kind = "fifo" => spoilt \subseteq {"missed"}
  /\ \A u \in Users, op \in {"r", "w"} :
       \/ at_op[u] # <<op, "asleep">> \/ Blocked(op)
       \/ \E q \in Users : at_op[q] = <<Other(op), "wake">>
       \/ IF op = "w" /\ kind = "fifo" THEN FALSE ELSE spoilt # {}
=============================================================================
