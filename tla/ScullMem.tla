------------------------------ MODULE ScullMem ------------------------------
(***************************************************************************)
(* Book/scull/main.c: one bare scull device used by several processes.     *)
(*                                                                         *)
(* dev->data is the sequence of list items; an item is the array of quanta *)
(* its data pointer leads to, and a quantum is an array of bytes.  NULL is *)
(* the empty array at both levels.  Nothing outside the semaphore sees the *)
(* list, so what runs between down and up is one action; quantum and qset  *)
(* however are read before down, and the action uses the values of then.   *)
(* The process that has just left such an action with an answer is "done". *)
(***************************************************************************)
EXTENDS Integers, Sequences

CONSTANTS Procs,   \* processes
          Byte,    \* values of a byte
          Quanta,  \* values scull_quantum may be given
          Qsets,   \* values scull_qset may be given
          Counts,  \* lengths asked for by read() and write()
          MaxPos,  \* bound: no call starts at an offset beyond this one
          Modes    \* f_mode of an open: {"R"}, {"W"} or {"R", "W"}

ASSUME GeometryAssumption == Quanta \subseteq Nat /\ Qsets \subseteq Nat
ASSUME CountsAssumption == Counts \subseteq Nat \ {0} /\ MaxPos \in Nat

VARIABLES
  scull_quantum, scull_qset,  \* the module parameters
  quantum, qset,              \* dev->quantum and dev->qset
  size,                       \* dev->size
  data,                       \* dev->data
  pc,
  mode, pos,                  \* f_mode and f_pos of the process's file
  geo,                        \* the copies of quantum and qset of its call
  count, user,                \* the arguments of its call
  fault                       \* an invalid step the kernel has taken, if any

params == <<scull_quantum, scull_qset>>
device == <<quantum, qset, size, data>>
file   == <<mode, pos>>
call   == <<geo, count, user>>
vars   == <<params, device, pc, file, call, fault>>

-----------------------------------------------------------------------------
Lesser(a, b) == IF a <= b THEN a ELSE b
Null == <<>>

NoGeo == [quantum |-> 0, qset |-> 0]

Init ==
  /\ scull_quantum \in Quanta \ {0} /\ scull_qset \in Qsets \ {0}
  /\ quantum = scull_quantum /\ qset = scull_qset
  /\ size = 0 /\ data = Null
  /\ pc = [p \in Procs |-> "closed"]
  /\ mode = [p \in Procs |-> {}] /\ pos = [p \in Procs |-> 0]
  /\ geo = [p \in Procs |-> NoGeo]
  /\ count = [p \in Procs |-> 0] /\ user = [p \in Procs |-> Null]
  /\ fault = "none"

Goto(p, l) == pc' = [pc EXCEPT ![p] = l]

\* The call is over and its arguments are gone.
Leave(p, l) == /\ Goto(p, l)
               /\ geo' = [geo EXCEPT ![p] = NoGeo]
               /\ count' = [count EXCEPT ![p] = 0]
               /\ user' = [user EXCEPT ![p] = Null]

-----------------------------------------------------------------------------
(* scull_trim, scull_open, scull_release *)

\* The list is freed and the geometry renewed.
Trim == /\ data' = Null /\ size' = 0
        /\ quantum' = scull_quantum /\ qset' = scull_qset

\* The loop over the quanta of an item runs to dev->qset.
TrimOverruns == \E k \in 1 .. Len(data) : data[k] # Null /\ qset > Len(data[k])

Open(p) ==
  /\ pc[p] = "closed"
  /\ \E m \in Modes : /\ mode' = [mode EXCEPT ![p] = m]
                      /\ Goto(p, IF m = {"W"} THEN "o_down" ELSE "open")
  /\ UNCHANGED <<params, device, pos, call, fault>>

OpenTrim(p) ==
  /\ pc[p] = "o_down"
  /\ Trim
  /\ fault' = IF TrimOverruns THEN "overrun" ELSE fault
  /\ Goto(p, "open")
  /\ UNCHANGED <<params, file, call>>

Release(p) ==
  /\ pc[p] = "open"
  /\ Goto(p, "closed")
  /\ mode' = [mode EXCEPT ![p] = {}] /\ pos' = [pos EXCEPT ![p] = 0]
  /\ UNCHANGED <<params, device, call, fault>>

-----------------------------------------------------------------------------
(* Where offset i lies by geometry g: item, quantum of it, byte of that *)

\* Mutant of Item: the items are counted in quanta.
Item_InQuanta(g, i) == i \div g.quantum
Item(g, i) == i \div (g.quantum * g.qset)

Rest(g, i) == i % (g.quantum * g.qset)
SPos(g, i) == Rest(g, i) \div g.quantum
QPos(g, i) == Rest(g, i) % g.quantum

\* Mutant of ToQuantumEnd: goes on past the end of the quantum.
ToQuantumEnd_No(p, n) == n
ToQuantumEnd(p, n) == Lesser(n, geo[p].quantum - QPos(geo[p], pos[p]))

\* The call divides by quantum * qset and by quantum.
DividesByZero(p) == geo[p].quantum * geo[p].qset = 0

\* d with empty items added up to m of them.
Extended(d, m) == [k \in 1 .. m |-> IF k <= Len(d) THEN d[k] ELSE Null]

\* scull_follow: the list once it has an item n ...
Follow(d, n) == IF n < Len(d) THEN d ELSE Extended(d, n + 1)
\* ... and what it may be left as by a kmalloc that fails on the way there.
FollowFailed(d, n) == {Extended(d, m) : m \in Len(d) .. n}

\* Nothing that happens after an invalid step is modelled: Next is disabled.
Fault(f) == /\ fault' = f
            /\ UNCHANGED <<params, device, pc, file, call>>

\* A call begins: it copies dev->quantum and dev->qset, then waits in down.
Begin(p, right, l) ==
  /\ pc[p] = "open"
  /\ right \in mode[p]
  /\ pos[p] <= MaxPos
  /\ geo' = [geo EXCEPT ![p] = [quantum |-> quantum, qset |-> qset]]
  /\ \E n \in Counts : count' = [count EXCEPT ![p] = n]
  /\ Goto(p, l)
  /\ UNCHANGED <<params, device, file, fault>>

\* down_interruptible fails.
Interrupted(p) ==
  /\ \/ pc[p] \in {"r_down", "w_down"} /\ Leave(p, "open") /\ UNCHANGED file
     \/ /\ pc[p] = "o_down" /\ Leave(p, "closed")
        /\ mode' = [mode EXCEPT ![p] = {}] /\ pos' = [pos EXCEPT ![p] = 0]
  /\ UNCHANGED <<params, device, fault>>

-----------------------------------------------------------------------------
(* scull_read *)

\* Mutant of AtEnd: off by one.
AtEnd_Beyond(p) == pos[p] > size
AtEnd(p) == pos[p] >= size

BeginRead(p) == Begin(p, "R", "r_down") /\ UNCHANGED user

\* The call returns the bytes s.
Answer(p, s) == /\ Goto(p, "done")
                /\ user' = [user EXCEPT ![p] = s]
                /\ pos' = [pos EXCEPT ![p] = pos[p] + Len(s)]
                /\ UNCHANGED <<params, quantum, qset, size, mode, geo, count, fault>>

\* Past the end of the data, in a hole, or with no memory to follow the list.
ReadNothing(p) ==
  /\ pc[p] = "r_down"
  /\ \/ AtEnd(p) /\ UNCHANGED data
     \/ /\ ~AtEnd(p) /\ ~DividesByZero(p)
        /\ LET item == Item(geo[p], pos[p])
               d == Follow(data, item)
               s == SPos(geo[p], pos[p])
           IN \/ data' \in FollowFailed(data, item)
              \/ /\ d[item + 1] = Null \/ (s < Len(d[item + 1]) /\ d[item + 1][s + 1] = Null)
                 /\ data' = d
  /\ Answer(p, Null)

\* copy_to_user, which may fail.
ReadBytes(p) ==
  /\ pc[p] = "r_down"
  /\ ~AtEnd(p) /\ ~DividesByZero(p)
  /\ LET d == Follow(data, Item(geo[p], pos[p]))
         t == d[Item(geo[p], pos[p]) + 1]
         s == SPos(geo[p], pos[p]) + 1
         q == QPos(geo[p], pos[p])
         n == ToQuantumEnd(p, Lesser(count[p], size - pos[p]))
     IN \/ /\ t # Null /\ s <= Len(t) /\ t[s] # Null /\ q + n <= Len(t[s])
           /\ data' = d
           /\ \/ Answer(p, SubSeq(t[s], q + 1, q + n))
              \/ Leave(p, "open") /\ UNCHANGED <<params, quantum, qset, size, file, fault>>
        \/ /\ t # Null
           /\ s > Len(t) \/ (t[s] # Null /\ q + n > Len(t[s]))
           /\ Fault("overrun")

DivideFault(p) ==
  /\ \/ pc[p] = "w_down"
     \/ pc[p] = "r_down" /\ ~AtEnd(p)
  /\ DividesByZero(p)
  /\ Fault("divide")

Return(p) ==
  /\ pc[p] = "done"
  /\ Leave(p, "open")
  /\ UNCHANGED <<params, device, file, fault>>

-----------------------------------------------------------------------------
(* scull_write *)

BeginWrite(p) == /\ Begin(p, "W", "w_down")
                 /\ \E bytes \in [1 .. count'[p] -> Byte] :
                       user' = [user EXCEPT ![p] = bytes]

\* The list, its item and quantum that the bytes go to, as the allocations of
\* this call leave them; a new quantum has arbitrary contents.
Table(d, p) == LET t == d[Item(geo[p], pos[p]) + 1]
               IN IF t = Null THEN [i \in 1 .. geo[p].qset |-> Null] ELSE t
Blocks(b, p) == IF b = Null THEN [1 .. geo[p].quantum -> Byte] ELSE {b}

\* copy_from_user leaves b like this; if it fails after k bytes, it clears
\* the rest.
Copied(b, q, n, s, k) ==
  [j \in DOMAIN b |-> IF j - q \notin 1 .. n THEN b[j]
                      ELSE IF j - q <= k THEN s[j - q] ELSE 0]

\* Mutant of NewSize: every write sets the size.
NewSize_Always(i) == i
NewSize(i) == IF size < i THEN i ELSE size

WriteNoMem(p) ==
  /\ pc[p] = "w_down" /\ ~DividesByZero(p)
  /\ LET item == Item(geo[p], pos[p])
         d == Follow(data, item)
         s == SPos(geo[p], pos[p]) + 1
     IN \/ data' \in FollowFailed(data, item)
        \/ d[item + 1] = Null /\ data' = d
        \/ /\ s <= Len(Table(d, p)) /\ Table(d, p)[s] = Null
           /\ data' = [d EXCEPT ![item + 1] = Table(d, p)]
  /\ Leave(p, "open")
  /\ UNCHANGED <<params, quantum, qset, size, file, fault>>

WriteBytes(p) ==
  /\ pc[p] = "w_down" /\ ~DividesByZero(p)
  /\ LET item == Item(geo[p], pos[p])
         d == Follow(data, item)
         t == Table(d, p)
         s == SPos(geo[p], pos[p]) + 1
         q == QPos(geo[p], pos[p])
         n == ToQuantumEnd(p, count[p])
         Store(b, k) == data' = [d EXCEPT ![item + 1] =
                          [t EXCEPT ![s] = Copied(b, q, n, user[p], k)]]
     IN IF s > Len(t) THEN Fault("overrun")
        ELSE \E b \in Blocks(t[s], p) :
               \/ q + n > Len(b) /\ Fault("overrun")
               \/ /\ q + n <= Len(b)
                  /\ \/ /\ Store(b, n)
                        /\ pos' = [pos EXCEPT ![p] = pos[p] + n]
                        /\ size' = NewSize(pos[p] + n)
                     \/ (\E k \in 0 .. n - 1 : Store(b, k)) /\ UNCHANGED <<pos, size>>
                  /\ Leave(p, "open")
                  /\ UNCHANGED <<params, quantum, qset, mode, fault>>

-----------------------------------------------------------------------------
(* scull_llseek and scull_ioctl: neither takes the semaphore *)

Llseek(p) ==
  /\ pc[p] = "open"
  /\ \E i \in 0 .. MaxPos : pos' = [pos EXCEPT ![p] = i]
  /\ UNCHANGED <<params, device, pc, mode, call, fault>>

IoctlSet(p) ==
  /\ pc[p] = "open"
  /\ \/ scull_quantum' \in Quanta /\ UNCHANGED scull_qset
     \/ scull_qset' \in Qsets /\ UNCHANGED scull_quantum
  /\ UNCHANGED <<device, pc, file, call, fault>>

Step(p) ==
  \/ Open(p) \/ OpenTrim(p) \/ Release(p) \/ Interrupted(p)
  \/ BeginRead(p) \/ ReadNothing(p) \/ ReadBytes(p) \/ Return(p)
  \/ BeginWrite(p) \/ WriteNoMem(p) \/ WriteBytes(p) \/ DivideFault(p)
  \/ Llseek(p) \/ IoctlSet(p)

Next == fault = "none" /\ \E p \in Procs : Step(p)

Spec == Init /\ [][Next]_vars

-----------------------------------------------------------------------------
(* Properties *)

\* The bytes of the device by offset: byte q of quantum s of item k.
Cells == {c \in (1 .. Len(data)) \X (1 .. qset) \X (1 .. quantum) :
            /\ c[2] <= Len(data[c[1]])
            /\ c[3] <= Len(data[c[1]][c[2]])}
Offset(c) == ((c[1] - 1) * qset + c[2] - 1) * quantum + c[3] - 1
Content == [i \in {Offset(c) : c \in Cells} |->
              LET c == CHOOSE c \in Cells : Offset(c) = i
              IN data[c[1]][c[2]][c[3]]]

File == INSTANCE FlatFile WITH
          content <- Content,
          request <- [p \in Procs |-> IF pc[p] = "w_down" THEN user[p] ELSE Null],
          answer <- [p \in Procs |-> IF pc[p] = "done" THEN <<user[p]>> ELSE Null]

\* A device is a file, whatever the sequence of reads, writes, seeks and opens
\* of its users: scull_read and scull_write find every byte where an earlier
\* call left it, through the list, the quantum set and the quantum, also after
\* calls that ran out of memory half way.
FileSpec == File!Spec

\* No call of scull_read or scull_write goes beyond the end of a quantum or of
\* an array of quanta, and scull_trim does not go beyond the arrays it frees.
NoOverrun == fault # "overrun"

\* scull_follow allocates the items it does not find, for a reader as for a
\* writer; a reader always finds them, because it stops at dev->size.
ReadAllocatesNothing ==
  [][\A p \in Procs : pc[p] = "r_down" /\ pc'[p] # "r_down" => data' = data]_vars

\* scull.h says that dev->qset is "the current array size" and dev->quantum
\* "the current quantum size": every array and quantum of the device is that
\* long.
ArraysAreCurrent ==
  \A k \in 1 .. Len(data) :
     data[k] # Null => /\ Len(data[k]) = qset
                       /\ \A s \in 1 .. qset : data[k][s] # Null => Len(data[k][s]) = quantum
=============================================================================
