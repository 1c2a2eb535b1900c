--------------------------- MODULE ScullMemProofs ---------------------------
(***************************************************************************)
(* No call of the bare scull device goes past an array, a reader allocates *)
(* nothing, and the device is a file (FlatFile): for any geometries,       *)
(* lengths and sequences of calls of one process, and for any processes as *)
(* long as the geometry is fixed.                                          *)
(***************************************************************************)
EXTENDS ScullMem, TLAPS

\* The copies a call makes before it waits for the semaphore are current when it gets
\* it, because nobody else is there to trim, or a trim renews nothing.
OneUser       == \A p, q \in Procs : p = q
FixedGeometry == (\A a, b \in Quanta : a = b) /\ (\A a, b \in Qsets : a = b)
Undisturbed   == OneUser \/ FixedGeometry

-----------------------------------------------------------------------------
(* Arithmetic of offsets *)

LEMMA MulMonotone ==
  ASSUME NEW a \in Nat, NEW b \in Nat, NEW c \in Nat, a <= b
  PROVE  a * c <= b * c
  OBVIOUS

LEMMA DivMod ==
  ASSUME NEW m \in Nat \ {0}, NEW i \in Nat
  PROVE  /\ i \div m \in Nat /\ i % m \in 0 .. m - 1
         /\ i = (i \div m) * m + (i % m)
  OBVIOUS

\* Division against multiplication.
LEMMA DivBelow ==
  ASSUME NEW m \in Nat \ {0}, NEW i \in Nat, NEW l \in Nat
  PROVE  i \div m < l <=> i < l * m
<1> DEFINE d == i \div m
           r == i % m
<1>1. d \in Nat /\ r \in 0 .. m - 1 /\ i = d * m + r
  BY DivMod
<1> HIDE DEF d, r
<1>2. ASSUME d < l PROVE i < l * m
  <2>1. (d + 1) * m <= l * m
    BY <1>1, <1>2, MulMonotone
  <2>2. (d + 1) * m = d * m + m
    BY <1>1
  <2>3. d * m \in Nat /\ l * m \in Nat
    BY <1>1
  <2>4. QED
    BY <1>1, <2>1, <2>2, <2>3
<1>3. ASSUME ~(d < l) PROVE ~(i < l * m)
  <2>1. l * m <= d * m
    BY <1>1, <1>3, MulMonotone
  <2>2. d * m \in Nat /\ l * m \in Nat
    BY <1>1
  <2>3. QED
    BY <1>1, <2>1, <2>2
<1>4. QED
  BY <1>2, <1>3 DEF d

\* A byte's place: its quantum is one of the item's, and what does not leave the
\* quantum does not leave the item.
LEMMA InItem ==
  ASSUME NEW q \in Nat \ {0}, NEW n \in Nat \ {0}, NEW i \in Nat
  PROVE  /\ q * n \in Nat \ {0}
         /\ (i % (q * n)) \div q \in 0 .. n - 1
         /\ (i % (q * n)) % q \in 0 .. q - 1
         /\ \A k \in Nat : ((i % (q * n)) % q) + k <= q => i + k <= (i \div (q * n) + 1) * (q * n)
<1> DEFINE m == q * n
           r == i % m
           s == r \div q
           o == r % q
           d == i \div m
<1>1. m \in Nat \ {0}
  OBVIOUS
<1>2. d \in Nat /\ r \in 0 .. m - 1 /\ i = d * m + r
  <2> HIDE DEF m
  <2>1. QED
    BY <1>1, DivMod
<1> HIDE DEF r, d
<1>3. r \in Nat /\ r < n * q
  BY <1>1, <1>2
<1> HIDE DEF m
<1>4. s \in Nat /\ o \in 0 .. q - 1 /\ r = s * q + o
  BY <1>3, DivMod
<1>5. s < n
  BY <1>3, DivBelow
<1> HIDE DEF s, o
<1>6. ASSUME NEW k \in Nat, o + k <= q
      PROVE  i + k <= (d + 1) * m
  <2>1. (s + 1) * q <= n * q
    BY <1>4, <1>5, MulMonotone
  <2>2. (s + 1) * q = s * q + q
    BY <1>4
  <2>3. n * q = m
    BY DEF m
  <2>4. s * q \in Nat /\ d * m \in Nat /\ (d + 1) * m = d * m + m
    BY <1>1, <1>2, <1>4
  <2>5. r + k <= m
    BY <1>4, <1>6, <2>1, <2>2, <2>3, <2>4
  <2>6. QED
    BY <1>1, <1>2, <1>6, <2>4, <2>5
<1>7. QED
  BY <1>1, <1>4, <1>5, <1>6 DEF m, r, s, o, d

-----------------------------------------------------------------------------
(* The invariant *)

Cell         == Byte \cup {0}
Block(q)     == {Null} \cup [1 .. q -> Cell]
TableOf(q, n) == {Null} \cup [1 .. n -> Block(q)]
Here         == [quantum |-> quantum, qset |-> qset]

MemType ==
  /\ scull_quantum \in Quanta /\ scull_qset \in Qsets
  /\ quantum \in Quanta /\ qset \in Qsets
  /\ size \in Nat
  /\ pc \in [Procs -> {"closed", "o_down", "open", "r_down", "w_down", "done"}]
  /\ pos \in [Procs -> Nat] /\ count \in [Procs -> Nat]
  /\ geo \in [Procs -> [quantum : Nat, qset : Nat]]
  /\ user \in [Procs -> Seq(Cell)]
  /\ fault \in {"none", "divide"}

\* Every array is as long as the device's geometry says, and the list reaches the size.
Shape == /\ data \in Seq(TableOf(quantum, qset))
         /\ size <= Len(data) * (quantum * qset)

\* A call that waits has copied the geometry that is still the device's.
CallOf(p) == /\ pc[p] \in {"r_down", "w_down"} => geo[p] = Here
             /\ pc[p] = "w_down" => user[p] \in [1 .. count[p] -> Byte]

MemInv == MemType /\ Shape /\ \A p \in Procs : CallOf(p)

-----------------------------------------------------------------------------
(* Lists and arrays *)

LEMMA ArrayIsSeq ==
  ASSUME NEW T, NEW m \in Nat, NEW f \in [1 .. m -> T]
  PROVE  f \in Seq(T) /\ Len(f) = m
  OBVIOUS

\* A longer list, the new items empty.
LEMMA ExtendedList ==
  ASSUME NEW T, Null \in T, NEW d \in Seq(T), NEW m \in Nat
  PROVE  Extended(d, m) \in Seq(T) /\ Len(Extended(d, m)) = m
<1>1. Extended(d, m) \in [1 .. m -> T]
  BY DEF Extended
<1>2. QED
  BY <1>1, ArrayIsSeq

\* Followed to item n, a list has that item; one that had it is unchanged.
LEMMA FollowList ==
  ASSUME NEW T, Null \in T, NEW d \in Seq(T), NEW n \in Nat
  PROVE  /\ Follow(d, n) \in Seq(T) /\ Len(Follow(d, n)) > n
         /\ Len(Follow(d, n)) >= Len(d)
         /\ n < Len(d) => Follow(d, n) = d /\ FollowFailed(d, n) = {}
<1>1. Len(d) \in Nat
  OBVIOUS
<1>2. Extended(d, n + 1) \in Seq(T) /\ Len(Extended(d, n + 1)) = n + 1
  BY ExtendedList
<1>3. QED
  BY <1>1, <1>2 DEF Follow, FollowFailed

\* Followed in vain, a list has become no shorter.
LEMMA FailedList ==
  ASSUME NEW T, Null \in T, NEW d \in Seq(T), NEW n \in Nat, NEW e \in FollowFailed(d, n)
  PROVE  e \in Seq(T) /\ Len(e) >= Len(d)
<1>1. PICK m \in Len(d) .. n : e = Extended(d, m)
  BY DEF FollowFailed
<1>2. m \in Nat /\ m >= Len(d)
  OBVIOUS
<1>3. QED
  BY <1>1, <1>2, ExtendedList

LEMMA BlockLength ==
  ASSUME NEW q \in Nat, NEW b \in Block(q), b # Null
  PROVE  b \in [1 .. q -> Cell] /\ b \in Seq(Cell) /\ Len(b) = q
  BY ArrayIsSeq DEF Block

LEMMA TableLength ==
  ASSUME NEW q \in Nat, NEW n \in Nat, NEW t \in TableOf(q, n), t # Null
  PROVE  t \in [1 .. n -> Block(q)] /\ Len(t) = n
<1>1. t \in [1 .. n -> Block(q)]
  BY DEF TableOf
<1>2. QED
  BY <1>1, ArrayIsSeq

\* What a copy to bytes q + 1 to q + n leaves is an array of the same length.
LEMMA CopiedBlock ==
  ASSUME NEW l \in Nat, NEW b \in [1 .. l -> Cell],
         NEW c \in Nat, NEW s \in [1 .. c -> Byte],
         NEW q \in Nat, NEW n \in Nat, n <= c, NEW k \in Int
  PROVE  Copied(b, q, n, s, k) \in [1 .. l -> Cell]
<1>1. ASSUME NEW j \in 1 .. l
      PROVE  (IF j - q \notin 1 .. n THEN b[j] ELSE IF j - q <= k THEN s[j - q] ELSE 0) \in Cell
  BY DEF Cell
<1>2. QED
  BY <1>1 DEF Copied

-----------------------------------------------------------------------------
(* Where a call is *)

\* The place of byte i by a geometry without a zero.
LEMMA Place ==
  ASSUME MemInv, NEW p \in Procs, geo[p] = Here, ~DividesByZero(p), GeometryAssumption
  PROVE  /\ quantum \in Nat \ {0} /\ qset \in Nat \ {0} /\ quantum * qset \in Nat \ {0}
         /\ Item(geo[p], pos[p]) \in Nat
         /\ SPos(geo[p], pos[p]) \in 0 .. qset - 1
         /\ QPos(geo[p], pos[p]) \in 0 .. quantum - 1
         /\ \A k \in Nat : QPos(geo[p], pos[p]) + k <= quantum =>
               pos[p] + k <= (Item(geo[p], pos[p]) + 1) * (quantum * qset)
<1>1. quantum \in Nat /\ qset \in Nat /\ pos[p] \in Nat
  BY DEF MemInv, MemType, GeometryAssumption
<1>2. geo[p].quantum = quantum /\ geo[p].qset = qset
  BY DEF Here
<1>3. quantum * qset # 0
  BY <1>2 DEF DividesByZero
<1>4. quantum \in Nat \ {0} /\ qset \in Nat \ {0}
  BY <1>1, <1>3
<1>5. quantum * qset \in Nat \ {0}
  BY <1>4, InItem
<1>6. pos[p] \div (quantum * qset) \in Nat
  BY <1>1, <1>5, DivMod
<1>7. QED
  BY <1>1, <1>2, <1>4, <1>5, <1>6, InItem DEF Item, SPos, QPos, Rest

\* The number of bytes copied fits into the quantum, and is no more than asked for.
LEMMA Fits ==
  ASSUME MemInv, NEW p \in Procs, geo[p] = Here, ~DividesByZero(p), GeometryAssumption,
         NEW n \in Nat
  PROVE  /\ ToQuantumEnd(p, n) \in Nat /\ ToQuantumEnd(p, n) <= n
         /\ QPos(geo[p], pos[p]) + ToQuantumEnd(p, n) <= quantum
  BY Place DEF ToQuantumEnd, Lesser, Here

\* A byte before the size lies in an item the list has.
LEMMA ItemThere ==
  ASSUME MemInv, NEW p \in Procs, geo[p] = Here, ~DividesByZero(p), GeometryAssumption,
         ~AtEnd(p)
  PROVE  Item(geo[p], pos[p]) < Len(data)
<1> DEFINE m == quantum * qset
<1>1. m \in Nat \ {0}
  BY Place
<1>2. pos[p] \in Nat /\ Len(data) \in Nat /\ size \in Nat
  BY DEF MemInv, MemType, Shape
<1>3. pos[p] < Len(data) * m
  <2>1. size <= Len(data) * m /\ pos[p] < size
    BY <1>2 DEF MemInv, Shape, AtEnd
  <2>2. Len(data) * m \in Nat
    BY <1>1, <1>2
  <2> HIDE DEF m
  <2>3. QED
    BY <1>2, <2>1, <2>2
<1>4. Item(geo[p], pos[p]) = pos[p] \div m
  BY DEF Item, Here
<1> HIDE DEF m
<1>5. QED
  BY <1>1, <1>2, <1>3, <1>4, DivBelow

LEMMA NullItem == \A q, n \in Nat : Null \in TableOf(q, n)
  BY DEF TableOf

-----------------------------------------------------------------------------
(* The invariant is kept *)

\* What is left to show of a step of p that keeps the geometry.
LEMMA KeptCalls ==
  ASSUME MemInv, NEW p \in Procs,
         UNCHANGED <<quantum, qset>>,
         \A q \in Procs : q # p => /\ pc'[q] = pc[q] /\ geo'[q] = geo[q]
                                   /\ count'[q] = count[q] /\ user'[q] = user[q],
         CallOf(p)'
  PROVE  \A q \in Procs : CallOf(q)'
<1> SUFFICES ASSUME NEW q \in Procs, q # p PROVE CallOf(q)'
  OBVIOUS
<1>1. pc'[q] = pc[q] /\ geo'[q] = geo[q] /\ count'[q] = count[q] /\ user'[q] = user[q]
  OBVIOUS
<1>2. CallOf(q)
  BY DEF MemInv
<1>3. QED
  BY <1>1, <1>2 DEF CallOf, Here

LEMMA InitMem ==
  ASSUME GeometryAssumption, Init
  PROVE  MemInv
<1>1. MemType
  BY DEF Init, MemType, GeometryAssumption, NoGeo, Null
<1>2. Shape
  <2>1. quantum * qset \in Nat /\ data = <<>>
    BY DEF Init, GeometryAssumption, Null
  <2>2. QED
    BY <2>1 DEF Init, Shape
<1>3. \A p \in Procs : CallOf(p)
  BY DEF Init, CallOf
<1>4. QED
  BY <1>1, <1>2, <1>3 DEF MemInv

\* The calls that are over after it, or that have not begun to wait.
LEMMA LeaveMem ==
  ASSUME MemInv, NEW p \in Procs, NEW l \in {"closed", "open"}, Leave(p, l),
         UNCHANGED <<params, quantum, qset>>,
         size' \in Nat, pos' \in [Procs -> Nat], fault' \in {"none", "divide"}, Shape'
  PROVE  MemInv'
<1>1. MemType'
  <2>1. /\ Null \in Seq(Cell) /\ NoGeo \in [quantum : Nat, qset : Nat]
    BY DEF Null, NoGeo
  <2>2. /\ pc' \in [Procs -> {"closed", "o_down", "open", "r_down", "w_down", "done"}]
        /\ count' \in [Procs -> Nat]
        /\ geo' \in [Procs -> [quantum : Nat, qset : Nat]]
        /\ user' \in [Procs -> Seq(Cell)]
    BY <2>1 DEF MemInv, MemType, Leave, Goto
  <2>3. QED
    BY <2>2 DEF MemInv, MemType, params
<1>2. \A q \in Procs : CallOf(q)'
  <2>1. \A q \in Procs : q # p => /\ pc'[q] = pc[q] /\ geo'[q] = geo[q]
                                  /\ count'[q] = count[q] /\ user'[q] = user[q]
    BY DEF MemInv, MemType, Leave, Goto
  <2>2. CallOf(p)'
    BY DEF MemInv, MemType, Leave, Goto, CallOf
  <2>3. QED
    BY <2>1, <2>2, KeptCalls
<1>3. QED
  BY <1>1, <1>2 DEF MemInv

LEMMA ShapeKept ==
  ASSUME MemInv, UNCHANGED device
  PROVE  Shape'
  BY DEF MemInv, Shape, device

\* Where the step of a process does not touch the device.
LEMMA OutsideMem ==
  ASSUME GeometryAssumption, CountsAssumption, MemInv, NEW p \in Procs,
         \/ Open(p) \/ Release(p) \/ Interrupted(p) \/ Return(p)
         \/ BeginRead(p) \/ BeginWrite(p) \/ Llseek(p) \/ IoctlSet(p) \/ DivideFault(p)
  PROVE  MemInv'
<1>0. UNCHANGED device
  BY DEF Open, Release, Interrupted, Return, BeginRead, BeginWrite, Begin, Llseek, IoctlSet,
         DivideFault, Fault
<1>1. Shape' /\ UNCHANGED <<quantum, qset, size, data>>
  BY <1>0, ShapeKept DEF device
<1>2. CASE Open(p)
  <2>1. MemType'
    BY <1>1, <1>2 DEF MemInv, MemType, Open, Goto, params, call
  <2>2. /\ CallOf(p)'
        /\ \A q \in Procs : q # p => /\ pc'[q] = pc[q] /\ geo'[q] = geo[q]
                                     /\ count'[q] = count[q] /\ user'[q] = user[q]
    BY <1>2 DEF MemInv, MemType, Open, Goto, call, CallOf
  <2>3. QED
    BY <1>1, <2>1, <2>2, KeptCalls DEF MemInv
<1>3. CASE Release(p)
  <2>1. MemType'
    BY <1>1, <1>3 DEF MemInv, MemType, Release, Goto, params, call
  <2>2. /\ CallOf(p)'
        /\ \A q \in Procs : q # p => /\ pc'[q] = pc[q] /\ geo'[q] = geo[q]
                                     /\ count'[q] = count[q] /\ user'[q] = user[q]
    BY <1>3 DEF MemInv, MemType, Release, Goto, call, CallOf
  <2>3. QED
    BY <1>1, <2>1, <2>2, KeptCalls DEF MemInv
<1>4. CASE Interrupted(p)
  <2>1. PICK l \in {"closed", "open"} : Leave(p, l)
    BY <1>4 DEF Interrupted
  <2>2. /\ UNCHANGED <<params, quantum, qset>> /\ size' \in Nat
        /\ pos' \in [Procs -> Nat] /\ fault' \in {"none", "divide"}
    <3>1. /\ UNCHANGED <<params, fault>>
          /\ UNCHANGED pos \/ pos' = [pos EXCEPT ![p] = 0]
      BY <1>4 DEF Interrupted, file
    <3>2. pos \in [Procs -> Nat] /\ size \in Nat /\ fault \in {"none", "divide"}
      BY DEF MemInv, MemType
    <3>3. pos' \in [Procs -> Nat]
      BY <3>1, <3>2
    <3>4. QED
      BY <1>1, <3>1, <3>2, <3>3
  <2>3. QED
    BY <1>1, <2>1, <2>2, LeaveMem
<1>5. CASE Return(p)
  <2>1. /\ UNCHANGED <<params, quantum, qset>> /\ size' \in Nat
        /\ pos' \in [Procs -> Nat] /\ fault' \in {"none", "divide"}
    BY <1>1, <1>5 DEF Return, MemInv, MemType, file, params
  <2>2. Leave(p, "open")
    BY <1>5 DEF Return
  <2>3. QED
    BY <1>1, <2>1, <2>2, LeaveMem
<1>6. ASSUME NEW right, NEW l \in {"r_down", "w_down"}, Begin(p, right, l),
             (user' = user /\ l = "r_down") \/
             (l = "w_down" /\ \E bytes \in [1 .. count'[p] -> Byte] :
                                 user' = [user EXCEPT ![p] = bytes])
      PROVE  MemInv'
  <2>1. /\ geo' = [geo EXCEPT ![p] = Here] /\ geo'[p] = Here
        /\ Here \in [quantum : Nat, qset : Nat]
        /\ Goto(p, l) /\ UNCHANGED <<params, pos, fault>>
    BY <1>6 DEF Begin, MemInv, MemType, GeometryAssumption, Here, file
  <2>2. PICK n \in Counts : count' = [count EXCEPT ![p] = n]
    BY <1>6 DEF Begin
  <2>3. n \in Nat /\ count'[p] = n /\ count' \in [Procs -> Nat]
    BY <2>2 DEF CountsAssumption, MemInv, MemType
  <2>4. /\ user' \in [Procs -> Seq(Cell)]
        /\ l = "w_down" => user'[p] \in [1 .. count'[p] -> Byte]
        /\ \A q \in Procs : q # p => user'[q] = user[q]
    <3>1. CASE user' = user /\ l = "r_down"
      BY <3>1 DEF MemInv, MemType
    <3>2. CASE l = "w_down" /\ \E bytes \in [1 .. count'[p] -> Byte] :
                                  user' = [user EXCEPT ![p] = bytes]
      <4>1. PICK bytes \in [1 .. count'[p] -> Byte] : user' = [user EXCEPT ![p] = bytes]
        BY <3>2
      <4>2. bytes \in [1 .. n -> Cell]
        BY <2>3 DEF Cell
      <4>3. bytes \in Seq(Cell)
        BY <2>3, <4>2, ArrayIsSeq
      <4>4. QED
        BY <4>1, <4>3 DEF MemInv, MemType
    <3>3. QED
      BY <1>6, <3>1, <3>2
  <2>5. MemType'
    BY <1>1, <2>1, <2>3, <2>4 DEF MemInv, MemType, Goto, params
  <2>6. /\ CallOf(p)'
        /\ \A q \in Procs : q # p => /\ pc'[q] = pc[q] /\ geo'[q] = geo[q]
                                     /\ count'[q] = count[q] /\ user'[q] = user[q]
    BY <1>1, <2>1, <2>2, <2>4 DEF MemInv, MemType, Goto, CallOf, Here
  <2>7. QED
    BY <1>1, <2>5, <2>6, KeptCalls DEF MemInv
<1>7. CASE BeginRead(p)
  BY <1>6, <1>7 DEF BeginRead
<1>8. CASE BeginWrite(p)
  BY <1>6, <1>8 DEF BeginWrite
<1>9. CASE Llseek(p)
  <2>1. MemType'
    BY <1>1, <1>9 DEF MemInv, MemType, Llseek, params, call, CountsAssumption
  <2>2. \A q \in Procs : CallOf(q)'
    BY <1>1, <1>9 DEF MemInv, Llseek, CallOf, Here, call
  <2>3. QED
    BY <1>1, <2>1, <2>2 DEF MemInv
<1>10. CASE IoctlSet(p)
  <2>1. MemType'
    BY <1>1, <1>10 DEF MemInv, MemType, IoctlSet, file, call
  <2>2. \A q \in Procs : CallOf(q)'
    BY <1>1, <1>10 DEF MemInv, IoctlSet, CallOf, Here, call
  <2>3. QED
    BY <1>1, <2>1, <2>2 DEF MemInv
<1>11. CASE DivideFault(p)
  <2>1. MemType'
    BY <1>1, <1>11 DEF MemInv, MemType, DivideFault, Fault, params, file, call
  <2>2. \A q \in Procs : CallOf(q)'
    BY <1>1, <1>11 DEF MemInv, DivideFault, Fault, CallOf, Here, call
  <2>3. QED
    BY <1>1, <2>1, <2>2 DEF MemInv
<1>12. QED
  BY <1>2, <1>3, <1>4, <1>5, <1>7, <1>8, <1>9, <1>10, <1>11

\* Opened for writing alone, the device is trimmed: what other calls have copied is
\* current still, because there are none or the geometry is the only one.
LEMMA TrimMem ==
  ASSUME GeometryAssumption, Undisturbed, MemInv, NEW p \in Procs, OpenTrim(p)
  PROVE  MemInv'
<1>1. ~TrimOverruns
  <2> SUFFICES ASSUME NEW k \in 1 .. Len(data), data[k] # Null PROVE Len(data[k]) = qset
    BY DEF TrimOverruns, MemInv, MemType, GeometryAssumption
  <2>1. quantum \in Nat /\ qset \in Nat /\ data[k] \in TableOf(quantum, qset)
    BY DEF MemInv, MemType, Shape, GeometryAssumption
  <2>2. QED
    BY <2>1, TableLength
<1>2. MemType'
  BY <1>1 DEF MemInv, MemType, OpenTrim, Trim, Goto, params, file, call
<1>3. Shape'
  <2>1. data' = <<>> /\ size' = 0 /\ quantum' \in Nat /\ qset' \in Nat
    BY DEF OpenTrim, Trim, Null, MemInv, MemType, GeometryAssumption
  <2>2. \A q, n \in Nat : 0 <= 0 * (q * n)
    <3> SUFFICES ASSUME NEW q \in Nat, NEW n \in Nat PROVE 0 <= 0 * (q * n)
      BY Zenon
    <3>1. q * n \in Nat
      OBVIOUS
    <3>2. QED
      BY <3>1
  <2>3. <<>> \in Seq(TableOf(quantum', qset')) /\ Len(<<>>) = 0
    OBVIOUS
  <2>4. 0 <= 0 * (quantum' * qset')
    BY <2>1, <2>2, Zenon
  <2>5. QED
    BY <2>1, <2>3, <2>4 DEF Shape
<1>4. ASSUME NEW q \in Procs PROVE CallOf(q)'
  <2>1. CASE q = p
    BY <2>1 DEF OpenTrim, Goto, CallOf, MemInv, MemType
  <2>2. CASE q # p
    <3>1. quantum' = quantum /\ qset' = qset
      BY <2>2 DEF Undisturbed, OneUser, FixedGeometry, OpenTrim, Trim, MemInv, MemType
    <3>2. pc'[q] = pc[q] /\ UNCHANGED call
      BY <2>2 DEF OpenTrim, Goto, MemInv, MemType
    <3>3. CallOf(q)
      BY DEF MemInv
    <3>4. QED
      BY <3>1, <3>2, <3>3 DEF CallOf, Here, call
  <2>3. QED
    BY <2>1, <2>2
<1>5. QED
  BY <1>2, <1>3, <1>4 DEF MemInv

-----------------------------------------------------------------------------
(* scull_read *)

\* A reader that is not at the end finds its item, and so adds none to the list.
LEMMA ReaderFinds ==
  ASSUME GeometryAssumption, MemInv, NEW p \in Procs, pc[p] = "r_down",
         ~AtEnd(p), ~DividesByZero(p)
  PROVE  /\ Item(geo[p], pos[p]) \in 0 .. Len(data) - 1
         /\ Follow(data, Item(geo[p], pos[p])) = data
         /\ FollowFailed(data, Item(geo[p], pos[p])) = {}
<1>1. geo[p] = Here
  BY DEF MemInv, CallOf
<1>2. quantum \in Nat /\ qset \in Nat
  BY DEF MemInv, MemType, GeometryAssumption
<1>3. data \in Seq(TableOf(quantum, qset)) /\ Null \in TableOf(quantum, qset)
  BY <1>2, NullItem DEF MemInv, Shape
<1>4. Item(geo[p], pos[p]) \in Nat /\ Item(geo[p], pos[p]) < Len(data)
  BY <1>1, Place, ItemThere
<1>5. QED
  BY <1>3, <1>4, FollowList

LEMMA ReadNothingKeeps ==
  ASSUME GeometryAssumption, MemInv, NEW p \in Procs, ReadNothing(p)
  PROVE  data' = data
BY ReaderFinds DEF ReadNothing

\* The quantum a reader copies from, where it finds one.
LEMMA ReadBlock ==
  ASSUME GeometryAssumption, MemInv, NEW p \in Procs, pc[p] = "r_down",
         ~AtEnd(p), ~DividesByZero(p),
         NEW t, t = Follow(data, Item(geo[p], pos[p]))[Item(geo[p], pos[p]) + 1], t # Null,
         NEW s, s = SPos(geo[p], pos[p]) + 1,
         NEW n, n = ToQuantumEnd(p, Lesser(count[p], size - pos[p]))
  PROVE  /\ s \in 1 .. Len(t) /\ n \in Nat
         /\ t[s] # Null => /\ t[s] \in Seq(Cell)
                           /\ QPos(geo[p], pos[p]) \in Nat
                           /\ QPos(geo[p], pos[p]) + n <= Len(t[s])
<1>1. geo[p] = Here /\ quantum \in Nat /\ qset \in Nat
  BY DEF MemInv, CallOf, MemType, GeometryAssumption
<1>2. t \in TableOf(quantum, qset)
  BY ReaderFinds DEF MemInv, Shape
<1>3. t \in [1 .. qset -> Block(quantum)] /\ Len(t) = qset
  BY <1>1, <1>2, TableLength
<1>4. s \in 1 .. qset
  BY <1>1, Place
<1>5. Lesser(count[p], size - pos[p]) \in Nat
  BY DEF Lesser, AtEnd, MemInv, MemType
<1>6. n \in Nat /\ QPos(geo[p], pos[p]) + n <= quantum /\ QPos(geo[p], pos[p]) \in Nat
  BY <1>1, <1>5, Fits, Place
<1>7. ASSUME t[s] # Null PROVE t[s] \in Seq(Cell) /\ Len(t[s]) = quantum
  BY <1>1, <1>3, <1>4, <1>7, BlockLength
<1>8. QED
  BY <1>3, <1>4, <1>6, <1>7

\* A reader copies nothing that lies outside an array, and changes no byte.
LEMMA ReadBytesKeeps ==
  ASSUME GeometryAssumption, MemInv, NEW p \in Procs, ReadBytes(p)
  PROVE  /\ data' = data /\ UNCHANGED <<params, quantum, qset, size, fault>>
         /\ \/ \E s \in Seq(Cell) : Answer(p, s)
            \/ Leave(p, "open") /\ UNCHANGED pos
<1> DEFINE d == Follow(data, Item(geo[p], pos[p]))
           t == d[Item(geo[p], pos[p]) + 1]
           s == SPos(geo[p], pos[p]) + 1
           q == QPos(geo[p], pos[p])
           n == ToQuantumEnd(p, Lesser(count[p], size - pos[p]))
<1>1. pc[p] = "r_down" /\ ~AtEnd(p) /\ ~DividesByZero(p)
  BY DEF ReadBytes
<1>2. t # Null
  BY DEF ReadBytes
<1>3. /\ s \in 1 .. Len(t)
      /\ t[s] # Null => /\ t[s] \in Seq(Cell) /\ q \in Nat /\ n \in Nat /\ q + n <= Len(t[s])
  BY <1>1, <1>2, ReadBlock
<1>4. d = data
  BY <1>1, ReaderFinds
<1>5. /\ t[s] # Null /\ data' = d
      /\ \/ Answer(p, SubSeq(t[s], q + 1, q + n))
         \/ Leave(p, "open") /\ UNCHANGED <<params, quantum, qset, size, file, fault>>
  <2>1. ~(s > Len(t) \/ (t[s] # Null /\ q + n > Len(t[s])))
    <3>1. Len(t) \in Int \/ Len(t) \notin Int
      OBVIOUS
    <3> HIDE DEF t, s, q, n
    <3>2. QED
      BY <1>3
  <2>2. QED
    BY <2>1 DEF ReadBytes
<1>6. SubSeq(t[s], q + 1, q + n) \in Seq(Cell)
  <2> HIDE DEF t, s, q, n
  <2>1. QED
    BY <1>3, <1>5
<1>7. QED
  BY <1>4, <1>5, <1>6 DEF Answer, file

\* An answer is as good a state as any.
LEMMA AnswerMem ==
  ASSUME MemInv, NEW p \in Procs, NEW s \in Seq(Cell), Answer(p, s), data' = data
  PROVE  MemInv'
<1>1. MemType'
  <2>1. Len(s) \in Nat /\ pos[p] \in Nat
    BY DEF MemInv, MemType
  <2>2. /\ pc' \in [Procs -> {"closed", "o_down", "open", "r_down", "w_down", "done"}]
        /\ pos' \in [Procs -> Nat]
        /\ user' \in [Procs -> Seq(Cell)]
    BY <2>1 DEF MemInv, MemType, Answer, Goto
  <2>3. QED
    BY <2>2 DEF MemInv, MemType, params, Answer
<1>2. Shape'
  BY DEF MemInv, Shape, Answer
<1>3. CallOf(p)'
  BY DEF MemInv, MemType, Answer, Goto, CallOf
<1>4. \A q \in Procs : q # p => /\ pc'[q] = pc[q] /\ geo'[q] = geo[q]
                                /\ count'[q] = count[q] /\ user'[q] = user[q]
  BY DEF MemInv, MemType, Answer, Goto
<1>5. UNCHANGED <<quantum, qset>>
  BY DEF Answer
<1>6. QED
  BY <1>1, <1>2, <1>3, <1>4, <1>5, KeptCalls DEF MemInv

LEMMA ReadMem ==
  ASSUME GeometryAssumption, MemInv, NEW p \in Procs, ReadNothing(p) \/ ReadBytes(p)
  PROVE  MemInv'
<1>1. CASE ReadNothing(p)
  <2>1. data' = data
    BY <1>1, ReadNothingKeeps
  <2>2. Null \in Seq(Cell) /\ Answer(p, Null)
    BY <1>1 DEF ReadNothing, Null
  <2>3. QED
    BY <2>1, <2>2, AnswerMem
<1>2. CASE ReadBytes(p)
  <2>1. /\ data' = data /\ UNCHANGED <<params, quantum, qset, size, fault>>
        /\ \/ \E s \in Seq(Cell) : Answer(p, s)
           \/ Leave(p, "open") /\ UNCHANGED pos
    BY <1>2, ReadBytesKeeps
  <2>2. CASE \E s \in Seq(Cell) : Answer(p, s)
    BY <2>1, <2>2, AnswerMem
  <2>3. CASE Leave(p, "open") /\ UNCHANGED pos
    <3>1. UNCHANGED device
      BY <2>1 DEF device
    <3>2. /\ size' \in Nat /\ pos' \in [Procs -> Nat] /\ fault' \in {"none", "divide"}
      BY <2>1, <2>3 DEF MemInv, MemType
    <3>3. QED
      BY <2>1, <2>3, <3>1, <3>2, ShapeKept, LeaveMem
  <2>4. QED
    BY <2>1, <2>2, <2>3
<1>3. QED
  BY <1>1, <1>2

-----------------------------------------------------------------------------
(* scull_write *)

\* A list that has become no shorter reaches the same size.
LEMMA LongerList ==
  ASSUME GeometryAssumption, MemInv, NEW n \in Nat, Len(data) <= n
  PROVE  size <= n * (quantum * qset)
<1>1. quantum \in Nat /\ qset \in Nat /\ size \in Nat /\ Len(data) \in Nat
  BY DEF MemInv, MemType, Shape, GeometryAssumption
<1> DEFINE m == quantum * qset
<1>2. m \in Nat
  BY <1>1
<1>3. size <= Len(data) * m
  BY DEF MemInv, Shape
<1> HIDE DEF m
<1>4. Len(data) * m <= n * m /\ Len(data) * m \in Nat /\ n * m \in Nat
  BY <1>1, <1>2, MulMonotone
<1>5. size <= n * m
  BY <1>1, <1>3, <1>4
<1>6. QED
  BY <1>5 DEF m

\* Where a writer's item is, once followed, and its array.
LEMMA WriterFinds ==
  ASSUME GeometryAssumption, MemInv, NEW p \in Procs, pc[p] = "w_down", ~DividesByZero(p),
         NEW d, d = Follow(data, Item(geo[p], pos[p])),
         NEW i, i = Item(geo[p], pos[p]) + 1
  PROVE  /\ geo[p] = Here
         /\ d \in Seq(TableOf(quantum, qset)) /\ Len(d) >= Len(data)
         /\ i \in 1 .. Len(d)
         /\ Table(d, p) \in [1 .. qset -> Block(quantum)] /\ Len(Table(d, p)) = qset
<1>1. geo[p] = Here /\ quantum \in Nat /\ qset \in Nat
  BY DEF MemInv, CallOf, MemType, GeometryAssumption
<1>2. data \in Seq(TableOf(quantum, qset)) /\ Null \in TableOf(quantum, qset)
  BY <1>1, NullItem DEF MemInv, Shape
<1>3. Item(geo[p], pos[p]) \in Nat
  BY <1>1, Place
<1>4. /\ d \in Seq(TableOf(quantum, qset)) /\ Len(d) >= Len(data)
      /\ Len(d) > Item(geo[p], pos[p])
  BY <1>2, <1>3, FollowList
<1>5. i \in 1 .. Len(d)
  BY <1>3, <1>4
<1>6. Table(d, p) \in [1 .. qset -> Block(quantum)]
  <2>1. CASE d[i] = Null
    <3>1. Table(d, p) = [k \in 1 .. qset |-> Null]
      BY <1>1, <2>1 DEF Table, Here
    <3>2. QED
      BY <3>1 DEF Block
  <2>2. CASE d[i] # Null
    <3>1. Table(d, p) = d[i] /\ d[i] \in TableOf(quantum, qset)
      BY <1>4, <1>5, <2>2 DEF Table
    <3>2. QED
      BY <1>1, <2>2, <3>1, TableLength
  <2>3. QED
    BY <2>1, <2>2
<1>7. QED
  BY <1>1, <1>4, <1>5, <1>6, ArrayIsSeq

\* The list with another array for one of its items.
LEMMA StoredShape ==
  ASSUME NEW T, NEW d \in Seq(T), NEW i \in 1 .. Len(d), NEW t \in T
  PROVE  [d EXCEPT ![i] = t] \in Seq(T) /\ Len([d EXCEPT ![i] = t]) = Len(d)
  OBVIOUS

LEMMA WriteNoMemMem ==
  ASSUME GeometryAssumption, MemInv, NEW p \in Procs, WriteNoMem(p)
  PROVE  MemInv'
<1> DEFINE item == Item(geo[p], pos[p])
           d == Follow(data, item)
           T == TableOf(quantum, qset)
<1>1. /\ pc[p] = "w_down" /\ ~DividesByZero(p) /\ Leave(p, "open")
      /\ UNCHANGED <<params, quantum, qset, size, file, fault>>
      /\ \/ data' \in FollowFailed(data, item)
         \/ data' = d
         \/ data' = [d EXCEPT ![item + 1] = Table(d, p)]
  BY DEF WriteNoMem
<1>2. /\ geo[p] = Here /\ d \in Seq(T) /\ Len(d) >= Len(data)
      /\ item + 1 \in 1 .. Len(d)
      /\ Table(d, p) \in [1 .. qset -> Block(quantum)]
  BY <1>1, WriterFinds
<1>3. quantum \in Nat /\ qset \in Nat /\ data \in Seq(T) /\ Null \in T
  BY NullItem DEF MemInv, MemType, Shape, GeometryAssumption
<1>4. item \in Nat
  BY <1>1, <1>2, Place
<1>5. Table(d, p) \in T
  BY <1>2 DEF TableOf
<1>6. data' \in Seq(T) /\ Len(data') >= Len(data)
  <2> HIDE DEF d, T, item
  <2>1. CASE data' \in FollowFailed(data, item)
    BY <1>3, <1>4, <2>1, FailedList
  <2>2. CASE data' = d
    BY <1>2, <2>2
  <2>3. CASE data' = [d EXCEPT ![item + 1] = Table(d, p)]
    BY <1>2, <1>5, <2>3, StoredShape
  <2>4. QED
    BY <1>1, <2>1, <2>2, <2>3
<1>7. Shape'
  <2>1. size <= Len(data') * (quantum * qset)
    BY <1>6, LongerList
  <2>2. quantum' = quantum /\ qset' = qset /\ size' = size
    BY <1>1
  <2>3. QED
    BY <1>6, <2>1, <2>2 DEF Shape
<1>8. size' \in Nat /\ pos' \in [Procs -> Nat] /\ fault' \in {"none", "divide"}
  BY <1>1 DEF MemInv, MemType, file
<1>9. QED
  BY <1>1, <1>7, <1>8, LeaveMem

\* A writer copies into a quantum of its item, or stops; what it has written is
\* within the items there are.
LEMMA WriteBytesMem ==
  ASSUME GeometryAssumption, MemInv, NEW p \in Procs, WriteBytes(p)
  PROVE  MemInv'
<1> DEFINE item == Item(geo[p], pos[p])
           d == Follow(data, item)
           t == Table(d, p)
           s == SPos(geo[p], pos[p]) + 1
           q == QPos(geo[p], pos[p])
           n == ToQuantumEnd(p, count[p])
           T == TableOf(quantum, qset)
<1>1. pc[p] = "w_down" /\ ~DividesByZero(p)
  BY DEF WriteBytes
<1>2. /\ geo[p] = Here /\ d \in Seq(T) /\ Len(d) >= Len(data)
      /\ item + 1 \in 1 .. Len(d)
      /\ t \in [1 .. qset -> Block(quantum)] /\ Len(t) = qset
  BY <1>1, WriterFinds
<1>3. /\ quantum \in Nat /\ qset \in Nat /\ count[p] \in Nat /\ pos[p] \in Nat /\ size \in Nat
      /\ user[p] \in [1 .. count[p] -> Byte]
  BY <1>1 DEF MemInv, MemType, CallOf, GeometryAssumption
<1>4. /\ s \in 1 .. qset /\ item \in Nat
      /\ q \in Nat /\ n \in Nat /\ n <= count[p] /\ q + n <= quantum
      /\ pos[p] + n <= (item + 1) * (quantum * qset)
  <2>1. s \in 1 .. qset /\ item \in Nat /\ q \in Nat
    BY <1>1, <1>2, <1>3, Place
  <2>2. n \in Nat /\ n <= count[p] /\ q + n <= quantum
    BY <1>1, <1>2, <1>3, Fits
  <2>3. \A k \in Nat : q + k <= quantum => pos[p] + k <= (item + 1) * (quantum * qset)
    BY <1>1, <1>2, Place
  <2>4. pos[p] + n <= (item + 1) * (quantum * qset)
    <3> HIDE DEF n, q, item
    <3>1. QED
      BY <2>2, <2>3
  <2>5. QED
    BY <2>1, <2>2, <2>4
<1>5. ~(s > Len(t))
  <2> HIDE DEF s, t
  <2>1. QED
    BY <1>2, <1>3, <1>4
<1>6. PICK b \in Blocks(t[s], p) :
         \/ q + n > Len(b) /\ Fault("overrun")
         \/ /\ q + n <= Len(b)
            /\ \/ /\ data' = [d EXCEPT ![item + 1] =
                                [t EXCEPT ![s] = Copied(b, q, n, user[p], n)]]
                  /\ pos' = [pos EXCEPT ![p] = pos[p] + n]
                  /\ size' = NewSize(pos[p] + n)
               \/ /\ \E k \in 0 .. n - 1 :
                        data' = [d EXCEPT ![item + 1] =
                                  [t EXCEPT ![s] = Copied(b, q, n, user[p], k)]]
                  /\ UNCHANGED <<pos, size>>
            /\ Leave(p, "open")
            /\ UNCHANGED <<params, quantum, qset, mode, fault>>
  BY <1>1, <1>5 DEF WriteBytes
<1> HIDE DEF d, t, s, q, n, item
<1>7. b \in [1 .. quantum -> Cell] /\ Len(b) = quantum
  <2>1. CASE t[s] = Null
    <3>1. b \in [1 .. quantum -> Byte]
      BY <1>2, <2>1 DEF Blocks, Here
    <3>2. b \in [1 .. quantum -> Cell]
      BY <3>1 DEF Cell
    <3>3. QED
      BY <1>3, <3>2, ArrayIsSeq
  <2>2. CASE t[s] # Null
    <3>1. b = t[s] /\ t[s] \in Block(quantum)
      BY <1>2, <1>4, <2>2 DEF Blocks
    <3>2. QED
      BY <1>3, <2>2, <3>1, BlockLength
  <2>3. QED
    BY <2>1, <2>2
<1>8. q + n <= Len(b)
  BY <1>4, <1>7
<1>9. PICK k \in Int :
         /\ data' = [d EXCEPT ![item + 1] = [t EXCEPT ![s] = Copied(b, q, n, user[p], k)]]
         /\ \/ pos' = [pos EXCEPT ![p] = pos[p] + n] /\ size' = NewSize(pos[p] + n)
            \/ UNCHANGED <<pos, size>>
         /\ Leave(p, "open")
         /\ UNCHANGED <<params, quantum, qset, mode, fault>>
  <2>1. ~(q + n > Len(b))
    BY <1>3, <1>4, <1>7
  <2>2. n \in Int /\ \A k \in 0 .. n - 1 : k \in Int
    BY <1>4
  <2>3. QED
    BY <1>6, <2>1, <2>2
<1>10. [t EXCEPT ![s] = Copied(b, q, n, user[p], k)] \in T
  <2>1. Copied(b, q, n, user[p], k) \in [1 .. quantum -> Cell]
    BY <1>3, <1>4, <1>7, CopiedBlock
  <2>2. Copied(b, q, n, user[p], k) \in Block(quantum)
    BY <2>1 DEF Block
  <2>3. [t EXCEPT ![s] = Copied(b, q, n, user[p], k)] \in [1 .. qset -> Block(quantum)]
    BY <1>2, <2>2
  <2>4. QED
    BY <2>3 DEF TableOf
<1>11. data' \in Seq(T) /\ Len(data') = Len(d)
  BY <1>2, <1>9, <1>10, StoredShape
<1>12. Len(d) \in Nat /\ Len(data) \in Nat
  BY <1>2 DEF MemInv, Shape
<1>13. size' \in Nat /\ size' <= Len(d) * (quantum * qset)
  <2>1. size <= Len(d) * (quantum * qset)
    BY <1>2, <1>12, LongerList
  <2>2. pos[p] + n <= Len(d) * (quantum * qset) /\ pos[p] + n \in Nat
    <3> DEFINE m == quantum * qset
    <3>1. m \in Nat
      BY <1>3
    <3>2. (item + 1) * m <= Len(d) * m
      <4> HIDE DEF m
      <4>1. item + 1 \in Nat /\ item + 1 <= Len(d)
        BY <1>2, <1>4
      <4>2. QED
        BY <1>12, <3>1, <4>1, MulMonotone
    <3>3. (item + 1) * m \in Nat /\ Len(d) * m \in Nat
      BY <1>4, <1>12, <3>1
    <3>4. pos[p] + n <= (item + 1) * m
      BY <1>4
    <3> HIDE DEF m
    <3>5. pos[p] + n <= Len(d) * m
      BY <1>3, <1>4, <3>2, <3>3, <3>4
    <3>6. QED
      BY <1>3, <1>4, <3>5 DEF m
  <2>3. size' = size \/ size' = pos[p] + n
    BY <1>9 DEF NewSize
  <2>4. QED
    BY <1>3, <2>1, <2>2, <2>3
<1>14. Shape'
  BY <1>9, <1>11, <1>13 DEF Shape
<1>15. pos' \in [Procs -> Nat] /\ fault' \in {"none", "divide"}
  <2>1. pos \in [Procs -> Nat] /\ fault \in {"none", "divide"} /\ pos[p] + n \in Nat
    BY <1>4 DEF MemInv, MemType
  <2>2. QED
    BY <1>9, <2>1
<1>16. QED
  BY <1>9, <1>13, <1>14, <1>15, LeaveMem

-----------------------------------------------------------------------------
(* The theorems *)

LEMMA StepMem ==
  ASSUME GeometryAssumption, CountsAssumption, Undisturbed, MemInv, [Next]_vars
  PROVE  MemInv'
<1>1. CASE UNCHANGED vars
  <2>1. UNCHANGED device
    BY <1>1 DEF vars
  <2>2. MemType' /\ Shape' /\ \A p \in Procs : CallOf(p)'
    BY <1>1, <2>1, ShapeKept
    DEF MemInv, MemType, CallOf, Here, vars, params, device, file, call
  <2>3. QED
    BY <2>2 DEF MemInv
<1>2. ASSUME NEW p \in Procs, Step(p) PROVE MemInv'
  <2>1. CASE \/ Open(p) \/ Release(p) \/ Interrupted(p) \/ Return(p)
             \/ BeginRead(p) \/ BeginWrite(p) \/ Llseek(p) \/ IoctlSet(p) \/ DivideFault(p)
    BY <2>1, OutsideMem
  <2>2. CASE OpenTrim(p)
    BY <2>2, TrimMem
  <2>3. CASE ReadNothing(p) \/ ReadBytes(p)
    BY <2>3, ReadMem
  <2>4. CASE WriteNoMem(p)
    BY <2>4, WriteNoMemMem
  <2>5. CASE WriteBytes(p)
    BY <2>5, WriteBytesMem
  <2>6. QED
    BY <1>2, <2>1, <2>2, <2>3, <2>4, <2>5 DEF Step
<1>3. QED
  BY <1>1, <1>2 DEF Next

\* A reader that has waited changes nothing of the list, and no step of another
\* process ends its wait.
LEMMA StepReads ==
  ASSUME GeometryAssumption, MemInv, [Next]_vars, NEW p \in Procs,
         pc[p] = "r_down", pc'[p] # "r_down"
  PROVE  data' = data
<1>1. PICK q \in Procs : Step(q)
  BY DEF Next, vars
<1>2. q = p
  <2> SUFFICES ASSUME q # p PROVE FALSE
    OBVIOUS
  <2>1. pc' = pc \/ \E l : pc' = [pc EXCEPT ![q] = l]
    <3>1. CASE Open(q) \/ OpenTrim(q) \/ Release(q) \/ Interrupted(q)
      BY <3>1 DEF Open, OpenTrim, Release, Interrupted, Leave, Goto
    <3>2. CASE BeginRead(q) \/ BeginWrite(q) \/ Return(q)
      BY <3>2 DEF BeginRead, BeginWrite, Begin, Return, Leave, Goto
    <3>3. CASE Llseek(q) \/ IoctlSet(q) \/ DivideFault(q)
      BY <3>3 DEF Llseek, IoctlSet, DivideFault, Fault
    <3>4. CASE ReadNothing(q) \/ ReadBytes(q)
      BY <3>4 DEF ReadNothing, ReadBytes, Answer, Fault, Leave, Goto
    <3>5. CASE WriteNoMem(q)
      BY <3>5 DEF WriteNoMem, Leave, Goto
    <3>6. CASE WriteBytes(q)
      <4>1. Leave(q, "open") \/ UNCHANGED pc
        BY <3>6 DEF WriteBytes, Fault
      <4>2. QED
        BY <4>1 DEF Leave, Goto
    <3>7. QED
      BY <1>1, <3>1, <3>2, <3>3, <3>4, <3>5, <3>6 DEF Step
  <2>2. QED
    BY <2>1 DEF MemInv, MemType
<1>3. CASE ReadNothing(p)
  BY <1>3, ReadNothingKeeps
<1>4. CASE ReadBytes(p)
  BY <1>4, ReadBytesKeeps
<1>5. CASE Interrupted(p) \/ DivideFault(p)
  BY <1>5 DEF Interrupted, DivideFault, Fault, device
<1>6. QED
  BY <1>1, <1>2, <1>3, <1>4, <1>5
  DEF Step, Open, OpenTrim, Release, BeginRead, Begin, Return, BeginWrite, WriteNoMem,
      WriteBytes, Llseek, IoctlSet

LEMMA MemInvariant ==
  ASSUME Undisturbed
  PROVE  Spec => []MemInv
<1>1. Init => MemInv
  BY InitMem, GeometryAssumption
<1>2. MemInv /\ [Next]_vars => MemInv'
  BY StepMem, GeometryAssumption, CountsAssumption
<1>3. QED
  BY <1>1, <1>2, PTL DEF Spec

\* scull_read, scull_write and scull_trim stay within the quanta and the arrays of
\* quanta, for all geometries that ioctl may set between the calls of one process, for
\* all lengths and offsets, and after calls that ran out of memory.  Several processes need
\* a geometry that nobody changes: the copies of a call that waits while another one
\* trims the device are old ones, and the array they allocate is too short for the next.
THEOREM MemNoOverrun ==
  ASSUME Undisturbed
  PROVE  Spec => []NoOverrun
<1>1. MemInv => NoOverrun
  BY DEF MemInv, MemType, NoOverrun
<1>2. QED
  BY <1>1, MemInvariant, PTL

\* scull.h's words on dev->quantum and dev->qset: every array of the device has the
\* length they say, which scull_trim and the next read and write rely on.
THEOREM MemArraysAreCurrent ==
  ASSUME Undisturbed
  PROVE  Spec => []ArraysAreCurrent
<1>1. ASSUME MemInv PROVE ArraysAreCurrent
  <2> SUFFICES ASSUME NEW k \in 1 .. Len(data), data[k] # Null
               PROVE  /\ Len(data[k]) = qset
                      /\ \A s \in 1 .. qset : data[k][s] # Null => Len(data[k][s]) = quantum
    BY DEF ArraysAreCurrent
  <2>1. quantum \in Nat /\ qset \in Nat /\ data[k] \in TableOf(quantum, qset)
    BY <1>1, GeometryAssumption DEF MemInv, MemType, Shape
  <2>2. data[k] \in [1 .. qset -> Block(quantum)] /\ Len(data[k]) = qset
    BY <2>1, TableLength
  <2>3. ASSUME NEW s \in 1 .. qset, data[k][s] # Null PROVE Len(data[k][s]) = quantum
    BY <2>1, <2>2, <2>3, BlockLength
  <2>4. QED
    BY <2>2, <2>3
<1>2. QED
  BY <1>1, MemInvariant, PTL

\* A reader never makes scull_follow allocate: the list reaches dev->size, and the
\* reader stops there.
THEOREM MemReadAllocatesNothing ==
  ASSUME Undisturbed
  PROVE  Spec => ReadAllocatesNothing
<1>1. MemInv /\ [Next]_vars =>
        [\A p \in Procs : pc[p] = "r_down" /\ pc'[p] # "r_down" => data' = data]_vars
  <2> SUFFICES ASSUME MemInv, [Next]_vars, NEW p \in Procs,
                      pc[p] = "r_down", pc'[p] # "r_down"
               PROVE  data' = data
    OBVIOUS
  <2>1. QED
    BY StepReads, GeometryAssumption
<1>2. QED
  BY <1>1, MemInvariant, PTL DEF Spec, ReadAllocatesNothing

-----------------------------------------------------------------------------
(* The file that the list holds *)

Geometries == [quantum : Nat \ {0}, qset : Nat \ {0}]

\* i counted in quanta is in quantum SPos of item Item, as i counted in bytes is byte
\* QPos of that quantum.
LEMMA PlaceOf ==
  ASSUME NEW g \in Geometries, NEW i \in Nat
  PROVE  /\ Item(g, i) \in Nat /\ SPos(g, i) \in 0 .. g.qset - 1 /\ QPos(g, i) \in 0 .. g.quantum - 1
         /\ i = Item(g, i) * (g.quantum * g.qset) + (SPos(g, i) * g.quantum + QPos(g, i))
<1> DEFINE q == g.quantum
           n == g.qset
           m == q * n
<1>1. q \in Nat \ {0} /\ n \in Nat \ {0}
  BY DEF Geometries
<1>2. m \in Nat \ {0} /\ SPos(g, i) \in 0 .. n - 1 /\ QPos(g, i) \in 0 .. q - 1
  <2> HIDE DEF q, n
  <2>1. /\ q * n \in Nat \ {0} /\ (i % (q * n)) \div q \in 0 .. n - 1
        /\ (i % (q * n)) % q \in 0 .. q - 1
    BY <1>1, InItem
  <2>2. QED
    BY <2>1 DEF SPos, QPos, Rest, q, n
<1> HIDE DEF m
<1>3. i \div m \in Nat /\ i % m \in Nat /\ i = (i \div m) * m + (i % m)
  <2>1. i \div m \in Nat /\ i % m \in 0 .. m - 1 /\ i = (i \div m) * m + (i % m)
    BY <1>2, DivMod
  <2>2. QED
    BY <1>2, <2>1
<1>4. i % m = ((i % m) \div q) * q + ((i % m) % q)
  <2> HIDE DEF q
  <2>1. QED
    BY <1>1, <1>3, DivMod
<1>5. Item(g, i) = i \div m /\ SPos(g, i) = (i % m) \div q /\ QPos(g, i) = (i % m) % q
  BY DEF Item, SPos, QPos, Rest, m
<1>6. QED
  BY <1>2, <1>3, <1>4, <1>5 DEF m

\* The only quotient and remainder.
LEMMA DivUnique ==
  ASSUME NEW m \in Nat \ {0}, NEW a \in Nat, NEW r \in 0 .. m - 1, NEW i, i = a * m + r
  PROVE  i \div m = a /\ i % m = r
<1>1. a * m \in Nat /\ (a + 1) * m = a * m + m /\ i \in Nat
  OBVIOUS
<1>2. i < (a + 1) * m /\ ~(i < a * m)
  BY <1>1
<1>3. i \div m < a + 1 /\ ~(i \div m < a)
  BY <1>1, <1>2, DivBelow
<1>4. i \div m = a
  BY <1>1, <1>3, DivMod
<1>5. i = a * m + (i % m) /\ i % m \in Nat
  <2>1. i % m \in 0 .. m - 1 /\ i = (i \div m) * m + (i % m)
    BY <1>1, DivMod
  <2>2. QED
    BY <1>4, <2>1
<1>6. QED
  BY <1>1, <1>4, <1>5

\* One byte has one place.
LEMMA PlaceUnique ==
  ASSUME NEW g \in Geometries, NEW k \in Nat, NEW s \in 0 .. g.qset - 1, NEW o \in 0 .. g.quantum - 1,
         NEW i, i = k * (g.quantum * g.qset) + (s * g.quantum + o)
  PROVE  i \in Nat /\ Item(g, i) = k /\ SPos(g, i) = s /\ QPos(g, i) = o
<1> DEFINE q == g.quantum
           n == g.qset
           m == q * n
           r == s * q + o
<1>1. q \in Nat \ {0} /\ n \in Nat \ {0} /\ s \in Nat /\ s + 1 \in Nat /\ s + 1 <= n /\ o \in 0 .. q - 1
  BY DEF Geometries
<1> HIDE DEF q, n
<1>2. m \in Nat \ {0}
  BY <1>1, InItem
<1>3. (s + 1) * q <= n * q /\ (s + 1) * q = s * q + q /\ n * q = m /\ s * q \in Nat
  BY <1>1, MulMonotone
<1>4. r \in 0 .. m - 1
  BY <1>1, <1>2, <1>3
<1>5. i = k * m + r
  BY DEF q, n
<1> HIDE DEF m
<1>6. r \div q = s /\ r % q = o
  BY <1>1, DivUnique
<1> HIDE DEF r
<1>7. i \div m = k /\ i % m = r
  BY <1>2, <1>4, <1>5, DivUnique
<1>8. i \in Nat
  BY <1>2, <1>4, <1>5
<1>9. QED
  BY <1>6, <1>7, <1>8 DEF Item, SPos, QPos, Rest, m, q, n

\* Another byte of the same quantum.
LEMMA SameQuantum ==
  ASSUME NEW g \in Geometries, NEW i \in Nat, NEW j \in Int, QPos(g, i) + j \in 0 .. g.quantum - 1
  PROVE  /\ i + j \in Nat
         /\ Item(g, i + j) = Item(g, i) /\ SPos(g, i + j) = SPos(g, i) /\ QPos(g, i + j) = QPos(g, i) + j
<1> DEFINE a == Item(g, i) * (g.quantum * g.qset)
           b == SPos(g, i) * g.quantum
<1>1. /\ Item(g, i) \in Nat /\ SPos(g, i) \in 0 .. g.qset - 1 /\ QPos(g, i) \in 0 .. g.quantum - 1
      /\ i = a + (b + QPos(g, i))
  BY PlaceOf
<1>2. a \in Nat /\ b \in Nat
  BY <1>1 DEF Geometries
<1>3. i + j = a + (b + (QPos(g, i) + j))
  <2> HIDE DEF a, b
  <2>1. QPos(g, i) \in Int
    BY <1>1
  <2>2. QED
    BY <1>1, <1>2, <2>1
<1>4. QED
  BY <1>1, <1>3, PlaceUnique

\* A byte is there ...
Held(d, g, i) == /\ Item(g, i) < Len(d) /\ d[Item(g, i) + 1] # Null
                 /\ d[Item(g, i) + 1][SPos(g, i) + 1] # Null
\* ... and has this value.
ByteAt(d, g, i) == d[Item(g, i) + 1][SPos(g, i) + 1][QPos(g, i) + 1]

\* The content of a list.
CellsOf(d, g) == {c \in (1 .. Len(d)) \X (1 .. g.qset) \X (1 .. g.quantum) :
                    /\ c[2] <= Len(d[c[1]])
                    /\ c[3] <= Len(d[c[1]][c[2]])}
OffsetOf(g, c) == ((c[1] - 1) * g.qset + c[2] - 1) * g.quantum + c[3] - 1
ContentOf(d, g) == [i \in {OffsetOf(g, c) : c \in CellsOf(d, g)} |->
                      LET c == CHOOSE c \in CellsOf(d, g) : OffsetOf(g, c) = i
                      IN d[c[1]][c[2]][c[3]]]

LEMMA ContentHere == Content = ContentOf(data, Here)
<1>1. Here.quantum = quantum /\ Here.qset = qset
  BY DEF Here
<1>2. Cells = CellsOf(data, Here)
  BY <1>1 DEF Cells, CellsOf
<1>3. \A c : Offset(c) = OffsetOf(Here, c)
  BY <1>1 DEF Offset, OffsetOf
<1>4. \A i : (CHOOSE c \in Cells : Offset(c) = i) = CHOOSE c \in CellsOf(data, Here) : OffsetOf(Here, c) = i
  BY <1>2, <1>3
<1>5. {Offset(c) : c \in Cells} = {OffsetOf(Here, c) : c \in CellsOf(data, Here)}
  BY <1>2, <1>3
<1> DEFINE a(i) == CHOOSE c \in Cells : Offset(c) = i
           b(i) == CHOOSE c \in CellsOf(data, Here) : OffsetOf(Here, c) = i
<1>6. \A i : a(i) = b(i)
  BY <1>4
<1>7. Content = [i \in {Offset(c) : c \in Cells} |-> data[a(i)[1]][a(i)[2]][a(i)[3]]]
  BY DEF Content
<1>8. ContentOf(data, Here) = [i \in {OffsetOf(Here, c) : c \in CellsOf(data, Here)} |->
                                 data[b(i)[1]][b(i)[2]][b(i)[3]]]
  BY DEF ContentOf
<1> HIDE DEF a, b
<1>9. QED
  BY <1>5, <1>6, <1>7, <1>8

LEMMA OffsetPlace ==
  ASSUME NEW g \in Geometries, NEW k \in Nat \ {0}, NEW s \in 1 .. g.qset, NEW o \in 1 .. g.quantum
  PROVE  /\ OffsetOf(g, <<k, s, o>>) \in Nat
         /\ Item(g, OffsetOf(g, <<k, s, o>>)) = k - 1
         /\ SPos(g, OffsetOf(g, <<k, s, o>>)) = s - 1
         /\ QPos(g, OffsetOf(g, <<k, s, o>>)) = o - 1
<1> DEFINE q == g.quantum
           n == g.qset
           x == k - 1
           y == s - 1
           z == o - 1
<1>1. q \in Nat \ {0} /\ n \in Nat \ {0} /\ x \in Nat /\ y \in 0 .. n - 1 /\ z \in 0 .. q - 1
  BY DEF Geometries
<1>2. OffsetOf(g, <<k, s, o>>) = (x * n + y) * q + z
  <2>1. OffsetOf(g, <<k, s, o>>) = ((k - 1) * n + s - 1) * q + o - 1
    BY DEF OffsetOf
  <2>2. x * n \in Int /\ (k - 1) * n = x * n
    BY <1>1
  <2>3. ((k - 1) * n + s - 1) = x * n + y
    BY <2>2
  <2>4. ((k - 1) * n + s - 1) * q \in Int
    BY <1>1, <2>2, <2>3
  <2>5. QED
    BY <2>1, <2>3, <2>4
<1> HIDE DEF x, y, z, q, n
<1>3. (x * n + y) * q = x * (q * n) + y * q
  BY <1>1
<1>4. x * (q * n) \in Int /\ y * q \in Int
  BY <1>1
<1>5. (x * n + y) * q + z = x * (q * n) + (y * q + z)
  BY <1>1, <1>3, <1>4
<1>6. QED
  BY <1>1, <1>2, <1>5, PlaceUnique DEF x, y, z, q, n

\* The content of a list is what is held at each offset.
LEMMA ContentIs ==
  ASSUME NEW g \in Geometries, NEW d \in Seq(TableOf(g.quantum, g.qset))
  PROVE  /\ DOMAIN ContentOf(d, g) = {i \in Nat : Held(d, g, i)}
         /\ \A i \in Nat : Held(d, g, i) => ContentOf(d, g)[i] = ByteAt(d, g, i)
<1> DEFINE q == g.quantum
           n == g.qset
           C == CellsOf(d, g)
           At(i) == <<Item(g, i) + 1, SPos(g, i) + 1, QPos(g, i) + 1>>
<1>0. q \in Nat \ {0} /\ n \in Nat \ {0}
  BY DEF Geometries
<1>1. ASSUME NEW k \in 1 .. Len(d), NEW s \in 1 .. n, NEW o \in 1 .. q
      PROVE  <<k, s, o>> \in C <=> d[k] # Null /\ d[k][s] # Null
  <2>1. <<k, s, o>> \in C <=> s <= Len(d[k]) /\ o <= Len(d[k][s])
    BY DEF CellsOf
  <2>2. d[k] \in TableOf(q, n)
    OBVIOUS
  <2>3. CASE d[k] = Null
    <3>1. Len(d[k]) = 0
      BY <2>3 DEF Null
    <3>2. ~(s <= Len(d[k]))
      BY <3>1
    <3>3. QED
      BY <2>1, <2>3, <3>2
  <2>4. CASE d[k] # Null
    <3>1. d[k] \in [1 .. n -> Block(q)] /\ Len(d[k]) = n
      BY <1>0, <2>2, <2>4, TableLength
    <3>2. CASE d[k][s] = Null
      <4>1. Len(d[k][s]) = 0
        BY <3>2 DEF Null
      <4>2. ~(o <= Len(d[k][s]))
        BY <4>1
      <4>3. QED
        BY <2>1, <3>2, <4>2
    <3>3. CASE d[k][s] # Null
      <4>1. Len(d[k][s]) = q
        BY <1>0, <3>1, <3>3, BlockLength
      <4>2. s <= Len(d[k]) /\ o <= Len(d[k][s])
        BY <3>1, <4>1
      <4>3. QED
        BY <2>1, <2>4, <3>3, <4>2
    <3>4. QED
      BY <3>2, <3>3
  <2>5. QED
    BY <2>3, <2>4
<1>2. ASSUME NEW i \in Nat
      PROVE  /\ At(i) \in C <=> Held(d, g, i)
             /\ OffsetOf(g, At(i)) = i
  <2>1. Item(g, i) \in Nat /\ SPos(g, i) \in 0 .. n - 1 /\ QPos(g, i) \in 0 .. q - 1
    BY PlaceOf
  <2>2. /\ Item(g, i) + 1 \in Nat \ {0} /\ SPos(g, i) + 1 \in 1 .. n /\ QPos(g, i) + 1 \in 1 .. q
    BY <1>0, <2>1
  <2>3. Item(g, i) < Len(d) <=> Item(g, i) + 1 \in 1 .. Len(d)
    BY <2>1
  <2>4. At(i) \in C => Item(g, i) + 1 \in 1 .. Len(d)
    BY DEF CellsOf
  <2>5. At(i) \in C <=> Held(d, g, i)
    BY <1>1, <2>2, <2>3, <2>4 DEF Held
  <2>6. OffsetOf(g, At(i)) = i
    <3> DEFINE e == OffsetOf(g, At(i))
    <3>0. PICK k \in Nat \ {0}, t \in 1 .. n, o \in 1 .. q :
             k = Item(g, i) + 1 /\ t = SPos(g, i) + 1 /\ o = QPos(g, i) + 1
      BY <2>2
    <3>1. /\ e \in Nat /\ Item(g, e) = k - 1 /\ SPos(g, e) = t - 1 /\ QPos(g, e) = o - 1
      <4>1. e = OffsetOf(g, <<k, t, o>>)
        BY <3>0
      <4> HIDE DEF e
      <4>2. QED
        BY <4>1, OffsetPlace
    <3> HIDE DEF e
    <3>2. Item(g, e) = Item(g, i) /\ SPos(g, e) = SPos(g, i) /\ QPos(g, e) = QPos(g, i)
      <4>1. Item(g, i) \in Int /\ SPos(g, i) \in Int /\ QPos(g, i) \in Int
        BY <1>0, <2>1
      <4>2. k - 1 = Item(g, i) /\ t - 1 = SPos(g, i) /\ o - 1 = QPos(g, i)
        <5>1. \A a, c \in Int : c = a + 1 => c - 1 = a
          OBVIOUS
        <5>2. k \in Int /\ t \in Int /\ o \in Int
          BY <1>0
        <5>3. QED
          BY <3>0, <4>1, <5>1, <5>2
      <4>3. QED
        BY <3>1, <4>2
    <3>3. /\ e = Item(g, e) * (q * n) + (SPos(g, e) * q + QPos(g, e))
          /\ i = Item(g, i) * (q * n) + (SPos(g, i) * q + QPos(g, i))
      BY <3>1, PlaceOf
    <3>4. e = i
      BY <3>2, <3>3, Zenon
    <3>5. QED
      BY <3>4 DEF e
  <2>7. QED
    BY <2>5, <2>6
<1>3. ASSUME NEW c \in C
      PROVE  /\ OffsetOf(g, c) \in Nat /\ c = At(OffsetOf(g, c))
  <2>1. PICK k \in 1 .. Len(d), s \in 1 .. n, o \in 1 .. q : c = <<k, s, o>>
    BY DEF CellsOf
  <2>2. k \in Nat \ {0}
    OBVIOUS
  <2>3. /\ OffsetOf(g, c) \in Nat /\ Item(g, OffsetOf(g, c)) = k - 1
        /\ SPos(g, OffsetOf(g, c)) = s - 1 /\ QPos(g, OffsetOf(g, c)) = o - 1
    BY <2>1, <2>2, OffsetPlace
  <2>4. k - 1 + 1 = k /\ s - 1 + 1 = s /\ o - 1 + 1 = o
    BY <1>0
  <2>5. QED
    BY <2>1, <2>3, <2>4
<1>4. DOMAIN ContentOf(d, g) = {i \in Nat : Held(d, g, i)}
  <2>1. DOMAIN ContentOf(d, g) = {OffsetOf(g, c) : c \in C}
    BY DEF ContentOf
  <2> HIDE DEF C, At
  <2>2. ASSUME NEW c \in C PROVE OffsetOf(g, c) \in Nat /\ Held(d, g, OffsetOf(g, c))
    BY <1>2, <1>3
  <2>3. ASSUME NEW i \in Nat, Held(d, g, i) PROVE i \in {OffsetOf(g, c) : c \in C}
    BY <1>2, <2>3
  <2>4. QED
    BY <2>1, <2>2, <2>3
<1>5. ASSUME NEW i \in Nat, Held(d, g, i) PROVE ContentOf(d, g)[i] = ByteAt(d, g, i)
  <2> DEFINE e == CHOOSE c \in C : OffsetOf(g, c) = i
  <2>1. i \in {OffsetOf(g, c) : c \in C}
    <3> HIDE DEF C, At
    <3>1. QED
      BY <1>2, <1>5
  <2>2. ContentOf(d, g)[i] = d[e[1]][e[2]][e[3]]
    BY <2>1 DEF ContentOf
  <2>3. e \in C /\ OffsetOf(g, e) = i
    <3>1. \E c \in C : OffsetOf(g, c) = i
      BY <2>1
    <3> HIDE DEF C
    <3>2. QED
      BY <3>1
  <2> HIDE DEF C, e
  <2>4. e = At(i)
    BY <1>3, <2>3
  <2>5. QED
    BY <2>2, <2>4 DEF ByteAt
<1>6. QED
  BY <1>4, <1>5

-----------------------------------------------------------------------------
(* The device is a file *)

Asked    == [p \in Procs |-> IF pc[p] = "w_down" THEN user[p] ELSE Null]
Answered == [p \in Procs |-> IF pc[p] = "done" THEN <<user[p]>> ELSE Null]

\* A file that is not open is at its start; no call is about nothing.
FileInv ==
  \A p \in Procs : /\ pc[p] \in {"closed", "o_down"} => pos[p] = 0
                   /\ pc[p] \in {"r_down", "w_down"} => count[p] # 0

LEMMA ContentNext == (Content = ContentOf(data, Here))'
BY ContentHere, PTL

LEMMA ContentSame ==
  ASSUME UNCHANGED <<quantum, qset, data>>
  PROVE  Content' = Content
BY DEF Content, Cells, Offset

\* What a step of p means to the requests and the answers of all.
LEMMA AskedAnswered ==
  ASSUME MemInv, NEW p \in Procs, NEW l, Goto(p, l), \A q \in Procs \ {p} : user'[q] = user[q]
  PROVE  /\ Asked' = [Asked EXCEPT ![p] = IF l = "w_down" THEN user'[p] ELSE Null]
         /\ Answered' = [Answered EXCEPT ![p] = IF l = "done" THEN <<user'[p]>> ELSE Null]
         /\ pc'[p] = l
BY DEF MemInv, MemType, Goto, Asked, Answered

\* Neither asked for nor answered, before and after.
LEMMA Silent ==
  ASSUME MemInv, NEW p \in Procs, NEW l \in {"closed", "o_down", "open", "r_down"}, Goto(p, l),
         pc[p] \notin {"w_down", "done"}, \A q \in Procs \ {p} : user'[q] = user[q]
  PROVE  Asked' = Asked /\ Answered' = Answered
<1>1. Asked' = [Asked EXCEPT ![p] = Null] /\ Answered' = [Answered EXCEPT ![p] = Null]
  BY AskedAnswered
<1>2. Asked[p] = Null /\ Answered[p] = Null
  BY DEF Asked, Answered
<1>3. DOMAIN Asked = Procs /\ DOMAIN Answered = Procs
  BY DEF Asked, Answered
<1> HIDE DEF Asked, Answered
<1>4. Asked = [q \in Procs |-> Asked[q]] /\ Answered = [q \in Procs |-> Answered[q]]
  BY DEF Asked, Answered
<1>5. QED
  BY <1>1, <1>2, <1>4

\* A call that is no longer waiting, or was not, and has no answer.
LEMMA LeftCall ==
  ASSUME MemInv, NEW p \in Procs, NEW l \in {"closed", "open"}, Leave(p, l)
  PROVE  Asked' = [Asked EXCEPT ![p] = Null] /\ Answered' = [Answered EXCEPT ![p] = Null]
<1>1. Goto(p, l) /\ \A q \in Procs \ {p} : user'[q] = user[q]
  BY DEF Leave, MemInv, MemType
<1>2. QED
  BY <1>1, AskedAnswered

\* Bytes are kept that are held before and after the step.
LEMMA ContentKept ==
  ASSUME MemInv, Here \in Geometries, UNCHANGED <<quantum, qset>>, Shape', NEW S,
         \A i \in Nat \ S : Held(data, Here, i) =>
            Held(data', Here, i) /\ ByteAt(data', Here, i) = ByteAt(data, Here, i)
  PROVE  File!KeepAllBut(S)
<1>1. Content = ContentOf(data, Here) /\ data \in Seq(TableOf(Here.quantum, Here.qset))
  BY ContentHere DEF MemInv, Shape, Here
<1>2. Content' = ContentOf(data', Here) /\ data' \in Seq(TableOf(Here.quantum, Here.qset))
  <2>1. Here' = Here
    BY DEF Here
  <2>2. Content' = ContentOf(data', Here)
    BY <2>1, ContentNext
  <2>3. QED
    BY <2>2 DEF Shape, Here
<1>3. ASSUME NEW i \in DOMAIN Content \ S PROVE i \in DOMAIN Content' /\ Content'[i] = Content[i]
  <2>1. i \in Nat /\ Held(data, Here, i) /\ Content[i] = ByteAt(data, Here, i)
    BY <1>1, ContentIs
  <2>2. Held(data', Here, i) /\ ByteAt(data', Here, i) = ByteAt(data, Here, i)
    BY <2>1
  <2>3. i \in DOMAIN Content' /\ Content'[i] = ByteAt(data', Here, i)
    BY <1>2, <2>1, <2>2, ContentIs
  <2>4. QED
    BY <2>1, <2>2, <2>3
<1>4. QED
  BY <1>3 DEF File!KeepAllBut

\* A geometry without a zero.
LEMMA HereGood ==
  ASSUME GeometryAssumption, MemInv, NEW p \in Procs, pc[p] \in {"r_down", "w_down"}, ~DividesByZero(p)
  PROVE  /\ geo[p] = Here /\ Here \in Geometries /\ pos[p] \in Nat /\ count[p] \in Nat
         /\ Here.quantum = quantum /\ Here.qset = qset /\ quantum \in Nat \ {0} /\ qset \in Nat \ {0}
<1>1. geo[p] = Here
  BY DEF MemInv, CallOf
<1>2. quantum \in Nat \ {0} /\ qset \in Nat \ {0}
  BY <1>1, Place
<1>3. QED
  BY <1>1, <1>2 DEF Geometries, Here, MemInv, MemType

LEMMA InitFile == ASSUME Init PROVE FileInv /\ File!Init
<1>1. FileInv
  BY DEF Init, FileInv
<1>2. Content = File!Empty
  <2>1. Cells = {}
    BY DEF Init, Cells, Null
  <2>2. QED
    BY <2>1 DEF Content, File!Empty
<1>3. QED
  BY <1>1, <1>2 DEF Init, File!Init, Null

\* Steps that begin or end something outside the semaphore.
LEMMA OutsideFile ==
  ASSUME GeometryAssumption, CountsAssumption, MemInv, FileInv, NEW p \in Procs,
         \/ Open(p) \/ Release(p) \/ Interrupted(p) \/ Return(p)
         \/ BeginRead(p) \/ BeginWrite(p) \/ Llseek(p) \/ IoctlSet(p) \/ DivideFault(p)
  PROVE  FileInv' /\ (File!Next \/ UNCHANGED File!flatVars)
<1>0. UNCHANGED device
  BY DEF Open, Release, Interrupted, Return, BeginRead, BeginWrite, Begin, Llseek, IoctlSet,
         DivideFault, Fault
<1>1. Content' = Content /\ size' = size
  BY <1>0, ContentSame DEF device
<1>2. \A S : File!KeepAllBut(S)
  BY <1>1 DEF File!KeepAllBut
<1>3. /\ pc \in [Procs -> {"closed", "o_down", "open", "r_down", "w_down", "done"}]
      /\ pos \in [Procs -> Nat] /\ count \in [Procs -> Nat] /\ DOMAIN Asked = Procs /\ DOMAIN Answered = Procs
  BY DEF MemInv, MemType, Asked, Answered
<1>4. CASE Open(p)
  <2>1. PICK l \in {"o_down", "open"} : Goto(p, l)
    BY <1>4 DEF Open
  <2>2. Asked' = Asked /\ Answered' = Answered
    BY <1>4, <2>1, Silent DEF Open, call
  <2>3. FileInv'
    BY <1>3, <1>4, <2>1 DEF FileInv, Open, Goto, call
  <2>4. QED
    BY <1>1, <1>4, <2>2, <2>3 DEF Open, File!flatVars, Asked, Answered
<1>5. CASE Release(p)
  <2>1. Asked' = Asked /\ Answered' = Answered
    BY <1>5, Silent DEF Release, call
  <2>2. FileInv'
    BY <1>3, <1>5 DEF FileInv, Release, Goto, call
  <2>3. File!Seek(p)
    BY <1>1, <1>3, <1>5, <2>1 DEF Release, File!Seek, Asked, Answered
  <2>4. QED
    BY <2>2, <2>3 DEF File!Next
<1>6. CASE Interrupted(p)
  <2>1. CASE pc[p] \in {"r_down", "w_down"} /\ Leave(p, "open") /\ UNCHANGED file
    <3>1. FileInv'
      BY <1>3, <2>1 DEF FileInv, Leave, Goto, file
    <3>2. File!Done(p)
      BY <1>1, <1>2, <2>1, LeftCall DEF File!Done, file, Asked, Answered, Null
    <3>3. QED
      BY <3>1, <3>2 DEF File!Next
  <2>2. CASE pc[p] = "o_down" /\ Leave(p, "closed") /\ pos' = [pos EXCEPT ![p] = 0]
    <3>1. FileInv'
      BY <1>3, <2>2 DEF FileInv, Leave, Goto
    <3>2. Asked' = Asked /\ Answered' = Answered
      BY <1>3, <2>2, Silent DEF Leave, MemInv, MemType
    <3>3. pos' = pos
      BY <1>3, <2>2 DEF FileInv
    <3>4. QED
      BY <1>1, <3>1, <3>2, <3>3 DEF File!flatVars, Asked, Answered
  <2>3. QED
    BY <1>6, <2>1, <2>2 DEF Interrupted
<1>7. CASE Return(p)
  <2>1. FileInv'
    BY <1>3, <1>7 DEF FileInv, Return, Leave, Goto, file
  <2>2. File!Done(p)
    BY <1>1, <1>2, <1>7, LeftCall DEF Return, File!Done, file, Asked, Answered, Null
  <2>3. QED
    BY <2>1, <2>2 DEF File!Next
<1>8. CASE BeginRead(p)
  <2>1. Asked' = Asked /\ Answered' = Answered
    BY <1>8, Silent DEF BeginRead, Begin
  <2>2. FileInv'
    BY <1>3, <1>8, CountsAssumption DEF FileInv, BeginRead, Begin, Goto, file
  <2>3. QED
    BY <1>1, <1>8, <2>1, <2>2 DEF BeginRead, Begin, file, File!flatVars, Asked, Answered
<1>9. CASE BeginWrite(p)
  <2>1. PICK n \in Counts : count' = [count EXCEPT ![p] = n]
    BY <1>9 DEF BeginWrite, Begin
  <2>2. n \in Nat \ {0} /\ count'[p] = n
    BY <1>3, <2>1, CountsAssumption
  <2>3. PICK bytes \in [1 .. n -> Byte] : user' = [user EXCEPT ![p] = bytes]
    BY <1>9, <2>2 DEF BeginWrite
  <2>4. bytes \in Seq(Byte) /\ user'[p] = bytes /\ \A q \in Procs \ {p} : user'[q] = user[q]
    BY <2>2, <2>3, ArrayIsSeq DEF MemInv, MemType
  <2>5. Asked' = [Asked EXCEPT ![p] = bytes] /\ Answered' = [Answered EXCEPT ![p] = Null] /\ Answered[p] = Null
    BY <1>9, <2>4, AskedAnswered DEF BeginWrite, Begin, Answered
  <2>6. FileInv'
    BY <1>3, <1>9, <2>1, <2>2 DEF FileInv, BeginWrite, Begin, Goto, file
  <2>7. UNCHANGED pos
    BY <1>9 DEF BeginWrite, Begin, file
  <2>8. Asked'[p] = bytes /\ Answered' = Answered
    <3>1. Answered = [q \in Procs |-> Answered[q]]
      BY DEF Answered
    <3> HIDE DEF Asked, Answered
    <3>2. QED
      BY <1>3, <2>5, <3>1
  <2>9. File!Ask(p)
    BY <1>1, <2>4, <2>5, <2>7, <2>8 DEF File!Ask, Asked, Answered
  <2>10. QED
    BY <2>6, <2>9 DEF File!Next
<1>10. CASE Llseek(p)
  <2>1. FileInv'
    BY <1>3, <1>10 DEF FileInv, Llseek, call
  <2>2. Asked' = Asked /\ Answered' = Answered
    BY <1>10 DEF Llseek, call, Asked, Answered
  <2>3. PICK i \in 0 .. MaxPos : pos' = [pos EXCEPT ![p] = i]
    BY <1>10 DEF Llseek
  <2>4. File!Seek(p)
    BY <1>1, <1>3, <2>2, <2>3, CountsAssumption DEF File!Seek, Asked, Answered
  <2>5. QED
    BY <2>1, <2>4 DEF File!Next
<1>11. CASE IoctlSet(p) \/ DivideFault(p)
  <2>1. UNCHANGED <<pc, pos, count, user>>
    BY <1>11 DEF IoctlSet, DivideFault, Fault, file, call
  <2>2. FileInv'
    BY <2>1 DEF FileInv
  <2>3. UNCHANGED File!flatVars
    BY <1>1, <2>1 DEF File!flatVars
  <2>4. QED
    BY <2>2, <2>3
<1>12. QED
  BY <1>4, <1>5, <1>6, <1>7, <1>8, <1>9, <1>10, <1>11

\* The device is emptied.
LEMMA TrimFile ==
  ASSUME MemInv, FileInv, NEW p \in Procs, OpenTrim(p)
  PROVE  FileInv' /\ File!Open(p)
<1>1. Content' = File!Empty
  <2>1. Cells' = {}
    BY DEF OpenTrim, Trim, Cells, Null
  <2>2. QED
    BY <2>1 DEF Content, File!Empty
<1>2. pc \in [Procs -> {"closed", "o_down", "open", "r_down", "w_down", "done"}] /\ pos \in [Procs -> Nat]
  BY DEF MemInv, MemType
<1>3. FileInv'
  BY <1>2 DEF FileInv, OpenTrim, Goto, file, call
<1>4. Asked' = Asked /\ Answered' = Answered
  BY Silent DEF OpenTrim, call
<1>5. pos' = [pos EXCEPT ![p] = 0]
  BY <1>2 DEF FileInv, OpenTrim, file
<1>6. size' = 0
  BY DEF OpenTrim, Trim
<1>7. QED
  BY <1>1, <1>3, <1>4, <1>5, <1>6 DEF File!Open, Asked, Answered

\* A call that fails.
LEMMA FailedCall ==
  ASSUME MemInv, FileInv, NEW p \in Procs, Leave(p, "open"), UNCHANGED <<size, pos>>,
         File!KeepAllBut(pos[p] .. pos[p] + Len(Asked[p]) - 1)
  PROVE  FileInv' /\ File!Done(p)
<1>1. FileInv'
  BY DEF FileInv, MemInv, MemType, Leave, Goto
<1>2. Asked' = [Asked EXCEPT ![p] = Null] /\ Answered' = [Answered EXCEPT ![p] = Null]
  BY LeftCall
<1>3. QED
  BY <1>1, <1>2 DEF File!Done, Asked, Answered, Null

\* An answer s is read when it is what the file holds from pos[p] on.
LEMMA AnsweredCall ==
  ASSUME MemInv, FileInv, NEW p \in Procs, pc[p] = "r_down", NEW s, Answer(p, s), data' = data,
         NEW n \in 0 .. size, s = [i \in 1 .. n |-> Content[pos[p] + i - 1]],
         pos[p] .. pos[p] + n - 1 \subseteq DOMAIN Content \cap (0 .. size - 1),
         n = 0 => pos[p] \notin DOMAIN Content \cap (0 .. size - 1)
  PROVE  FileInv' /\ File!Read(p)
<1>1. pos[p] \in Nat /\ size \in Nat /\ n \in Nat /\ Len(s) = n
  BY DEF MemInv, MemType
<1>2. FileInv'
  BY DEF FileInv, MemInv, MemType, Answer, Goto
<1>3. Content' = Content
  BY ContentSame DEF Answer
<1>4. user'[p] = s /\ \A q \in Procs \ {p} : user'[q] = user[q]
  BY DEF MemInv, MemType, Answer
<1>5. /\ Asked' = [Asked EXCEPT ![p] = Null] /\ Asked[p] = Null
      /\ Answered' = [Answered EXCEPT ![p] = <<s>>]
  BY <1>4, AskedAnswered DEF Answer, Asked
<1>6. Asked' = Asked
  <2>1. Asked = [q \in Procs |-> Asked[q]]
    BY DEF Asked
  <2> HIDE DEF Asked
  <2>2. QED
    BY <1>5, <2>1
<1>7. pos' = [pos EXCEPT ![p] = pos[p] + n] /\ size' = size
  BY <1>1 DEF Answer
<1>8. QED
  BY <1>2, <1>3, <1>5, <1>6, <1>7 DEF File!Read, Asked, Answered

LEMMA ReadFile ==
  ASSUME GeometryAssumption, MemInv, FileInv, NEW p \in Procs, ReadNothing(p) \/ ReadBytes(p)
  PROVE  FileInv' /\ (File!Read(p) \/ File!Done(p))
<1>1. pc[p] = "r_down" /\ pos[p] \in Nat /\ size \in Nat /\ count[p] \in Nat \ {0}
  BY DEF ReadNothing, ReadBytes, MemInv, MemType, FileInv
<1>2. CASE ReadNothing(p)
  <2>1. data' = data /\ Answer(p, <<>>)
    BY <1>2, ReadNothingKeeps DEF ReadNothing, Null
  <2>2. pos[p] \notin DOMAIN Content \cap (0 .. size - 1)
    <3>1. CASE AtEnd(p)
      BY <1>1, <3>1 DEF AtEnd
    <3>2. CASE ~AtEnd(p)
      <4>1. ~DividesByZero(p)
        BY <1>2, <3>2 DEF ReadNothing
      <4>2. /\ Follow(data, Item(geo[p], pos[p])) = data
            /\ FollowFailed(data, Item(geo[p], pos[p])) = {}
        BY <1>1, <3>2, <4>1, ReaderFinds
      <4>3. geo[p] = Here /\ Here \in Geometries
        BY <1>1, <4>1, HereGood
      <4>4. ~Held(data, Here, pos[p])
        BY <1>2, <3>2, <4>2, <4>3 DEF ReadNothing, Held
      <4>5. data \in Seq(TableOf(Here.quantum, Here.qset))
        BY DEF MemInv, Shape, Here
      <4>6. QED
        BY <1>1, <4>3, <4>4, <4>5, ContentHere, ContentIs
    <3>3. QED
      BY <3>1, <3>2
  <2>3. <<>> = [i \in 1 .. 0 |-> Content[pos[p] + i - 1]] /\ 0 \in 0 .. size
        /\ pos[p] .. pos[p] + 0 - 1 \subseteq DOMAIN Content \cap (0 .. size - 1)
    BY <1>1
  <2>4. QED
    BY <1>1, <2>1, <2>2, <2>3, AnsweredCall
<1>3. CASE ReadBytes(p)
  <2> DEFINE d == Follow(data, Item(geo[p], pos[p]))
             t == d[Item(geo[p], pos[p]) + 1]
             s == SPos(geo[p], pos[p]) + 1
             q == QPos(geo[p], pos[p])
             n == ToQuantumEnd(p, Lesser(count[p], size - pos[p]))
  <2>1. ~AtEnd(p) /\ ~DividesByZero(p) /\ t # Null
    BY <1>3 DEF ReadBytes
  <2>2. /\ geo[p] = Here /\ Here \in Geometries
        /\ Here.quantum = quantum /\ Here.qset = qset /\ quantum \in Nat \ {0} /\ qset \in Nat \ {0}
    BY <1>1, <2>1, HereGood
  <2>3. d = data /\ Item(geo[p], pos[p]) \in 0 .. Len(data) - 1
    BY <1>1, <2>1, ReaderFinds
  <2>4. /\ s \in 1 .. Len(t) /\ n \in Nat
        /\ t[s] # Null => t[s] \in Seq(Cell) /\ q \in Nat /\ q + n <= Len(t[s])
    BY <1>1, <2>1, ReadBlock
  <2>5. /\ t[s] # Null
        /\ \/ Answer(p, SubSeq(t[s], q + 1, q + n))
           \/ Leave(p, "open") /\ UNCHANGED <<params, quantum, qset, size, file, fault>>
    <3>1. ~(s > Len(t) \/ (t[s] # Null /\ q + n > Len(t[s])))
      <4>1. Len(t) \in Int \/ Len(t) \notin Int
        OBVIOUS
      <4> HIDE DEF t, s, q, n
      <4>2. QED
        BY <2>4
    <3>2. QED
      BY <1>3, <3>1 DEF ReadBytes
  <2>6. data' = data /\ UNCHANGED <<quantum, qset>>
    BY <1>3, ReadBytesKeeps
  <2>7. CASE Leave(p, "open") /\ UNCHANGED <<params, quantum, qset, size, file, fault>>
    <3>1. \A S : File!KeepAllBut(S)
      BY <2>6, ContentSame DEF File!KeepAllBut
    <3>2. QED
      BY <2>7, <3>1, FailedCall DEF file
  <2>8. CASE Answer(p, SubSeq(t[s], q + 1, q + n))
    <3>1. q \in 0 .. quantum - 1 /\ n \in 1 .. size - pos[p] /\ q + n <= quantum
      <4>1. q \in 0 .. quantum - 1
        BY <2>2, PlaceOf, <1>1
      <4>2. size - pos[p] \in Nat \ {0} /\ Lesser(count[p], size - pos[p]) \in 1 .. size - pos[p]
        BY <1>1, <2>1 DEF AtEnd, Lesser
      <4>3. n = Lesser(Lesser(count[p], size - pos[p]), quantum - q)
        BY <2>2 DEF ToQuantumEnd
      <4> HIDE DEF q, n
      <4>4. QED
        BY <2>2, <4>1, <4>2, <4>3 DEF Lesser
    <3>2. ASSUME NEW i \in 1 .. n
          PROVE  /\ pos[p] + i - 1 \in DOMAIN Content
                 /\ Content[pos[p] + i - 1] = t[s][q + i]
      <4> DEFINE x == pos[p] + (i - 1)
      <4>1. q + (i - 1) \in 0 .. quantum - 1 /\ i - 1 \in Int /\ q + (i - 1) + 1 = q + i
        <5> HIDE DEF q, n
        <5>1. QED
          BY <2>2, <3>1
      <4>2. /\ x \in Nat /\ Item(Here, x) = Item(Here, pos[p])
            /\ SPos(Here, x) = SPos(Here, pos[p]) /\ QPos(Here, x) = q + (i - 1)
        BY <1>1, <2>2, <4>1, SameQuantum
      <4>3. Held(data, Here, x) /\ ByteAt(data, Here, x) = t[s][q + i]
        BY <2>1, <2>2, <2>3, <2>5, <4>1, <4>2 DEF Held, ByteAt
      <4>4. data \in Seq(TableOf(Here.quantum, Here.qset))
        BY DEF MemInv, Shape, Here
      <4>5. x \in DOMAIN Content /\ Content[x] = t[s][q + i]
        <5> HIDE DEF t, s, q, x
        <5>1. QED
          BY <2>2, <4>2, <4>3, <4>4, ContentHere, ContentIs
      <4>6. x = pos[p] + i - 1
        BY <1>1
      <4>7. QED
        BY <4>5, <4>6
    <3>3. SubSeq(t[s], q + 1, q + n) = [i \in 1 .. n |-> Content[pos[p] + i - 1]]
      <4>1. \A i \in 1 .. n : Content[pos[p] + i - 1] = t[s][q + i]
        BY <3>2
      <4>2. SubSeq(t[s], q + 1, q + n) = [i \in 1 .. n |-> t[s][q + i]]
        <5>1. t[s] \in Seq(Cell) /\ q \in Nat /\ n \in Nat /\ q + n <= Len(t[s])
          BY <2>4, <2>5
        <5> HIDE DEF t, s, q, n
        <5>2. QED
          BY <5>1
      <4> HIDE DEF t, s, q, n
      <4>3. QED
        BY <4>1, <4>2
    <3>4. pos[p] .. pos[p] + n - 1 \subseteq DOMAIN Content \cap (0 .. size - 1)
      <4> SUFFICES ASSUME NEW x \in pos[p] .. pos[p] + n - 1
                   PROVE  x \in DOMAIN Content /\ x \in 0 .. size - 1
        OBVIOUS
      <4>1. n \in 1 .. size - pos[p]
        BY <3>1
      <4>2. \A i \in 1 .. n : pos[p] + i - 1 \in DOMAIN Content
        BY <3>2
      <4> HIDE DEF n
      <4>3. x - pos[p] + 1 \in 1 .. n /\ x = pos[p] + (x - pos[p] + 1) - 1
        BY <1>1, <4>1
      <4>4. QED
        BY <1>1, <4>1, <4>2, <4>3
    <3>5. n \in 0 .. size /\ n # 0
      <4>1. n \in 1 .. size - pos[p]
        BY <3>1
      <4> HIDE DEF n
      <4>2. QED
        BY <1>1, <4>1
    <3> HIDE DEF t, s, q, n
    <3>6. QED
      BY <1>1, <2>6, <2>8, <3>3, <3>4, <3>5, AnsweredCall
  <2>9. QED
    BY <2>5, <2>7, <2>8
<1>4. QED
  BY <1>2, <1>3

\* A list with more items, all of them empty, or with an empty table for an empty item,
\* holds the same.
LEMMA FollowKeeps ==
  ASSUME NEW g \in Geometries, NEW d \in Seq(TableOf(g.quantum, g.qset)), NEW n \in Nat,
         NEW e, e \in FollowFailed(d, n) \/ e = Follow(d, n), NEW i \in Nat, Held(d, g, i)
  PROVE  Held(e, g, i) /\ ByteAt(e, g, i) = ByteAt(d, g, i)
<1>1. Len(d) \in Nat /\ Item(g, i) \in Nat /\ Item(g, i) < Len(d)
  BY PlaceOf DEF Held
<1>2. ASSUME NEW m \in Nat, m >= Len(d), e = Extended(d, m)
      PROVE  Item(g, i) < Len(e) /\ e[Item(g, i) + 1] = d[Item(g, i) + 1]
  <2>1. Null \in TableOf(g.quantum, g.qset)
    BY DEF TableOf
  <2>2. Len(e) = m
    BY <1>2, <2>1, ExtendedList
  <2>3. QED
    BY <1>1, <1>2, <2>2 DEF Extended
<1>3. e = d \/ \E m \in Nat : m >= Len(d) /\ e = Extended(d, m)
  BY <1>1 DEF FollowFailed, Follow
<1>4. Item(g, i) < Len(e) /\ e[Item(g, i) + 1] = d[Item(g, i) + 1]
  BY <1>1, <1>2, <1>3
<1>5. QED
  BY <1>4 DEF Held, ByteAt

\* The list that is found holds what the one before held.
LEMMA FoundKeeps ==
  ASSUME NEW g \in Geometries, NEW d \in Seq(TableOf(g.quantum, g.qset)), NEW n \in Nat,
         NEW i \in Nat, Held(d, g, i)
  PROVE  Held(Follow(d, n), g, i) /\ ByteAt(Follow(d, n), g, i) = ByteAt(d, g, i)
<1>1. Len(d) \in Nat
  OBVIOUS
<1>2. Follow(d, n) = d \/ Follow(d, n) \in FollowFailed(d, n + 1)
  BY <1>1 DEF Follow, FollowFailed
<1>3. PICK e : e = Follow(d, n)
  OBVIOUS
<1>4. e = d \/ e \in FollowFailed(d, n + 1)
  BY <1>2, <1>3
<1>5. CASE e = d
  BY <1>3, <1>5
<1>6. CASE e \in FollowFailed(d, n + 1)
  <2>1. n + 1 \in Nat
    OBVIOUS
  <2>2. Held(e, g, i) /\ ByteAt(e, g, i) = ByteAt(d, g, i)
    BY <1>6, <2>1, FollowKeeps
  <2>3. QED
    BY <1>3, <2>2
<1>7. QED
  BY <1>4, <1>5, <1>6

LEMMA WriteNoMemFile ==
  ASSUME GeometryAssumption, MemInv, MemInv', FileInv, NEW p \in Procs, WriteNoMem(p)
  PROVE  FileInv' /\ File!Done(p)
<1> DEFINE item == Item(geo[p], pos[p])
           d == Follow(data, item)
           T == TableOf(Here.quantum, Here.qset)
<1>1. /\ pc[p] = "w_down" /\ ~DividesByZero(p) /\ Leave(p, "open")
      /\ UNCHANGED <<quantum, qset, size, pos>>
      /\ \/ data' \in FollowFailed(data, item)
         \/ data' = d
         \/ data' = [d EXCEPT ![item + 1] = Table(d, p)]
  BY DEF WriteNoMem, file
<1>2. /\ geo[p] = Here /\ Here \in Geometries /\ pos[p] \in Nat
      /\ data \in Seq(T) /\ d \in Seq(T) /\ item + 1 \in 1 .. Len(d) /\ Shape'
  BY <1>1, HereGood, WriterFinds DEF MemInv, Shape, Here
<1>3. item \in Nat
  BY <1>2, PlaceOf
<1>4. ASSUME NEW i \in Nat, Held(data, Here, i)
      PROVE  Held(data', Here, i) /\ ByteAt(data', Here, i) = ByteAt(data, Here, i)
  <2>1. CASE data' \in FollowFailed(data, item) \/ data' = d
    BY <1>2, <1>3, <1>4, <2>1, FollowKeeps
  <2>2. CASE data' = [d EXCEPT ![item + 1] = Table(d, p)]
    <3>1. Held(d, Here, i) /\ ByteAt(d, Here, i) = ByteAt(data, Here, i)
      <4>1. data \in Seq(TableOf(Here.quantum, Here.qset))
        BY <1>2
      <4> HIDE DEF T, item
      <4>2. QED
        BY <1>2, <1>3, <1>4, <4>1, FoundKeeps
    <3>2. Table(d, p) = d[item + 1] \/ d[item + 1] = Null
      BY DEF Table
    <3>3. Item(Here, i) \in Nat
      BY <1>2, PlaceOf
    <3> HIDE DEF d, item, T
    <3>4. Len(data') = Len(d)
      BY <1>2, <2>2
    <3>5. data'[Item(Here, i) + 1] = d[Item(Here, i) + 1]
      BY <1>2, <2>2, <3>1, <3>2, <3>3 DEF Held
    <3>6. QED
      BY <3>1, <3>4, <3>5 DEF Held, ByteAt
  <2>3. QED
    BY <1>1, <2>1, <2>2
<1>5. \A S : File!KeepAllBut(S)
  BY <1>1, <1>2, <1>4, ContentKept
<1>6. QED
  BY <1>1, <1>5, FailedCall

\* The bytes go to their offsets, and to no other.
LEMMA WriteBytesFile ==
  ASSUME GeometryAssumption, MemInv, MemInv', FileInv, NEW p \in Procs, WriteBytes(p)
  PROVE  FileInv' /\ (File!Write(p) \/ File!Done(p))
<1> DEFINE item == Item(geo[p], pos[p])
           d == Follow(data, item)
           t == Table(d, p)
           s == SPos(geo[p], pos[p]) + 1
           q == QPos(geo[p], pos[p])
           n == ToQuantumEnd(p, count[p])
           T == TableOf(quantum, qset)
<1>1. pc[p] = "w_down" /\ ~DividesByZero(p)
  BY DEF WriteBytes
<1>2. /\ geo[p] = Here /\ Here \in Geometries /\ pos[p] \in Nat /\ count[p] \in Nat \ {0}
      /\ Here.quantum = quantum /\ Here.qset = qset /\ quantum \in Nat \ {0} /\ qset \in Nat \ {0}
      /\ user[p] \in [1 .. count[p] -> Byte] /\ size \in Nat
  BY <1>1, HereGood DEF FileInv, MemInv, MemType, CallOf
<1>3. /\ data \in Seq(T) /\ d \in Seq(T) /\ item + 1 \in 1 .. Len(d)
      /\ t \in [1 .. qset -> Block(quantum)] /\ Len(t) = qset /\ Shape'
  BY <1>1, WriterFinds DEF MemInv, Shape
<1>4. item \in Nat /\ s \in 1 .. qset /\ q \in 0 .. quantum - 1
  <2>1. item \in Nat /\ SPos(geo[p], pos[p]) \in 0 .. qset - 1 /\ q \in 0 .. quantum - 1
    BY <1>2, PlaceOf
  <2>2. QED
    BY <1>2, <2>1
<1>5. n \in 1 .. count[p] /\ q + n <= quantum
  <2>1. n = Lesser(count[p], quantum - q)
    BY <1>2 DEF ToQuantumEnd
  <2> HIDE DEF n, q
  <2>2. QED
    BY <1>2, <1>4, <2>1 DEF Lesser
<1>6. PICK b \in Blocks(t[s], p) :
         \/ q + n > Len(b) /\ Fault("overrun")
         \/ /\ q + n <= Len(b)
            /\ \/ /\ data' = [d EXCEPT ![item + 1] =
                                [t EXCEPT ![s] = Copied(b, q, n, user[p], n)]]
                  /\ pos' = [pos EXCEPT ![p] = pos[p] + n]
                  /\ size' = NewSize(pos[p] + n)
               \/ /\ \E k \in 0 .. n - 1 :
                        data' = [d EXCEPT ![item + 1] =
                                  [t EXCEPT ![s] = Copied(b, q, n, user[p], k)]]
                  /\ UNCHANGED <<pos, size>>
            /\ Leave(p, "open")
            /\ UNCHANGED <<params, quantum, qset, mode, fault>>
  <2>1. ~(s > Len(t))
    <3> HIDE DEF s, t
    <3>1. QED
      BY <1>2, <1>3, <1>4
  <2>2. QED
    BY <1>1, <2>1 DEF WriteBytes
<1> HIDE DEF d, t, s, q, n, item
<1>7. b \in [1 .. quantum -> Cell] /\ Len(b) = quantum /\ (t[s] # Null => b = t[s])
  <2>1. CASE t[s] = Null
    <3>1. b \in [1 .. quantum -> Byte]
      BY <1>2, <2>1 DEF Blocks
    <3>2. b \in [1 .. quantum -> Cell]
      BY <3>1 DEF Cell
    <3>3. QED
      BY <1>2, <2>1, <3>2, ArrayIsSeq
  <2>2. CASE t[s] # Null
    <3>1. b = t[s] /\ t[s] \in Block(quantum)
      BY <1>3, <1>4, <2>2 DEF Blocks
    <3>2. QED
      BY <1>2, <2>2, <3>1, BlockLength
  <2>3. QED
    BY <2>1, <2>2
<1>8. PICK k \in 0 .. n :
         /\ data' = [d EXCEPT ![item + 1] = [t EXCEPT ![s] = Copied(b, q, n, user[p], k)]]
         /\ \/ k = n /\ pos' = [pos EXCEPT ![p] = pos[p] + n] /\ size' = NewSize(pos[p] + n)
            \/ UNCHANGED <<pos, size>>
         /\ Leave(p, "open")
         /\ UNCHANGED <<quantum, qset>>
  <2>1. ~(q + n > Len(b))
    BY <1>2, <1>4, <1>5, <1>7
  <2>2. n \in Nat
    BY <1>5
  <2>3. QED
    BY <1>6, <2>1, <2>2
<1> DEFINE c == Copied(b, q, n, user[p], k)
           u == [t EXCEPT ![s] = c]
<1>9. /\ \A j \in 1 .. quantum : c[j] = IF j - q \notin 1 .. n THEN b[j]
                                        ELSE IF j - q <= k THEN user[p][j - q] ELSE 0
      /\ c # Null
  <2>1. DOMAIN b = 1 .. quantum /\ 1 \in DOMAIN b
    BY <1>2, <1>7
  <2>2. DOMAIN c = DOMAIN b
    BY DEF Copied
  <2>3. QED
    BY <2>1, <2>2 DEF Copied, Null
<1> HIDE DEF c
<1>10. u # Null /\ u[s] = c /\ \A j \in 1 .. qset : j # s => u[j] = t[j]
  <2>1. DOMAIN u = 1 .. qset /\ 1 \in DOMAIN u
    BY <1>2, <1>3
  <2>2. QED
    BY <1>3, <1>4, <2>1 DEF Null
<1>11. /\ Len(data') = Len(d) /\ data'[item + 1] = u
       /\ \A j \in 1 .. Len(d) : j # item + 1 => data'[j] = d[j]
  <2> HIDE DEF u
  <2>1. data' = [d EXCEPT ![item + 1] = u]
    BY <1>8 DEF c, u
  <2>2. QED
    BY <1>3, <2>1
<1> HIDE DEF u
<1>12. \A j \in Nat : j < n => /\ Held(data', Here, pos[p] + j)
                               /\ ByteAt(data', Here, pos[p] + j) = c[q + j + 1]
  <2> SUFFICES ASSUME NEW j \in Nat, j < n
               PROVE  /\ Held(data', Here, pos[p] + j)
                      /\ ByteAt(data', Here, pos[p] + j) = c[q + j + 1]
    OBVIOUS
  <2>1. q + j \in 0 .. quantum - 1
    BY <1>2, <1>4, <1>5
  <2>2. /\ Item(Here, pos[p] + j) = item /\ SPos(Here, pos[p] + j) + 1 = s
        /\ QPos(Here, pos[p] + j) + 1 = q + j + 1
    BY <1>2, <2>1, SameQuantum DEF q, item, s
  <2>3. item < Len(data') /\ Len(data') \in Nat
    BY <1>3, <1>4, <1>11
  <2>4. QED
    BY <1>9, <1>10, <1>11, <2>2, <2>3 DEF Held, ByteAt
<1>13. ASSUME NEW i \in Nat \ (pos[p] .. pos[p] + n - 1), Held(data, Here, i)
       PROVE  Held(data', Here, i) /\ ByteAt(data', Here, i) = ByteAt(data, Here, i)
  <2> DEFINE I == Item(Here, i)
             S == SPos(Here, i) + 1
             Q == QPos(Here, i) + 1
  <2>1. I \in Nat /\ S \in 1 .. qset /\ Q \in 1 .. quantum
    <3>1. I \in Nat /\ SPos(Here, i) \in 0 .. qset - 1 /\ QPos(Here, i) \in 0 .. quantum - 1
      BY <1>2, PlaceOf
    <3>2. QED
      BY <1>2, <3>1
  <2>2. Held(d, Here, i) /\ ByteAt(d, Here, i) = ByteAt(data, Here, i)
    <3>1. data \in Seq(TableOf(Here.quantum, Here.qset))
      BY <1>2, <1>3
    <3>2. i \in Nat /\ Held(data, Here, i) /\ item \in Nat /\ Here \in Geometries
      BY <1>2, <1>4, <1>13
    <3>3. QED
      BY <3>1, <3>2, FoundKeeps DEF d
  <2>3. /\ I < Len(d) /\ d[I + 1] # Null /\ d[I + 1][S] # Null
        /\ ByteAt(d, Here, i) = d[I + 1][S][Q]
    BY <2>2 DEF Held, ByteAt
  <2>4. /\ Held(data', Here, i) <=> I < Len(data') /\ data'[I + 1] # Null /\ data'[I + 1][S] # Null
        /\ ByteAt(data', Here, i) = data'[I + 1][S][Q]
    BY DEF Held, ByteAt
  <2>5. ASSUME I = item, S = s PROVE Q - q \notin 1 .. n
    <3> SUFFICES ASSUME Q - q \in 1 .. n PROVE FALSE
      OBVIOUS
    <3> DEFINE x == pos[p] + (Q - 1 - q)
    <3>0. Q \in 1 .. quantum /\ Q = QPos(Here, i) + 1 /\ S = SPos(Here, i) + 1 /\ I = Item(Here, i)
      BY <2>1
    <3> HIDE DEF Q, S, I
    <3>8. q \in Int /\ Q \in Int /\ quantum \in Int /\ n \in Int /\ pos[p] \in Nat
      BY <1>2, <1>4, <1>5, <3>0
    <3>9. 0 <= q /\ 1 <= Q /\ Q <= quantum /\ 1 <= Q - q /\ Q - q <= n
      BY <1>4, <3>0, <3>8
    <3>1. q + (Q - 1 - q) \in 0 .. quantum - 1 /\ Q - 1 - q \in Int /\ q + (Q - 1 - q) = Q - 1
      BY <3>8, <3>9
    <3>2. /\ x \in Nat /\ Item(Here, x) = item
          /\ SPos(Here, x) + 1 = s /\ QPos(Here, x) = Q - 1
      <4>1. QPos(Here, pos[p]) = q
        BY <1>2 DEF q
      <4>2. QED
        BY <1>2, <3>1, <4>1, SameQuantum DEF item, s
    <3>6. x \in pos[p] .. pos[p] + n - 1
      BY <3>8, <3>9
    <3> HIDE DEF x
    <3>3. /\ x = Item(Here, x) * (Here.quantum * Here.qset) + (SPos(Here, x) * Here.quantum + QPos(Here, x))
          /\ i = Item(Here, i) * (Here.quantum * Here.qset) + (SPos(Here, i) * Here.quantum + QPos(Here, i))
      BY <1>2, <3>2, PlaceOf
    <3>4. Item(Here, x) = Item(Here, i) /\ SPos(Here, x) = SPos(Here, i) /\ QPos(Here, x) = QPos(Here, i)
      <4>1. SPos(Here, i) \in Int /\ QPos(Here, i) \in Int
        <5>1. SPos(Here, i) \in 0 .. Here.qset - 1 /\ QPos(Here, i) \in 0 .. Here.quantum - 1
          BY <1>2, PlaceOf
        <5>2. QED
          BY <1>2, <5>1
      <4>2. SPos(Here, x) \in Int
        <5>1. SPos(Here, x) \in 0 .. Here.qset - 1
          BY <1>2, <3>2, PlaceOf
        <5>2. QED
          BY <1>2, <5>1
      <4>3. Item(Here, x) = Item(Here, i)
        BY <2>5, <3>0, <3>2
      <4>4. \A v, w, m \in Int : v + 1 = m /\ w + 1 = m => v = w
        OBVIOUS
      <4>5. SPos(Here, x) + 1 = S /\ SPos(Here, i) + 1 = S /\ S \in Int
        BY <2>5, <3>0, <3>2, <4>1
      <4>6. SPos(Here, x) = SPos(Here, i)
        BY <4>1, <4>2, <4>4, <4>5
      <4>7. QPos(Here, x) = QPos(Here, i)
        <5>1. \A v, w \in Int : w = v + 1 => w - 1 = v
          OBVIOUS
        <5>2. QED
          BY <3>0, <3>2, <3>8, <4>1, <5>1
      <4>8. QED
        BY <4>3, <4>6, <4>7
    <3>5. x = i
      BY <3>3, <3>4, Zenon
    <3>7. QED
      BY <1>13, <3>5, <3>6
  <2> HIDE DEF I, S, Q
  <2>6. CASE I # item
    <3>1. data'[I + 1] = d[I + 1]
      BY <1>4, <1>11, <2>1, <2>3, <2>6
    <3>2. QED
      BY <1>11, <2>2, <2>3, <2>4, <3>1
  <2>7. CASE I = item
    <3>1. t = d[item + 1] /\ data'[I + 1] = u
      BY <1>11, <2>3, <2>7 DEF t, Table, item
    <3>2. CASE S # s
      BY <1>10, <1>11, <2>1, <2>2, <2>3, <2>4, <2>7, <3>1, <3>2
    <3>3. CASE S = s
      <4>1. b = t[s]
        BY <1>7, <2>3, <2>7, <3>1, <3>3
      <4>2. c[Q] = b[Q]
        BY <1>9, <2>1, <2>5, <2>7, <3>3
      <4>3. data'[I + 1][S] # Null /\ data'[I + 1][S][Q] = d[I + 1][S][Q]
        BY <1>9, <1>10, <2>7, <3>1, <3>3, <4>1, <4>2
      <4>4. QED
        BY <1>10, <1>11, <2>2, <2>3, <2>4, <3>1, <4>3
    <3>4. QED
      BY <3>2, <3>3
  <2>8. QED
    BY <2>6, <2>7
<1>14. \A S : pos[p] .. pos[p] + n - 1 \subseteq S => File!KeepAllBut(S)
  <2> SUFFICES ASSUME NEW S, pos[p] .. pos[p] + n - 1 \subseteq S PROVE File!KeepAllBut(S)
    OBVIOUS
  <2>1. \A i \in Nat \ S : Held(data, Here, i) =>
           Held(data', Here, i) /\ ByteAt(data', Here, i) = ByteAt(data, Here, i)
    BY <1>13
  <2>2. QED
    BY <1>2, <1>3, <1>8, <2>1, ContentKept
<1>15. Asked[p] = user[p] /\ Len(Asked[p]) = count[p]
  BY <1>1, <1>2, ArrayIsSeq DEF Asked
<1>16. CASE UNCHANGED <<pos, size>>
  <2>1. pos[p] .. pos[p] + n - 1 \subseteq pos[p] .. pos[p] + Len(Asked[p]) - 1
    BY <1>2, <1>5, <1>15
  <2>2. QED
    BY <1>8, <1>14, <1>16, <2>1, FailedCall
<1>17. CASE k = n /\ pos' = [pos EXCEPT ![p] = pos[p] + n] /\ size' = NewSize(pos[p] + n)
  <2>1. FileInv'
    BY <1>1, <1>8, <1>17 DEF FileInv, MemInv, MemType, Leave, Goto
  <2>2. \A i \in 1 .. n : /\ pos[p] + i - 1 \in DOMAIN Content'
                          /\ Content'[pos[p] + i - 1] = Asked[p][i]
    <3> SUFFICES ASSUME NEW i \in 1 .. n
                 PROVE  /\ pos[p] + i - 1 \in DOMAIN Content'
                        /\ Content'[pos[p] + i - 1] = Asked[p][i]
      OBVIOUS
    <3>1. i - 1 \in Nat /\ i - 1 < n /\ q + (i - 1) + 1 = q + i /\ pos[p] + (i - 1) = pos[p] + i - 1
          /\ pos[p] + i - 1 \in Nat /\ q + i \in 1 .. quantum /\ q + i - q = i
      BY <1>2, <1>4, <1>5
    <3>2. Held(data', Here, pos[p] + i - 1) /\ ByteAt(data', Here, pos[p] + i - 1) = c[q + i]
      BY <1>12, <3>1
    <3>3. c[q + i] = user[p][i]
      <4>1. ~(q + i - q \notin 1 .. n) /\ q + i - q = i
        BY <3>1
      <4>5. PICK r \in 1 .. quantum : r = q + i
        BY <3>1
      <4>6. c[r] = IF r - q \notin 1 .. n THEN b[r]
                   ELSE IF r - q <= k THEN user[p][r - q] ELSE 0
        BY <1>9
      <4>2. i <= k
        BY <1>17
      <4>3. r - q = i
        <5>1. \A v, w, m \in Int : m = v + w => m - v = w
          OBVIOUS
        <5>2. r \in Int /\ q \in Int /\ i \in Int
          BY <1>2, <1>4, <1>5
        <5>3. r = q + i
          BY <4>5
        <5>4. QED
          BY <5>1, <5>2, <5>3
      <4>4. i \in 1 .. n
        OBVIOUS
      <4>7. c[r] = user[p][i]
        BY <4>2, <4>3, <4>4, <4>6, Zenon
      <4>8. QED
        BY <4>5, <4>7
    <3>4. Content' = ContentOf(data', Here) /\ data' \in Seq(TableOf(Here.quantum, Here.qset))
      <4>1. Here' = Here /\ Content' = ContentOf(data', Here')
        BY <1>8, ContentNext DEF Here
      <4>2. data' \in Seq(TableOf(quantum', qset'))
        BY <1>3 DEF Shape
      <4>3. QED
        BY <1>2, <1>8, <4>1, <4>2
    <3>5. QED
      BY <1>2, <1>15, <3>1, <3>2, <3>3, <3>4, ContentIs
  <2>3. File!KeepAllBut(pos[p] .. pos[p] + n - 1)
    BY <1>14
  <2>4. size' = IF size < pos[p] + n THEN pos[p] + n ELSE size
    BY <1>17 DEF NewSize
  <2>5. Asked' = [Asked EXCEPT ![p] = Null] /\ Answered' = Answered
    <3>1. Asked' = [Asked EXCEPT ![p] = Null] /\ Answered' = [Answered EXCEPT ![p] = Null]
      BY <1>8, LeftCall
    <3>2. Answered = [r \in Procs |-> Answered[r]] /\ Answered[p] = Null
      BY <1>1 DEF Answered
    <3> HIDE DEF Asked, Answered
    <3>3. QED
      BY <3>1, <3>2
  <2>6. n \in 1 .. Len(Asked[p])
    BY <1>5, <1>15
  <2>7. File!Write(p)
    BY <1>17, <2>2, <2>3, <2>4, <2>5, <2>6 DEF File!Write, Asked, Answered, Null
  <2>8. QED
    BY <2>1, <2>7
<1>18. QED
  BY <1>8, <1>16, <1>17

LEMMA StepFile ==
  ASSUME GeometryAssumption, CountsAssumption, MemInv, MemInv', FileInv, [Next]_vars
  PROVE  FileInv' /\ [File!Next]_File!flatVars
<1>1. CASE UNCHANGED vars
  <2>1. UNCHANGED <<quantum, qset, size, data, pc, pos, count, user>>
    BY <1>1 DEF vars, device, file, call
  <2>2. Content' = Content
    BY <2>1, ContentSame
  <2>3. QED
    BY <2>1, <2>2 DEF FileInv, File!flatVars
<1>2. ASSUME NEW p \in Procs, Step(p) PROVE FileInv' /\ (File!Next \/ UNCHANGED File!flatVars)
  <2>1. CASE \/ Open(p) \/ Release(p) \/ Interrupted(p) \/ Return(p)
             \/ BeginRead(p) \/ BeginWrite(p) \/ Llseek(p) \/ IoctlSet(p) \/ DivideFault(p)
    BY <2>1, OutsideFile
  <2>2. CASE OpenTrim(p)
    BY <2>2, TrimFile DEF File!Next
  <2>3. CASE ReadNothing(p) \/ ReadBytes(p)
    BY <2>3, ReadFile DEF File!Next
  <2>4. CASE WriteNoMem(p)
    BY <2>4, WriteNoMemFile DEF File!Next
  <2>5. CASE WriteBytes(p)
    BY <2>5, WriteBytesFile DEF File!Next
  <2>6. QED
    BY <1>2, <2>1, <2>2, <2>3, <2>4, <2>5 DEF Step
<1>3. QED
  BY <1>1, <1>2 DEF Next

\* scull_read and scull_write find every byte where an earlier call left it, and move
\* none: through the list, the quantum set and the quantum, by any geometry, for any
\* sequence of opens, seeks, reads and writes, also where a kmalloc or a copy failed half
\* way.  Each step of the device is a step of FlatFile or one that nobody sees.
THEOREM MemIsAFile ==
  ASSUME Undisturbed
  PROVE  Spec => FileSpec
<1>1. Init => FileInv /\ File!Init
  BY InitFile
<1>2. MemInv /\ MemInv' /\ FileInv /\ [Next]_vars => FileInv' /\ [File!Next]_File!flatVars
  BY StepFile, GeometryAssumption, CountsAssumption
<1>3. Spec => []MemInv
  BY MemInvariant
<1>4. QED
  BY <1>1, <1>2, <1>3, PTL DEF Spec, FileSpec, File!Spec
=============================================================================
