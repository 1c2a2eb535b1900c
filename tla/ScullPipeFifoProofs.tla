------------------------ MODULE ScullPipeFifoProofs -------------------------
(***************************************************************************)
(* The pipe of ScullPipe implements the bounded queue of PipeFifo, for any *)
(* finite set of processes, counts and modes, and any one size of buffer:  *)
(* every step of the code is a step of the queue, or changes nothing of it.*)
(***************************************************************************)
EXTENDS ScullPipeProofs, SequenceTheorems

\* Nobody changes scull_p_buffer.  With two sizes dev->end need not be the end of
\* the block any more, and what is read beyond it was never written.
FixedSize == \A m, n \in Sizes : m = n

ReadPCs  == {"r_down", "r_check", "r_prep", "r_test", "r_sleep", "r_adv", "r_wrap", "r_wake"}
WritePCs == {"w_down", "w_check", "w_prep", "w_test", "w_sleep", "w_finish", "w_adv", "w_wrap",
             "w_wake", "w_fasync"}

\* Readers and writers have the file open for it, so that the pipe is active while its
\* pointers move; only a read in progress holds bytes, and until rp has moved they are
\* those behind it; and a pipe nobody has open to read or write is empty.
FifoInv ==
  /\ \A p \in Procs :
       /\ pc[p] \in ReadPCs => "R" \in mode[p]
       /\ pc[p] \in WritePCs => "W" \in mode[p]
       /\ pc[p] \notin {"r_adv", "r_wrap", "r_wake"} => user[p] = <<>>
       /\ pc[p] = "r_adv" => user[p] = [i \in 1 .. count[p] |-> buf[rp + i - 1]]
  /\ alloc # 0 /\ nreaders + nwriters = 0 => rp = wp \/ \E p \in Procs : pc[p] = "o_reset"

\* All that is known of the pipe between two steps.
PipeInv == IInv /\ ReaderInv /\ LifeInv /\ FifoInv

-----------------------------------------------------------------------------
(* Sequences and remainders *)

LEMMA ConcatIs ==
  ASSUME NEW S, NEW s \in Seq(S), NEW t \in Seq(S)
  PROVE  s \o t = [i \in 1 .. Len(s) + Len(t) |-> IF i <= Len(s) THEN s[i] ELSE t[i - Len(s)]]
<1> DEFINE u == s \o t
<1>1. u \in Seq(S) /\ Len(u) = Len(s) + Len(t)
  BY ConcatProperties
<1>2. \A i \in 1 .. Len(s) + Len(t) : u[i] = IF i <= Len(s) THEN s[i] ELSE t[i - Len(s)]
  BY ConcatProperties
<1> HIDE DEF u
<1>3. u = [i \in 1 .. Len(s) + Len(t) |-> u[i]]
  BY <1>1
<1>4. u = [i \in 1 .. Len(s) + Len(t) |-> IF i <= Len(s) THEN s[i] ELSE t[i - Len(s)]]
  BY <1>2, <1>3
<1>5. QED
  BY <1>4 DEF u

LEMMA SubSeqIs ==
  ASSUME NEW S, NEW s \in Seq(S), NEW m \in Nat \ {0}, NEW n \in 0 .. Len(s), m <= n + 1
  PROVE  SubSeq(s, m, n) = [i \in 1 .. n - m + 1 |-> s[m + i - 1]]
  OBVIOUS

\* (a + m - b) % m where either of the two may have reached m.
LEMMA ModEnds ==
  ASSUME NEW m \in Nat \ {0}, NEW a \in 0 .. m - 1
  PROVE  /\ (a + m - m) % m = a
         /\ (m + m - a) % m = (0 + m - a) % m
<1>1. (m + m - a) = (m - a) + m
  OBVIOUS
<1>2. CASE a = 0
  BY <1>2
<1>3. CASE a # 0
  BY <1>1, <1>3
<1>4. QED
  BY <1>2, <1>3

\* The place of the i-th byte behind a.
LEMMA ModPlace ==
  ASSUME NEW m \in Nat \ {0}, NEW a \in 0 .. m, NEW i \in 1 .. m
  PROVE  (a + i - 1) % m = IF a + i - 1 < m THEN a + i - 1 ELSE a + i - 1 - m
<1>1. CASE a + i - 1 < m
  BY <1>1
<1>2. CASE a + i - 1 >= m
  BY <1>2
<1>3. QED
  BY <1>1, <1>2

-----------------------------------------------------------------------------
(* The bytes of a ring *)

\* What lies between r and w in a ring b of length m.
Between(m, r, w, b) == [i \in 1 .. ((w + m - r) % m) |-> b[(r + i - 1) % m]]

\* How much that is, and that it stays in the ring.
LEMMA Filled ==
  ASSUME NEW m \in Nat \ {0}, NEW r \in 0 .. m, NEW w \in 0 .. m, r < m \/ w < m
  PROVE  (w + m - r) % m = IF r = m THEN w ELSE IF w = m THEN (IF r = 0 THEN 0 ELSE m - r)
                           ELSE IF r <= w THEN w - r ELSE w + m - r
<1>1. CASE r < m /\ w < m
  BY <1>1, ModWrap
<1>2. CASE r = m
  BY <1>2, ModEnds
<1>3. CASE w = m /\ r < m
  <2>1. (m + m - r) % m = (0 + m - r) % m
    <3>1. r \in 0 .. m - 1
      BY <1>3
    <3>2. QED
      BY <3>1, ModEnds, Zenon
  <2>2. (0 + m - r) % m = IF r <= 0 THEN 0 - r ELSE 0 + m - r
    BY <1>3, ModWrap
  <2>3. QED
    BY <1>3, <2>1, <2>2
<1>4. QED
  BY <1>1, <1>2, <1>3

LEMMA BetweenSeq ==
  ASSUME NEW m \in Nat \ {0}, NEW r \in 0 .. m, NEW w \in 0 .. m, r < m \/ w < m,
         NEW B, NEW b \in [0 .. m - 1 -> B]
  PROVE  /\ Between(m, r, w, b) \in Seq(B)
         /\ Len(Between(m, r, w, b)) = (w + m - r) % m
         /\ (w + m - r) % m \in 0 .. m - 1
<1> DEFINE n == (w + m - r) % m
<1>1. n \in 0 .. m - 1
  BY Filled
<1>2. \A i \in 1 .. n : (r + i - 1) % m \in 0 .. m - 1
  BY <1>1, ModPlace
<1>3. Between(m, r, w, b) \in [1 .. n -> B]
  BY <1>2 DEF Between
<1> HIDE DEF n
<1>4. QED
  BY <1>1, <1>3 DEF n

\* A ring with its two pointers.
Ring(m, r, w, b) == /\ m \in Nat \ {0} /\ b \in [0 .. m - 1 -> Byte]
                    /\ r \in 0 .. m - 1 /\ w \in 0 .. m - 1
\* n bytes more have room in it, short of the end.
Room(m, r, w, n) == /\ n \in Nat /\ w + n <= m
                    /\ n <= IF r <= w THEN m - 1 - (w - r) ELSE r - w - 1
\* n bytes of b from w on.
Piece(b, w, n) == [j \in 1 .. n |-> b[w + j - 1]]
\* n bytes are there to be read, short of the end.
Part(m, r, w, n) == n \in Nat /\ r + n <= m /\ r # w /\ (w > r => r + n <= w)

\* A write: n bytes join behind w, within the free part and short of the end.
LEMMA BetweenGrows ==
  ASSUME NEW m, NEW r, NEW w, NEW b, Ring(m, r, w, b), NEW n, Room(m, r, w, n)
  PROVE  /\ Piece(b, w, n) \in [1 .. n -> Byte]
         /\ n <= m - 1 - Len(Between(m, r, w, b))
         /\ Between(m, r, w + n, b) = Between(m, r, w, b) \o Piece(b, w, n)
<1> DEFINE s == Between(m, r, w, b)
           t == Piece(b, w, n)
           k == IF r <= w THEN w - r ELSE w + m - r
<1>0. /\ m \in Nat \ {0} /\ b \in [0 .. m - 1 -> Byte] /\ r \in 0 .. m - 1 /\ w \in 0 .. m - 1
      /\ n \in Nat /\ w + n <= m /\ n <= IF r <= w THEN m - 1 - (w - r) ELSE r - w - 1
  BY DEF Ring, Room
<1>1. t \in [1 .. n -> Byte] /\ t \in Seq(Byte) /\ Len(t) = n
  <2>1. \A j \in 1 .. n : w + j - 1 \in 0 .. m - 1
    BY <1>0, <1>0
  <2>2. t \in [1 .. n -> Byte]
    BY <1>0, <2>1 DEF Piece
  <2>3. QED
    BY <1>0, <2>2
<1>2. s \in Seq(Byte) /\ Len(s) = k /\ k \in 0 .. m - 1
  <2>1. (w + m - r) % m = k
    BY <1>0, ModWrap
  <2>2. s \in Seq(Byte) /\ Len(s) = (w + m - r) % m
    BY <1>0, BetweenSeq
  <2> HIDE DEF s
  <2>3. QED
    BY <1>0, <2>1, <2>2
<1>3. (w + n + m - r) % m = k + n
  <2>1. CASE w + n < m
    <3>1. w + n \in 0 .. m - 1 /\ r \in 0 .. m - 1
      BY <1>0, <2>1
    <3>2. (w + n + m - r) % m = IF r <= w + n THEN (w + n) - r ELSE w + n + m - r
      BY <1>0, <3>1, ModWrap, Zenon
    <3>3. QED
      BY <1>0, <3>2
  <2>2. CASE w + n = m
    <3>1. (m + m - r) % m = (0 + m - r) % m
      BY <1>0, ModEnds
    <3>2. (0 + m - r) % m = IF r <= 0 THEN 0 - r ELSE 0 + m - r
      BY <1>0, ModWrap
    <3>3. r # 0
      BY <1>0, <2>2
    <3>4. QED
      BY <1>0, <2>2, <3>1, <3>2, <3>3
  <2>3. QED
    BY <1>0, <2>1, <2>2
<1>4. \A i \in 1 .. k + n : b[(r + i - 1) % m] = IF i <= k THEN s[i] ELSE t[i - k]
  <2> SUFFICES ASSUME NEW i \in 1 .. k + n
               PROVE  b[(r + i - 1) % m] = IF i <= k THEN s[i] ELSE t[i - k]
    OBVIOUS
  <2>1. CASE i <= k
    <3>1. s = [h \in 1 .. k |-> b[(r + h - 1) % m]]
      <4>1. (w + m - r) % m = k
        BY <1>0, ModWrap
      <4>2. QED
        BY <1>0, <4>1 DEF Between
    <3>2. i \in 1 .. k
      BY <1>0, <2>1, <1>2
    <3> HIDE DEF s, k
    <3>3. QED
      BY <1>0, <2>1, <3>1, <3>2
  <2>2. CASE i > k
    <3>1. i \in 1 .. m
      BY <1>0, <1>2
    <3>2. (r + i - 1) % m = w + (i - k) - 1
      BY <1>0, <2>2, <3>1, ModPlace
    <3>3. i - k \in 1 .. n
      BY <1>0, <2>2, <1>2
    <3>4. QED
      BY <1>0, <2>2, <3>2, <3>3 DEF Piece
  <2>3. QED
    BY <1>0, <1>2, <2>1, <2>2
<1>5. Between(m, r, w + n, b) = [i \in 1 .. k + n |-> IF i <= k THEN s[i] ELSE t[i - k]]
  <2>1. Between(m, r, w + n, b) = [i \in 1 .. k + n |-> b[(r + i - 1) % m]]
    BY <1>0, <1>3 DEF Between
  <2> HIDE DEF s, t, k
  <2>2. QED
    BY <1>0, <2>1, <1>4
<1>6. n <= m - 1 - Len(s)
  BY <1>0, <1>2
<1> HIDE DEF s, t, k
<1>7. s \o t = [i \in 1 .. k + n |-> IF i <= k THEN s[i] ELSE t[i - k]]
  <2>1. s \o t = [i \in 1 .. Len(s) + Len(t) |-> IF i <= Len(s) THEN s[i] ELSE t[i - Len(s)]]
    <3>1. s \in Seq(Byte) /\ t \in Seq(Byte)
      BY <1>0, <1>1, <1>2
    <3>2. QED
      BY <1>0, <3>1, ConcatIs
  <2> DEFINE u == s \o t
  <2> HIDE DEF u
  <2>2. u = [i \in 1 .. Len(s) + Len(t) |-> IF i <= Len(s) THEN s[i] ELSE t[i - Len(s)]]
    BY <1>0, <2>1 DEF u
  <2>3. u = [i \in 1 .. k + n |-> IF i <= k THEN s[i] ELSE t[i - k]]
    BY <1>0, <2>2, <1>1, <1>2
  <2>4. QED
    BY <1>0, <2>3 DEF u
<1>8. QED
  BY <1>0, <1>1, <1>5, <1>6, <1>7 DEF s, t

\* The rings b and c differ only in the n bytes from w.
OnlyFrom(m, w, n, b, c) == \A k \in 0 .. m - 1 : k - w + 1 \notin 1 .. n => c[k] = b[k]

\* What a write has copied so far is not part of the queue.
LEMMA BetweenKept ==
  ASSUME NEW m \in Nat \ {0}, NEW r \in 0 .. m - 1, NEW w \in 0 .. m - 1, NEW n \in Nat,
         n <= IF r <= w THEN m - 1 - (w - r) ELSE r - w - 1,
         NEW b, NEW c, OnlyFrom(m, w, n, b, c)
  PROVE  Between(m, r, w, c) = Between(m, r, w, b)
<1> DEFINE l == IF r <= w THEN w - r ELSE w + m - r
<1>1. (w + m - r) % m = l /\ l \in 0 .. m - 1
  BY ModWrap
<1>2. \A i \in 1 .. l : c[(r + i - 1) % m] = b[(r + i - 1) % m]
  <2> SUFFICES ASSUME NEW i \in 1 .. l PROVE c[(r + i - 1) % m] = b[(r + i - 1) % m]
    OBVIOUS
  <2>1. i \in 1 .. m
    BY <1>1
  <2>2. (r + i - 1) % m = IF r + i - 1 < m THEN r + i - 1 ELSE r + i - 1 - m
    BY <2>1, ModPlace
  <2>3. (r + i - 1) % m \in 0 .. m - 1 /\ ((r + i - 1) % m) - w + 1 \notin 1 .. n
    BY <2>1, <2>2
  <2>4. QED
    BY <2>3 DEF OnlyFrom
<1> HIDE DEF l
<1>3. QED
  BY <1>1, <1>2 DEF Between

\* A read: the first n bytes leave, short of the end.
LEMMA BetweenShrinks ==
  ASSUME NEW m, NEW r, NEW w, NEW b, Ring(m, r, w, b), NEW n, Part(m, r, w, n)
  PROVE  LET s == Between(m, r, w, b) IN
         /\ n <= Len(s)
         /\ SubSeq(s, 1, n) = [i \in 1 .. n |-> b[r + i - 1]]
         /\ SubSeq(s, n + 1, Len(s)) = Between(m, r + n, w, b)
<1> DEFINE s == Between(m, r, w, b)
           k == IF r <= w THEN w - r ELSE w + m - r
<1>0. /\ m \in Nat \ {0} /\ b \in [0 .. m - 1 -> Byte] /\ r \in 0 .. m - 1 /\ w \in 0 .. m - 1
      /\ n \in Nat /\ r + n <= m /\ r # w /\ (w > r => r + n <= w)
  BY DEF Ring, Part
<1>1. s \in Seq(Byte) /\ Len(s) = k /\ k \in 0 .. m - 1 /\ n <= k
  <2>1. (w + m - r) % m = k
    BY <1>0, ModWrap
  <2>2. s \in Seq(Byte) /\ Len(s) = (w + m - r) % m
    BY <1>0, BetweenSeq
  <2> HIDE DEF s
  <2>3. QED
    BY <1>0, <2>1, <2>2
<1>2. (w + m - (r + n)) % m = k - n
  <2>1. CASE r + n < m
    <3>1. r + n \in 0 .. m - 1 /\ w \in 0 .. m - 1
      BY <1>0, <2>1
    <3>2. (w + m - (r + n)) % m = IF r + n <= w THEN w - (r + n) ELSE w + m - (r + n)
      BY <1>0, <3>1, ModWrap, Zenon
    <3>3. QED
      BY <1>0, <3>2
  <2>2. CASE r + n = m
    <3>1. (w + m - m) % m = w
      BY <1>0, ModEnds
    <3>2. QED
      BY <1>0, <2>2, <3>1
  <2>3. QED
    BY <1>0, <2>1, <2>2
<1>3. \A i \in 1 .. k : s[i] = b[(r + i - 1) % m]
  <2>1. (w + m - r) % m = k
    BY <1>0, ModWrap
  <2>2. s = [h \in 1 .. k |-> b[(r + h - 1) % m]]
    BY <1>0, <2>1 DEF Between
  <2> HIDE DEF s, k
  <2>3. QED
    BY <1>0, <2>2
<1> HIDE DEF s, k
<1>4. \A i \in 1 .. n : s[i] = b[r + i - 1]
  <2> SUFFICES ASSUME NEW i \in 1 .. n PROVE s[i] = b[r + i - 1]
    OBVIOUS
  <2>1. (r + i - 1) % m = r + i - 1
    BY <1>0, ModPlace
  <2>2. i \in 1 .. k
    BY <1>0, <1>1
  <2>3. QED
    BY <1>0, <1>3, <2>1, <2>2
<1>5. SubSeq(s, 1, n) = [i \in 1 .. n |-> s[i]]
  <2>1. SubSeq(s, 1, n) = [i \in 1 .. n - 1 + 1 |-> s[1 + i - 1]]
    BY <1>0, <1>1, SubSeqIs
  <2>2. n - 1 + 1 = n /\ \A i \in 1 .. n : 1 + i - 1 = i
    BY <1>0
  <2>3. QED
    BY <1>0, <2>1, <2>2
<1>6. SubSeq(s, n + 1, k) = [i \in 1 .. k - n |-> s[n + i]]
  <2>1. SubSeq(s, n + 1, k) = [i \in 1 .. k - (n + 1) + 1 |-> s[n + 1 + i - 1]]
    BY <1>0, <1>1, SubSeqIs
  <2>2. k - (n + 1) + 1 = k - n /\ \A i \in 1 .. k - n : n + 1 + i - 1 = n + i
    BY <1>0, <1>1
  <2>3. QED
    BY <1>0, <2>1, <2>2
<1>7. \A i \in 1 .. k - n : s[n + i] = b[(r + n + i - 1) % m]
  <2> SUFFICES ASSUME NEW i \in 1 .. k - n PROVE s[n + i] = b[(r + n + i - 1) % m]
    OBVIOUS
  <2>1. n + i \in 1 .. k /\ r + (n + i) - 1 = r + n + i - 1
    BY <1>0, <1>1
  <2>2. QED
    BY <1>0, <1>3, <2>1
<1>8. Between(m, r + n, w, b) = [i \in 1 .. k - n |-> b[(r + n + i - 1) % m]]
  BY <1>0, <1>2 DEF Between
<1>9. QED
  BY <1>0, <1>1, <1>4, <1>5, <1>6, <1>7, <1>8 DEF s

\* A pointer at the end of the ring is as good as one at its start.
LEMMA BetweenWraps ==
  ASSUME NEW m \in Nat \ {0}, NEW a \in 0 .. m - 1, NEW b
  PROVE  /\ Between(m, m, a, b) = Between(m, 0, a, b)
         /\ Between(m, a, m, b) = Between(m, a, 0, b)
<1>1. (a + m - m) % m = a /\ (a + m - 0) % m = a
  BY Filled
<1>2. (m + m - a) % m = (0 + m - a) % m
  BY ModEnds
<1>3. \A i \in 1 .. a : (m + i - 1) % m = (0 + i - 1) % m
  BY ModPlace
<1>4. QED
  BY <1>1, <1>2, <1>3 DEF Between

LEMMA BetweenEmpty ==
  ASSUME NEW m \in Nat \ {0}, NEW a \in 0 .. m - 1, NEW b
  PROVE  Between(m, a, a, b) = <<>>
<1>1. (a + m - a) % m = 0
  BY Filled
<1>2. QED
  BY <1>1 DEF Between

-----------------------------------------------------------------------------
(* The pipe as a queue *)

Given == [p \in Procs |-> IF pc[p] = "r_adv" THEN <<>> ELSE user[p]]
Holders == {p \in Procs : HasFile(p)}
Active == {p \in Procs : HasFile(p) /\ mode[p] # {}}
CapOf(n) == IF n = 0 THEN 0 ELSE n - 1
Cap == CapOf(buffersize)

\* A step of the code as one of the queue.
Mapped == Fifo!Next \/ UNCHANGED Fifo!fifoVars

LEMMA SizesAgree ==
  ASSUME FixedSize, TypeOK
  PROVE  /\ alloc \in Nat /\ buffersize \in Nat
         /\ alloc # 0 /\ buffersize # 0 => alloc = buffersize
  BY SizesAssumption DEF FixedSize, TypeOK, env, file

LEMMA UnreadIs ==
  ASSUME ~Stale
  PROVE  Unread = Between(buffersize, rp, wp, buf)
  BY DEF Unread, Between

\* A process that reads or writes inside its critical section has the ring to itself.
LEMMA Solid ==
  ASSUME FixedSize, PipeInv, NEW p \in Procs, pc[p] \in InCritical,
         pc[p] \in ReadPCs \cup WritePCs
  PROVE  /\ buffersize \in Nat \ {0} /\ alloc = buffersize /\ buf \in [0 .. buffersize - 1 -> Byte]
         /\ ~Stale /\ p \in Active /\ nreaders + nwriters # 0
         /\ pc[p] \notin {"r_wrap", "w_wrap"} => rp \in 0 .. buffersize - 1 /\ wp \in 0 .. buffersize - 1
<1>1. TypeOK /\ MutualExclusion /\ PtrInv
  BY DEF PipeInv, IInv
<1>2. HasFile(p) /\ mode[p] # {} /\ ("R" \in mode[p] \/ "W" \in mode[p])
  BY DEF PipeInv, FifoInv, HasFile, ReadPCs, WritePCs
<1>3. alloc # 0
  BY <1>2 DEF PipeInv, LifeInv
<1>4. buffersize > 0
  BY <1>1, <1>2 DEF PtrInv
<1>5. buffersize \in Nat \ {0} /\ alloc = buffersize
  BY <1>1, <1>3, <1>4, SizesAgree
<1>6. buf \in [0 .. buffersize - 1 -> Byte]
  BY <1>1, <1>5 DEF TypeOK
<1>7. \A q \in Procs : pc[q] # "o_reset"
  BY <1>1 DEF MutualExclusion, InCritical, ReadPCs, WritePCs
<1>8. nreaders + nwriters # 0
  <2>1. p \in FilesFor("R") \/ p \in FilesFor("W")
    BY <1>2 DEF FilesFor
  <2>2. /\ IsFiniteSet(FilesFor("R")) /\ Cardinality(FilesFor("R")) \in Nat
        /\ IsFiniteSet(FilesFor("W")) /\ Cardinality(FilesFor("W")) \in Nat
    BY FilesFinite
  <2>3. Cardinality(FilesFor("R")) # 0 \/ Cardinality(FilesFor("W")) # 0
    BY <2>1, <2>2, FS_EmptySet
  <2>4. QED
    BY <2>2, <2>3 DEF PipeInv, LifeInv
<1>9. ~Stale
  BY <1>3, <1>7, <1>8 DEF Stale
<1>10. p \in Active
  BY <1>2 DEF Active
<1>11. ASSUME pc[p] \notin {"r_wrap", "w_wrap"}
       PROVE  rp \in 0 .. buffersize - 1 /\ wp \in 0 .. buffersize - 1
  BY <1>1, <1>2, <1>11, PtrInside
<1>12. QED
  BY <1>5, <1>6, <1>8, <1>9, <1>10, <1>11

\* A step that neither opens nor closes, and moves no byte and no pointer.
LEMMA FifoCalm ==
  ASSUME PipeInv, NEW p \in Procs, Aside(p), pc' \in [Procs -> PCs], user' \in [Procs -> Seq(Byte)],
         UNCHANGED <<alloc, buf, buffersize, rp, wp, nreaders, nwriters>>,
         \A q \in Procs \ {p} : user'[q] = user[q] /\ count'[q] = count[q],
         user'[p] \in {user[p], <<>>},
         HasFile(p)' = HasFile(p), HasFile(p) => mode'[p] = mode[p],
         pc[p] \notin {"o_reset", "r_adv"}, pc'[p] \notin {"o_reset", "r_adv"},
         pc'[p] \in ReadPCs => pc[p] \in ReadPCs \/ "R" \in mode[p],
         pc'[p] \in WritePCs => pc[p] \in WritePCs \/ "W" \in mode[p],
         pc'[p] \notin {"r_adv", "r_wrap", "r_wake"} => user'[p] = <<>>
  PROVE  FifoInv' /\ Mapped
<1>1. \A q \in Procs : HasFile(q)' = HasFile(q) /\ (HasFile(q) => mode'[q] = mode[q])
                      /\ (pc'[q] = "o_reset" <=> pc[q] = "o_reset")
                      /\ (pc'[q] = "r_adv" <=> pc[q] = "r_adv")
  BY DEF Aside, HasFile
<1>2. FifoInv'
  <2>1. \A q \in Procs : pc'[q] \in ReadPCs => "R" \in mode'[q]
    BY <1>1 DEF PipeInv, FifoInv, Aside, ReadPCs, HasFile
  <2>2. \A q \in Procs : pc'[q] \in WritePCs => "W" \in mode'[q]
    BY <1>1 DEF PipeInv, FifoInv, Aside, WritePCs, HasFile
  <2>3. \A q \in Procs : pc'[q] \notin {"r_adv", "r_wrap", "r_wake"} => user'[q] = <<>>
    BY DEF PipeInv, FifoInv, Aside
  <2>4. \A q \in Procs : pc'[q] = "r_adv" => user'[q] = [i \in 1 .. count'[q] |-> buf'[rp' + i - 1]]
    <3>1. \A q \in Procs : pc'[q] = "r_adv" => pc[q] = "r_adv" /\ q # p
      BY <1>1
    <3> SUFFICES ASSUME NEW q \in Procs, pc'[q] = "r_adv"
                 PROVE  user'[q] = [i \in 1 .. count'[q] |-> buf'[rp' + i - 1]]
      OBVIOUS
    <3>2. user[q] = [i \in 1 .. count[q] |-> buf[rp + i - 1]]
      BY <3>1 DEF PipeInv, FifoInv
    <3>3. user'[q] = user[q] /\ count'[q] = count[q]
      BY <3>1
    <3>4. QED
      BY <3>2, <3>3
  <2>5. alloc' # 0 /\ nreaders' + nwriters' = 0 => rp' = wp' \/ \E q \in Procs : pc'[q] = "o_reset"
    BY <1>1 DEF PipeInv, FifoInv
  <2>6. QED
    BY <2>1, <2>2, <2>3, <2>4, <2>5 DEF FifoInv
<1>3. /\ Holders' = Holders /\ Active' = Active
      /\ Unread' = Unread /\ Cap' = Cap
  <2>1. Holders' = Holders /\ Active' = Active
    BY <1>1 DEF Holders, Active
  <2>2. Stale' <=> Stale
    BY <1>1 DEF Stale
  <2>3. QED
    BY <2>1, <2>2 DEF Unread, Cap
<1>4. Given' = Given \/ Given' = [Given EXCEPT ![p] = <<>>]
  <2>1. \A q \in Procs \ {p} : Given'[q] = Given[q]
    BY <1>1 DEF Given
  <2>2. Given'[p] = user'[p] /\ Given[p] = user[p]
    BY DEF Given
  <2>3. Given' = [q \in Procs |-> Given'[q]] /\ Given = [q \in Procs |-> Given[q]]
    BY DEF Given
  <2>4. QED
    BY <2>1, <2>2, <2>3
<1>5. Mapped
  <2>1. CASE Given' = Given
    BY <1>3, <2>1 DEF Mapped, Fifo!fifoVars, Given, Holders, Active, Cap, CapOf
  <2>2. CASE Given' = [Given EXCEPT ![p] = <<>>]
    <3>1. Fifo!Done(p)
      BY <1>3, <2>2 DEF Fifo!Done, Given, Holders, Active, Cap, CapOf
    <3>2. QED
      BY <3>1 DEF Mapped, Fifo!Next
  <2>3. QED
    BY <1>4, <2>1, <2>2
<1>6. QED
  BY <1>2, <1>5

-----------------------------------------------------------------------------
(* The steps that change the queue, or where it lies *)

\* What FifoInv says of the processes, after a step of p that leaves the others alone
\* and has none of them at r_adv.
LEMMA FilesKept ==
  ASSUME PipeInv, NEW p \in Procs, Aside(p),
         \A q \in Procs \ {p} : user'[q] = user[q] /\ pc[q] # "r_adv",
         pc'[p] \in ReadPCs => "R" \in mode'[p],
         pc'[p] \in WritePCs => "W" \in mode'[p],
         pc'[p] \notin {"r_adv", "r_wrap", "r_wake"} => user'[p] = <<>>
  PROVE  \A q \in Procs :
           /\ pc'[q] \in ReadPCs => "R" \in mode'[q]
           /\ pc'[q] \in WritePCs => "W" \in mode'[q]
           /\ pc'[q] \notin {"r_adv", "r_wrap", "r_wake"} => user'[q] = <<>>
           /\ pc'[q] = "r_adv" => q = p
  BY DEF PipeInv, FifoInv, Aside

\* The others are outside their critical sections while p is inside its own.
LEMMA OthersOutside ==
  ASSUME MutualExclusion, NEW p \in Procs, pc[p] \in InCritical
  PROVE  \A q \in Procs \ {p} : pc[q] \notin InCritical
<1> SUFFICES ASSUME NEW q \in Procs, q # p, pc[q] \in InCritical PROVE FALSE
  OBVIOUS
<1>1. QED
  BY DEF MutualExclusion

\* Kept when no holder, file or count changes.
LEMMA Unmoved ==
  ASSUME NEW p \in Procs, Aside(p), HasFile(p)' = HasFile(p), mode' = mode, buffersize' = buffersize
  PROVE  Holders' = Holders /\ Active' = Active /\ Cap' = Cap
<1>1. \A q \in Procs : HasFile(q)' = HasFile(q)
  BY DEF Aside, HasFile
<1>2. QED
  BY <1>1 DEF Holders, Active, Cap

\* The first open has a block, but shows nothing of it before it has set the pointers.
LEMMA FifoAlloc ==
  ASSUME PipeInv, NEW p \in Procs, Aside(p), OpenAlloc(p)
  PROVE  FifoInv' /\ Mapped
<1>0. TypeOK /\ MutualExclusion
  BY DEF PipeInv, IInv
<1>1. /\ pc[p] = "o_alloc" /\ pc' = [pc EXCEPT ![p] = "o_reset"] /\ pc'[p] = "o_reset"
      /\ UNCHANGED <<user, mode, buffersize, rp, wp, nreaders, nwriters>>
  BY <1>0 DEF OpenAlloc, Goto, TypeOK, counts, env, file, call
<1>2. \A q \in Procs \ {p} : pc[q] \notin InCritical
  BY <1>0, <1>1, OthersOutside DEF InCritical
<1>3. user[p] = <<>>
  BY <1>1 DEF PipeInv, FifoInv
<1>4. FifoInv'
  <2>1. \A q \in Procs \ {p} : user'[q] = user[q] /\ pc[q] # "r_adv"
    BY <1>1, <1>2 DEF InCritical
  <2>2. pc'[p] \notin ReadPCs /\ pc'[p] \notin WritePCs
    BY <1>1 DEF ReadPCs, WritePCs
  <2>3. \A q \in Procs :
           /\ pc'[q] \in ReadPCs => "R" \in mode'[q]
           /\ pc'[q] \in WritePCs => "W" \in mode'[q]
           /\ pc'[q] \notin {"r_adv", "r_wrap", "r_wake"} => user'[q] = <<>>
           /\ pc'[q] = "r_adv" => q = p
    BY <1>1, <1>3, <2>1, <2>2, FilesKept
  <2>4. QED
    BY <1>1, <2>3 DEF FifoInv
<1>5. Holders' = Holders /\ Active' = Active /\ Cap' = Cap
  <2>1. HasFile(p)' = HasFile(p)
    BY <1>1 DEF HasFile
  <2>2. QED
    BY <1>1, <2>1, Unmoved
<1>6. Given' = Given
  <2>1. \A q \in Procs : (pc'[q] = "r_adv" <=> pc[q] = "r_adv")
    BY <1>0, <1>1 DEF TypeOK
  <2>2. QED
    BY <1>1, <2>1 DEF Given
<1>7. Unread' = Unread
  <2>1. CASE alloc = 0
    <3>1. nreaders + nwriters = 0
      <4>1. \A x \in {"R", "W"} : FilesFor(x) = {}
        BY <2>1 DEF PipeInv, LifeInv, FilesFor
      <4>2. QED
        BY <4>1, FS_EmptySet DEF PipeInv, LifeInv
    <3>2. Stale /\ Stale'
      BY <1>1, <2>1, <3>1 DEF Stale
    <3>3. QED
      BY <3>2 DEF Unread
  <2>2. CASE alloc # 0
    <3>1. UNCHANGED <<alloc, buf>>
      BY <2>2 DEF OpenAlloc, block
    <3>2. ~Stale
      <4>1. \A q \in Procs : pc[q] # "o_reset"
        BY <1>1, <1>2 DEF InCritical
      <4>2. QED
        BY <2>2, <4>1 DEF Stale
    <3>3. CASE nreaders + nwriters # 0
      BY <1>1, <2>2, <3>1, <3>3 DEF Stale, Unread
    <3>4. CASE nreaders + nwriters = 0
      <4>1. Stale'
        BY <1>1, <3>4 DEF Stale
      <4>2. rp = wp
        BY <1>1, <1>2, <2>2, <3>4 DEF PipeInv, FifoInv, InCritical
      <4>3. buffersize \in Nat \ {0} /\ rp \in 0 .. buffersize - 1
        <5>1. PICK q \in Procs : HasFile(q)
          BY <1>1, <1>2, <2>2 DEF PipeInv, LifeInv, InCritical
        <5>2. buffersize \in Nat /\ rp \in Nat
          BY <1>0, SizesAssumption DEF TypeOK
        <5>3. buffersize > 0 /\ rp \in 0 .. buffersize
          BY <5>1 DEF PipeInv, IInv, PtrInv
        <5>4. rp # buffersize
          BY <1>1, <1>2, <5>3 DEF PipeInv, IInv, PtrInv, InCritical
        <5>5. QED
          BY <5>2, <5>3, <5>4
      <4>4. Unread = <<>>
        BY <3>2, <4>2, <4>3, UnreadIs, BetweenEmpty
      <4>5. Unread' = <<>>
        BY <4>1 DEF Unread
      <4>6. QED
        BY <4>4, <4>5
    <3>5. QED
      BY <3>3, <3>4
  <2>3. QED
    BY <2>1, <2>2
<1>8. QED
  BY <1>4, <1>5, <1>6, <1>7 DEF Mapped, Fifo!fifoVars, Given, Holders, Active, Cap, CapOf

\* An open empties the queue.
LEMMA FifoOpen ==
  ASSUME PipeInv, IInv', LifeInv', NEW p \in Procs, Aside(p), OpenReset(p)
  PROVE  FifoInv' /\ Mapped
<1>0. TypeOK /\ TypeOK' /\ MutualExclusion
  BY DEF PipeInv, IInv
<1>1. /\ pc[p] = "o_reset" /\ pc' = [pc EXCEPT ![p] = "open"] /\ user' = [user EXCEPT ![p] = <<>>]
      /\ UNCHANGED <<mode, alloc, buf>> /\ rp' = 0 /\ wp' = 0 /\ pc'[p] = "open" /\ user'[p] = <<>>
  BY <1>0 DEF OpenReset, Return, Leave, Goto, TypeOK, block, env, file
<1>2. \A q \in Procs \ {p} : pc[q] \notin InCritical
  BY <1>0, <1>1, OthersOutside DEF InCritical
<1>3. FifoInv'
  <2>1. \A q \in Procs \ {p} : user'[q] = user[q] /\ pc[q] # "r_adv"
    BY <1>1, <1>2 DEF InCritical
  <2>2. pc'[p] \notin ReadPCs /\ pc'[p] \notin WritePCs
    BY <1>1 DEF ReadPCs, WritePCs
  <2>3. \A q \in Procs :
           /\ pc'[q] \in ReadPCs => "R" \in mode'[q]
           /\ pc'[q] \in WritePCs => "W" \in mode'[q]
           /\ pc'[q] \notin {"r_adv", "r_wrap", "r_wake"} => user'[q] = <<>>
           /\ pc'[q] = "r_adv" => q = p
    BY <1>1, <2>1, <2>2, FilesKept
  <2>4. QED
    BY <1>1, <2>3 DEF FifoInv
<1>4. Unread' = <<>>
  <2>1. buffersize' \in Nat \ {0}
    <3>1. HasFile(p)'
      BY <1>1 DEF HasFile
    <3>2. PtrInv' /\ TypeOK'
      BY DEF IInv
    <3>3. buffersize' > 0 /\ buffersize' \in Nat
      BY <3>1, <3>2, SizesAssumption DEF PtrInv, TypeOK, env, file
    <3>4. QED
      BY <3>3
  <2>2. Between(buffersize', rp', wp', buf') = <<>>
    BY <1>1, <2>1, BetweenEmpty
  <2>3. ~Stale' => Unread' = Between(buffersize', rp', wp', buf')
    BY DEF Unread, Between
  <2>4. Stale' => Unread' = <<>>
    BY DEF Unread
  <2>5. QED
    BY <2>2, <2>3, <2>4
<1>5. /\ p \notin Holders /\ Holders' = Holders \cup {p} /\ Active' \in {Active, Active \cup {p}}
  <2>1. ~HasFile(p) /\ HasFile(p)' /\ \A q \in Procs \ {p} : HasFile(q)' = HasFile(q)
    BY <1>1 DEF HasFile, Aside
  <2>2. QED
    BY <1>1, <2>1 DEF Holders, Active
<1>6. Given' = Given
  <2>1. user[p] = <<>>
    BY <1>1 DEF PipeInv, FifoInv
  <2>2. \A q \in Procs : (pc'[q] = "r_adv" <=> pc[q] = "r_adv") /\ user'[q] = user[q]
    BY <1>1, <2>1, <1>0 DEF TypeOK
  <2>3. QED
    BY <2>2 DEF Given
<1>7. Cap' \in Nat
  <2>1. buffersize' \in Nat
    BY <1>0, SizesAssumption DEF TypeOK
  <2>2. \A n \in Nat : CapOf(n) \in Nat
    BY DEF CapOf
  <2>3. QED
    BY <2>1, <2>2 DEF Cap
<1>8. Fifo!Open(p)
  BY <1>4, <1>5, <1>6, <1>7 DEF Fifo!Open, Given, Holders, Active, Cap, CapOf
<1>9. QED
  BY <1>3, <1>8 DEF Mapped, Fifo!Next

\* A close; the last one empties the queue.
LEMMA FifoClose ==
  ASSUME PipeInv, IInv', LifeInv', NEW p \in Procs, Aside(p), Release(p)
  PROVE  FifoInv' /\ Mapped
<1>0. TypeOK /\ TypeOK' /\ MutualExclusion
  BY DEF PipeInv, IInv
<1>1. /\ pc[p] = "c_crit" /\ pc'[p] = "closed" /\ user' = [user EXCEPT ![p] = <<>>]
      /\ mode' = [mode EXCEPT ![p] = {}] /\ UNCHANGED <<buffersize, rp, wp>>
      /\ pc' = [pc EXCEPT ![p] = "closed"] /\ user'[p] = <<>>
  BY <1>0 DEF Release, Gone, Leave, Goto, TypeOK
<1>2. \A q \in Procs \ {p} : pc[q] \notin InCritical
  BY <1>0, <1>1, OthersOutside DEF InCritical
<1>3. FifoInv'
  <2>1. \A q \in Procs \ {p} : user'[q] = user[q] /\ pc[q] # "r_adv"
    BY <1>1, <1>2 DEF InCritical
  <2>2. pc'[p] \notin ReadPCs /\ pc'[p] \notin WritePCs
    BY <1>1 DEF ReadPCs, WritePCs
  <2>3. \A q \in Procs :
           /\ pc'[q] \in ReadPCs => "R" \in mode'[q]
           /\ pc'[q] \in WritePCs => "W" \in mode'[q]
           /\ pc'[q] \notin {"r_adv", "r_wrap", "r_wake"} => user'[q] = <<>>
           /\ pc'[q] = "r_adv" => q = p
    BY <1>1, <2>1, <2>2, FilesKept
  <2>4. nreaders' + nwriters' = 0 => alloc' = 0
    BY DEF Release, LastClose
  <2>5. QED
    BY <1>1, <2>3, <2>4 DEF FifoInv
<1>4. p \in Holders /\ Holders' = Holders \ {p} /\ Active' = Active \ {p}
  <2>1. HasFile(p) /\ ~HasFile(p)' /\ \A q \in Procs \ {p} : HasFile(q)' = HasFile(q) /\ mode'[q] = mode[q]
    BY <1>1 DEF HasFile, Aside
  <2>2. QED
    BY <2>1 DEF Holders, Active
<1>5. Active' = {} <=> nreaders' + nwriters' = 0
  <2>1. /\ IsFiniteSet(FilesFor("R")') /\ IsFiniteSet(FilesFor("W")')
        /\ nreaders' = Cardinality(FilesFor("R")') /\ nwriters' = Cardinality(FilesFor("W")')
    <3>1. \A x : FilesFor(x)' \subseteq FilesFor(x)
      BY <1>1 DEF FilesFor, HasFile, Aside
    <3>2. QED
      BY <3>1, FilesFinite, FS_Subset DEF LifeInv
  <2>2. /\ Cardinality(FilesFor("R")') \in Nat /\ Cardinality(FilesFor("W")') \in Nat
        /\ Cardinality(FilesFor("R")') = 0 <=> FilesFor("R")' = {}
        /\ Cardinality(FilesFor("W")') = 0 <=> FilesFor("W")' = {}
    BY <2>1, FS_CardinalityType, FS_EmptySet
  <2>3. nreaders' + nwriters' = 0 <=> FilesFor("R")' = {} /\ FilesFor("W")' = {}
    BY <2>1, <2>2
  <2>4. Active' = FilesFor("R")' \cup FilesFor("W")'
    <3>1. \A q \in Procs : mode'[q] # {} <=> "R" \in mode'[q] \/ "W" \in mode'[q]
      BY <1>0 DEF TypeOK
    <3>2. QED
      BY <3>1 DEF Active, FilesFor
  <2>5. QED
    BY <2>3, <2>4
<1>6. Unread' = IF Active' = {} THEN <<>> ELSE Unread
  <2>1. CASE Active' = {}
    <3>1. alloc' = 0
      BY <1>5, <2>1 DEF Release, LastClose
    <3>2. QED
      BY <2>1, <3>1 DEF Unread, Stale
  <2>2. CASE Active' # {}
    <3>1. UNCHANGED <<alloc, buf>> /\ nreaders' + nwriters' # 0
      BY <1>5, <2>2 DEF Release, LastClose, block
    <3>2. nreaders + nwriters # 0
      <4>1. nreaders' \in Nat /\ nwriters' \in Nat /\ nreaders \in Nat /\ nwriters \in Nat
        <5>1. \A x : FilesFor(x)' \subseteq FilesFor(x)
          BY <1>1 DEF FilesFor, HasFile, Aside
        <5>2. \A x : IsFiniteSet(FilesFor(x)') /\ Cardinality(FilesFor(x)') \in Nat
          BY <5>1, FilesFinite, FS_Subset, FS_CardinalityType
        <5>3. QED
          BY <5>2, FilesFinite DEF PipeInv, LifeInv
      <4>2. nreaders' <= nreaders /\ nwriters' <= nwriters
        BY <4>1 DEF Release, Closed
      <4>3. nreaders' # 0 \/ nwriters' # 0
        BY <3>1
      <4>4. QED
        BY <4>1, <4>2, <4>3
    <3>3. Stale' <=> Stale
      BY <3>1, <3>2 DEF Stale
    <3>4. QED
      BY <1>1, <2>2, <3>1, <3>3 DEF Unread
  <2>3. QED
    BY <2>1, <2>2
<1>7. Given' = Given /\ Cap' = Cap
  <2>1. user[p] = <<>>
    BY <1>1 DEF PipeInv, FifoInv
  <2>2. \A q \in Procs : (pc'[q] = "r_adv" <=> pc[q] = "r_adv") /\ user'[q] = user[q]
    BY <1>1, <2>1, <1>0 DEF TypeOK
  <2>3. QED
    BY <1>1, <2>2 DEF Given, Cap
<1>8. Fifo!Close(p)
  BY <1>4, <1>6, <1>7 DEF Fifo!Close, Given, Holders, Active, Cap, CapOf
<1>9. QED
  BY <1>3, <1>8 DEF Mapped, Fifo!Next

-----------------------------------------------------------------------------
\* A read copies what it will take; the bytes are the reader's once rp has passed them.
LEMMA FifoReadCopy ==
  ASSUME FixedSize, PipeInv, NEW p \in Procs, Aside(p), ReadCopy(p), pc'[p] = "r_adv"
  PROVE  FifoInv' /\ Mapped
<1>0. TypeOK /\ MutualExclusion
  BY DEF PipeInv, IInv
<1>1. /\ pc[p] = "r_check" /\ pc' = [pc EXCEPT ![p] = "r_adv"] /\ rp # wp
      /\ count' = [count EXCEPT ![p] = ReadCount(p)]
      /\ \E junk \in Byte : user' = [user EXCEPT ![p] = BytesAt(rp, ReadCount(p), junk)]
      /\ UNCHANGED <<alloc, buf, mode, buffersize, rp, wp, nreaders, nwriters>>
  BY <1>0 DEF ReadCopy, Return, Leave, Goto, TypeOK, device, block, counts, env, file
<1>2. \A q \in Procs \ {p} : pc[q] \notin InCritical
  BY <1>0, <1>1, OthersOutside DEF InCritical
<1>3. /\ buffersize \in Nat \ {0} /\ alloc = buffersize /\ ~Stale
      /\ rp \in 0 .. buffersize - 1 /\ wp \in 0 .. buffersize - 1 /\ nreaders + nwriters # 0
  BY <1>1, Solid DEF InCritical, ReadPCs
<1>4. user'[p] = [i \in 1 .. ReadCount(p) |-> buf[rp + i - 1]]
  <2>1. ReadCount(p) \in Nat /\ rp + ReadCount(p) <= buffersize
    BY <1>0, <1>1, <1>3, ReadCountRange DEF TypeOK
  <2>2. \A i \in 1 .. ReadCount(p) : rp + i - 1 < alloc
    BY <1>3, <2>1
  <2>3. \A junk : BytesAt(rp, ReadCount(p), junk) = [i \in 1 .. ReadCount(p) |-> buf[rp + i - 1]]
    BY <2>2 DEF BytesAt
  <2>4. QED
    BY <1>0, <1>1, <2>3 DEF TypeOK
<1>5. FifoInv'
  <2>1. \A q \in Procs \ {p} : user'[q] = user[q] /\ pc[q] # "r_adv"
    BY <1>1, <1>2 DEF InCritical
  <2>2. "R" \in mode'[p] /\ pc'[p] \notin WritePCs
    BY <1>1 DEF PipeInv, FifoInv, ReadPCs, WritePCs
  <2>3. \A q \in Procs :
           /\ pc'[q] \in ReadPCs => "R" \in mode'[q]
           /\ pc'[q] \in WritePCs => "W" \in mode'[q]
           /\ pc'[q] \notin {"r_adv", "r_wrap", "r_wake"} => user'[q] = <<>>
           /\ pc'[q] = "r_adv" => q = p
    BY <2>1, <2>2, FilesKept
  <2>4. count'[p] = ReadCount(p)
    BY <1>0, <1>1 DEF TypeOK
  <2>5. pc'[p] = "r_adv" => user'[p] = [i \in 1 .. count'[p] |-> buf'[rp' + i - 1]]
    BY <1>1, <1>4, <2>4
  <2>6. QED
    BY <1>1, <1>3, <2>3, <2>5 DEF FifoInv
<1>6. Holders' = Holders /\ Active' = Active /\ Cap' = Cap
  <2>1. HasFile(p)' = HasFile(p)
    BY <1>1 DEF HasFile
  <2>2. QED
    BY <1>1, <2>1, Unmoved
<1>7. Given' = Given
  <2>1. \A q \in Procs : (IF pc'[q] = "r_adv" THEN <<>> ELSE user'[q])
                       = (IF pc[q] = "r_adv" THEN <<>> ELSE user[q])
    <3>1. user[p] = <<>>
      BY <1>1 DEF PipeInv, FifoInv
    <3>2. \A q \in Procs \ {p} : pc'[q] = pc[q] /\ user'[q] = user[q]
      BY <1>1 DEF Aside
    <3>3. QED
      BY <3>1, <3>2
  <2>2. QED
    BY <2>1 DEF Given
<1>8. Unread' = Unread
  <2>1. \A q \in Procs : pc'[q] = "o_reset" <=> pc[q] = "o_reset"
    BY <1>0, <1>1 DEF TypeOK
  <2>2. QED
    BY <1>1, <2>1 DEF Unread, Stale
<1>9. QED
  BY <1>5, <1>6, <1>7, <1>8 DEF Mapped, Fifo!fifoVars, Given, Holders, Active, Cap, CapOf

\* A write copies into the free part of the ring.
LEMMA FifoWriteCopy ==
  ASSUME FixedSize, PipeInv, NEW p \in Procs, Aside(p), WriteCopy(p), pc'[p] = "w_adv"
  PROVE  FifoInv' /\ Mapped
<1>0. TypeOK /\ MutualExclusion
  BY DEF PipeInv, IInv
<1>1. /\ pc[p] = "w_check" /\ pc' = [pc EXCEPT ![p] = "w_adv"] /\ spacefree # 0
      /\ \E data \in [1 .. WriteCount(p) -> Byte] :
              buf' = [i \in DOMAIN buf |-> IF i - wp + 1 \in DOMAIN data
                                           THEN data[i - wp + 1] ELSE buf[i]]
      /\ UNCHANGED <<alloc, user, mode, buffersize, rp, wp, nreaders, nwriters>>
  BY <1>0 DEF WriteCopy, Return, Leave, Goto, TypeOK, counts, env, file
<1>2. \A q \in Procs \ {p} : pc[q] \notin InCritical
  BY <1>0, <1>1, OthersOutside DEF InCritical
<1>3. /\ buffersize \in Nat \ {0} /\ alloc = buffersize /\ buf \in [0 .. buffersize - 1 -> Byte]
      /\ ~Stale /\ rp \in 0 .. buffersize - 1 /\ wp \in 0 .. buffersize - 1 /\ nreaders + nwriters # 0
  BY <1>1, Solid DEF InCritical, WritePCs
<1>4. FifoInv'
  <2>1. \A q \in Procs \ {p} : user'[q] = user[q] /\ pc[q] # "r_adv"
    BY <1>1, <1>2 DEF InCritical
  <2>2. "W" \in mode'[p] /\ pc'[p] \notin ReadPCs /\ user'[p] = <<>> /\ pc'[p] # "r_adv"
    BY <1>1 DEF PipeInv, FifoInv, ReadPCs, WritePCs
  <2>3. \A q \in Procs :
           /\ pc'[q] \in ReadPCs => "R" \in mode'[q]
           /\ pc'[q] \in WritePCs => "W" \in mode'[q]
           /\ pc'[q] \notin {"r_adv", "r_wrap", "r_wake"} => user'[q] = <<>>
           /\ pc'[q] = "r_adv" => q = p
    BY <2>1, <2>2, FilesKept
  <2>4. QED
    BY <1>1, <1>3, <2>2, <2>3 DEF FifoInv
<1>5. Holders' = Holders /\ Active' = Active /\ Cap' = Cap
  <2>1. HasFile(p)' = HasFile(p)
    BY <1>1 DEF HasFile
  <2>2. QED
    BY <1>1, <2>1, Unmoved
<1>6. Given' = Given
  <2>1. \A q \in Procs : (pc'[q] = "r_adv" <=> pc[q] = "r_adv")
    BY <1>0, <1>1 DEF TypeOK
  <2>2. QED
    BY <1>1, <2>1 DEF Given
<1>7. Unread' = Unread
  <2>1. \A q \in Procs : pc'[q] = "o_reset" <=> pc[q] = "o_reset"
    BY <1>0, <1>1 DEF TypeOK
  <2>2. ~Stale'
    BY <1>1, <1>3, <2>1 DEF Stale
  <2>3. /\ WriteCount(p) \in Nat
        /\ WriteCount(p) <= IF rp <= wp THEN buffersize - 1 - (wp - rp) ELSE rp - wp - 1
    <3>1. WriteCount(p) \in Nat /\ WriteCount(p) <= spacefree
      BY <1>0, <1>1, <1>3, WriteCountRange DEF TypeOK
    <3>2. spacefree = IF rp <= wp THEN buffersize - 1 - (wp - rp) ELSE rp - wp - 1
      BY <1>3, SpaceFree
    <3>3. QED
      BY <3>1, <3>2
  <2>4. OnlyFrom(buffersize, wp, WriteCount(p), buf, buf')
    BY <1>1, <1>3 DEF OnlyFrom
  <2>5. Between(buffersize, rp, wp, buf') = Between(buffersize, rp, wp, buf)
    BY <1>3, <2>3, <2>4, BetweenKept
  <2>6. Unread' = Between(buffersize, rp, wp, buf')
    BY <1>1, <2>2 DEF Unread, Between
  <2>7. QED
    BY <1>3, <2>5, <2>6, UnreadIs
<1>8. QED
  BY <1>4, <1>5, <1>6, <1>7 DEF Mapped, Fifo!fifoVars, Given, Holders, Active, Cap, CapOf

\* The advance of rp is the moment a read is served ...
LEMMA FifoGet ==
  ASSUME FixedSize, PipeInv, NEW p \in Procs, Aside(p), ReadAdvance(p)
  PROVE  FifoInv' /\ Mapped
<1>0. TypeOK /\ MutualExclusion
  BY DEF PipeInv, IInv
<1>1. /\ pc[p] = "r_adv" /\ pc' = [pc EXCEPT ![p] = "r_wrap"] /\ pc'[p] = "r_wrap" /\ rp' = rp + count[p]
      /\ UNCHANGED <<alloc, buf, user, mode, buffersize, wp, nreaders, nwriters>>
  BY <1>0 DEF ReadAdvance, Goto, TypeOK, block, counts, env, file, call
<1>2. \A q \in Procs \ {p} : pc[q] \notin InCritical
  BY <1>0, <1>1, OthersOutside DEF InCritical
<1>3. /\ buffersize \in Nat \ {0} /\ alloc = buffersize /\ buf \in [0 .. buffersize - 1 -> Byte]
      /\ ~Stale /\ rp \in 0 .. buffersize - 1 /\ wp \in 0 .. buffersize - 1
      /\ nreaders + nwriters # 0 /\ p \in Active
  BY <1>1, Solid DEF InCritical, ReadPCs
<1>4. FifoInv'
  <2>1. \A q \in Procs \ {p} : user'[q] = user[q] /\ pc[q] # "r_adv"
    BY <1>1, <1>2 DEF InCritical
  <2>2. "R" \in mode'[p] /\ pc'[p] \notin WritePCs /\ pc'[p] # "r_adv"
    BY <1>1 DEF PipeInv, FifoInv, ReadPCs, WritePCs
  <2>3. \A q \in Procs :
           /\ pc'[q] \in ReadPCs => "R" \in mode'[q]
           /\ pc'[q] \in WritePCs => "W" \in mode'[q]
           /\ pc'[q] \notin {"r_adv", "r_wrap", "r_wake"} => user'[q] = <<>>
           /\ pc'[q] = "r_adv" => q = p
    BY <1>1, <2>1, <2>2, FilesKept
  <2>4. QED
    BY <1>1, <1>3, <2>2, <2>3 DEF FifoInv
<1>5. Holders' = Holders /\ Active' = Active /\ Cap' = Cap
  <2>1. HasFile(p)' = HasFile(p)
    BY <1>1 DEF HasFile
  <2>2. QED
    BY <1>1, <2>1, Unmoved
<1>6. Given[p] = <<>> /\ Given' = [Given EXCEPT ![p] = user[p]]
  <2>1. \A q \in Procs \ {p} : pc'[q] = pc[q]
    BY DEF Aside
  <2>2. Given[p] = <<>> /\ Given'[p] = user[p] /\ \A q \in Procs \ {p} : Given'[q] = Given[q]
    BY <1>1, <2>1 DEF Given
  <2>3. Given' = [q \in Procs |-> Given'[q]] /\ Given = [q \in Procs |-> Given[q]]
    BY DEF Given
  <2>4. QED
    BY <2>2, <2>3
<1>7. /\ count[p] \in 0 .. Len(Unread)
      /\ user[p] = SubSeq(Unread, 1, count[p])
      /\ Unread' = SubSeq(Unread, count[p] + 1, Len(Unread))
  <2>1. \A q \in Procs : pc'[q] # "o_reset" /\ pc[q] # "o_reset"
    BY <1>1, <1>2 DEF Aside, InCritical
  <2>2. ~Stale'
    BY <1>1, <1>3, <2>1 DEF Stale
  <2>3. Unread' = Between(buffersize, rp + count[p], wp, buf)
    BY <1>1, <2>2 DEF Unread, Between
  <2>4. Unread = Between(buffersize, rp, wp, buf)
    BY <1>3, UnreadIs
  <2>5. Ring(buffersize, rp, wp, buf) /\ Part(buffersize, rp, wp, count[p])
    BY <1>0, <1>1, <1>3 DEF PipeInv, IInv, PtrInv, ReaderInv, TypeOK, Ring, Part
  <2>6. user[p] = [i \in 1 .. count[p] |-> buf[rp + i - 1]]
    BY <1>1 DEF PipeInv, FifoInv
  <2> DEFINE s == Between(buffersize, rp, wp, buf)
  <2>7. /\ count[p] <= Len(s) /\ SubSeq(s, 1, count[p]) = [i \in 1 .. count[p] |-> buf[rp + i - 1]]
        /\ SubSeq(s, count[p] + 1, Len(s)) = Between(buffersize, rp + count[p], wp, buf)
    BY <2>5, BetweenShrinks
  <2>8. Len(s) \in Nat
    BY <1>3, BetweenSeq
  <2> HIDE DEF s
  <2>9. count[p] \in 0 .. Len(s)
    BY <2>5, <2>7, <2>8 DEF Part
  <2>10. Unread = s /\ Unread' = SubSeq(s, count[p] + 1, Len(s)) /\ user[p] = SubSeq(s, 1, count[p])
    <3>1. Unread = s
      BY <2>4 DEF s
    <3>2. QED
      BY <3>1, <2>3, <2>6, <2>7, Zenon
  <2>11. QED
    BY <2>9, <2>10, Zenon
<1>8. Fifo!Get(p)
  BY <1>3, <1>5, <1>6, <1>7 DEF Fifo!Get, Given, Holders, Active, Cap, CapOf
<1>9. QED
  BY <1>4, <1>8 DEF Mapped, Fifo!Next

\* ... and the advance of wp the moment a write is accepted.
LEMMA FifoPut ==
  ASSUME FixedSize, PipeInv, NEW p \in Procs, Aside(p), WriteAdvance(p)
  PROVE  FifoInv' /\ Mapped
<1>0. TypeOK /\ MutualExclusion
  BY DEF PipeInv, IInv
<1>1. /\ pc[p] = "w_adv" /\ pc' = [pc EXCEPT ![p] = "w_wrap"] /\ pc'[p] = "w_wrap" /\ wp' = wp + count[p]
      /\ UNCHANGED <<alloc, buf, user, mode, buffersize, rp, nreaders, nwriters>>
  BY <1>0 DEF WriteAdvance, Goto, TypeOK, block, counts, env, file, call
<1>2. \A q \in Procs \ {p} : pc[q] \notin InCritical
  BY <1>0, <1>1, OthersOutside DEF InCritical
<1>3. /\ buffersize \in Nat \ {0} /\ alloc = buffersize /\ buf \in [0 .. buffersize - 1 -> Byte]
      /\ ~Stale /\ rp \in 0 .. buffersize - 1 /\ wp \in 0 .. buffersize - 1
      /\ nreaders + nwriters # 0 /\ p \in Active
  BY <1>1, Solid DEF InCritical, WritePCs
<1>4. FifoInv'
  <2>1. \A q \in Procs \ {p} : user'[q] = user[q] /\ pc[q] # "r_adv"
    BY <1>1, <1>2 DEF InCritical
  <2>2. "W" \in mode'[p] /\ pc'[p] \notin ReadPCs /\ user'[p] = <<>> /\ pc'[p] # "r_adv"
    BY <1>1 DEF PipeInv, FifoInv, ReadPCs, WritePCs
  <2>3. \A q \in Procs :
           /\ pc'[q] \in ReadPCs => "R" \in mode'[q]
           /\ pc'[q] \in WritePCs => "W" \in mode'[q]
           /\ pc'[q] \notin {"r_adv", "r_wrap", "r_wake"} => user'[q] = <<>>
           /\ pc'[q] = "r_adv" => q = p
    BY <1>1, <2>1, <2>2, FilesKept
  <2>4. QED
    BY <1>1, <1>3, <2>2, <2>3 DEF FifoInv
<1>5. Holders' = Holders /\ Active' = Active /\ Cap' = Cap
  <2>1. HasFile(p)' = HasFile(p)
    BY <1>1 DEF HasFile
  <2>2. QED
    BY <1>1, <2>1, Unmoved
<1>6. Given' = Given
  <2>1. \A q \in Procs : (pc'[q] = "r_adv" <=> pc[q] = "r_adv")
    BY <1>0, <1>1 DEF TypeOK
  <2>2. QED
    BY <1>1, <2>1 DEF Given
<1>7. \E n \in 0 .. (Cap - Len(Unread)) : \E data \in [1 .. n -> Byte] : Unread' = Unread \o data
  <2>1. \A q \in Procs : pc'[q] # "o_reset" /\ pc[q] # "o_reset"
    BY <1>1, <1>2 DEF Aside, InCritical
  <2>2. ~Stale'
    BY <1>1, <1>3, <2>1 DEF Stale
  <2>3. Unread' = Between(buffersize, rp, wp + count[p], buf)
    BY <1>1, <2>2 DEF Unread, Between
  <2>4. Unread = Between(buffersize, rp, wp, buf)
    BY <1>3, UnreadIs
  <2>5. Ring(buffersize, rp, wp, buf) /\ Room(buffersize, rp, wp, count[p])
    <3>1. count[p] \in Nat /\ wp + count[p] <= buffersize /\ count[p] <= spacefree
      BY <1>0, <1>1 DEF PipeInv, IInv, PtrInv, TypeOK
    <3>2. spacefree = IF rp <= wp THEN buffersize - 1 - (wp - rp) ELSE rp - wp - 1
      BY <1>3, SpaceFree
    <3>3. QED
      BY <1>3, <3>1, <3>2 DEF Ring, Room
  <2> DEFINE s == Between(buffersize, rp, wp, buf)
             t == Piece(buf, wp, count[p])
  <2>6. /\ t \in [1 .. count[p] -> Byte] /\ count[p] <= buffersize - 1 - Len(s)
        /\ Between(buffersize, rp, wp + count[p], buf) = s \o t
    <3>1. t \in [1 .. count[p] -> Byte]
      BY <2>5, BetweenGrows
    <3>2. count[p] <= buffersize - 1 - Len(s)
      BY <2>5, BetweenGrows
    <3>3. Between(buffersize, rp, wp + count[p], buf) = s \o t
      BY <2>5, BetweenGrows
    <3>4. QED
      BY <3>1, <3>2, <3>3
  <2>7. Len(s) \in Nat
    BY <1>3, BetweenSeq
  <2> HIDE DEF s, t
  <2>8. count[p] \in 0 .. (Cap - Len(s))
    <3>1. count[p] \in Nat /\ buffersize \in Nat \ {0}
      BY <2>5 DEF Ring, Room
    <3>2. Cap = buffersize - 1
      BY <3>1 DEF Cap, CapOf
    <3>3. count[p] <= buffersize - 1 - Len(s)
      BY <2>6
    <3> HIDE DEF Cap
    <3>4. QED
      BY <2>7, <3>1, <3>2, <3>3
  <2>9. Unread = s /\ Unread' = s \o t
    BY <2>3, <2>4, <2>6 DEF s
  <2>10. QED
    BY <2>6, <2>8, <2>9
<1>8. Fifo!Put
  BY <1>3, <1>5, <1>6, <1>7 DEF Fifo!Put, Given, Holders, Active, Cap, CapOf
<1>9. QED
  BY <1>4, <1>8 DEF Mapped, Fifo!Next

-----------------------------------------------------------------------------
\* The wraps move a pointer from the end of the ring to its start.
LEMMA FifoWrap ==
  ASSUME FixedSize, PipeInv, NEW p \in Procs, Aside(p), ReadWrap(p) \/ WriteWrap(p)
  PROVE  FifoInv' /\ Mapped
<1>0. TypeOK /\ MutualExclusion
  BY DEF PipeInv, IInv
<1>1. /\ \/ pc[p] = "r_wrap" /\ pc'[p] = "r_wake" /\ rp' = Wrap(rp) /\ wp' = wp
         \/ pc[p] = "w_wrap" /\ pc'[p] = "w_wake" /\ wp' = Wrap(wp) /\ rp' = rp
      /\ UNCHANGED <<alloc, buf, user, mode, buffersize, nreaders, nwriters>>
  BY <1>0 DEF ReadWrap, WriteWrap, Goto, TypeOK, block, counts, env, file, call
<1>2. \A q \in Procs \ {p} : pc[q] \notin InCritical
  BY <1>0, <1>1, OthersOutside DEF InCritical
<1>3. /\ buffersize \in Nat \ {0} /\ alloc = buffersize /\ ~Stale /\ nreaders + nwriters # 0
  BY <1>1, Solid DEF InCritical, ReadPCs, WritePCs
<1>4. FifoInv'
  <2>1. \A q \in Procs \ {p} : user'[q] = user[q] /\ pc[q] # "r_adv"
    BY <1>1, <1>2 DEF InCritical
  <2>2. /\ pc'[p] \in ReadPCs => "R" \in mode'[p]
        /\ pc'[p] \in WritePCs => "W" \in mode'[p]
        /\ pc'[p] \notin {"r_adv", "r_wrap", "r_wake"} => user'[p] = <<>>
        /\ pc'[p] # "r_adv"
    BY <1>1 DEF PipeInv, FifoInv, ReadPCs, WritePCs
  <2>3. \A q \in Procs :
           /\ pc'[q] \in ReadPCs => "R" \in mode'[q]
           /\ pc'[q] \in WritePCs => "W" \in mode'[q]
           /\ pc'[q] \notin {"r_adv", "r_wrap", "r_wake"} => user'[q] = <<>>
           /\ pc'[q] = "r_adv" => q = p
    BY <2>1, <2>2, FilesKept
  <2>4. QED
    BY <1>1, <1>3, <2>2, <2>3 DEF FifoInv
<1>5. Holders' = Holders /\ Active' = Active /\ Cap' = Cap
  <2>1. HasFile(p)' = HasFile(p)
    BY <1>1 DEF HasFile
  <2>2. QED
    BY <1>1, <2>1, Unmoved
<1>6. Given' = Given
  <2>1. \A q \in Procs : (pc'[q] = "r_adv" <=> pc[q] = "r_adv")
    BY <1>0, <1>1 DEF Aside
  <2>2. QED
    BY <1>1, <2>1 DEF Given
<1>7. Unread' = Unread
  <2>1. \A q \in Procs : pc'[q] # "o_reset" /\ pc[q] # "o_reset"
    BY <1>1, <1>2 DEF Aside, InCritical
  <2>2. ~Stale'
    BY <1>1, <1>3, <2>1 DEF Stale
  <2>3. Unread' = Between(buffersize, rp', wp', buf)
    BY <1>1, <2>2 DEF Unread, Between
  <2>4. Unread = Between(buffersize, rp, wp, buf)
    BY <1>3, UnreadIs
  <2>5. rp \in 0 .. buffersize /\ wp \in 0 .. buffersize
    BY DEF PipeInv, IInv, PtrInv
  <2>6. CASE pc[p] = "r_wrap"
    <3>1. wp \in 0 .. buffersize - 1
      <4>1. wp # buffersize
        BY <1>2, <1>3, <2>6 DEF PipeInv, IInv, PtrInv, InCritical
      <4>2. QED
        BY <1>3, <2>5, <4>1
    <3>2. CASE rp = buffersize
      BY <1>1, <1>3, <2>3, <2>4, <2>6, <3>1, <3>2, BetweenWraps DEF Wrap
    <3>3. CASE rp # buffersize
      BY <1>1, <2>3, <2>4, <2>6, <3>3 DEF Wrap
    <3>4. QED
      BY <3>2, <3>3
  <2>7. CASE pc[p] = "w_wrap"
    <3>1. rp \in 0 .. buffersize - 1
      <4>1. rp # buffersize
        BY <1>2, <1>3, <2>7 DEF PipeInv, IInv, PtrInv, InCritical
      <4>2. QED
        BY <1>3, <2>5, <4>1
    <3>2. CASE wp = buffersize
      BY <1>1, <1>3, <2>3, <2>4, <2>7, <3>1, <3>2, BetweenWraps DEF Wrap
    <3>3. CASE wp # buffersize
      BY <1>1, <2>3, <2>4, <2>7, <3>3 DEF Wrap
    <3>4. QED
      BY <3>2, <3>3
  <2>8. QED
    BY <1>1, <2>6, <2>7
<1>8. QED
  BY <1>4, <1>5, <1>6, <1>7 DEF Mapped, Fifo!fifoVars, Given, Holders, Active, Cap, CapOf

-----------------------------------------------------------------------------
\* A step the queue knows nothing of.
LEMMA FifoSame ==
  ASSUME FifoInv, UNCHANGED <<alloc, buf, buffersize, rp, wp, nreaders, nwriters, pc, mode, count, user>>
  PROVE  FifoInv' /\ Mapped
<1>1. FifoInv'
  BY DEF FifoInv
<1>2. /\ Holders' = Holders /\ Active' = Active /\ Given' = Given
      /\ Unread' = Unread /\ Cap' = Cap
  BY DEF Holders, Active, Given, HasFile, Unread, Stale, Cap
<1>3. QED
  BY <1>1, <1>2 DEF Mapped, Fifo!fifoVars, Given, Holders, Active, Cap, CapOf

\* Every step of a process keeps FifoInv and is a step of the queue or none.
LEMMA StepFifo ==
  ASSUME FixedSize, PipeInv, IInv', LifeInv', NEW p \in Procs, Begin(p) \/ Step(p)
  PROVE  FifoInv' /\ Mapped
<1>0. /\ TypeOK /\ Aside(p) /\ pc' \in [Procs -> PCs] /\ user' \in [Procs -> Seq(Byte)]
      /\ pc[p] \notin {"r_adv", "r_wrap", "r_wake"} => user[p] = <<>>
  BY StepAside DEF PipeInv, IInv, TypeOK, FifoInv
<1>1. CASE BeginOpen(p)
  BY <1>0, <1>1, FifoCalm
     DEF BeginOpen, Goto, TypeOK, HasFile, ReadPCs, WritePCs, device, block,
         counts, env, file, call, queues
<1>2. CASE BeginRelease(p)
  BY <1>0, <1>2, FifoCalm
     DEF BeginRelease, Goto, TypeOK, HasFile, ReadPCs, WritePCs, device,
         block, counts, env, file, call, queues
<1>3. CASE BeginRead(p)
  BY <1>0, <1>3, FifoCalm
     DEF BeginRead, Goto, TypeOK, HasFile, ReadPCs, WritePCs, device, block,
         counts, env, file, call, queues
<1>4. CASE BeginWrite(p)
  BY <1>0, <1>4, FifoCalm
     DEF BeginWrite, Goto, TypeOK, HasFile, ReadPCs, WritePCs, device, block,
         counts, env, file, call, queues
<1>5. CASE BeginPoll(p)
  BY <1>0, <1>5, FifoCalm
     DEF BeginPoll, Goto, TypeOK, HasFile, ReadPCs, WritePCs, device, block,
         counts, env, file, call, queues
<1>6. CASE SetAsync(p)
  BY <1>0, <1>6, FifoCalm
     DEF SetAsync, TypeOK, HasFile, ReadPCs, WritePCs, device, block, counts,
         env, file, call, queues
<1>7. CASE SetSize(p)
  BY <1>0, <1>7, FifoCalm
     DEF SetSize, TypeOK, HasFile, ReadPCs, WritePCs, device, block, counts,
         env, file, call, queues
<1>8. CASE Signal(p)
  BY <1>8, FifoSame DEF PipeInv, Signal, device, block, counts, env, file, call
<1>9. CASE Interrupted(p)
  BY <1>0, <1>9, FifoCalm
     DEF Interrupted, Return, Gone, Leave, Goto, TypeOK, HasFile, ReadPCs,
         WritePCs, device, block, counts, env, file, call, queues
<1>10. CASE OpenDown(p)
  BY <1>0, <1>10, FifoCalm
     DEF OpenDown, TakeSem, Goto, TypeOK, HasFile, ReadPCs, WritePCs, device,
         block, counts, env, file, call, queues
<1>11. CASE OpenAlloc(p)
  BY <1>0, <1>11, FifoAlloc
<1>12. CASE OpenNoMem(p)
  BY <1>0, <1>12, FifoCalm
     DEF OpenNoMem, Gone, Leave, Goto, TypeOK, HasFile, ReadPCs, WritePCs,
         device, block, counts, env, file, call, queues
<1>13. CASE OpenReset(p)
  BY <1>0, <1>13, FifoOpen
<1>14. CASE ReleaseDown(p)
  BY <1>0, <1>14, FifoCalm
     DEF ReleaseDown, TakeSem, Goto, TypeOK, HasFile, ReadPCs, WritePCs,
         device, block, counts, env, file, call, queues
<1>15. CASE Release(p)
  BY <1>0, <1>15, FifoClose
<1>16. CASE ReadDown(p)
  BY <1>0, <1>16, FifoCalm
     DEF ReadDown, TakeSem, Goto, TypeOK, HasFile, ReadPCs, WritePCs, device,
         block, counts, env, file, call, queues
<1>17. CASE ReadEmpty(p)
  BY <1>0, <1>17, FifoCalm
     DEF ReadEmpty, Return, Leave, Goto, TypeOK, HasFile, ReadPCs, WritePCs,
         device, block, counts, env, file, call, queues
<1>18. CASE ReadPrepare(p)
  BY <1>0, <1>18, FifoCalm
     DEF ReadPrepare, Goto, TypeOK, HasFile, ReadPCs, WritePCs, device, block,
         counts, env, file, call, queues
<1>19. CASE ReadTest(p)
  BY <1>0, <1>19, FifoCalm
     DEF ReadTest, Return, Leave, Goto, TypeOK, HasFile, ReadPCs, WritePCs,
         device, block, counts, env, file, call, queues
<1>20. CASE ReadWoken(p)
  BY <1>0, <1>20, FifoCalm
     DEF ReadWoken, Goto, TypeOK, HasFile, ReadPCs, WritePCs, device, block,
         counts, env, file, call, queues
<1>21. CASE ReadCopy(p)
  <2>1. CASE pc'[p] = "r_adv"
    BY <1>0, <1>21, <2>1, FifoReadCopy
  <2>2. CASE pc'[p] # "r_adv"
    BY <1>0, <1>21, <2>2, FifoCalm
       DEF ReadCopy, Return, Leave, Goto, TypeOK, HasFile, ReadPCs, WritePCs, device, block,
           counts, env, file, call, queues
  <2>3. QED
    BY <2>1, <2>2
<1>22. CASE ReadAdvance(p)
  BY <1>0, <1>22, FifoGet
<1>23. CASE ReadWrap(p)
  BY <1>0, <1>23, FifoWrap
<1>24. CASE ReadWake(p)
  BY <1>0, <1>24, FifoCalm
     DEF ReadWake, Return, Leave, Goto, TypeOK, HasFile, ReadPCs, WritePCs,
         device, block, counts, env, file, call, queues
<1>25. CASE WriteDown(p)
  BY <1>0, <1>25, FifoCalm
     DEF WriteDown, TakeSem, Goto, TypeOK, HasFile, ReadPCs, WritePCs, device,
         block, counts, env, file, call, queues
<1>26. CASE WriteFull(p)
  BY <1>0, <1>26, FifoCalm
     DEF WriteFull, Return, Leave, Goto, TypeOK, HasFile, ReadPCs, WritePCs,
         device, block, counts, env, file, call, queues
<1>27. CASE WritePrepare(p)
  BY <1>0, <1>27, FifoCalm
     DEF WritePrepare, Goto, TypeOK, HasFile, ReadPCs, WritePCs, device,
         block, counts, env, file, call, queues
<1>28. CASE WriteTest(p)
  BY <1>0, <1>28, FifoCalm
     DEF WriteTest, Goto, TypeOK, HasFile, ReadPCs, WritePCs, device, block,
         counts, env, file, call, queues
<1>29. CASE WriteWoken(p)
  BY <1>0, <1>29, FifoCalm
     DEF WriteWoken, Goto, TypeOK, HasFile, ReadPCs, WritePCs, device, block,
         counts, env, file, call, queues
<1>30. CASE WriteFinish(p)
  BY <1>0, <1>30, FifoCalm
     DEF WriteFinish, Return, Leave, Goto, TypeOK, HasFile, ReadPCs, WritePCs,
         device, block, counts, env, file, call, queues
<1>31. CASE WriteCopy(p)
  <2>1. CASE pc'[p] = "w_adv"
    BY <1>0, <1>31, <2>1, FifoWriteCopy
  <2>2. CASE pc'[p] # "w_adv"
    BY <1>0, <1>31, <2>2, FifoCalm
       DEF WriteCopy, Return, Leave, Goto, TypeOK, HasFile, ReadPCs, WritePCs, device, block,
           counts, env, file, call, queues
  <2>3. QED
    BY <2>1, <2>2
<1>32. CASE WriteAdvance(p)
  BY <1>0, <1>32, FifoPut
<1>33. CASE WriteWrap(p)
  BY <1>0, <1>33, FifoWrap
<1>34. CASE WriteWake(p)
  BY <1>0, <1>34, FifoCalm
     DEF WriteWake, Goto, TypeOK, HasFile, ReadPCs, WritePCs, device, block,
         counts, env, file, call, queues
<1>35. CASE WriteFasync(p)
  BY <1>0, <1>35, FifoCalm
     DEF WriteFasync, TypeOK, HasFile, ReadPCs, WritePCs, device, block,
         counts, env, file, call, queues
<1>36. CASE PollDown(p)
  BY <1>0, <1>36, FifoCalm
     DEF PollDown, TakeSem, Goto, TypeOK, HasFile, ReadPCs, WritePCs, device,
         block, counts, env, file, call, queues
<1>37. CASE Poll(p)
  BY <1>0, <1>37, FifoCalm
     DEF Poll, Return, Leave, Goto, TypeOK, HasFile, ReadPCs, WritePCs,
         device, block, counts, env, file, call, queues
<1>38. CASE PollWoken(p)
  BY <1>0, <1>38, FifoCalm
     DEF PollWoken, Return, Leave, Goto, TypeOK, HasFile, ReadPCs, WritePCs,
         device, block, counts, env, file, call, queues
<1>39. QED
  BY <1>1, <1>2, <1>3, <1>4, <1>5, <1>6, <1>7, <1>8, <1>9, <1>10, <1>11,
     <1>12, <1>13, <1>14, <1>15, <1>16, <1>17, <1>18, <1>19, <1>20, <1>21,
     <1>22, <1>23, <1>24, <1>25, <1>26, <1>27, <1>28, <1>29, <1>30, <1>31,
     <1>32, <1>33, <1>34, <1>35, <1>36, <1>37, <1>38
     DEF Begin, Step, OpenStep, ReleaseStep, ReadStep, WriteStep, PollStep

-----------------------------------------------------------------------------
LEMMA InitPipe == Init => PipeInv /\ Fifo!Init
<1> SUFFICES ASSUME Init PROVE PipeInv /\ Fifo!Init
  OBVIOUS
<1>1. \A p \in Procs : pc[p] = "closed" /\ user[p] = <<>> /\ ~HasFile(p)
  BY DEF Init, HasFile
<1>2. FifoInv
  BY <1>1 DEF FifoInv, ReadPCs, WritePCs, Init
<1>3. ReaderInv
  BY <1>1 DEF ReaderInv, ReaderSleeps
<1>4. LifeInv
  <2>1. FilesFor("R") = {} /\ FilesFor("W") = {}
    BY <1>1 DEF FilesFor
  <2>2. QED
    BY <1>1, <2>1, FS_EmptySet DEF Init, LifeInv
<1>5. Unread = <<>> /\ Holders = {} /\ Active = {} /\ Given = [p \in Procs |-> <<>>] /\ Cap = 0
  BY <1>1 DEF Init, Unread, Stale, Holders, Active, Given, Cap, CapOf
<1>6. QED
  BY <1>2, <1>3, <1>4, <1>5, InitIInv DEF PipeInv, Fifo!Init, Given, Holders, Active, Cap, CapOf

\* One step of the pipe, from all that is known of it to all that is known of it.
LEMMA StepPipe ==
  ASSUME FixedSize, PipeInv, [Next]_vars
  PROVE  PipeInv' /\ Mapped
<1>1. CASE Next
  <2>1. PICK p \in Procs : Begin(p) \/ Step(p)
    BY <1>1 DEF Next
  <2>2. IInv'
    BY <2>1, StepTypeOK, StepMutex, StepPtr DEF PipeInv, IInv
  <2>3. ReaderInv' /\ LifeInv'
    BY <2>1, StepReader, StepLife DEF PipeInv
  <2>4. FifoInv' /\ Mapped
    BY <2>1, <2>2, <2>3, StepFifo
  <2>5. QED
    BY <2>2, <2>3, <2>4 DEF PipeInv
<1>2. CASE UNCHANGED vars
  <2>1. UNCHANGED <<alloc, buf, buffersize, rp, wp, nreaders, nwriters, pc, mode, count, user>>
    BY <1>2 DEF vars, device, block, counts, env, file, call
  <2>2. FifoInv' /\ Mapped
    BY <2>1, FifoSame DEF PipeInv
  <2>3. IInv'
    BY <1>2 DEF PipeInv, IInv, TypeOK, MutualExclusion, PtrInv, HasFile, spacefree, vars,
         device, block, counts, queues, file, call, env
  <2>4. ReaderInv'
    BY <1>2 DEF PipeInv, ReaderInv, ReaderSleeps, vars, device, queues, env, file
  <2>5. LifeInv'
    <3>1. \A x : FilesFor(x)' = FilesFor(x)
      BY <2>1 DEF FilesFor, HasFile
    <3>2. QED
      BY <2>1, <3>1 DEF PipeInv, LifeInv, HasFile
  <2>6. QED
    BY <2>2, <2>3, <2>4, <2>5 DEF PipeInv
<1>3. QED
  BY <1>1, <1>2

\* The pipe is a bounded queue: whatever its users do, and whatever fails, bytes come
\* out once and in the order they went in, and only an open or the last close drops any.
THEOREM PipeIsFifo ==
  ASSUME FixedSize
  PROVE  Spec => FifoSpec
<1>1. Init => PipeInv /\ Fifo!Init
  BY InitPipe
<1>2. PipeInv /\ [Next]_vars => PipeInv' /\ [Fifo!Next]_Fifo!fifoVars
  BY StepPipe DEF Mapped
<1>3. QED
  BY <1>1, <1>2, PTL DEF Spec, FifoSpec, Fifo!Spec
=============================================================================
