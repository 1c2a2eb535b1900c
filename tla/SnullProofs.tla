----------------------------- MODULE SnullProofs -----------------------------
(***************************************************************************)
(* The theorems about Book/snull/snull.c, for every value of the           *)
(* parameters, size of the pools and number of polls that have completed   *)
(* and not enabled interrupts, and whichever interfaces are taken down or  *)
(* have a watchdog: an interface that stays up is never deaf, packets are  *)
(* conserved, and a queue that was stopped for want of them is woken.      *)
(***************************************************************************)
EXTENDS Snull, TLAPS
\* What the steps need to know: interrupts are turned off only by rx_schedule,
\* which schedules the poll because the interface is up.
HearInv ==
  /\ rx_int_enabled \in [Ifs -> BOOLEAN] /\ sched \in [Ifs -> BOOLEAN]
  /\ up \in [Ifs -> BOOLEAN] /\ completed \in [Ifs -> Nat]
  /\ \A d \in Ifs \ MayClose : up[d]
  /\ NeverDeaf

HearVars == <<rx_int_enabled, sched, up, completed>>

\* The steps of the transmitter, of ReleasePush and ReleaseCheck that leave alone
\* all that NeverDeaf is about.
LEMMA Unheard ==
  ASSUME NEW d \in Ifs, NEW c \in Ctxs,
         \/ snull_tx(d) \/ snull_tx_timeout(d) \/ snull_get_tx_buffer(d)
         \/ snull_enqueue_buf(d) \/ TestRxInts(d) \/ LoadStatus(d) \/ StoreStatus(d)
         \/ Lockup(d) \/ TimeoutWake(d) \/ IntrLock(d) \/ IntrClear(d)
         \/ PollBegin(d) \/ PollDequeue(d) \/ PollTest(d)
         \/ ReleasePush(c) \/ ReleaseCheck(c)
  PROVE  UNCHANGED HearVars
<1> USE DEF HearVars, lists, flags, core, fixed
<1>1. CASE snull_tx(d)             BY <1>1 DEF snull_tx
<1>2. CASE snull_tx_timeout(d)     BY <1>2 DEF snull_tx_timeout
<1>3. CASE snull_get_tx_buffer(d)  BY <1>3 DEF snull_get_tx_buffer
<1>4. CASE snull_enqueue_buf(d)    BY <1>4 DEF snull_enqueue_buf
<1>5. CASE TestRxInts(d)           BY <1>5 DEF TestRxInts
<1>6. CASE LoadStatus(d)           BY <1>6 DEF LoadStatus
<1>7. CASE StoreStatus(d)          BY <1>7 DEF StoreStatus
<1>8. CASE Lockup(d)               BY <1>8 DEF Lockup
<1>9. CASE TimeoutWake(d)          BY <1>9 DEF TimeoutWake
<1>10. CASE IntrLock(d)            BY <1>10 DEF IntrLock
<1>11. CASE IntrClear(d)           BY <1>11 DEF IntrClear
<1>12. CASE PollBegin(d)           BY <1>12 DEF PollBegin
<1>13. CASE PollDequeue(d)         BY <1>13 DEF PollDequeue
<1>14. CASE PollTest(d)            BY <1>14 DEF PollTest
<1>15. CASE ReleasePush(c)         BY <1>15 DEF ReleasePush
<1>16. CASE ReleaseCheck(c)        BY <1>16 DEF ReleaseCheck
<1>. QED BY <1>1, <1>2, <1>3, <1>4, <1>5, <1>6, <1>7, <1>8, <1>9, <1>10, <1>11,
            <1>12, <1>13, <1>14, <1>15, <1>16

LEMMA HearKept == ASSUME HearInv, UNCHANGED HearVars PROVE HearInv'
BY DEF HearInv, NeverDeaf, HearVars

\* The interrupt handlers: rx_schedule turns interrupts off and schedules the poll.
LEMMA HandleHears == ASSUME HearInv, NEW d \in Ifs, IntrHandle(d) PROVE HearInv'
<1>. DEFINE e == Target(d)
<1>1. e \in Ifs  BY DEF Target, Twin, Ifs
<1>2. UNCHANGED <<up, completed>>  BY DEF IntrHandle
<1>3. \/ rx_schedule(e)
      \/ UNCHANGED <<rx_int_enabled, sched>>
  BY DEF IntrHandle
<1>4. CASE UNCHANGED <<rx_int_enabled, sched>>
  BY <1>2, <1>4, HearKept DEF HearVars
<1>5. CASE rx_schedule(e)
  <2>. USE DEF HearInv
  <2>1. /\ rx_int_enabled' = [rx_int_enabled EXCEPT ![e] = FALSE]
        /\ sched' = [sched EXCEPT ![e] = @ \/ up[e]]
    BY <1>5 DEF rx_schedule
  <2>. HIDE DEF e
  <2>2. rx_int_enabled' \in [Ifs -> BOOLEAN] /\ sched' \in [Ifs -> BOOLEAN]
    BY <1>1, <2>1
  <2>3. ASSUME NEW f \in Ifs \ MayClose
        PROVE  rx_int_enabled'[f] \/ sched'[f] \/ completed'[f] > 0
    <3>1. CASE f = e  BY <1>1, <2>1, <3>1
    <3>2. CASE f # e
      <4>1. rx_int_enabled'[f] = rx_int_enabled[f] /\ sched'[f] = sched[f]
        BY <1>1, <2>1, <3>2
      <4>. QED BY <1>2, <4>1 DEF NeverDeaf
    <3>. QED BY <3>1, <3>2
  <2>. QED BY <1>2, <2>2, <2>3 DEF NeverDeaf
<1>. QED BY <1>3, <1>4, <1>5

\* A poll completes before it turns interrupts on: in between it is counted.
LEMMA CompleteHears == ASSUME HearInv, NEW d \in Ifs, PollComplete(d) PROVE HearInv'
<1>. USE DEF HearInv
<1>1. /\ sched' = [sched EXCEPT ![d] = FALSE]
      /\ completed' = [completed EXCEPT ![d] = @ + 1]
      /\ UNCHANGED <<up, rx_int_enabled>>
  BY DEF PollComplete, flags
<1>2. sched' \in [Ifs -> BOOLEAN] /\ completed' \in [Ifs -> Nat]  BY <1>1
<1>3. ASSUME NEW f \in Ifs \ MayClose
      PROVE  rx_int_enabled'[f] \/ sched'[f] \/ completed'[f] > 0
  <2>1. CASE f = d  BY <1>1, <2>1
  <2>2. CASE f # d
    <3>1. completed'[f] = completed[f] /\ sched'[f] = sched[f]  BY <1>1, <2>2
    <3>. QED BY <1>1, <3>1 DEF NeverDeaf
  <2>. QED BY <2>1, <2>2
<1>. QED BY <1>1, <1>2, <1>3 DEF NeverDeaf

LEMMA IntsHear == ASSUME HearInv, NEW d \in Ifs, PollInts(d) PROVE HearInv'
<1>. USE DEF HearInv
<1>1. /\ completed[d] > 0 /\ completed' = [completed EXCEPT ![d] = @ - 1]
      /\ rx_int_enabled' = [rx_int_enabled EXCEPT ![d] = TRUE]
      /\ UNCHANGED <<up, sched>>
  BY DEF PollInts
<1>2. rx_int_enabled' \in [Ifs -> BOOLEAN] /\ completed' \in [Ifs -> Nat]  BY <1>1
<1>3. ASSUME NEW f \in Ifs \ MayClose
      PROVE  rx_int_enabled'[f] \/ sched'[f] \/ completed'[f] > 0
  <2>1. CASE f = d  BY <1>1, <2>1
  <2>2. CASE f # d
    <3>1. /\ completed'[f] = completed[f]
          /\ rx_int_enabled'[f] = rx_int_enabled[f]
      BY <1>1, <2>2
    <3>. QED BY <1>1, <3>1 DEF NeverDeaf
  <2>. QED BY <2>1, <2>2
<1>. QED BY <1>1, <1>2, <1>3 DEF NeverDeaf

\* An interface goes up, or one that may goes down.
LEMMA UpDownHears ==
  ASSUME HearInv, NEW d \in Ifs, snull_open(d) \/ snull_release(d) PROVE HearInv'
<1>. USE DEF HearInv
<1>1. UNCHANGED <<rx_int_enabled, sched, completed>>
  BY DEF snull_open, snull_release, flags
<1>2. /\ up' \in [Ifs -> BOOLEAN]
      /\ \A f \in Ifs \ MayClose : up'[f]
  BY DEF snull_open, snull_release
<1>. QED BY <1>1, <1>2 DEF NeverDeaf

\* snull_rx_ints and the NAPI poll: an interface that stays up always has its receive
\* interrupts on, or a poll that is scheduled or about to turn them on.
THEOREM NotDeaf == Spec => []NeverDeaf
<1>1. Init => HearInv
  BY DEF Init, HearInv, NeverDeaf
<1>2. HearInv /\ [Next]_vars => HearInv'
  <2>. SUFFICES ASSUME HearInv, [Next]_vars PROVE HearInv'
    OBVIOUS
  <2>1. CASE UNCHANGED vars
    BY <2>1, HearKept DEF vars, flags, core, HearVars
  <2>2. ASSUME NEW d \in Ifs,
               \/ snull_open(d) \/ snull_release(d)
               \/ snull_tx(d) \/ snull_tx_timeout(d)
               \/ Transmit(d) \/ snull_poll(d)
        PROVE  HearInv'
    <3>. PICK c \in Ctxs : TRUE  BY DEF Ctxs, Ifs
    <3>1. CASE snull_open(d) \/ snull_release(d)  BY <3>1, UpDownHears
    <3>2. CASE IntrHandle(d)    BY <3>2, HandleHears
    <3>3. CASE PollComplete(d)  BY <3>3, CompleteHears
    <3>4. CASE PollInts(d)      BY <3>4, IntsHear
    <3>. QED BY <2>2, <3>1, <3>2, <3>3, <3>4, Unheard, HearKept DEF Transmit, snull_poll
  <2>3. ASSUME NEW c \in Ctxs, ReleasePush(c) \/ ReleaseCheck(c) PROVE HearInv'
    <3>. 0 \in Ifs  BY DEF Ifs
    <3>. QED BY <2>3, Unheard, HearKept
  <2>. QED BY <2>1, <2>2, <2>3 DEF Next, Oops
<1>3. HearInv => NeverDeaf
  BY DEF HearInv
<1>. QED BY <1>1, <1>2, <1>3, PTL DEF Spec
-----------------------------------------------------------------------------
(* Packets move from the head of one list to the head of another. *)

\* Every packet of S is in one of the lists, at one position, and nothing else is.
Once(S, P, C) ==
  /\ \A l \in P : C[l] \in Seq(S)
  /\ \A l, m \in P : \A i \in DOMAIN C[l], j \in DOMAIN C[m] : C[l][i] = C[m][j] => l = m /\ i = j
  /\ \A pkt \in S : \E l \in P : \E i \in DOMAIN C[l] : C[l][i] = pkt

Moved(C, D, P, a, b) ==
  /\ C[a] # <<>> /\ D[a] = Tail(C[a]) /\ D[b] = <<Head(C[a])>> \o C[b]
  /\ \A l \in P \ {a, b} : D[l] = C[l]

LEMMA MoveKeeps ==
  ASSUME NEW S, NEW P, NEW C, NEW D, NEW a \in P, NEW b \in P, a # b,
         Once(S, P, C), Moved(C, D, P, a, b)
  PROVE  Once(S, P, D)
<1>1. /\ C[a] \in Seq(S) /\ C[b] \in Seq(S) /\ C[a] # <<>>
      /\ D[a] \in Seq(S) /\ D[b] \in Seq(S)
      /\ Len(C[a]) \in Nat \ {0} /\ Len(C[b]) \in Nat
      /\ DOMAIN C[a] = 1..Len(C[a]) /\ DOMAIN C[b] = 1..Len(C[b])
      /\ DOMAIN D[a] = 1..Len(C[a]) - 1 /\ DOMAIN D[b] = 1..Len(C[b]) + 1
      /\ \A i \in DOMAIN D[a] : D[a][i] = C[a][i + 1]
      /\ D[b][1] = C[a][1]
      /\ \A i \in DOMAIN D[b] \ {1} : D[b][i] = C[b][i - 1]
  <2>1. C[a] \in Seq(S) /\ C[b] \in Seq(S) /\ C[a] # <<>>
    BY DEF Once, Moved
  <2>2. D[a] = Tail(C[a]) /\ D[b] = <<Head(C[a])>> \o C[b]
    BY DEF Moved
  <2>3. PICK s \in Seq(S) : s = C[a]
    BY <2>1
  <2>4. PICK t \in Seq(S) : t = C[b]
    BY <2>1
  <2>5. /\ s # <<>> /\ Len(s) \in Nat \ {0} /\ Len(t) \in Nat /\ DOMAIN s = 1..Len(s) /\ DOMAIN t = 1..Len(t)
        /\ Tail(s) \in Seq(S) /\ Head(s) = s[1] /\ s[1] \in S
        /\ Len(Tail(s)) = Len(s) - 1 /\ \A i \in 1..Len(s) - 1 : Tail(s)[i] = s[i + 1]
    BY <2>1, <2>3, <2>4
  <2>6. /\ <<s[1]>> \o t \in Seq(S) /\ Len(<<s[1]>> \o t) = Len(t) + 1 /\ (<<s[1]>> \o t)[1] = s[1]
        /\ \A i \in 2..Len(t) + 1 : (<<s[1]>> \o t)[i] = t[i - 1]
    BY <2>5
  <2>7. QED
    BY <2>2, <2>3, <2>4, <2>5, <2>6
<1> DEFINE From(l, i) == IF l = a THEN a ELSE IF l = b /\ i = 1 THEN a ELSE l
           Index(l, i) == IF l = a THEN i + 1 ELSE IF l = b /\ i > 1 THEN i - 1 ELSE i
<1>2. \A l \in P : D[l] \in Seq(S)
  BY <1>1 DEF Once, Moved
<1>3. ASSUME NEW l \in P, NEW i \in DOMAIN D[l]
      PROVE  /\ i \in Nat \ {0} /\ From(l, i) \in P /\ Index(l, i) \in DOMAIN C[From(l, i)]
             /\ D[l][i] = C[From(l, i)][Index(l, i)]
  <2>1. CASE l = a
    <3>1. i \in 1..Len(C[a]) - 1 /\ i + 1 \in 1..Len(C[a]) /\ D[a][i] = C[a][i + 1]
      BY <1>1, <1>3, <2>1
    <3>2. QED
      BY <1>1, <2>1, <3>1
  <2>2. CASE l = b
    <3>1. CASE i = 1
      BY <1>1, <2>2, <3>1
    <3>2. CASE i # 1
      <4>1. i \in 2..Len(C[b]) + 1 /\ i - 1 \in 1..Len(C[b]) /\ D[b][i] = C[b][i - 1]
        BY <1>1, <1>3, <2>2, <3>2
      <4>2. QED
        BY <1>1, <2>2, <4>1
    <3>3. QED
      BY <3>1, <3>2
  <2>3. CASE l # a /\ l # b
    <3>1. D[l] = C[l] /\ D[l] \in Seq(S)
      BY <1>2, <2>3 DEF Moved
    <3>2. QED
      BY <1>3, <2>3, <3>1
  <2>4. QED
    BY <2>1, <2>2, <2>3
<1>4. ASSUME NEW l \in P, NEW m \in P, NEW i \in DOMAIN D[l], NEW j \in DOMAIN D[m], D[l][i] = D[m][j]
      PROVE  l = m /\ i = j
  <2>1. /\ i \in Nat \ {0} /\ j \in Nat \ {0}
        /\ From(l, i) = From(m, j) /\ Index(l, i) = Index(m, j)
    <3>1. /\ i \in Nat \ {0} /\ From(l, i) \in P /\ Index(l, i) \in DOMAIN C[From(l, i)]
          /\ D[l][i] = C[From(l, i)][Index(l, i)]
      BY <1>3
    <3>2. /\ j \in Nat \ {0} /\ From(m, j) \in P /\ Index(m, j) \in DOMAIN C[From(m, j)]
          /\ D[m][j] = C[From(m, j)][Index(m, j)]
      BY <1>3
    <3> HIDE DEF From, Index
    <3>3. PICK l1 \in P, m1 \in P : l1 = From(l, i) /\ m1 = From(m, j)
      BY <3>1, <3>2
    <3>4. PICK i1 \in DOMAIN C[l1], j1 \in DOMAIN C[m1] : i1 = Index(l, i) /\ j1 = Index(m, j)
      BY <3>1, <3>2, <3>3
    <3>5. C[l1][i1] = C[m1][j1]
      BY <1>4, <3>1, <3>2, <3>3, <3>4
    <3>6. l1 = m1 /\ i1 = j1
      BY <3>5 DEF Once
    <3>7. QED
      BY <3>1, <3>2, <3>3, <3>4, <3>6
  <2>2. QED
    BY <2>1
<1>5. ASSUME NEW pkt \in S PROVE \E l \in P : \E i \in DOMAIN D[l] : D[l][i] = pkt
  <2>1. PICK l \in P : \E i \in DOMAIN C[l] : C[l][i] = pkt
    BY DEF Once
  <2>2. PICK i \in DOMAIN C[l] : C[l][i] = pkt
    BY <2>1
  <2>3. CASE l = a /\ i = 1
    <3>1. 1 \in DOMAIN D[b] /\ D[b][1] = pkt
      BY <1>1, <2>2, <2>3
    <3>2. QED
      BY <3>1
  <2>4. CASE l = a /\ i # 1
    <3>1. i - 1 \in 1..Len(C[a]) - 1 /\ C[a][i] = pkt /\ (i - 1) + 1 = i
      BY <1>1, <2>2, <2>4
    <3>2. i - 1 \in DOMAIN D[a] /\ D[a][i - 1] = C[a][(i - 1) + 1]
      BY <1>1, <3>1
    <3>3. QED
      BY <3>1, <3>2
  <2>5. CASE l = b
    <3>1. i + 1 \in 2..Len(C[b]) + 1 /\ C[b][i] = pkt /\ (i + 1) - 1 = i
      BY <1>1, <2>2, <2>5
    <3>2. i + 1 \in DOMAIN D[b] /\ i + 1 # 1
      BY <1>1, <3>1
    <3>. PICK j \in DOMAIN D[b] \ {1} : j = i + 1
      BY <3>2
    <3>3. D[b][j] = C[b][j - 1] /\ j - 1 = i
      BY <1>1, <3>1
    <3>4. QED
      BY <3>1, <3>3, <2>5
  <2>6. CASE l # a /\ l # b
    BY <2>2, <2>6 DEF Moved
  <2>7. QED
    BY <2>3, <2>4, <2>5, <2>6
<1>6. QED
  BY <1>2, <1>4, <1>5 DEF Once

\* Lists that have nothing in common, one after the other.
LEMMA ConcatOnce ==
  ASSUME NEW S, NEW s \in Seq(S), NEW t \in Seq(S), IsInjective(s), IsInjective(t),
         \A i \in DOMAIN s, j \in DOMAIN t : s[i] # t[j]
  PROVE  s \o t \in Seq(S) /\ IsInjective(s \o t) /\ Range(s \o t) = Range(s) \cup Range(t)
<1>1. /\ s \o t \in Seq(S) /\ Len(s \o t) = Len(s) + Len(t) /\ Len(s) \in Nat /\ Len(t) \in Nat
      /\ DOMAIN s = 1..Len(s) /\ DOMAIN t = 1..Len(t) /\ DOMAIN (s \o t) = 1..Len(s) + Len(t)
  OBVIOUS
<1>2. \A i \in DOMAIN s : (s \o t)[i] = s[i]
  BY <1>1
<1>3. \A i \in DOMAIN t : (s \o t)[Len(s) + i] = t[i]
  BY <1>1
<1>4. \A i \in DOMAIN (s \o t) : i \in DOMAIN s \/ (i - Len(s) \in DOMAIN t /\ (s \o t)[i] = t[i - Len(s)])
  BY <1>1
<1>5. IsInjective(s \o t)
  BY <1>1, <1>2, <1>4 DEF IsInjective
<1>6. Range(s \o t) \subseteq Range(s) \cup Range(t)
  BY <1>1, <1>2, <1>4 DEF Range
<1>7. Range(s) \subseteq Range(s \o t)
  BY <1>1, <1>2 DEF Range
<1>8. Range(t) \subseteq Range(s \o t)
  <2>1. ASSUME NEW i \in DOMAIN t PROVE Len(s) + i \in DOMAIN (s \o t)
    BY <1>1
  <2>2. QED
    BY <1>3, <2>1 DEF Range
<1>9. QED
  BY <1>1, <1>5, <1>6, <1>7, <1>8

-----------------------------------------------------------------------------
(* The lists of snull: pools, receive lists, and what each context holds. *)

Allocated == {pkt \in Packets : pkt[2] <= allocated}
Places == {"pool", "rx", "tx", "poll"} \X Ifs
InHand(c) == IF pc[c] = "r_check" THEN <<>> ELSE hand[c]
Content == [l \in Places |-> CASE l[1] = "pool" -> ppool[l[2]]
                               [] l[1] = "rx"   -> rx_queue[l[2]]
                               [] OTHER         -> InHand(l)]

Labels == {"idle", "t_get", "t_enqueue", "t_test", "t_rxload", "t_rxstore", "t_load", "t_store",
           "i_lock", "i_clear", "i_handle", "r_push", "r_check", "w_wake", "p_test", "p_complete"}
Holding == {"t_enqueue", "r_push", "r_check"}

ListTypeOK ==
  /\ allocated \in 0 .. MaxPool
  /\ ppool \in [Ifs -> Seq(Allocated)] /\ rx_queue \in [Ifs -> Seq(Allocated)]
  /\ hand \in [Ctxs -> Seq(Allocated)] /\ pc \in [Ctxs -> Labels]

Hands == \A c \in Ctxs : /\ pc[c] \in Holding => Len(hand[c]) = 1
                         /\ pc[c] \notin Holding => hand[c] = <<>>

OwnPool == \A d \in Ifs : \A i \in DOMAIN ppool[d] : Owner(ppool[d][i]) = d

\* Between snull_release_buffer's unlock and its last look a packet is in the pool
\* already: the hand only remembers it.
PacketInv == ListTypeOK /\ Hands /\ OwnPool /\ Once(Allocated, Places, Content)

LEMMA PlacesAre ==
  /\ \A c \in Ctxs : c \in Places /\ c[1] \in {"tx", "poll"} /\ c[2] \in Ifs
  /\ \A d \in Ifs : /\ Tx(d) \in Ctxs /\ Poll(d) \in Ctxs
                    /\ <<"pool", d>> \in Places /\ <<"rx", d>> \in Places
  /\ \A l \in Places : l \in Ctxs \/ \E d \in Ifs : l = <<"pool", d>> \/ l = <<"rx", d>>
  /\ \A d, e \in Ifs, c \in Ctxs : /\ <<"pool", d>> # <<"rx", e>> /\ <<"pool", d>> # c /\ <<"rx", d>> # c
                                   /\ d # e => <<"pool", d>> # <<"pool", e>> /\ <<"rx", d>> # <<"rx", e>>
                                   /\ Tx(d) # Poll(e) /\ (d # e => Tx(d) # Tx(e) /\ Poll(d) # Poll(e))
BY DEF Places, Ctxs, Tx, Poll, Ifs

LEMMA ContentIs ==
  /\ \A d \in Ifs : Content[<<"pool", d>>] = ppool[d] /\ Content[<<"rx", d>>] = rx_queue[d]
  /\ \A c \in Ctxs : Content[c] = InHand(c)
<1>1. \A l \in Places : Content[l] = CASE l[1] = "pool" -> ppool[l[2]]
                                       [] l[1] = "rx"   -> rx_queue[l[2]]
                                       [] OTHER         -> InHand(l)
  BY DEF Content
<1>2. \A d \in Ifs : Content[<<"pool", d>>] = ppool[d] /\ Content[<<"rx", d>>] = rx_queue[d]
  BY <1>1, PlacesAre
<1>3. \A c \in Ctxs : Content[c] = InHand(c)
  BY <1>1, PlacesAre
<1>4. QED
  BY <1>2, <1>3

\* The same in the next state.
LEMMA ContentIsNext ==
  /\ \A d \in Ifs : Content'[<<"pool", d>>] = ppool'[d] /\ Content'[<<"rx", d>>] = rx_queue'[d]
  /\ \A c \in Ctxs : Content'[c] = InHand(c)'
<1>1. \A l \in Places : Content'[l] = CASE l[1] = "pool" -> ppool'[l[2]]
                                        [] l[1] = "rx"   -> rx_queue'[l[2]]
                                        [] OTHER         -> InHand(l)'
  BY DEF Content
<1>2. \A d \in Ifs : Content'[<<"pool", d>>] = ppool'[d] /\ Content'[<<"rx", d>>] = rx_queue'[d]
  BY <1>1, PlacesAre
<1>3. \A c \in Ctxs : Content'[c] = InHand(c)'
  BY <1>1, PlacesAre
<1>4. QED
  BY <1>2, <1>3

LEMMA InitPackets == Init => PacketInv
<1> SUFFICES ASSUME Init PROVE PacketInv
  OBVIOUS
<1> USE PoolAssumption
<1>1. allocated \in Nat /\ allocated \in 0 .. MaxPool /\ \A d \in Ifs, i \in 1 .. allocated : <<d, i>> \in Allocated
  BY DEF Init, Allocated, Packets
<1>2. \A d \in Ifs : /\ ppool[d] = [i \in 1 .. allocated |-> <<d, allocated + 1 - i>>]
                     /\ ppool[d] \in Seq(Allocated)
  BY <1>1 DEF Init
<1>x. \A d \in Ifs : /\ DOMAIN ppool[d] = 1 .. allocated
                     /\ \A i \in 1 .. allocated : ppool[d][i] = <<d, allocated + 1 - i>>
  BY <1>2
<1>3. ListTypeOK
  BY <1>1, <1>2 DEF Init, ListTypeOK, Labels
<1>4. Hands
  BY DEF Init, Hands, Holding
<1>5. OwnPool
  <2>1. ASSUME NEW d \in Ifs, NEW i \in DOMAIN ppool[d] PROVE Owner(ppool[d][i]) = d
    <3>1. ppool[d][i] = <<d, allocated + 1 - i>>
      BY <1>x, <2>1
    <3>2. QED
      BY <3>1 DEF Owner
  <2>2. QED
    BY <2>1 DEF OwnPool
<1>6. \A d \in Ifs : Content[<<"pool", d>>] = ppool[d] /\ Content[<<"rx", d>>] = <<>>
  BY ContentIs DEF Init
<1>7. \A c \in Ctxs : Content[c] = <<>>
  BY ContentIs DEF Init, InHand
<1>8. Once(Allocated, Places, Content)
  <2>1. \A l \in Places : Content[l] = <<>> \/ \E d \in Ifs : l = <<"pool", d>>
    <3>1. SUFFICES ASSUME NEW l \in Places PROVE Content[l] = <<>> \/ \E d \in Ifs : l = <<"pool", d>>
      OBVIOUS
    <3>2. l \in Ctxs \/ \E d \in Ifs : l = <<"pool", d>> \/ l = <<"rx", d>>
      BY PlacesAre
    <3>3. CASE l \in Ctxs
      BY <1>7, <3>3
    <3>4. CASE \E d \in Ifs : l = <<"rx", d>>
      BY <1>6, <3>4
    <3>5. QED
      BY <3>2, <3>3, <3>4
  <2>2. ASSUME NEW l \in Places PROVE Content[l] \in Seq(Allocated)
    <3>1. CASE Content[l] = <<>>
      BY <3>1
    <3>2. CASE \E d \in Ifs : l = <<"pool", d>>
      BY <1>2, <1>6, <3>2
    <3>3. QED
      BY <2>1, <3>1, <3>2
  <2>3. ASSUME NEW l \in Places, NEW m \in Places, NEW i \in DOMAIN Content[l], NEW j \in DOMAIN Content[m],
               Content[l][i] = Content[m][j]
        PROVE  l = m /\ i = j
    <3>1. PICK d \in Ifs, e \in Ifs : l = <<"pool", d>> /\ m = <<"pool", e>>
      <4>1. Content[l] # <<>> /\ Content[m] # <<>>
        BY <2>3
      <4>2. QED
        BY <2>1, <4>1
    <3>2. /\ i \in 1 .. allocated /\ j \in 1 .. allocated
          /\ Content[l][i] = <<d, allocated + 1 - i>> /\ Content[m][j] = <<e, allocated + 1 - j>>
      <4>1. Content[l] = ppool[d] /\ Content[m] = ppool[e]
        BY <1>6, <3>1
      <4>2. QED
        BY <1>x, <2>3, <4>1
    <3>3. d = e /\ allocated + 1 - i = allocated + 1 - j
      <4>1. <<d, allocated + 1 - i>> = <<e, allocated + 1 - j>>
        BY <2>3, <3>2
      <4>2. QED
        BY <4>1
    <3>4. i = j
      BY <1>1, <3>2, <3>3
    <3>5. QED
      BY <3>1, <3>3, <3>4
  <2>4. ASSUME NEW pkt \in Allocated PROVE \E l \in Places : \E i \in DOMAIN Content[l] : Content[l][i] = pkt
    <3>1. PICK d \in Ifs, n \in 1 .. allocated : pkt = <<d, n>>
      BY <1>1 DEF Allocated, Packets
    <3>2. allocated + 1 - n \in 1 .. allocated /\ allocated + 1 - (allocated + 1 - n) = n
      BY <1>1
    <3>3x. <<"pool", d>> \in Places
      BY DEF Places
    <3>3. ppool[d][allocated + 1 - n] = pkt /\ allocated + 1 - n \in DOMAIN ppool[d]
      BY <1>x, <3>1, <3>2
    <3>4. QED
      BY <1>6, <3>3x, <3>3
  <2>5. QED
    BY <2>2, <2>3, <2>4 DEF Once
<1>9. QED
  BY <1>3, <1>4, <1>5, <1>8 DEF PacketInv

\* A step that moves no packet.
LEMMA PacketsStay ==
  ASSUME PacketInv, UNCHANGED <<ppool, rx_queue, allocated>>, pc' \in [Ctxs -> Labels],
         \A c \in Ctxs : InHand(c)' = InHand(c),
         hand' \in [Ctxs -> Seq(Allocated)], Hands'
  PROVE  PacketInv'
<1>1. Allocated' = Allocated /\ Content' = Content
  BY DEF Allocated, Content, Places, Ctxs
<1>2. QED
  BY <1>1 DEF PacketInv, ListTypeOK, OwnPool

\* A step of one context that leaves the lists alone and holds as much as before.
LEMMA PacketsQuiet ==
  ASSUME PacketInv, UNCHANGED <<ppool, rx_queue, hand, allocated>>, NEW c \in Ctxs, NEW from, NEW to \in Labels,
         Goto(c, from, to), from \notin Holding, to \notin Holding
  PROVE  PacketInv'
<1>1. pc[c] \notin Holding /\ pc'[c] \notin Holding /\ \A b \in Ctxs \ {c} : pc'[b] = pc[b]
  BY DEF PacketInv, ListTypeOK, Goto
<1>2. pc' \in [Ctxs -> Labels]
  BY DEF PacketInv, ListTypeOK, Goto
<1>3. Hands'
  BY <1>1 DEF PacketInv, Hands
<1>4. \A b \in Ctxs : InHand(b)' = InHand(b)
  BY <1>1 DEF InHand, Holding
<1>5. hand' \in [Ctxs -> Seq(Allocated)]
  BY DEF PacketInv, ListTypeOK
<1>6. QED
  BY <1>2, <1>3, <1>4, <1>5, PacketsStay

\* What is not touched stays in its place.
LEMMA ElsewhereStays ==
  ASSUME NEW a, NEW b,
         \A d \in Ifs : <<"pool", d>> \notin {a, b} => ppool'[d] = ppool[d],
         \A d \in Ifs : <<"rx", d>> \notin {a, b} => rx_queue'[d] = rx_queue[d],
         \A c \in Ctxs : c \notin {a, b} => InHand(c)' = InHand(c)
  PROVE  \A l \in Places \ {a, b} : Content'[l] = Content[l]
<1> SUFFICES ASSUME NEW l \in Places \ {a, b} PROVE Content'[l] = Content[l]
  OBVIOUS
<1>1. l \in Ctxs \/ \E d \in Ifs : l = <<"pool", d>> \/ l = <<"rx", d>>
  BY PlacesAre
<1>2. CASE l \in Ctxs
  BY <1>2, ContentIs, ContentIsNext
<1>3. ASSUME NEW d \in Ifs, l = <<"pool", d>> PROVE Content'[l] = Content[l]
  BY <1>3, ContentIs, ContentIsNext
<1>4. ASSUME NEW d \in Ifs, l = <<"rx", d>> PROVE Content'[l] = Content[l]
  BY <1>4, ContentIs, ContentIsNext
<1>5. QED
  BY <1>1, <1>2, <1>3, <1>4

LEMMA PacketsMove ==
  ASSUME PacketInv, allocated' = allocated, ListTypeOK', Hands', OwnPool',
         NEW a \in Places, NEW b \in Places, a # b, Moved(Content, Content', Places, a, b)
  PROVE  PacketInv'
<1>1. Allocated' = Allocated
  BY DEF Allocated, Packets
<1>2. Once(Allocated, Places, Content)
  BY DEF PacketInv
<1>3. Once(Allocated, Places, Content')
  BY <1>2, MoveKeeps
<1>4. QED
  BY <1>1, <1>3 DEF PacketInv, Places

\* One context takes a packet from a list ...
LEMMA TakeKeeps ==
  ASSUME PacketInv, allocated' = allocated, NEW c \in Ctxs, NEW d \in Ifs, NEW from, NEW to \in Labels,
         Goto(c, from, to), from \notin Holding, to \in {"t_enqueue", "r_push"},
         \/ /\ ppool[d] # <<>> /\ ppool' = [ppool EXCEPT ![d] = Tail(@)] /\ rx_queue' = rx_queue
            /\ hand' = [hand EXCEPT ![c] = <<Head(ppool[d])>>]
         \/ /\ rx_queue[d] # <<>> /\ rx_queue' = [rx_queue EXCEPT ![d] = Tail(@)] /\ ppool' = ppool
            /\ hand' = [hand EXCEPT ![c] = <<Head(rx_queue[d])>>]
  PROVE  PacketInv'
<1>1. ListTypeOK /\ Hands /\ OwnPool
  BY DEF PacketInv
<1>2. hand[c] = <<>> /\ InHand(c) = <<>> /\ pc'[c] = to /\ \A b \in Ctxs \ {c} : pc'[b] = pc[b]
  BY <1>1 DEF Hands, InHand, ListTypeOK, Goto
<1>3. PICK queue \in Seq(Allocated), l \in {<<"pool", d>>, <<"rx", d>>} :
        /\ queue # <<>> /\ hand' = [hand EXCEPT ![c] = <<Head(queue)>>]
        /\ Content[l] = queue /\ Content'[l] = Tail(queue) /\ l \in Places
        /\ \A e \in Ifs : <<"pool", e>> # l => ppool'[e] = ppool[e]
        /\ \A e \in Ifs : <<"rx", e>> # l => rx_queue'[e] = rx_queue[e]
  <2>1. CASE /\ ppool[d] # <<>> /\ ppool' = [ppool EXCEPT ![d] = Tail(@)] /\ rx_queue' = rx_queue
             /\ hand' = [hand EXCEPT ![c] = <<Head(ppool[d])>>]
    <3>1. /\ ppool[d] \in Seq(Allocated) /\ Content[<<"pool", d>>] = ppool[d]
          /\ Content'[<<"pool", d>>] = Tail(ppool[d]) /\ <<"pool", d>> \in Places
      BY <1>1, <2>1, ContentIs, ContentIsNext, PlacesAre DEF ListTypeOK
    <3>2. \A e \in Ifs : <<"pool", e>> # <<"pool", d>> => ppool'[e] = ppool[e]
      BY <1>1, <2>1 DEF ListTypeOK
    <3>3. QED
      BY <2>1, <3>1, <3>2
  <2>2. CASE /\ rx_queue[d] # <<>> /\ rx_queue' = [rx_queue EXCEPT ![d] = Tail(@)] /\ ppool' = ppool
             /\ hand' = [hand EXCEPT ![c] = <<Head(rx_queue[d])>>]
    <3>1. /\ rx_queue[d] \in Seq(Allocated) /\ Content[<<"rx", d>>] = rx_queue[d]
          /\ Content'[<<"rx", d>>] = Tail(rx_queue[d]) /\ <<"rx", d>> \in Places
      BY <1>1, <2>2, ContentIs, ContentIsNext, PlacesAre DEF ListTypeOK
    <3>2. \A e \in Ifs : <<"rx", e>> # <<"rx", d>> => rx_queue'[e] = rx_queue[e]
      BY <1>1, <2>2 DEF ListTypeOK
    <3>3. QED
      BY <2>2, <3>1, <3>2
  <2>3. QED
    BY <2>1, <2>2
<1>4. /\ Head(queue) \in Allocated /\ <<Head(queue)>> \in Seq(Allocated) /\ Len(<<Head(queue)>>) = 1
      /\ <<Head(queue)>> \o <<>> = <<Head(queue)>>
  <2>1. Head(queue) \in Allocated
    BY <1>3
  <2>2. QED
    BY <2>1
<1>5. /\ hand' \in [Ctxs -> Seq(Allocated)] /\ hand'[c] = <<Head(queue)>>
      /\ \A b \in Ctxs \ {c} : hand'[b] = hand[b]
  BY <1>1, <1>3, <1>4 DEF ListTypeOK
<1>6. c \in Places /\ l # c /\ Content[c] = <<>> /\ Content'[c] = <<Head(queue)>>
  BY <1>2, <1>5, ContentIs, ContentIsNext, PlacesAre DEF InHand, Holding
<1>7. \A b \in Ctxs : b \notin {l, c} => InHand(b)' = InHand(b)
  BY <1>2, <1>5 DEF InHand
<1>8. Moved(Content, Content', Places, l, c)
  <2>1. \A m \in Places \ {l, c} : Content'[m] = Content[m]
    <3>1. \A e \in Ifs : <<"pool", e>> \notin {l, c} => ppool'[e] = ppool[e]
      BY <1>3
    <3>2. \A e \in Ifs : <<"rx", e>> \notin {l, c} => rx_queue'[e] = rx_queue[e]
      BY <1>3
    <3>3. QED
      BY <1>7, <3>1, <3>2, ElsewhereStays
  <2>2. QED
    BY <1>3, <1>4, <1>6, <2>1 DEF Moved
<1>9. Allocated' = Allocated
  BY DEF Allocated, Packets
<1>10. ListTypeOK'
  <2>1. pc' \in [Ctxs -> Labels]
    BY <1>1 DEF ListTypeOK, Goto
  <2>2. ppool' \in [Ifs -> Seq(Allocated)] /\ rx_queue' \in [Ifs -> Seq(Allocated)]
    <3>1. \A s \in Seq(Allocated) : s # <<>> => Tail(s) \in Seq(Allocated)
      OBVIOUS
    <3>2. ppool[d] \in Seq(Allocated) /\ rx_queue[d] \in Seq(Allocated)
      BY <1>1 DEF ListTypeOK
    <3>3. ppool \in [Ifs -> Seq(Allocated)] /\ rx_queue \in [Ifs -> Seq(Allocated)]
      BY <1>1 DEF ListTypeOK
    <3>4. CASE ppool[d] # <<>> /\ ppool' = [ppool EXCEPT ![d] = Tail(@)] /\ rx_queue' = rx_queue
      <4>1. Tail(ppool[d]) \in Seq(Allocated)
        BY <3>1, <3>2, <3>4
      <4>2. QED
        BY <3>3, <3>4, <4>1
    <3>5. CASE rx_queue[d] # <<>> /\ rx_queue' = [rx_queue EXCEPT ![d] = Tail(@)] /\ ppool' = ppool
      <4>1. Tail(rx_queue[d]) \in Seq(Allocated)
        BY <3>1, <3>2, <3>5
      <4>2. QED
        BY <3>3, <3>5, <4>1
    <3>6. QED
      BY <3>4, <3>5
  <2>3. QED
    BY <1>1, <1>5, <1>9, <2>1, <2>2 DEF ListTypeOK
<1>11. Hands'
  BY <1>1, <1>2, <1>4, <1>5 DEF Hands, Holding
<1>12. OwnPool'
  <2>1. ASSUME NEW e \in Ifs, NEW i \in DOMAIN ppool'[e]
        PROVE  \E j \in DOMAIN ppool[e] : ppool'[e][i] = ppool[e][j]
    <3>1. CASE ppool'[e] = ppool[e]
      BY <2>1, <3>1
    <3>2. CASE ppool[e] # <<>> /\ ppool'[e] = Tail(ppool[e])
      <4>1. PICK s \in Seq(Allocated) : s = ppool[e]
        BY <1>1 DEF ListTypeOK
      <4>2. i \in 1 .. Len(s) - 1 /\ Tail(s)[i] = s[i + 1] /\ i + 1 \in DOMAIN s
        BY <2>1, <3>2, <4>1
      <4>3. QED
        BY <3>2, <4>1, <4>2
    <3>3. QED
      BY <1>1, <3>1, <3>2 DEF ListTypeOK
  <2>2. QED
    BY <1>1, <2>1 DEF OwnPool
<1>13. QED
  BY <1>3, <1>6, <1>8, <1>10, <1>11, <1>12, PacketsMove

\* A hand holds one packet.
LEMMA OneHeld ==
  ASSUME NEW S, NEW s \in Seq(S), Len(s) = 1
  PROVE  s[1] \in S /\ Head(s) = s[1] /\ Tail(s) = <<>>
<1>1. DOMAIN s = 1 .. 1 /\ 1 \in 1 .. 1
  OBVIOUS
<1>2. s[1] \in S
  BY <1>1
<1>3. s # <<>>
  OBVIOUS
<1>4. Head(s) = s[1]
  BY <1>3
<1>5. Tail(s) \in Seq(S) /\ Len(Tail(s)) = 0
  BY <1>3
<1>6. Tail(s) = <<>>
  <2>1. \A t \in Seq(S) : Len(t) = 0 => t = <<>>
    OBVIOUS
  <2>2. QED
    BY <1>5, <2>1
<1>7. QED
  BY <1>2, <1>4, <1>6

\* ... and one puts the packet it holds at the head of a list.
LEMMA GiveKeeps ==
  ASSUME PacketInv, allocated' = allocated, NEW c \in Ctxs, NEW d \in Ifs, NEW from \in {"t_enqueue", "r_push"},
         NEW to, Goto(c, from, to),
         \/ /\ ppool' = [ppool EXCEPT ![d] = <<hand[c][1]>> \o @] /\ rx_queue' = rx_queue
            /\ Owner(hand[c][1]) = d /\ to = "r_check" /\ hand' = hand
         \/ /\ rx_queue' = [rx_queue EXCEPT ![d] = <<hand[c][1]>> \o @] /\ ppool' = ppool
            /\ to = "t_test" /\ hand' = [hand EXCEPT ![c] = <<>>]
  PROVE  PacketInv'
<1>1. ListTypeOK /\ Hands /\ OwnPool
  BY DEF PacketInv
<1>2. pc[c] = from /\ pc'[c] = to /\ \A b \in Ctxs \ {c} : pc'[b] = pc[b]
  BY <1>1 DEF ListTypeOK, Goto
<1>3. PICK held \in Seq(Allocated) : held = hand[c] /\ Len(held) = 1 /\ held # <<>>
  <2>1. hand[c] \in Seq(Allocated)
    BY <1>1 DEF ListTypeOK
  <2>2. Len(hand[c]) = 1
    BY <1>1, <1>2 DEF Hands, Holding
  <2>3. QED
    BY <2>1, <2>2
<1>4. PICK pkt \in Allocated : pkt = hand[c][1] /\ Head(held) = pkt /\ Tail(held) = <<>> /\ <<pkt>> \in Seq(Allocated)
  <2>1. held[1] \in Allocated /\ Head(held) = held[1] /\ Tail(held) = <<>>
    BY <1>3, OneHeld
  <2>2. <<held[1]>> \in Seq(Allocated)
    BY <2>1
  <2>3. QED
    BY <1>3, <2>1, <2>2
<1>5. \A s \in Seq(Allocated) : <<pkt>> \o s \in Seq(Allocated)
  BY <1>4
<1>6. ppool \in [Ifs -> Seq(Allocated)] /\ rx_queue \in [Ifs -> Seq(Allocated)] /\ hand \in [Ctxs -> Seq(Allocated)]
  BY <1>1 DEF ListTypeOK
<1>7. c \in Places /\ Content[c] = held /\ Content'[c] = <<>>
  <2>1. InHand(c) = held
    BY <1>2, <1>3 DEF InHand
  <2>2. InHand(c)' = <<>>
    BY <1>2, <1>6 DEF InHand
  <2>3. QED
    BY <2>1, <2>2, ContentIs, ContentIsNext, PlacesAre
<1>8. \A b \in Ctxs \ {c} : hand'[b] = hand[b]
  BY <1>6
<1>9. PICK l \in {<<"pool", d>>, <<"rx", d>>} :
        /\ l \in Places /\ l # c /\ Content'[l] = <<pkt>> \o Content[l]
        /\ \A e \in Ifs : <<"pool", e>> # l => ppool'[e] = ppool[e]
        /\ \A e \in Ifs : <<"rx", e>> # l => rx_queue'[e] = rx_queue[e]
  <2>1. CASE ppool' = [ppool EXCEPT ![d] = <<hand[c][1]>> \o @] /\ rx_queue' = rx_queue
    <3>1. ppool'[d] = <<pkt>> \o ppool[d] /\ \A e \in Ifs : <<"pool", e>> # <<"pool", d>> => ppool'[e] = ppool[e]
      BY <1>4, <1>6, <2>1
    <3>2. /\ <<"pool", d>> \in Places /\ <<"pool", d>> # c
          /\ Content'[<<"pool", d>>] = <<pkt>> \o Content[<<"pool", d>>]
      BY <3>1, ContentIs, ContentIsNext, PlacesAre
    <3>3. QED
      BY <2>1, <3>1, <3>2
  <2>2. CASE rx_queue' = [rx_queue EXCEPT ![d] = <<hand[c][1]>> \o @] /\ ppool' = ppool
    <3>1. rx_queue'[d] = <<pkt>> \o rx_queue[d] /\ \A e \in Ifs : <<"rx", e>> # <<"rx", d>> => rx_queue'[e] = rx_queue[e]
      BY <1>4, <1>6, <2>2
    <3>2. /\ <<"rx", d>> \in Places /\ <<"rx", d>> # c
          /\ Content'[<<"rx", d>>] = <<pkt>> \o Content[<<"rx", d>>]
      BY <3>1, ContentIs, ContentIsNext, PlacesAre
    <3>3. QED
      BY <2>2, <3>1, <3>2
  <2>3. QED
    BY <2>1, <2>2
<1>10. Moved(Content, Content', Places, c, l)
  <2>1. \A m \in Places \ {l, c} : Content'[m] = Content[m]
    <3>1. \A e \in Ifs : <<"pool", e>> \notin {l, c} => ppool'[e] = ppool[e]
      BY <1>9
    <3>2. \A e \in Ifs : <<"rx", e>> \notin {l, c} => rx_queue'[e] = rx_queue[e]
      BY <1>9
    <3>3. \A b \in Ctxs : b \notin {l, c} => InHand(b)' = InHand(b)
      BY <1>2, <1>8 DEF InHand
    <3>4. QED
      BY <3>1, <3>2, <3>3, ElsewhereStays
  <2>2. QED
    BY <1>3, <1>4, <1>7, <1>9, <2>1 DEF Moved
<1>11. Allocated' = Allocated
  BY DEF Allocated, Packets
<1>12. ListTypeOK'
  <2>1. pc' \in [Ctxs -> Labels]
    BY <1>1 DEF ListTypeOK, Goto, Labels
  <2>2. ppool' \in [Ifs -> Seq(Allocated)] /\ rx_queue' \in [Ifs -> Seq(Allocated)]
    <3>1. <<pkt>> \o ppool[d] \in Seq(Allocated) /\ <<pkt>> \o rx_queue[d] \in Seq(Allocated)
      BY <1>5, <1>6
    <3>2. CASE ppool' = [ppool EXCEPT ![d] = <<hand[c][1]>> \o @] /\ rx_queue' = rx_queue
      <4>1. ppool' = [ppool EXCEPT ![d] = <<pkt>> \o ppool[d]]
        BY <1>4, <3>2
      <4>2. QED
        BY <1>6, <3>1, <3>2, <4>1
    <3>3. CASE rx_queue' = [rx_queue EXCEPT ![d] = <<hand[c][1]>> \o @] /\ ppool' = ppool
      <4>1. rx_queue' = [rx_queue EXCEPT ![d] = <<pkt>> \o rx_queue[d]]
        BY <1>4, <3>3
      <4>2. QED
        BY <1>6, <3>1, <3>3, <4>1
    <3>4. QED
      BY <3>2, <3>3
  <2>3. hand' \in [Ctxs -> Seq(Allocated)]
    <3>1. <<>> \in Seq(Allocated)
      OBVIOUS
    <3>2. hand' = hand \/ hand' = [hand EXCEPT ![c] = <<>>]
      OBVIOUS
    <3>3. QED
      BY <1>6, <3>1, <3>2
  <2>4. QED
    BY <1>1, <1>11, <2>1, <2>2, <2>3 DEF ListTypeOK
<1>13. Hands'
  BY <1>1, <1>2, <1>3, <1>6 DEF Hands, Holding
<1>14. OwnPool'
  <2>1. CASE ppool' = ppool
    BY <1>1, <2>1 DEF OwnPool
  <2>2. CASE ppool' = [ppool EXCEPT ![d] = <<hand[c][1]>> \o @] /\ Owner(hand[c][1]) = d
    <3>1. PICK s \in Seq(Allocated) : s = ppool[d]
      BY <1>6
    <3>2. /\ ppool'[d] = <<pkt>> \o s /\ DOMAIN (<<pkt>> \o s) = 1 .. Len(s) + 1 /\ (<<pkt>> \o s)[1] = pkt
          /\ \A i \in 2 .. Len(s) + 1 : i - 1 \in DOMAIN s /\ (<<pkt>> \o s)[i] = s[i - 1]
      BY <1>4, <1>6, <2>2, <3>1
    <3>3. ASSUME NEW i \in DOMAIN ppool'[d] PROVE Owner(ppool'[d][i]) = d
      <4>1. CASE i = 1
        BY <1>4, <2>2, <3>2, <4>1
      <4>2. CASE i # 1
        <5>1. i \in 2 .. Len(s) + 1
          BY <3>2, <3>3, <4>2
        <5>2. ppool'[d][i] = s[i - 1] /\ i - 1 \in DOMAIN s
          BY <3>2, <5>1
        <5>3. QED
          BY <1>1, <3>1, <5>2 DEF OwnPool
      <4>3. QED
        BY <4>1, <4>2
    <3>4. \A e \in Ifs \ {d} : ppool'[e] = ppool[e]
      BY <1>6, <2>2
    <3>5. QED
      BY <1>1, <3>3, <3>4 DEF OwnPool
  <2>3. QED
    BY <2>1, <2>2
<1>15. QED
  BY <1>7, <1>9, <1>10, <1>12, <1>13, <1>14, PacketsMove

\* A step that no packet, label or hand can notice.
LEMMA PacketsSame ==
  ASSUME PacketInv, UNCHANGED <<ppool, rx_queue, hand, allocated, pc>>
  PROVE  PacketInv'
BY PacketsStay DEF PacketInv, ListTypeOK, Hands, InHand

LEMMA ReturnIs == \A d \in Ifs : Return(d) \in Labels \ Holding
BY DEF Return, Labels, Holding

LEMMA TransmitKeeps ==
  ASSUME PacketInv, NEW d \in Ifs, Transmit(d)
  PROVE  PacketInv'
<1>1. Tx(d) \in Ctxs /\ Twin(d) \in Ifs /\ Target(d) \in Ifs
  BY PlacesAre DEF Twin, Target, Ifs
<1>2. CASE snull_get_tx_buffer(d)
  <2>1. CASE ppool[d] # <<>>
    <3>1. Goto(Tx(d), "t_get", "t_enqueue")
      BY <1>2, <2>1 DEF snull_get_tx_buffer, Goto
    <3>2. /\ ppool' = [ppool EXCEPT ![d] = Tail(@)] /\ rx_queue' = rx_queue /\ allocated' = allocated
          /\ hand' = [hand EXCEPT ![Tx(d)] = <<Head(ppool[d])>>]
      BY <1>2, <2>1 DEF snull_get_tx_buffer, fixed
    <3>3. "t_get" \notin Holding /\ "t_enqueue" \in Labels
      BY DEF Holding, Labels
    <3>4. QED
      BY <1>1, <2>1, <3>1, <3>2, <3>3, TakeKeeps
  <2>2. CASE ppool[d] = <<>>
    <3>1. UNCHANGED <<ppool, rx_queue, hand, allocated, pc>>
      BY <1>2, <2>2 DEF snull_get_tx_buffer, fixed
    <3>2. QED
      BY <3>1, PacketsSame
  <2>3. QED
    BY <2>1, <2>2
<1>3. CASE snull_enqueue_buf(d)
  <2>1. /\ Goto(Tx(d), "t_enqueue", "t_test") /\ allocated' = allocated
        /\ rx_queue' = [rx_queue EXCEPT ![Twin(d)] = <<hand[Tx(d)][1]>> \o @] /\ ppool' = ppool
        /\ hand' = [hand EXCEPT ![Tx(d)] = <<>>]
    BY <1>3 DEF snull_enqueue_buf, core, fixed
  <2>2. QED
    BY <1>1, <2>1, GiveKeeps
<1>4. CASE TestRxInts(d) \/ LoadStatus(d) \/ StoreStatus(d) \/ Lockup(d) \/ TimeoutWake(d) \/ IntrLock(d) \/ IntrClear(d)
  <2>1. UNCHANGED <<ppool, rx_queue, hand, allocated>>
    BY <1>4 DEF TestRxInts, LoadStatus, StoreStatus, Lockup, TimeoutWake, IntrLock, IntrClear, lists, core, fixed
  <2>2. \E from, to \in Labels \ Holding : Goto(Tx(d), from, to)
    <3>1. /\ "t_test" \in Labels \ Holding /\ "t_rxload" \in Labels \ Holding /\ "t_load" \in Labels \ Holding
          /\ "t_rxstore" \in Labels \ Holding /\ "t_store" \in Labels \ Holding /\ "idle" \in Labels \ Holding
          /\ "w_wake" \in Labels \ Holding /\ "i_lock" \in Labels \ Holding /\ "i_clear" \in Labels \ Holding
          /\ "i_handle" \in Labels \ Holding
      BY DEF Labels, Holding
    <3>2. \/ Goto(Tx(d), "t_test", IF rx_int_enabled[Twin(d)] THEN "t_rxload" ELSE "t_load")
          \/ Goto(Tx(d), "t_rxload", "t_rxstore") \/ Goto(Tx(d), "t_load", "t_store")
          \/ Goto(Tx(d), "t_rxstore", "i_lock") \/ Goto(Tx(d), "t_store", "i_lock") \/ Goto(Tx(d), "t_store", "idle")
          \/ Goto(Tx(d), "w_wake", "idle") \/ Goto(Tx(d), "i_lock", "i_clear") \/ Goto(Tx(d), "i_clear", "i_handle")
      BY <1>4 DEF TestRxInts, LoadStatus, StoreStatus, Lockup, TimeoutWake, IntrLock, IntrClear
    <3>3. Goto(Tx(d), "t_test", IF rx_int_enabled[Twin(d)] THEN "t_rxload" ELSE "t_load") =>
            Goto(Tx(d), "t_test", "t_rxload") \/ Goto(Tx(d), "t_test", "t_load")
      OBVIOUS
    <3>4. QED
      BY <3>1, <3>2, <3>3
  <2>3. PICK from \in Labels \ Holding, to \in Labels \ Holding : Goto(Tx(d), from, to)
    BY <2>2
  <2>4. QED
    BY <1>1, <2>1, <2>3, PacketsQuiet
<1>5. CASE IntrHandle(d)
  <2> DEFINE takes == RX \in word[d] /\ ~use_napi /\ rx_queue[Target(d)] # <<>>
  <2>1. "i_handle" \notin Holding /\ "r_push" \in Labels
    BY DEF Holding, Labels
  <2>2. CASE takes
    <3>1. Goto(Tx(d), "i_handle", "r_push") /\ ppool' = ppool /\ allocated' = allocated
      BY <1>5, <2>2 DEF IntrHandle, fixed
    <3>2. /\ rx_queue' = [rx_queue EXCEPT ![Target(d)] = Tail(@)]
          /\ hand' = [hand EXCEPT ![Tx(d)] = <<Head(rx_queue[Target(d)])>>]
      BY <1>5, <2>2 DEF IntrHandle
    <3>3. QED
      BY <1>1, <2>1, <2>2, <3>1, <3>2, TakeKeeps
  <2>3. CASE ~takes
    <3>1. Goto(Tx(d), "i_handle", Return(d)) /\ UNCHANGED <<ppool, rx_queue, hand, allocated>>
      BY <1>5, <2>3 DEF IntrHandle, fixed
    <3>2. Return(d) \in Labels /\ Return(d) \notin Holding
      BY ReturnIs
    <3>3. QED
      BY <1>1, <2>1, <3>1, <3>2, PacketsQuiet
  <2>4. QED
    BY <2>2, <2>3
<1>6. QED
  BY <1>2, <1>3, <1>4, <1>5 DEF Transmit

LEMMA PollKeeps ==
  ASSUME PacketInv, NEW d \in Ifs, snull_poll(d)
  PROVE  PacketInv'
<1>1. Poll(d) \in Ctxs
  BY PlacesAre
<1>2. CASE PollBegin(d) \/ PollTest(d) \/ PollComplete(d)
  <2>1. UNCHANGED <<ppool, rx_queue, hand, allocated>>
    BY <1>2 DEF PollBegin, PollTest, PollComplete, lists, core, fixed
  <2>2. "idle" \in Labels \ Holding /\ "p_test" \in Labels \ Holding /\ "p_complete" \in Labels \ Holding
    BY DEF Labels, Holding
  <2>3. \/ Goto(Poll(d), "idle", "p_test") \/ Goto(Poll(d), "p_test", "p_complete")
        \/ Goto(Poll(d), "p_test", "idle") \/ Goto(Poll(d), "p_complete", "idle")
    BY <1>2 DEF PollBegin, PollTest, PollComplete
  <2>4. PICK from \in Labels \ Holding, to \in Labels \ Holding : Goto(Poll(d), from, to)
    BY <2>2, <2>3
  <2>5. QED
    BY <1>1, <2>1, <2>4, PacketsQuiet
<1>3. CASE PollDequeue(d)
  <2>1. "p_test" \notin Holding /\ "r_push" \in Labels
    BY DEF Holding, Labels
  <2>2. /\ Goto(Poll(d), "p_test", "r_push") /\ ppool' = ppool /\ allocated' = allocated
        /\ rx_queue[d] # <<>> /\ rx_queue' = [rx_queue EXCEPT ![d] = Tail(@)]
        /\ hand' = [hand EXCEPT ![Poll(d)] = <<Head(rx_queue[d])>>]
    BY <1>3 DEF PollDequeue, core, fixed
  <2>3. QED
    BY <1>1, <2>1, <2>2, TakeKeeps
<1>4. CASE PollInts(d)
  BY <1>4, PacketsSame DEF PollInts, lists, fixed
<1>5. QED
  BY <1>2, <1>3, <1>4 DEF snull_poll

LEMMA ReleaseKeeps ==
  ASSUME PacketInv, NEW c \in Ctxs, ReleasePush(c) \/ ReleaseCheck(c)
  PROVE  PacketInv'
<1>0. ListTypeOK /\ Hands
  BY DEF PacketInv
<1>1. CASE ReleasePush(c)
  <2>1. /\ Goto(c, "r_push", "r_check") /\ hand' = hand /\ rx_queue' = rx_queue /\ allocated' = allocated
        /\ ppool' = [ppool EXCEPT ![Owner(hand[c][1])] = <<hand[c][1]>> \o @]
    BY <1>1 DEF ReleasePush, core, fixed
  <2>2. Owner(hand[c][1]) \in Ifs
    <3>1. hand[c] \in Seq(Allocated) /\ Len(hand[c]) = 1
      BY <1>0, <2>1 DEF ListTypeOK, Hands, Holding, Goto
    <3>2. hand[c][1] \in Allocated
      BY <3>1, OneHeld
    <3>3. QED
      BY <3>2 DEF Allocated, Packets, Owner
  <2>3. PICK e \in Ifs : e = Owner(hand[c][1])
    BY <2>2
  <2>4. QED
    BY <2>1, <2>3, GiveKeeps
<1>2. CASE ReleaseCheck(c)
  <2>1. /\ Goto(c, "r_check", IF c[1] = "tx" THEN Return(c[2]) ELSE "p_test")
        /\ hand' = [hand EXCEPT ![c] = <<>>] /\ UNCHANGED <<ppool, rx_queue, allocated>>
    BY <1>2 DEF ReleaseCheck, fixed
  <2>2. PICK to \in Labels : Goto(c, "r_check", to) /\ to \notin Holding
    <3>1. c[2] \in Ifs
      BY PlacesAre
    <3>2. "p_test" \in Labels \ Holding
      BY DEF Labels, Holding
    <3>3. QED
      BY <2>1, <3>1, <3>2, ReturnIs
  <2>3. pc' \in [Ctxs -> Labels] /\ pc[c] = "r_check" /\ pc'[c] = to /\ \A b \in Ctxs \ {c} : pc'[b] = pc[b]
    BY <1>0, <2>2 DEF ListTypeOK, Goto
  <2>4. hand' \in [Ctxs -> Seq(Allocated)] /\ hand'[c] = <<>> /\ \A b \in Ctxs \ {c} : hand'[b] = hand[b]
    <3>1. <<>> \in Seq(Allocated)
      OBVIOUS
    <3>2. QED
      BY <1>0, <2>1, <3>1 DEF ListTypeOK
  <2>5. Hands'
    BY <1>0, <2>2, <2>3, <2>4 DEF Hands
  <2>6. \A b \in Ctxs : InHand(b)' = InHand(b)
    BY <2>3, <2>4 DEF InHand
  <2>7. QED
    BY <2>1, <2>3, <2>4, <2>5, <2>6, PacketsStay
<1>3. QED
  BY <1>1, <1>2

LEMMA NextPackets == PacketInv /\ [Next]_vars => PacketInv'
<1> SUFFICES ASSUME PacketInv, [Next]_vars PROVE PacketInv'
  OBVIOUS
<1>1. CASE UNCHANGED vars
  BY <1>1, PacketsSame DEF vars, lists, core, fixed
<1>2. ASSUME NEW d \in Ifs, snull_open(d) \/ snull_release(d) PROVE PacketInv'
  BY <1>2, PacketsSame DEF snull_open, snull_release, lists, fixed
<1>3. ASSUME NEW d \in Ifs, snull_tx(d) \/ snull_tx_timeout(d) PROVE PacketInv'
  <2>1. "idle" \notin Holding /\ "t_get" \in Labels \ Holding /\ "i_lock" \in Labels \ Holding
    BY DEF Holding, Labels
  <2>2. UNCHANGED <<ppool, rx_queue, hand, allocated>>
    BY <1>3 DEF snull_tx, snull_tx_timeout, lists, core, fixed
  <2>3. PICK to \in Labels \ Holding : Goto(Tx(d), "idle", to)
    BY <1>3, <2>1 DEF snull_tx, snull_tx_timeout
  <2>4. QED
    BY <2>1, <2>2, <2>3, PlacesAre, PacketsQuiet
<1>4. ASSUME NEW d \in Ifs, Transmit(d) \/ snull_poll(d) PROVE PacketInv'
  BY <1>4, TransmitKeeps, PollKeeps
<1>5. ASSUME NEW c \in Ctxs, ReleasePush(c) \/ ReleaseCheck(c) PROVE PacketInv'
  BY <1>5, ReleaseKeeps
<1>6. QED
  BY <1>1, <1>2, <1>3, <1>4, <1>5 DEF Next, Oops

\* s has the packets of the lists at Q, each once.
Lists(S, C, s, Q) == /\ s \in Seq(S) /\ IsInjective(s)
                     /\ Range(s) = {pkt \in S : \E m \in Q : \E j \in DOMAIN C[m] : C[m][j] = pkt}

LEMMA ListAt ==
  ASSUME NEW S, NEW P, NEW C, Once(S, P, C), NEW l \in P
  PROVE  Lists(S, C, C[l], {l})
<1>1. PICK t \in Seq(S) : t = C[l]
  BY DEF Once
<1>2. IsInjective(t)
  BY <1>1 DEF Once, IsInjective
<1>3. \A j \in DOMAIN t : t[j] \in S
  OBVIOUS
<1>4. Range(t) = {pkt \in S : \E m \in {l} : \E j \in DOMAIN C[m] : C[m][j] = pkt}
  BY <1>1, <1>3 DEF Range
<1>5. QED
  BY <1>1, <1>2, <1>4 DEF Lists

LEMMA ListsConcat ==
  ASSUME NEW S, NEW P, NEW C, Once(S, P, C), NEW Q \in SUBSET P, NEW R \in SUBSET P, Q \cap R = {},
         NEW s, NEW t, Lists(S, C, s, Q), Lists(S, C, t, R)
  PROVE  Lists(S, C, s \o t, Q \cup R)
<1>1. /\ s \in Seq(S) /\ t \in Seq(S) /\ IsInjective(s) /\ IsInjective(t)
      /\ Range(s) = {pkt \in S : \E m \in Q : \E j \in DOMAIN C[m] : C[m][j] = pkt}
      /\ Range(t) = {pkt \in S : \E m \in R : \E j \in DOMAIN C[m] : C[m][j] = pkt}
  BY DEF Lists
<1>2. \A i \in DOMAIN s, j \in DOMAIN t : s[i] # t[j]
  <2>1. SUFFICES ASSUME NEW i \in DOMAIN s, NEW j \in DOMAIN t, s[i] = t[j] PROVE FALSE
    OBVIOUS
  <2>2. s[i] \in Range(s) /\ s[i] \in Range(t)
    BY <2>1 DEF Range
  <2>3. PICK m \in Q : \E k \in DOMAIN C[m] : C[m][k] = s[i]
    BY <1>1, <2>2
  <2>4. PICK n \in R : \E h \in DOMAIN C[n] : C[n][h] = s[i]
    BY <1>1, <2>2
  <2>5. m = n
    BY <2>3, <2>4 DEF Once
  <2>6. QED
    BY <2>5
<1>3. s \o t \in Seq(S) /\ IsInjective(s \o t) /\ Range(s \o t) = Range(s) \cup Range(t)
  BY <1>1, <1>2, ConcatOnce
<1>4. Range(s) \cup Range(t) = {pkt \in S : \E m \in Q \cup R : \E j \in DOMAIN C[m] : C[m][j] = pkt}
  BY <1>1
<1>5. QED
  BY <1>3, <1>4 DEF Lists

LEMMA PacketsConserved == PacketInv => Conserved
<1> SUFFICES ASSUME PacketInv PROVE Conserved
  OBVIOUS
<1>1. Once(Allocated, Places, Content)
  BY DEF PacketInv
<1> DEFINE At(d) == {<<k, d>> : k \in {"pool", "rx", "tx", "poll"}}
           Of(d) == ppool[d] \o rx_queue[d] \o InHand(Tx(d)) \o InHand(Poll(d))
           Good(s, Q) == Lists(Allocated, Content, s, Q)
<1>2. ASSUME NEW s, NEW Q \in SUBSET Places, Good(s, Q), NEW t, NEW R \in SUBSET Places, Good(t, R), Q \cap R = {}
      PROVE  Good(s \o t, Q \cup R)
  BY <1>1, <1>2, ListsConcat
<1>3. ASSUME NEW l \in Places PROVE Good(Content[l], {l})
  BY <1>1, ListAt
<1> HIDE DEF Good
<1>4. ASSUME NEW d \in Ifs PROVE Good(Of(d), At(d))
  <2>1. /\ Content[<<"pool", d>>] = ppool[d] /\ Content[<<"rx", d>>] = rx_queue[d]
        /\ Content[<<"tx", d>>] = InHand(Tx(d)) /\ Content[<<"poll", d>>] = InHand(Poll(d))
    BY ContentIs, PlacesAre DEF Tx, Poll
  <2>2. PICK p, r, t, q : p = ppool[d] /\ r = rx_queue[d] /\ t = InHand(Tx(d)) /\ q = InHand(Poll(d))
    OBVIOUS
  <2>3. PICK P, R, T, Q : /\ P = {<<"pool", d>>} /\ R = {<<"rx", d>>} /\ T = {<<"tx", d>>} /\ Q = {<<"poll", d>>}
                          /\ P \in SUBSET Places /\ R \in SUBSET Places /\ T \in SUBSET Places /\ Q \in SUBSET Places
    <3>1. /\ {<<"pool", d>>} \in SUBSET Places /\ {<<"rx", d>>} \in SUBSET Places
          /\ {<<"tx", d>>} \in SUBSET Places /\ {<<"poll", d>>} \in SUBSET Places
      BY DEF Places
    <3>2. QED
      BY <3>1
  <2>4. Good(p, P) /\ Good(r, R) /\ Good(t, T) /\ Good(q, Q)
    <3>1. <<"pool", d>> \in Places /\ <<"rx", d>> \in Places /\ <<"tx", d>> \in Places /\ <<"poll", d>> \in Places
      BY DEF Places
    <3>2. QED
      BY <1>3, <2>1, <2>2, <2>3, <3>1
  <2>5. Good(p \o r, P \cup R)
    BY <1>2, <2>3, <2>4
  <2>6. PICK pr : pr = p \o r
    OBVIOUS
  <2>7. PICK PR : PR = P \cup R
    OBVIOUS
  <2>8. PR \in SUBSET Places
    BY <2>3, <2>7
  <2>9. Good(pr \o t, PR \cup T)
    <3>1. PR \cap T = {}
      BY <2>3, <2>7
    <3>2. Good(pr, PR)
      BY <2>5, <2>6, <2>7
    <3>3. QED
      BY <1>2, <2>3, <2>4, <2>8, <3>1, <3>2
  <2>10. PICK prt : prt = pr \o t
    OBVIOUS
  <2>11. PICK PRT : PRT = PR \cup T
    OBVIOUS
  <2>12. PRT \in SUBSET Places
    BY <2>3, <2>8, <2>11
  <2>13. Good(prt \o q, PRT \cup Q)
    <3>1. PRT \cap Q = {}
      BY <2>3, <2>7, <2>11
    <3>2. Good(prt, PRT)
      BY <2>9, <2>10, <2>11
    <3>3. QED
      BY <1>2, <2>3, <2>4, <2>12, <3>1, <3>2
  <2>14. PRT \cup Q = At(d)
    BY <2>3, <2>7, <2>11
  <2>15. QED
    BY <2>2, <2>6, <2>10, <2>13, <2>14
<1>5. 0 \in Ifs /\ 1 \in Ifs
  BY DEF Ifs
<1>6. PICK s, t, Q, R : /\ s = Of(0) /\ t = Of(1) /\ Q = At(0) /\ R = At(1)
                        /\ Q \in SUBSET Places /\ R \in SUBSET Places /\ Q \cap R = {} /\ Q \cup R = Places
  <2>1. At(0) \in SUBSET Places /\ At(1) \in SUBSET Places /\ At(0) \cap At(1) = {} /\ At(0) \cup At(1) = Places
    BY DEF Places, Ifs
  <2>. HIDE DEF At, Of
  <2>2. QED
    BY <2>1
<1>7. Good(s, Q) /\ Good(t, R)
  BY <1>4, <1>5, <1>6
<1>8. Good(s \o t, Places)
  BY <1>2, <1>6, <1>7
<1>9. Everywhere = s \o t
  BY <1>6 DEF Everywhere, InHand
<1>10. IsInjective(Everywhere) /\ Range(Everywhere) = Allocated
  BY <1>1, <1>8, <1>9 DEF Good, Lists, Once
<1>11. QED
  BY <1>10 DEF Conserved, Allocated, PacketInv, OwnPool

\* Packets are conserved: each is in one pool, one receive list or one hand, once.
THEOREM SpecConserved == Spec => []Conserved
<1>1. PacketInv => Conserved
  BY PacketsConserved
<1>2. Init => PacketInv
  BY InitPackets
<1>3. PacketInv /\ [Next]_vars => PacketInv'
  BY NextPackets
<1>4. QED
  BY <1>1, <1>2, <1>3, PTL DEF Spec

-----------------------------------------------------------------------------
(* Who wakes a stopped queue *)

WakeTypeOK ==
  /\ job \in [Ifs -> {"rx", "tx", "watchdog"}] /\ lockup \in BOOLEAN
  /\ up \in [Ifs -> BOOLEAN] /\ stopped \in [Ifs -> BOOLEAN] /\ last \in [Packets -> BOOLEAN]

\* A transmitter that is the watchdog is between snull_tx_timeout and its wake-up;
\* none asks for a buffer while its queue is stopped.
Serving == {"i_lock", "i_clear", "i_handle", "r_push", "r_check", "w_wake"}
Serves(d) == /\ job[d] = "watchdog" => pc[Tx(d)] \in Serving
             /\ up[d] /\ stopped[d] => pc[Tx(d)] # "t_get"

\* Context c has put the first packet into the empty pool of d: it is still there,
\* whatever has been put on top of it, and c has not looked at it yet.
Waker(c, d) == pc[c] = "r_check" /\ hand[c][1] \in Range(ppool[d]) /\ last[hand[c][1]]

Served(d) == up[d] /\ stopped[d] /\ ppool[d] # <<>> =>
               (\E c \in Ctxs : Waker(c, d)) \/ job[d] = "watchdog"

QueueInv == PacketInv /\ WakeTypeOK /\ \A d \in Ifs : Serves(d) /\ (~lockup => Served(d))

LEMMA QueueRestartsInv == QueueInv => QueueRestarts
<1> SUFFICES ASSUME QueueInv, ~lockup, NEW d \in Ifs, up[d] /\ stopped[d] /\ ppool[d] # <<>>
             PROVE  \/ \E c \in Ctxs : pc[c] = "r_check" /\ Owner(hand[c][1]) = d /\ last[hand[c][1]]
                    \/ job[d] = "watchdog" /\ pc[Tx(d)] # "idle"
  BY DEF QueueRestarts
<1>1. Serves(d) /\ Served(d) /\ OwnPool
  BY DEF QueueInv, PacketInv
<1>2. CASE job[d] = "watchdog"
  BY <1>1, <1>2 DEF Serves, Serving
<1>3. ASSUME NEW c \in Ctxs, Waker(c, d)
      PROVE  pc[c] = "r_check" /\ Owner(hand[c][1]) = d /\ last[hand[c][1]]
  BY <1>1, <1>3 DEF Waker, OwnPool, Range
<1>4. QED
  BY <1>1, <1>2, <1>3 DEF Served

LEMMA InitQueue == ASSUME Lockups \subseteq BOOLEAN PROVE Init => QueueInv
<1> SUFFICES ASSUME Init PROVE QueueInv
  OBVIOUS
<1>1. PacketInv
  BY InitPackets
<1>2. WakeTypeOK
  BY DEF Init, WakeTypeOK
<1>3. \A d \in Ifs : job[d] = "rx" /\ ~stopped[d]
  BY DEF Init
<1>4. QED
  BY <1>1, <1>2, <1>3 DEF QueueInv, Serves, Served

\* A step that changes no pool, and no context that is about to wake a queue.
LEMMA QueueStays ==
  ASSUME QueueInv, PacketInv', WakeTypeOK', UNCHANGED <<ppool, last, lockup>>,
         \A c \in Ctxs : pc[c] = "r_check" => pc'[c] = "r_check" /\ hand'[c] = hand[c],
         \A d \in Ifs : Serves(d)',
         \A d \in Ifs : ~lockup /\ up'[d] /\ stopped'[d] =>
                          up[d] /\ stopped[d] /\ (job[d] = "watchdog" => job'[d] = "watchdog")
  PROVE  QueueInv'
<1>1. ASSUME NEW d \in Ifs, ~lockup PROVE Served(d)'
  <2>1. SUFFICES ASSUME up'[d], stopped'[d], ppool'[d] # <<>>
                 PROVE  (\E c \in Ctxs : Waker(c, d)') \/ job'[d] = "watchdog"
    BY DEF Served
  <2>2. (\E c \in Ctxs : Waker(c, d)) \/ job[d] = "watchdog"
    BY <1>1, <2>1 DEF QueueInv, Served
  <2>3. ASSUME NEW c \in Ctxs, Waker(c, d) PROVE Waker(c, d)'
    BY <2>3 DEF Waker
  <2>4. QED
    BY <1>1, <2>1, <2>2, <2>3
<1>2. QED
  BY <1>1 DEF QueueInv

\* Most steps of a transmitter are of that kind.
LEMMA TransmitterQuiet ==
  ASSUME QueueInv, PacketInv', NEW d \in Ifs, NEW from, NEW to, Goto(Tx(d), from, to), from # "r_check", to # "t_get",
         UNCHANGED <<ppool, last, lockup, up, stopped>>, \A c \in Ctxs \ {Tx(d)} : hand'[c] = hand[c],
         \/ UNCHANGED job /\ (from \in Serving => to \in Serving)
         \/ /\ from \notin Serving \/ job[d] # "watchdog"
            /\ \E j \in {"rx", "tx"} : job' = [job EXCEPT ![d] = j]
  PROVE  QueueInv'
<1>1. pc \in [Ctxs -> Labels] /\ Tx(d) \in Ctxs /\ job \in [Ifs -> {"rx", "tx", "watchdog"}]
  BY PlacesAre DEF QueueInv, WakeTypeOK, PacketInv, ListTypeOK
<1>2. pc[Tx(d)] = from /\ pc'[Tx(d)] = to /\ \A c \in Ctxs \ {Tx(d)} : pc'[c] = pc[c]
  BY <1>1 DEF Goto
<1>3. \A c \in Ctxs : pc[c] = "r_check" => pc'[c] = "r_check" /\ hand'[c] = hand[c]
  BY <1>2
<1>4. job' \in [Ifs -> {"rx", "tx", "watchdog"}] /\ \A e \in Ifs \ {d} : job'[e] = job[e]
  BY <1>1
<1>5. job[d] = "watchdog" => from \in Serving
  BY <1>2 DEF QueueInv, Serves
<1>6. job[d] = "watchdog" => job' = job
  BY <1>5
<1>7. job'[d] = "watchdog" => job' = job /\ (from \in Serving => to \in Serving)
  BY <1>1
<1>8. \A e \in Ifs : job[e] = "watchdog" => job'[e] = "watchdog"
  BY <1>4, <1>6
<1>9. WakeTypeOK'
  BY <1>4 DEF QueueInv, WakeTypeOK
<1>10. ASSUME NEW e \in Ifs PROVE Serves(e)'
  <2>1. Serves(e)
    BY DEF QueueInv
  <2>2. CASE e = d
    BY <1>2, <1>5, <1>7, <2>1, <2>2 DEF Serves
  <2>3. CASE e # d
    <3>1. Tx(e) \in Ctxs \ {Tx(d)}
      BY <2>3, PlacesAre
    <3>2. QED
      BY <1>2, <1>4, <2>1, <2>3, <3>1 DEF Serves
  <2>4. QED
    BY <2>2, <2>3
<1>11. QED
  BY <1>3, <1>8, <1>9, <1>10, QueueStays

LEMMA QueueTransmitQuiet ==
  ASSUME QueueInv, PacketInv', NEW d \in Ifs,
         TestRxInts(d) \/ LoadStatus(d) \/ StoreStatus(d) \/ IntrLock(d) \/ IntrClear(d) \/ IntrHandle(d)
  PROVE  QueueInv'
<1>1. \A c \in Ctxs \ {Tx(d)} : hand'[c] = hand[c]
  BY DEF TestRxInts, LoadStatus, StoreStatus, IntrLock, IntrClear, IntrHandle, lists, QueueInv, PacketInv, ListTypeOK
<1>2. UNCHANGED <<ppool, last, lockup, up, stopped>>
  BY DEF TestRxInts, LoadStatus, StoreStatus, IntrLock, IntrClear, IntrHandle, lists, core, fixed
<1>3. CASE TestRxInts(d)
  <2>1. UNCHANGED job /\ (Goto(Tx(d), "t_test", "t_rxload") \/ Goto(Tx(d), "t_test", "t_load"))
    BY <1>3 DEF TestRxInts, flags
  <2>2. QED
    BY <1>1, <1>2, <2>1, TransmitterQuiet DEF Serving
<1>4. CASE LoadStatus(d)
  <2>1. UNCHANGED job /\ (Goto(Tx(d), "t_rxload", "t_rxstore") \/ Goto(Tx(d), "t_load", "t_store"))
    BY <1>4 DEF LoadStatus
  <2>2. QED
    BY <1>1, <1>2, <2>1, TransmitterQuiet DEF Serving
<1>5. CASE StoreStatus(d)
  <2>1. \/ Goto(Tx(d), "t_rxstore", "i_lock") /\ job' = [job EXCEPT ![d] = "rx"]
        \/ Goto(Tx(d), "t_store", "i_lock") /\ job' = [job EXCEPT ![d] = "tx"]
    BY <1>5 DEF StoreStatus
  <2>2. "t_rxstore" \notin Serving /\ "t_store" \notin Serving
    BY DEF Serving
  <2>3. CASE Goto(Tx(d), "t_rxstore", "i_lock") /\ job' = [job EXCEPT ![d] = "rx"]
    BY <1>1, <1>2, <2>2, <2>3, TransmitterQuiet
  <2>4. CASE Goto(Tx(d), "t_store", "i_lock") /\ job' = [job EXCEPT ![d] = "tx"]
    BY <1>1, <1>2, <2>2, <2>4, TransmitterQuiet
  <2>5. QED
    BY <2>1, <2>3, <2>4
<1>6. CASE IntrLock(d) \/ IntrClear(d)
  <2>1. UNCHANGED job /\ (Goto(Tx(d), "i_lock", "i_clear") \/ Goto(Tx(d), "i_clear", "i_handle"))
    BY <1>6 DEF IntrLock, IntrClear
  <2>2. QED
    BY <1>1, <1>2, <2>1, TransmitterQuiet DEF Serving
<1>7. CASE IntrHandle(d)
  <2>1. \/ UNCHANGED job /\ Goto(Tx(d), "i_handle", "r_push")
        \/ Done(d) /\ Goto(Tx(d), "i_handle", Return(d))
    BY <1>7 DEF IntrHandle
  <2>2. CASE UNCHANGED job /\ Goto(Tx(d), "i_handle", "r_push")
    BY <1>1, <1>2, <2>2, TransmitterQuiet DEF Serving
  <2>3. CASE Done(d) /\ Goto(Tx(d), "i_handle", Return(d))
    <3>1. CASE job[d] = "watchdog"
      <4>1. Return(d) = "w_wake"
        BY <3>1 DEF Return
      <4>2. UNCHANGED job
        <5>1. job \in [Ifs -> {"rx", "tx", "watchdog"}]
          BY DEF QueueInv, WakeTypeOK
        <5>2. QED
          BY <2>3, <4>1, <5>1 DEF Done
      <4>3. QED
        BY <1>1, <1>2, <2>3, <4>1, <4>2, TransmitterQuiet DEF Serving
    <3>2. CASE job[d] # "watchdog"
      <4>1. Return(d) \in {"t_load", "idle"}
        BY <3>2 DEF Return, QueueInv, WakeTypeOK
      <4>2. job' = [job EXCEPT ![d] = "rx"]
        BY <2>3, <4>1 DEF Done
      <4>3. QED
        BY <1>1, <1>2, <2>3, <3>2, <4>1, <4>2, TransmitterQuiet
    <3>3. QED
      BY <3>1, <3>2
  <2>4. QED
    BY <2>1, <2>2, <2>3
<1>8. QED
  BY <1>3, <1>4, <1>5, <1>6, <1>7

LEMMA QueuePoll ==
  ASSUME QueueInv, PacketInv', NEW d \in Ifs, snull_poll(d)
  PROVE  QueueInv'
<1>1. UNCHANGED <<ppool, last, lockup, up, stopped, job>>
  BY DEF snull_poll, PollBegin, PollDequeue, PollTest, PollComplete, PollInts, lists, flags, core, fixed
<1>2. \A c \in Ctxs \ {Poll(d)} : pc'[c] = pc[c] /\ hand'[c] = hand[c]
  BY DEF snull_poll, PollBegin, PollDequeue, PollTest, PollComplete, PollInts, lists, Goto,
         QueueInv, PacketInv, ListTypeOK
<1>3. pc[Poll(d)] = "r_check" => UNCHANGED <<pc, hand>>
  BY DEF snull_poll, PollBegin, PollDequeue, PollTest, PollComplete, PollInts, lists, Goto
<1>4. \A c \in Ctxs : pc[c] = "r_check" => pc'[c] = "r_check" /\ hand'[c] = hand[c]
  BY <1>2, <1>3
<1>5. \A e \in Ifs : Serves(e)'
  <2>1. \A e \in Ifs : pc'[Tx(e)] = pc[Tx(e)]
    BY <1>2, PlacesAre
  <2>2. QED
    BY <1>1, <2>1 DEF QueueInv, Serves
<1>6. WakeTypeOK'
  BY <1>1 DEF QueueInv, WakeTypeOK
<1>7. QED
  BY <1>1, <1>4, <1>5, <1>6, QueueStays

\* The interface goes up or down, asks for a packet to be transmitted, times out, or loses an interrupt.
LEMMA QueueKernel ==
  ASSUME QueueInv, PacketInv', NEW d \in Ifs,
         snull_open(d) \/ snull_release(d) \/ snull_tx(d) \/ snull_tx_timeout(d) \/ Lockup(d) \/ TimeoutWake(d)
  PROVE  QueueInv'
<1>1. UNCHANGED <<ppool, last, lockup, hand>>
  BY DEF snull_open, snull_release, snull_tx, snull_tx_timeout, Lockup, TimeoutWake, lists, core, fixed
<1>2. Tx(d) \in Ctxs /\ \A e \in Ifs \ {d} : Tx(e) \in Ctxs \ {Tx(d)}
  BY PlacesAre
<1>3. /\ pc \in [Ctxs -> Labels] /\ job \in [Ifs -> {"rx", "tx", "watchdog"}]
      /\ up \in [Ifs -> BOOLEAN] /\ stopped \in [Ifs -> BOOLEAN]
  BY DEF QueueInv, WakeTypeOK, PacketInv, ListTypeOK
<1>4. \A c \in Ctxs \ {Tx(d)} : pc'[c] = pc[c]
  BY <1>2, <1>3 DEF snull_open, snull_release, snull_tx, snull_tx_timeout, Lockup, TimeoutWake, Goto
<1>5. pc[Tx(d)] = "r_check" => pc' = pc
  BY DEF snull_open, snull_release, snull_tx, snull_tx_timeout, Lockup, TimeoutWake, Goto
<1>6. /\ job' \in [Ifs -> {"rx", "tx", "watchdog"}]
      /\ up' \in [Ifs -> BOOLEAN] /\ stopped' \in [Ifs -> BOOLEAN]
  BY <1>3 DEF snull_open, snull_release, snull_tx, snull_tx_timeout, Lockup, TimeoutWake, flags, core
<1>7. \A e \in Ifs \ {d} : up'[e] = up[e] /\ stopped'[e] = stopped[e] /\ job'[e] = job[e]
  BY <1>3 DEF snull_open, snull_release, snull_tx, snull_tx_timeout, Lockup, TimeoutWake, flags, core
<1>8. WakeTypeOK'
  BY <1>1, <1>6 DEF QueueInv, WakeTypeOK
<1>9. Serves(d)
  BY DEF QueueInv
<1>10. Serves(d)' /\ (~lockup /\ up'[d] /\ stopped'[d] =>
                        up[d] /\ stopped[d] /\ (job[d] = "watchdog" => job'[d] = "watchdog"))
  <2>1. CASE snull_open(d)
    BY <1>3, <1>9, <2>1 DEF snull_open, Serves, flags
  <2>2. CASE snull_release(d)
    BY <1>3, <1>9, <2>2 DEF snull_release, Serves, flags
  <2>3. CASE snull_tx(d)
    <3>1. job' = job /\ up' = up /\ stopped' = stopped /\ ~stopped[d] /\ pc[Tx(d)] = "idle" /\ pc'[Tx(d)] = "t_get"
      BY <1>2, <1>3, <2>3 DEF snull_tx, Goto
    <3>2. QED
      BY <1>9, <3>1 DEF Serves, Serving
  <2>4. CASE snull_tx_timeout(d)
    <3>1. job'[d] = "watchdog" /\ up' = up /\ stopped' = stopped /\ pc'[Tx(d)] = "i_lock"
      BY <1>2, <1>3, <2>4 DEF snull_tx_timeout, Goto, core
    <3>2. QED
      BY <3>1 DEF Serves, Serving
  <2>5. CASE Lockup(d)
    <3>1. job' = job /\ lockup /\ pc[Tx(d)] = "t_store" /\ pc'[Tx(d)] = "idle"
      BY <1>2, <1>3, <2>5 DEF Lockup, Goto
    <3>2. QED
      BY <1>9, <3>1 DEF Serves, Serving
  <2>6. CASE TimeoutWake(d)
    <3>1. job'[d] = "rx" /\ stopped'[d] = FALSE
      BY <1>3, <2>6 DEF TimeoutWake
    <3>2. QED
      BY <3>1 DEF Serves
  <2>7. QED
    BY <2>1, <2>2, <2>3, <2>4, <2>5, <2>6
<1>11. ASSUME NEW e \in Ifs, e # d PROVE Serves(e)'
  BY <1>2, <1>4, <1>7, <1>11 DEF QueueInv, Serves
<1>12. QED
  <2>1. \A e \in Ifs : Serves(e)'
    BY <1>10, <1>11
  <2>2. \A e \in Ifs : ~lockup /\ up'[e] /\ stopped'[e] =>
                         up[e] /\ stopped[e] /\ (job[e] = "watchdog" => job'[e] = "watchdog")
    BY <1>7, <1>10
  <2>3. \A c \in Ctxs : pc[c] = "r_check" => pc'[c] = "r_check" /\ hand'[c] = hand[c]
    BY <1>1, <1>4, <1>5
  <2>4. QED
    BY <1>1, <1>8, <2>1, <2>2, <2>3, QueueStays

\* A packet that a context still has to give away is in no pool.
LEMMA HeldNotPooled ==
  ASSUME PacketInv, NEW c \in Ctxs, pc[c] \in {"t_enqueue", "r_push"}
  PROVE  hand[c][1] \in Packets /\ Owner(hand[c][1]) \in Ifs /\ \A d \in Ifs : hand[c][1] \notin Range(ppool[d])
<1>1. hand[c] \in Seq(Allocated) /\ Len(hand[c]) = 1
  BY DEF PacketInv, ListTypeOK, Hands, Holding
<1>2. hand[c][1] \in Allocated /\ 1 \in DOMAIN hand[c]
  <2>1. \A h \in Seq(Allocated) : Len(h) = 1 => 1 \in DOMAIN h
    OBVIOUS
  <2>2. QED
    BY <1>1, <2>1, OneHeld
<1>3. hand[c][1] \in Packets /\ Owner(hand[c][1]) \in Ifs
  BY <1>2 DEF Allocated, Packets, Owner
<1>4. ASSUME NEW d \in Ifs, hand[c][1] \in Range(ppool[d]) PROVE FALSE
  <2>1. PICK i \in DOMAIN ppool[d] : ppool[d][i] = hand[c][1]
    BY <1>4 DEF Range
  <2>2. /\ <<"pool", d>> \in Places /\ c \in Places /\ <<"pool", d>> # c
        /\ Content[<<"pool", d>>] = ppool[d] /\ Content[c] = hand[c]
    BY ContentIs, PlacesAre DEF InHand
  <2>3. Once(Allocated, Places, Content)
    BY DEF PacketInv
  <2>4. QED
    BY <1>2, <2>1, <2>2, <2>3 DEF Once
<1>5. QED
  BY <1>3, <1>4

LEMMA QueueGet ==
  ASSUME QueueInv, PacketInv', NEW d \in Ifs, snull_get_tx_buffer(d)
  PROVE  QueueInv'
<1>1. /\ UNCHANGED <<last, lockup, up, job>> /\ pc[Tx(d)] = "t_get"
      /\ pc \in [Ctxs -> Labels] /\ hand \in [Ctxs -> Seq(Allocated)]
      /\ stopped \in [Ifs -> BOOLEAN] /\ ppool \in [Ifs -> Seq(Allocated)]
  BY DEF snull_get_tx_buffer, flags, fixed, QueueInv, WakeTypeOK, PacketInv, ListTypeOK
<1>2. Tx(d) \in Ctxs /\ \A e \in Ifs \ {d} : Tx(e) \in Ctxs \ {Tx(d)}
  BY PlacesAre
<1>3. CASE ppool[d] = <<>>
  <2>1. UNCHANGED <<ppool, pc, hand, stopped>>
    BY <1>3 DEF snull_get_tx_buffer
  <2>2. QED
    BY <1>1, <2>1, QueueStays DEF QueueInv, WakeTypeOK, Serves
<1>4. CASE ppool[d] # <<>>
  <2>1. /\ ppool' = [ppool EXCEPT ![d] = Tail(@)] /\ stopped' = [stopped EXCEPT ![d] = @ \/ Len(ppool[d]) = 1]
        /\ pc' = [pc EXCEPT ![Tx(d)] = "t_enqueue"]
        /\ \A c \in Ctxs \ {Tx(d)} : pc'[c] = pc[c] /\ hand'[c] = hand[c]
    BY <1>1, <1>4 DEF snull_get_tx_buffer
  <2>2. WakeTypeOK'
    BY <1>1, <2>1 DEF QueueInv, WakeTypeOK
  <2>3. Serves(d) /\ job[d] # "watchdog" /\ (up[d] => ~stopped[d])
    BY <1>1 DEF QueueInv, Serves, Serving
  <2>4. Serves(d)' /\ Served(d)'
    <3>1. pc'[Tx(d)] = "t_enqueue" /\ Serves(d)'
      BY <1>1, <1>2, <2>1, <2>3 DEF Serves
    <3>2. up[d] /\ stopped'[d] => Len(ppool[d]) = 1
      BY <1>1, <2>1, <2>3
    <3>3. Len(ppool[d]) = 1 => Tail(ppool[d]) = <<>>
      <4>1. ppool[d] \in Seq(Allocated)
        BY <1>1
      <4>2. QED
        BY <4>1, OneHeld
    <3>4. QED
      BY <1>1, <2>1, <3>1, <3>2, <3>3 DEF Served
  <2>5. ASSUME NEW e \in Ifs, e # d PROVE Serves(e)' /\ (~lockup => Served(e)')
    <3>1. Serves(e) /\ (~lockup => Served(e))
      BY DEF QueueInv
    <3>2. ppool'[e] = ppool[e] /\ stopped'[e] = stopped[e] /\ pc'[Tx(e)] = pc[Tx(e)]
      BY <1>1, <1>2, <2>1, <2>5
    <3>3. ASSUME NEW c \in Ctxs, Waker(c, e) PROVE Waker(c, e)'
      <4>1. c # Tx(d)
        BY <1>1, <3>3 DEF Waker
      <4>2. QED
        BY <1>1, <2>1, <3>2, <3>3, <4>1 DEF Waker
    <3>4. QED
      BY <1>1, <3>1, <3>2, <3>3 DEF Serves, Served
  <2>6. QED
    BY <1>1, <2>2, <2>4, <2>5 DEF QueueInv
<1>5. QED
  BY <1>3, <1>4

LEMMA QueueEnqueue ==
  ASSUME QueueInv, PacketInv', NEW d \in Ifs, snull_enqueue_buf(d)
  PROVE  QueueInv'
<1>1. /\ UNCHANGED <<ppool, lockup, up, stopped, job>>
      /\ Goto(Tx(d), "t_enqueue", "t_test")
      /\ last' = [last EXCEPT ![hand[Tx(d)][1]] = rx_queue[Twin(d)] = <<>>]
      /\ hand' = [hand EXCEPT ![Tx(d)] = <<>>]
  BY DEF snull_enqueue_buf, flags, core, fixed
<1>2. /\ Tx(d) \in Ctxs /\ \A e \in Ifs \ {d} : Tx(e) \in Ctxs \ {Tx(d)}
      /\ pc \in [Ctxs -> Labels] /\ hand \in [Ctxs -> Seq(Allocated)] /\ last \in [Packets -> BOOLEAN]
  BY PlacesAre DEF QueueInv, WakeTypeOK, PacketInv, ListTypeOK
<1>3. pc[Tx(d)] = "t_enqueue" /\ pc'[Tx(d)] = "t_test" /\ \A c \in Ctxs \ {Tx(d)} : pc'[c] = pc[c] /\ hand'[c] = hand[c]
  BY <1>1, <1>2 DEF Goto
<1>4. hand[Tx(d)][1] \in Packets /\ \A e \in Ifs : hand[Tx(d)][1] \notin Range(ppool[e])
  BY <1>2, <1>3, HeldNotPooled DEF QueueInv
<1>5. WakeTypeOK'
  BY <1>1, <1>2 DEF QueueInv, WakeTypeOK
<1>6. ASSUME NEW e \in Ifs PROVE Serves(e)' /\ (~lockup => Served(e)')
  <2>1. Serves(e) /\ (~lockup => Served(e))
    BY DEF QueueInv
  <2>2. Serves(e)'
    <3>1. CASE e = d
      BY <1>1, <1>3, <2>1, <3>1 DEF Serves, Serving
    <3>2. CASE e # d
      BY <1>1, <1>2, <1>3, <2>1, <3>2 DEF Serves
    <3>3. QED
      BY <3>1, <3>2
  <2>3. ASSUME NEW c \in Ctxs, Waker(c, e) PROVE Waker(c, e)'
    <3>1. c # Tx(d)
      BY <1>3, <2>3 DEF Waker
    <3>2. hand[c][1] # hand[Tx(d)][1] /\ hand[c][1] \in Packets
      <4>1. \A i \in DOMAIN ppool[e] : ppool[e][i] \in Packets
        <5>1. ppool[e] \in Seq(Allocated)
          BY DEF QueueInv, PacketInv, ListTypeOK
        <5>2. \A i \in DOMAIN ppool[e] : ppool[e][i] \in Allocated
          BY <5>1
        <5>3. QED
          BY <5>2 DEF Allocated
      <4>2. QED
        BY <1>4, <2>3, <4>1 DEF Waker, Range
    <3>3. last'[hand[c][1]] = last[hand[c][1]]
      BY <1>1, <1>2, <3>2
    <3>4. QED
      BY <1>1, <1>3, <2>3, <3>1, <3>3 DEF Waker
  <2>4. QED
    BY <1>1, <2>1, <2>2, <2>3 DEF Served
<1>7. QED
  BY <1>1, <1>5, <1>6 DEF QueueInv

LEMMA QueuePush ==
  ASSUME QueueInv, PacketInv', NEW c \in Ctxs, ReleasePush(c)
  PROVE  QueueInv'
<1> DEFINE pkt == hand[c][1]
           d == Owner(pkt)
<1>1. /\ UNCHANGED <<hand, lockup, up, stopped, job>>
      /\ Goto(c, "r_push", "r_check")
      /\ ppool' = [ppool EXCEPT ![d] = <<pkt>> \o @]
      /\ last' = [last EXCEPT ![pkt] = ppool[d] = <<>>]
  BY DEF ReleasePush, flags, core, fixed
<1>2. /\ pc \in [Ctxs -> Labels] /\ last \in [Packets -> BOOLEAN] /\ ppool \in [Ifs -> Seq(Allocated)]
      /\ \A e \in Ifs : ppool'[e] \in Seq(Allocated)'
  BY DEF QueueInv, WakeTypeOK, PacketInv, ListTypeOK
<1>3. pc[c] = "r_push" /\ pc'[c] = "r_check" /\ \A b \in Ctxs \ {c} : pc'[b] = pc[b]
  BY <1>1, <1>2 DEF Goto
<1>4. pkt \in Packets /\ d \in Ifs /\ \A e \in Ifs : pkt \notin Range(ppool[e])
  BY <1>3, HeldNotPooled DEF QueueInv
<1>5. PICK k \in Packets, o \in Ifs : k = pkt /\ o = d
  BY <1>4
<1>6. Range(ppool'[o]) = Range(ppool[o]) \cup {k} /\ \A e \in Ifs \ {o} : ppool'[e] = ppool[e]
  <2>1. PICK s \in Seq(Allocated) : s = ppool[o]
    BY <1>2
  <2>2. k \in Allocated
    <3>1. hand[c] \in Seq(Allocated) /\ Len(hand[c]) = 1
      BY <1>3 DEF QueueInv, PacketInv, ListTypeOK, Hands, Holding
    <3>2. QED
      BY <1>5, <3>1, OneHeld
  <2>3. /\ DOMAIN (<<k>> \o s) = 1 .. Len(s) + 1 /\ (<<k>> \o s)[1] = k /\ DOMAIN s = 1 .. Len(s)
        /\ \A i \in 2 .. Len(s) + 1 : i - 1 \in DOMAIN s /\ (<<k>> \o s)[i] = s[i - 1]
        /\ \A i \in 1 .. Len(s) : i + 1 \in 2 .. Len(s) + 1 /\ (<<k>> \o s)[i + 1] = s[i]
    BY <2>2
  <2>4. Range(<<k>> \o s) \subseteq Range(s) \cup {k}
    <3>1. ASSUME NEW i \in DOMAIN (<<k>> \o s) PROVE (<<k>> \o s)[i] = k \/ \E j \in DOMAIN s : (<<k>> \o s)[i] = s[j]
      <4>1. i = 1 \/ i \in 2 .. Len(s) + 1
        BY <2>3, <3>1
      <4>2. QED
        BY <2>3, <4>1
    <3>2. QED
      BY <3>1 DEF Range
  <2>5. Range(s) \cup {k} \subseteq Range(<<k>> \o s)
    <3>1. 1 \in DOMAIN (<<k>> \o s)
      BY <2>3
    <3>2. ASSUME NEW i \in DOMAIN s PROVE \E j \in DOMAIN (<<k>> \o s) : (<<k>> \o s)[j] = s[i]
      <4>1. i \in 1 .. Len(s) /\ i + 1 \in DOMAIN (<<k>> \o s)
        BY <2>3, <3>2
      <4>2. QED
        BY <2>3, <4>1
    <3>3. QED
      BY <2>3, <3>1, <3>2 DEF Range
  <2>6. ppool'[o] = <<k>> \o s /\ \A e \in Ifs \ {o} : ppool'[e] = ppool[e]
    BY <1>1, <1>2, <1>5, <2>1
  <2>7. QED
    BY <2>1, <2>4, <2>5, <2>6
<1>7. last'[k] = (ppool[o] = <<>>) /\ \A p \in Packets \ {k} : last'[p] = last[p]
  BY <1>1, <1>2, <1>5
<1>8. WakeTypeOK'
  <2>1. last' \in [Packets -> BOOLEAN]
    BY <1>1, <1>2
  <2>2. QED
    BY <1>1, <2>1 DEF QueueInv, WakeTypeOK
<1>9. ASSUME NEW e \in Ifs PROVE Serves(e)'
  <2>1. Serves(e) /\ Tx(e) \in Ctxs
    BY PlacesAre DEF QueueInv
  <2>2. CASE Tx(e) = c
    BY <1>1, <1>3, <2>2 DEF Serves, Serving
  <2>3. CASE Tx(e) # c
    BY <1>1, <1>3, <2>1, <2>3 DEF Serves
  <2>4. QED
    BY <2>2, <2>3
<1>10. ASSUME NEW e \in Ifs, NEW b \in Ctxs, Waker(b, e) PROVE Waker(b, e)'
  <2>1. b # c
    BY <1>3, <1>10 DEF Waker
  <2>2. hand[b][1] \in Packets \ {k}
    <3>1. \A i \in DOMAIN ppool[e] : ppool[e][i] \in Allocated
      BY <1>2
    <3>2. QED
      BY <1>4, <1>5, <1>10, <3>1 DEF Waker, Range, Allocated
  <2>3. QED
    BY <1>1, <1>3, <1>6, <1>7, <1>10, <2>1, <2>2 DEF Waker
<1>11. ASSUME NEW e \in Ifs, ~lockup PROVE Served(e)'
  <2>1. Served(e)
    BY <1>11 DEF QueueInv
  <2>2. CASE e = o /\ ppool[o] = <<>>
    <3>1. Waker(c, e)'
      BY <1>1, <1>3, <1>5, <1>6, <1>7, <2>2 DEF Waker
    <3>2. QED
      BY <3>1 DEF Served
  <2>3. CASE e # o \/ ppool[o] # <<>>
    BY <1>1, <1>6, <1>10, <2>1, <2>3 DEF Served
  <2>4. QED
    BY <2>2, <2>3
<1>12. QED
  BY <1>1, <1>8, <1>9, <1>11 DEF QueueInv

LEMMA QueueCheck ==
  ASSUME QueueInv, PacketInv', NEW c \in Ctxs, ReleaseCheck(c)
  PROVE  QueueInv'
<1> DEFINE d == Owner(hand[c][1])
           to == IF c[1] = "tx" THEN Return(c[2]) ELSE "p_test"
<1>1. /\ UNCHANGED <<ppool, last, lockup, up>> /\ Goto(c, "r_check", to)
      /\ stopped' = [stopped EXCEPT ![d] = @ /\ ~last[hand[c][1]]]
      /\ hand' = [hand EXCEPT ![c] = <<>>]
      /\ IF c[1] = "tx" THEN Done(c[2]) ELSE UNCHANGED job
  BY DEF ReleaseCheck, fixed
<1>2. /\ pc \in [Ctxs -> Labels] /\ hand \in [Ctxs -> Seq(Allocated)]
      /\ job \in [Ifs -> {"rx", "tx", "watchdog"}] /\ stopped \in [Ifs -> BOOLEAN]
  BY DEF QueueInv, WakeTypeOK, PacketInv, ListTypeOK
<1>3. pc[c] = "r_check" /\ pc'[c] = to /\ \A b \in Ctxs \ {c} : pc'[b] = pc[b] /\ hand'[b] = hand[b]
  BY <1>1, <1>2 DEF Goto
<1>4. \A e \in Ifs : stopped'[e] \in BOOLEAN /\ (stopped'[e] => stopped[e])
  BY <1>1, <1>2
<1>5. \A e \in Ifs : c # Tx(e) /\ c[1] = "tx" => c[2] # e
  BY DEF Ctxs, Tx
<1>6. ASSUME NEW e \in Ifs PROVE /\ job'[e] \in {"rx", "tx", "watchdog"} /\ Serves(e)'
                                 /\ job[e] = "watchdog" => job'[e] = "watchdog"
  <2>1. Serves(e) /\ Tx(e) \in Ctxs
    BY PlacesAre DEF QueueInv
  <2>2. CASE c = Tx(e)
    <3>1. c[1] = "tx" /\ c[2] = e
      BY <2>2 DEF Tx
    <3>2. pc'[Tx(e)] = Return(e) /\ Done(e)
      BY <1>1, <1>3, <2>2, <3>1
    <3>3. CASE job[e] = "watchdog"
      <4>1. Return(e) = "w_wake"
        BY <3>3 DEF Return
      <4>2. job'[e] = "watchdog"
        BY <1>2, <3>2, <3>3, <4>1 DEF Done
      <4>3. QED
        BY <3>2, <3>3, <4>1, <4>2 DEF Serves, Serving
    <3>4. CASE job[e] # "watchdog"
      <4>1. Return(e) \in {"t_load", "idle"}
        BY <1>2, <3>4 DEF Return
      <4>2. job'[e] = "rx"
        BY <1>2, <3>2, <4>1 DEF Done
      <4>3. QED
        BY <3>2, <3>4, <4>1, <4>2 DEF Serves
    <3>5. QED
      BY <3>3, <3>4
  <2>3. CASE c # Tx(e)
    <3>1. job'[e] = job[e]
      <4>1. CASE c[1] = "tx"
        <5>1. c[2] # e
          BY <1>5, <2>3, <4>1
        <5>2. QED
          BY <1>1, <1>2, <4>1, <5>1 DEF Done
      <4>2. CASE c[1] # "tx"
        BY <1>1, <4>2
      <4>3. QED
        BY <4>1, <4>2
    <3>2. pc'[Tx(e)] = pc[Tx(e)]
      BY <1>3, <2>1, <2>3
    <3>3. QED
      BY <1>1, <1>2, <1>4, <2>1, <3>1, <3>2 DEF Serves
  <2>4. QED
    BY <2>2, <2>3
<1>7. WakeTypeOK'
  <2>1. DOMAIN job' = Ifs /\ job' = [e \in Ifs |-> job'[e]] /\ stopped' \in [Ifs -> BOOLEAN]
    BY <1>1, <1>2 DEF Done
  <2>2. QED
    BY <1>1, <1>6, <2>1 DEF QueueInv, WakeTypeOK
<1>8. ASSUME NEW e \in Ifs, ~lockup PROVE Served(e)'
  <2>1. SUFFICES ASSUME up'[e], stopped'[e], ppool'[e] # <<>>
                 PROVE  (\E b \in Ctxs : Waker(b, e)') \/ job'[e] = "watchdog"
    BY DEF Served
  <2>2. (\E b \in Ctxs : Waker(b, e)) \/ job[e] = "watchdog"
    BY <1>1, <1>4, <1>8, <2>1 DEF QueueInv, Served
  <2>3. ASSUME NEW b \in Ctxs, Waker(b, e) PROVE Waker(b, e)'
    <3>1. b # c
      <4>1. SUFFICES ASSUME b = c PROVE FALSE
        OBVIOUS
      <4>2. Owner(hand[c][1]) = e /\ last[hand[c][1]]
        BY <2>3, <4>1 DEF Waker, Range, QueueInv, PacketInv, OwnPool
      <4>3. ~stopped'[e]
        BY <1>1, <1>2, <4>2
      <4>4. QED
        BY <2>1, <4>3
    <3>2. QED
      BY <1>1, <1>3, <2>3, <3>1 DEF Waker
  <2>4. QED
    BY <1>6, <2>2, <2>3
<1>9. QED
  BY <1>1, <1>6, <1>7, <1>8 DEF QueueInv

LEMMA NextQueue == QueueInv /\ [Next]_vars => QueueInv'
<1> SUFFICES ASSUME QueueInv, [Next]_vars PROVE QueueInv'
  OBVIOUS
<1>1. PacketInv'
  BY NextPackets DEF QueueInv
<1>2. CASE UNCHANGED vars
  BY <1>1, <1>2 DEF vars, lists, flags, core, fixed, QueueInv, WakeTypeOK, Serves, Served, Waker
<1>3. ASSUME NEW d \in Ifs, Transmit(d) PROVE QueueInv'
  BY <1>1, <1>3, QueueGet, QueueEnqueue, QueueTransmitQuiet, QueueKernel DEF Transmit
<1>4. ASSUME NEW d \in Ifs, snull_open(d) \/ snull_release(d) \/ snull_tx(d) \/ snull_tx_timeout(d) \/ snull_poll(d)
      PROVE  QueueInv'
  BY <1>1, <1>4, QueueKernel, QueuePoll
<1>5. ASSUME NEW c \in Ctxs, ReleasePush(c) \/ ReleaseCheck(c) PROVE QueueInv'
  BY <1>1, <1>5, QueuePush, QueueCheck
<1>6. QED
  BY <1>2, <1>3, <1>4, <1>5 DEF Next, Oops

\* A queue that was stopped for want of packets is woken again.
THEOREM SpecQueueRestarts == Spec => []QueueRestarts
<1>1. QueueInv => QueueRestarts
  BY QueueRestartsInv
<1>2. Init => QueueInv
  BY InitQueue, LockupsAssumption
<1>3. QueueInv /\ [Next]_vars => QueueInv'
  BY NextQueue
<1>4. QED
  BY <1>1, <1>2, <1>3, PTL DEF Spec
=============================================================================
