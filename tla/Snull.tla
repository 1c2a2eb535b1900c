-------------------------------- MODULE Snull --------------------------------
(***************************************************************************)
(* Book/snull/snull.c: two network interfaces, each of which hands what it *)
(* transmits to the other.  A packet buffer comes from the pool of the     *)
(* interface that transmits, travels through the receive list of the       *)
(* other, and goes back.  There is no hardware: the transmitter itself     *)
(* calls the interrupt handlers, of its twin and then its own.             *)
(*                                                                         *)
(* The contexts are, for each interface, its transmitter (one at a time,   *)
(* under the xmit lock that the watchdog takes as well) and its NAPI poll. *)
(* They run on different CPUs.  Sections under priv->lock are one action,  *)
(* except the interrupt handlers, because the status word they read and    *)
(* clear is written by others without the lock.                            *)
(***************************************************************************)
EXTENDS Naturals, Sequences, Functions

CONSTANTS MaxPool,    \* pool_size
          PoolSizes,  \* how many of them kmalloc gives to a pool
          Napi,       \* the values of use_napi
          Lockups,    \* the values of lockup > 0: are transmit interrupts dropped?
          MaxAsked,   \* bounds the packets an interface is asked to transmit
          MayClose,   \* the interfaces that are taken down at times
          Watched,    \* those whose watchdog gets to run
          Cpus        \* bounds the polls that have completed and not enabled interrupts

ASSUME PoolAssumption == MaxPool \in Nat /\ PoolSizes \subseteq 0 .. MaxPool
ASSUME LockupsAssumption == Lockups \subseteq BOOLEAN

Ifs  == {0, 1}
Twin(d) == 1 - d
Packets == Ifs \X (1 .. MaxPool)
Ctxs == {<<"tx", d>> : d \in Ifs} \cup {<<"poll", d>> : d \in Ifs}
RX == "RX"
TX == "TX"

VARIABLES use_napi, lockup,  \* the module parameters
          allocated,         \* the size of the pools
          asked,             \* how many packets each has been asked to transmit
          ppool, rx_queue,   \* lists of packets, latest first
          last,              \* last[pkt]: pkt->next is NULL
          status, rx_int_enabled, lock, skb,
          up, stopped,       \* the kernel's: interface up, queue stopped
          sched,             \* netif_rx_schedule'd
          completed,         \* polls after netif_rx_complete, before snull_rx_ints
          pc, hand,          \* of a context; hand: the packet it holds, a sequence
          job,               \* whose interrupt a transmitter is calling, and why
          word,              \* the value of status it has read
          oops               \* what has gone wrong

lists == <<ppool, rx_queue, last, hand>>
flags == <<status, rx_int_enabled, lock, skb, job, word>>
fixed == <<use_napi, lockup, allocated, asked>>
core  == <<fixed, up, stopped, sched, completed>>
vars  == <<lists, flags, core, pc, oops>>

Tx(d)   == <<"tx", d>>
Poll(d) == <<"poll", d>>
Owner(pkt) == pkt[1]

\* snull_init and snull_setup_pool: kmalloc may give fewer than pool_size.
Init ==
  /\ use_napi \in Napi /\ lockup \in Lockups
  /\ allocated \in PoolSizes /\ asked = [d \in Ifs |-> 0]
  /\ ppool = [d \in Ifs |-> [i \in 1 .. allocated |-> <<d, allocated + 1 - i>>]]
  /\ rx_queue = [d \in Ifs |-> <<>>]
  /\ last = [k \in Packets |-> k[2] = 1]
  /\ status = [d \in Ifs |-> {}] /\ rx_int_enabled = [d \in Ifs |-> TRUE]
  /\ lock = [d \in Ifs |-> FALSE] /\ skb = [d \in Ifs |-> "freed"]
  /\ up = [d \in Ifs |-> TRUE] /\ stopped = [d \in Ifs |-> FALSE]
  /\ sched = [d \in Ifs |-> FALSE] /\ completed = [d \in Ifs |-> 0]
  /\ pc = [c \in Ctxs |-> "idle"] /\ hand = [c \in Ctxs |-> <<>>]
  /\ job = [d \in Ifs |-> "rx"] /\ word = [d \in Ifs |-> {}]
  /\ oops = "none"

Goto(c, from, to) == pc[c] = from /\ pc' = [pc EXCEPT ![c] = to]

-----------------------------------------------------------------------------
(* The interface goes up and down: snull_open, snull_release *)

snull_open(d) ==
  /\ ~up[d]
  /\ up' = [up EXCEPT ![d] = TRUE] /\ stopped' = [stopped EXCEPT ![d] = FALSE]
  /\ UNCHANGED <<lists, flags, fixed, sched, completed, pc, oops>>

\* The kernel lets the transmitter and the poll of the interface finish first.
snull_release(d) ==
  /\ up[d] /\ d \in MayClose
  /\ pc[Tx(d)] = "idle" /\ ~sched[d]
  /\ up' = [up EXCEPT ![d] = FALSE] /\ stopped' = [stopped EXCEPT ![d] = TRUE]
  /\ UNCHANGED <<lists, flags, fixed, sched, completed, pc, oops>>

-----------------------------------------------------------------------------
(* Pools and lists *)

\* snull_tx: the skb is remembered, to be freed at interrupt time.
snull_tx(d) ==
  /\ up[d] /\ ~stopped[d] /\ asked[d] < MaxAsked[d]
  /\ asked' = [asked EXCEPT ![d] = @ + 1]
  /\ Goto(Tx(d), "idle", "t_get")
  /\ skb' = [skb EXCEPT ![d] = "held"]
  /\ UNCHANGED <<lists, status, rx_int_enabled, lock, job, word, use_napi, lockup,
                 allocated, up, stopped, sched, completed, oops>>

snull_get_tx_buffer(d) ==
  /\ pc[Tx(d)] = "t_get" /\ ~lock[d]
  /\ \/ /\ ppool[d] # <<>>
        /\ hand'  = [hand EXCEPT ![Tx(d)] = <<Head(ppool[d])>>]
        /\ ppool' = [ppool EXCEPT ![d] = Tail(@)]
        /\ stopped' = [stopped EXCEPT ![d] = @ \/ Len(ppool[d]) = 1]
        /\ pc' = [pc EXCEPT ![Tx(d)] = "t_enqueue"]
        /\ UNCHANGED oops
     \/ /\ ppool[d] = <<>>      \* pkt->next of a null pkt
        /\ oops' = "empty pool"
        /\ UNCHANGED <<hand, ppool, stopped, pc>>
  /\ UNCHANGED <<rx_queue, last, flags, fixed, up, sched, completed>>

snull_enqueue_buf(d) ==
  LET c == Tx(d)  dest == Twin(d)  pkt == hand[c][1] IN
  /\ Goto(c, "t_enqueue", "t_test") /\ ~lock[dest]
  /\ rx_queue' = [rx_queue EXCEPT ![dest] = <<pkt>> \o @]
  /\ last' = [last EXCEPT ![pkt] = rx_queue[dest] = <<>>]
  /\ hand' = [hand EXCEPT ![c] = <<>>]
  /\ UNCHANGED <<ppool, flags, core, oops>>

\* Mutant of ReleasePush: the packet is added and the rest of the list lost.
ReleasePush_Dropped(c) ==
  LET pkt == hand[c][1]  d == Owner(pkt) IN
  /\ Goto(c, "r_push", "r_check") /\ ~lock[d]
  /\ ppool' = [ppool EXCEPT ![d] = <<pkt>>]
  /\ last' = [last EXCEPT ![pkt] = ppool[d] = <<>>]
  /\ UNCHANGED <<rx_queue, hand, flags, core, oops>>
\* snull_release_buffer: back to the owner's pool under the lock ...
ReleasePush(c) ==
  LET pkt == hand[c][1]  d == Owner(pkt) IN
  /\ Goto(c, "r_push", "r_check") /\ ~lock[d]
  /\ ppool' = [ppool EXCEPT ![d] = <<pkt>> \o @]
  /\ last' = [last EXCEPT ![pkt] = ppool[d] = <<>>]
  /\ UNCHANGED <<rx_queue, hand, flags, core, oops>>

\* Where a transmitter goes when an interrupt handler returns.
Return(d) == CASE job[d] = "rx" -> "t_load" [] job[d] = "tx" -> "idle" [] OTHER -> "w_wake"
Done(d) == job' = [job EXCEPT ![d] = IF Return(d) = "w_wake" THEN @ ELSE "rx"]

\* Mutant of ReleaseCheck: the queue is woken by a packet that was not the last.
ReleaseCheck_Inverted(c) ==
  LET pkt == hand[c][1]  d == Owner(pkt) IN
  /\ Goto(c, "r_check", IF c[1] = "tx" THEN Return(c[2]) ELSE "p_test")
  /\ stopped' = [stopped EXCEPT ![d] = @ /\ last[pkt]]
  /\ hand' = [hand EXCEPT ![c] = <<>>]
  /\ IF c[1] = "tx" THEN Done(c[2]) ELSE UNCHANGED job
  /\ UNCHANGED <<ppool, rx_queue, last, status, rx_int_enabled, lock, skb, word, fixed, up, sched, completed, oops>>
\* ... and, after it, a look at pkt->next, which may be in use again.
ReleaseCheck(c) ==
  LET pkt == hand[c][1]  d == Owner(pkt) IN
  /\ Goto(c, "r_check", IF c[1] = "tx" THEN Return(c[2]) ELSE "p_test")
  /\ stopped' = [stopped EXCEPT ![d] = @ /\ ~last[pkt]]
  /\ hand' = [hand EXCEPT ![c] = <<>>]
  /\ IF c[1] = "tx" THEN Done(c[2]) ELSE UNCHANGED job
  /\ UNCHANGED <<ppool, rx_queue, last, status, rx_int_enabled, lock, skb, word, fixed, up, sched, completed, oops>>

-----------------------------------------------------------------------------
(* snull_hw_tx: the status word is or'ed in two steps, without the lock *)

TestRxInts(d) ==
  /\ Goto(Tx(d), "t_test", IF rx_int_enabled[Twin(d)] THEN "t_rxload" ELSE "t_load")
  /\ UNCHANGED <<lists, flags, core, oops>>

LoadStatus(d) ==
  /\ \/ Goto(Tx(d), "t_rxload", "t_rxstore") /\ word' = [word EXCEPT ![d] = status[Twin(d)]]
     \/ Goto(Tx(d), "t_load", "t_store") /\ word' = [word EXCEPT ![d] = status[d]]
  /\ UNCHANGED <<lists, status, rx_int_enabled, lock, skb, job, core, oops>>

Raise(d, e, bit) == status' = [status EXCEPT ![e] = word[d] \cup {bit}]

StoreStatus(d) ==
  /\ \/ /\ Goto(Tx(d), "t_rxstore", "i_lock")
        /\ Raise(d, Twin(d), RX)
        /\ job' = [job EXCEPT ![d] = "rx"]
     \/ /\ Goto(Tx(d), "t_store", "i_lock")
        /\ Raise(d, d, TX)
        /\ job' = [job EXCEPT ![d] = "tx"]
  /\ word' = [word EXCEPT ![d] = {}]
  /\ UNCHANGED <<lists, rx_int_enabled, lock, skb, core, oops>>

\* lockup: the interrupt is dropped and the queue stopped.
Lockup(d) ==
  /\ lockup
  /\ Goto(Tx(d), "t_store", "idle")
  /\ Raise(d, d, TX)
  /\ stopped' = [stopped EXCEPT ![d] = TRUE]
  /\ word' = [word EXCEPT ![d] = {}]
  /\ UNCHANGED <<lists, rx_int_enabled, lock, skb, job, fixed, up, sched, completed, oops>>

\* snull_tx_timeout, called by the watchdog while the queue is stopped.
snull_tx_timeout(d) ==
  /\ up[d] /\ stopped[d] /\ d \in Watched
  /\ Goto(Tx(d), "idle", "i_lock")
  /\ status' = [status EXCEPT ![d] = {TX}]
  /\ job' = [job EXCEPT ![d] = "watchdog"]
  /\ UNCHANGED <<lists, rx_int_enabled, lock, skb, word, core, oops>>

TimeoutWake(d) ==
  /\ Goto(Tx(d), "w_wake", "idle")
  /\ stopped' = [stopped EXCEPT ![d] = FALSE]
  /\ job' = [job EXCEPT ![d] = "rx"]
  /\ UNCHANGED <<lists, status, rx_int_enabled, lock, skb, word, fixed, up, sched, completed, oops>>

-----------------------------------------------------------------------------
(* snull_regular_interrupt and snull_napi_interrupt, called by Tx(d) *)

Target(d) == IF job[d] = "rx" THEN Twin(d) ELSE d

IntrLock(d) ==
  LET e == Target(d) IN
  /\ Goto(Tx(d), "i_lock", "i_clear") /\ ~lock[e]
  /\ lock' = [lock EXCEPT ![e] = TRUE]
  /\ word' = [word EXCEPT ![d] = status[e]]
  /\ UNCHANGED <<lists, status, rx_int_enabled, skb, job, core, oops>>

IntrClear(d) ==
  /\ Goto(Tx(d), "i_clear", "i_handle")
  /\ status' = [status EXCEPT ![Target(d)] = {}]
  /\ UNCHANGED <<lists, rx_int_enabled, lock, skb, job, word, core, oops>>

\* Mutant of rx_schedule: the poll is not scheduled.
rx_schedule_Not(e) == rx_int_enabled' = [rx_int_enabled EXCEPT ![e] = FALSE] /\ UNCHANGED sched
\* snull_rx_ints(dev, 0) and netif_rx_schedule, which does nothing for an
\* interface that is down.
rx_schedule(e) == /\ rx_int_enabled' = [rx_int_enabled EXCEPT ![e] = FALSE]
                  /\ sched' = [sched EXCEPT ![e] = @ \/ up[e]]

IntrHandle(d) ==
  LET e == Target(d)  c == Tx(d)
      takes == RX \in word[d] /\ ~use_napi /\ rx_queue[e] # <<>> IN
  /\ Goto(c, "i_handle", IF takes THEN "r_push" ELSE Return(d))
  /\ lock' = [lock EXCEPT ![e] = FALSE]
  /\ \/ RX \in word[d] /\ use_napi /\ rx_schedule(e)
     \/ ~(RX \in word[d] /\ use_napi) /\ UNCHANGED <<rx_int_enabled, sched>>
  /\ \/ /\ takes
        /\ hand' = [hand EXCEPT ![c] = <<Head(rx_queue[e])>>]
        /\ rx_queue' = [rx_queue EXCEPT ![e] = Tail(@)]
     \/ ~takes /\ UNCHANGED <<hand, rx_queue>>
  /\ \/ /\ TX \in word[d]   \* dev_kfree_skb(priv->skb)
        /\ skb' = [skb EXCEPT ![e] = "freed"]
        /\ oops' = IF skb[e] = "held" THEN oops ELSE "skb freed twice"
     \/ TX \notin word[d] /\ UNCHANGED <<skb, oops>>
  /\ word' = [word EXCEPT ![d] = {}]
  /\ IF takes THEN UNCHANGED job ELSE Done(d)
  /\ UNCHANGED <<ppool, last, status, fixed, up, stopped, completed>>

-----------------------------------------------------------------------------
(* snull_poll *)

PollBegin(d) ==
  /\ sched[d] /\ Goto(Poll(d), "idle", "p_test")
  /\ UNCHANGED <<lists, flags, core, oops>>

\* A packet is delivered, or dropped for want of an skb.  The list cannot become
\* empty between the loop's test and snull_dequeue_buf, as nobody else takes from it.
PollDequeue(d) ==
  LET c == Poll(d) IN
  /\ Goto(c, "p_test", "r_push") /\ ~lock[d]
  /\ rx_queue[d] # <<>>
  /\ hand' = [hand EXCEPT ![c] = <<Head(rx_queue[d])>>]
  /\ rx_queue' = [rx_queue EXCEPT ![d] = Tail(@)]
  /\ UNCHANGED <<ppool, last, flags, core, oops>>

\* The list is found empty; or the quota is used up and the poll stays scheduled.
PollTest(d) ==
  /\ \/ rx_queue[d] = <<>> /\ Goto(Poll(d), "p_test", "p_complete")
     \/ rx_queue[d] # <<>> /\ Goto(Poll(d), "p_test", "idle")
  /\ UNCHANGED <<lists, flags, core, oops>>

\* netif_rx_complete, and then the interrupts.
PollComplete(d) ==
  /\ Goto(Poll(d), "p_complete", "idle") /\ completed[d] < Cpus
  /\ sched' = [sched EXCEPT ![d] = FALSE]
  /\ completed' = [completed EXCEPT ![d] = @ + 1]
  /\ UNCHANGED <<lists, flags, fixed, up, stopped, oops>>

\* Mutant of PollInts: interrupts stay off.
PollInts_Off(d) ==
  /\ completed[d] > 0 /\ completed' = [completed EXCEPT ![d] = @ - 1]
  /\ UNCHANGED <<lists, flags, fixed, up, stopped, sched, pc, oops>>
PollInts(d) ==
  /\ completed[d] > 0 /\ completed' = [completed EXCEPT ![d] = @ - 1]
  /\ rx_int_enabled' = [rx_int_enabled EXCEPT ![d] = TRUE]
  /\ UNCHANGED <<lists, status, lock, skb, job, word, fixed, up, stopped, sched, pc, oops>>

Transmit(d) ==
  \/ snull_get_tx_buffer(d) \/ snull_enqueue_buf(d) \/ TestRxInts(d) \/ LoadStatus(d)
  \/ StoreStatus(d) \/ Lockup(d) \/ TimeoutWake(d)
  \/ IntrLock(d) \/ IntrClear(d) \/ IntrHandle(d)

snull_poll(d) == PollBegin(d) \/ PollDequeue(d) \/ PollTest(d) \/ PollComplete(d) \/ PollInts(d)

\* What happens after a fault is the kernel's affair.
Oops == oops # "none" /\ UNCHANGED vars

Next ==
  \/ /\ oops = "none"
     /\ \/ \E d \in Ifs : \/ snull_open(d) \/ snull_release(d)
                          \/ snull_tx(d) \/ snull_tx_timeout(d)
                          \/ Transmit(d) \/ snull_poll(d)
        \/ \E c \in Ctxs : ReleasePush(c) \/ ReleaseCheck(c)
  \/ Oops

Spec == Init /\ [][Next]_vars

-----------------------------------------------------------------------------
(* Properties *)

\* Every packet that is in a list or in a hand.
Everywhere ==
  LET InHand(c) == IF pc[c] = "r_check" THEN <<>> ELSE hand[c]
      Of(d) == ppool[d] \o rx_queue[d] \o InHand(Tx(d)) \o InHand(Poll(d)) IN
  Of(0) \o Of(1)

\* Packets are conserved, whatever contexts run on how many CPUs: each is in one
\* pool, in one receive list or in one hand, once, and no pool has another's.
Conserved ==
  /\ IsInjective(Everywhere)
  /\ Range(Everywhere) = {pkt \in Packets : pkt[2] <= allocated}
  /\ \A d \in Ifs : \A i \in DOMAIN ppool[d] : Owner(ppool[d][i]) = d

\* An interface that stays up is never deaf: while its receive interrupts are off
\* a poll is scheduled that will turn them on, or is about to.
NeverDeaf == \A d \in Ifs \ MayClose : rx_int_enabled[d] \/ sched[d] \/ completed[d] > 0

\* A queue that was stopped for want of packets does not stay so: when there are
\* packets again, a context is about to wake it.  snull_release_buffer decides
\* that after the unlock, from a packet that is not its own any more.
QueueRestarts ==
  ~lockup => \A d \in Ifs : up[d] /\ stopped[d] /\ ppool[d] # <<>> =>
    \/ \E c \in Ctxs : pc[c] = "r_check" /\ Owner(hand[c][1]) = d /\ last[hand[c][1]]
    \/ job[d] = "watchdog" /\ pc[Tx(d)] # "idle"

\* "Remember the skb, so we can free it at interrupt time": each is freed once.
SkbFreedOnce == oops # "skb freed twice"

\* snull_get_tx_buffer stops the queue with the last packet of the pool, "Pool empty",
\* so that a transmitter never finds it empty.
PoolNeverEmpty == oops # "empty pool"
=============================================================================
