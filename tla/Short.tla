------------------------------- MODULE Short --------------------------------
(***************************************************************************)
(* short (Book/short/short.c): the interrupt node.  Writing it toggles the *)
(* data latch, which a wire may turn into interrupts; the handler, or the  *)
(* tasklet or work it schedules, prints records of 16 bytes into a page    *)
(* that readers empty.  Handler, bottom half and readers run on different  *)
(* processors, so each step below is what one of them does between two     *)
(* accesses to shared state.  A record is two units long, so that a reader *)
(* may leave half of one.  Bottom halves of short do not run beside each   *)
(* other; handlers of one line do not either.                              *)
(***************************************************************************)
EXTENDS Integers, Sequences, FiniteSets

CONSTANTS Readers,
          Size,      \* units in the page, an even number above two: two for each record
          NrTv,      \* NR_TIMEVAL: positive
          MaxIrq     \* bound: interrupts that are served

VARIABLES mode,              \* which handler was installed at load time
          latch, line,       \* bit 7 of the port, an edge not yet served
          irqs,              \* interrupts served: the time of the last
          head, tail, page,
          tv, tv_head, tv_tail, count, pending,
          h_pc,              \* the handler
          bh_pc, saved,       \* the bottom half
          r_pc, took,        \* the readers, and what each has copied and not given up
          sent, got, excuse  \* history: records printed, units read, and what spoils the order

port_vars == <<latch, line>>
tv_vars == <<tv, tv_head, tv_tail, count, pending>>
page_vars == <<head, tail, page>>
handler_vars == <<h_pc, irqs>>
bh_vars == <<bh_pc, saved>>
reader_vars == <<r_pc, took, got>>
short_vars == <<mode, port_vars, tv_vars, page_vars, handler_vars, bh_vars, reader_vars, sent, excuse>>

Nul == <<0, 0, 0>>

ShortInit ==
  /\ mode \in {"direct", "shared", "halves"}
  /\ latch = 0 /\ line = FALSE
  /\ irqs = 0 /\ head = 0 /\ tail = 0 /\ page = [u \in 0..Size - 1 |-> Nul]
  /\ tv = [i \in 0..NrTv - 1 |-> 0] /\ tv_head = 0 /\ tv_tail = 0 /\ count = 0 /\ pending = FALSE
  /\ h_pc = "idle" /\ bh_pc = "idle" /\ saved = 0
  /\ r_pc = [r \in Readers |-> "idle"] /\ took = [r \in Readers |-> <<>>]
  /\ sent = <<>> /\ got = <<>> /\ excuse = {}

Split == mode = "halves"   \* tl or wq: the tasklet and the work run the same function

-----------------------------------------------------------------------------
(* The data port: a wire from bit 7 to the interrupt line. *)

Out(bit) == latch' = bit /\ line' = (line \/ (latch = 0 /\ bit = 1))

\* A byte of do_short_write, or of short_i_write, which toggles with the position: every
\* open file has its own, so either bit may come next.  (No edge once MaxIrq are served.)
Write ==
  /\ irqs < MaxIrq /\ \E bit \in 0..1 : Out(bit)
  /\ UNCHANGED <<mode, tv_vars, page_vars, handler_vars, bh_vars, reader_vars, sent, excuse>>

-----------------------------------------------------------------------------
(* The page of records. *)

short_incr_bp(index, delta) == IF index + delta >= Size THEN 0 ELSE index + delta

Spoil(what, happens) == excuse' = IF happens THEN excuse \cup {what} ELSE excuse

Unread == IF head >= tail THEN head - tail ELSE Size - tail + head

\* sprintf of a record at short_head, and the zero that follows it, whatever is there.
PutRecord(rec) ==
  /\ page' = [u \in 0..Size - 1 |->
       IF u = head THEN Append(rec, 0) ELSE IF u = head + 1 THEN Append(rec, 1)
       ELSE IF u = head + 2 THEN Nul ELSE page[u]]
  /\ Spoil("overrun", Unread + 2 >= Size)

\* The head moves over the record.
Advance ==
  /\ head' = short_incr_bp(head, 2)
  /\ sent' = Append(sent, SubSeq(page[head], 1, 2))
  /\ UNCHANGED <<tail, page, excuse>>

\* wake_up_interruptible(&short_queue)
WakeUp == r_pc' = [r \in Readers |-> CASE r_pc[r] = "queued" -> "roused"
                                       [] r_pc[r] = "asleep" -> "finish"
                                       [] OTHER -> r_pc[r]]

-----------------------------------------------------------------------------
(* short_interrupt, short_sh_interrupt *)

Handler(from, to) == h_pc = from /\ h_pc' = to

Interrupt ==
  /\ Handler("idle", IF Split THEN "store" ELSE "print")
  /\ line /\ line' = FALSE /\ irqs < MaxIrq /\ irqs' = irqs + 1
  /\ IF mode = "shared" THEN latch = 1 /\ latch' = 0 ELSE UNCHANGED latch
  /\ UNCHANGED <<mode, tv_vars, page_vars, bh_vars, reader_vars, sent, excuse>>

\* On a shared line: the bit is found clear, or another device interrupts.
NotMine ==
  /\ mode = "shared" /\ h_pc = "idle" /\ latch = 0 /\ line
  /\ line' = FALSE
  /\ UNCHANGED <<mode, latch, tv_vars, page_vars, handler_vars, bh_vars,
                 reader_vars, sent, excuse>>
NotTheirs ==
  /\ mode = "shared" /\ Handler("idle", "print") /\ latch = 1 /\ ~line
  /\ latch' = 0 /\ irqs < MaxIrq /\ irqs' = irqs + 1
  /\ UNCHANGED <<mode, line, tv_vars, page_vars, bh_vars, reader_vars, sent, excuse>>

HandlerPrint ==
  /\ Handler("print", "advance") /\ PutRecord(<<"time", irqs>>)
  /\ UNCHANGED <<mode, port_vars, tv_vars, head, tail, irqs, bh_vars, reader_vars, sent>>

HandlerAdvance ==
  /\ Handler("advance", "wake") /\ Advance
  /\ UNCHANGED <<mode, port_vars, tv_vars, irqs, bh_vars, reader_vars>>

HandlerWake ==
  /\ Handler("wake", "idle") /\ WakeUp
  /\ UNCHANGED <<mode, port_vars, tv_vars, page_vars, irqs, bh_vars, took, got, sent, excuse>>

-----------------------------------------------------------------------------
(* short_wq_interrupt, short_tl_interrupt *)

short_incr_tv(tvp) == IF tvp = NrTv - 1 THEN 0 ELSE tvp + 1

\* The k-th record printed is a time; how many of the first k are.
IsTime(k)  == sent[k][1] = "time"
TimesTo(k) == Cardinality({i \in 1..k : IsTime(i)})

\* Nothing tests whether the array is full: a time that is not printed yet may be lost.
Store ==
  /\ Handler("store", "incr_tv") /\ tv' = [tv EXCEPT ![tv_head] = irqs]
  /\ Spoil("lapped", tv[tv_head] # 0 /\ \A i \in 1..Len(sent) : sent[i] # <<"time", tv[tv_head]>>)
  /\ UNCHANGED <<mode, port_vars, tv_head, tv_tail, count, pending, page_vars, irqs, bh_vars,
                 reader_vars, sent>>

IncrTv ==
  /\ Handler("incr_tv", "schedule") /\ tv_head' = short_incr_tv(tv_head)
  /\ Spoil("overlap", bh_pc # "idle")
  /\ UNCHANGED <<mode, port_vars, tv, tv_tail, count, pending, page_vars, irqs, bh_vars,
                 reader_vars, sent>>

\* schedule_work, tasklet_schedule: nothing if it is pending already.
Schedule ==
  /\ Handler("schedule", "count") /\ pending' = TRUE
  /\ Spoil("overlap", bh_pc # "idle")
  /\ UNCHANGED <<mode, port_vars, tv, tv_head, tv_tail, count, page_vars, irqs, bh_vars,
                 reader_vars, sent>>

Count ==
  /\ Handler("count", "idle") /\ count' = count + 1
  /\ UNCHANGED <<mode, port_vars, tv, tv_head, tv_tail, pending, page_vars, irqs, bh_vars,
                 reader_vars, sent, excuse>>

-----------------------------------------------------------------------------
(* short_do_tasklet *)

Bh(from, to) == bh_pc = from /\ bh_pc' = to

BhSave ==
  /\ Bh("idle", "reset") /\ pending /\ pending' = FALSE /\ saved' = count
  /\ Spoil("overlap", h_pc = "schedule")
  /\ UNCHANGED <<mode, port_vars, tv, tv_head, tv_tail, count, page_vars, handler_vars,
                 reader_vars, sent>>

BhReset ==
  /\ Bh("reset", "bh_after") /\ count' = 0
  /\ UNCHANGED <<mode, port_vars, tv, tv_head, tv_tail, pending, page_vars, handler_vars,
                 saved, reader_vars, sent, excuse>>

BhPrint ==
  /\ \/ Bh("bh_after", "bh_advance") /\ PutRecord(<<"after", saved>>)
     \/ Bh("value", "advance")       /\ PutRecord(<<"time", tv[tv_tail]>>)
  /\ UNCHANGED <<mode, port_vars, tv_vars, head, tail, handler_vars, saved, reader_vars, sent>>

BhAdvance ==
  /\ Bh("bh_advance", "value") /\ Advance
  /\ UNCHANGED <<mode, port_vars, tv_vars, handler_vars, saved, reader_vars>>

\* A mutant: the test before the increment.
BhLoop_Late ==
  /\ Bh("advance", IF tv_tail = tv_head THEN "wake" ELSE "value")
  /\ Advance /\ tv_tail' = short_incr_tv(tv_tail)
  /\ UNCHANGED <<mode, port_vars, tv, tv_head, count, pending, handler_vars, saved, reader_vars>>

\* do ... while (tv_tail != tv_head)
BhLoop ==
  /\ Bh("advance", IF short_incr_tv(tv_tail) = tv_head THEN "wake" ELSE "value")
  /\ Advance /\ tv_tail' = short_incr_tv(tv_tail)
  /\ UNCHANGED <<mode, port_vars, tv, tv_head, count, pending, handler_vars, saved, reader_vars>>

BhWake ==
  /\ Bh("wake", "idle") /\ WakeUp
  /\ UNCHANGED <<mode, port_vars, tv_vars, page_vars, handler_vars, saved, took, got, sent, excuse>>

-----------------------------------------------------------------------------
(* short_i_read *)

Goto(r, from, to) == r_pc[r] = from /\ r_pc' = [r_pc EXCEPT ![r] = to]

outside == <<mode, port_vars, tv_vars, handler_vars, bh_vars, sent>>

Test(r) ==
  /\ Goto(r, "idle", IF head = tail THEN "empty" ELSE "ready")
  /\ UNCHANGED <<outside, page_vars, took, got, excuse>>

prepare_to_wait(r) ==
  /\ Goto(r, "empty", "queued")
  /\ UNCHANGED <<outside, page_vars, took, got, excuse>>

\* A mutant: no second test.
Retest_No(r) ==
  /\ Goto(r, "queued", "asleep") \/ Goto(r, "roused", "finish")
  /\ UNCHANGED <<outside, page_vars, took, got, excuse>>

\* The second test, and schedule(), which returns at once when a wake-up came before it.
Retest(r) ==
  /\ \/ Goto(r, "queued", IF head = tail THEN "asleep" ELSE "finish")
     \/ Goto(r, "roused", "finish")
  /\ UNCHANGED <<outside, page_vars, took, got, excuse>>

\* finish_wait and once more around the loop, or a signal.
Again(r) ==
  /\ \/ Goto(r, "finish", IF head = tail THEN "empty" ELSE "ready")
     \/ Goto(r, "finish", "idle")
     \/ Goto(r, "asleep", "idle")
  /\ UNCHANGED <<outside, page_vars, took, got, excuse>>

\* What copy_to_user gives; the tail stays where it is for now.
Copy(r) ==
  \E n \in 1..2 :
    LET count0 == IF head - tail < 0 THEN Size - tail ELSE head - tail
        k == IF count0 < n THEN count0 ELSE n
    IN  /\ Goto(r, "ready", "copied")
        /\ took' = [took EXCEPT ![r] = [i \in 1..k |-> page[tail + i - 1]]]
        /\ Spoil("twice", \E q \in Readers \ {r} : r_pc[q] = "copied")
        /\ UNCHANGED <<outside, page_vars, got>>

CopyFault(r) ==
  /\ Goto(r, "ready", "idle")
  /\ UNCHANGED <<outside, page_vars, took, got, excuse>>

Consume(r) ==
  /\ Goto(r, "copied", "idle")
  /\ tail' = short_incr_bp(tail, Len(took[r])) /\ got' = got \o took[r]
  /\ took' = [took EXCEPT ![r] = <<>>]
  /\ UNCHANGED <<outside, head, page, excuse>>

-----------------------------------------------------------------------------
ShortNext ==
  \/ Write
  \/ Interrupt \/ NotMine \/ NotTheirs \/ HandlerPrint \/ HandlerAdvance \/ HandlerWake
  \/ Store \/ IncrTv \/ Schedule \/ Count
  \/ BhSave \/ BhReset \/ BhPrint \/ BhAdvance \/ BhLoop \/ BhWake
  \/ \E r \in Readers : \/ Test(r) \/ prepare_to_wait(r) \/ Retest(r) \/ Again(r)
                        \/ Copy(r) \/ CopyFault(r) \/ Consume(r)

-----------------------------------------------------------------------------
(* Unless two readers copied from the same tail, or the head overran it, a *)
(* reader that sleeps beside records has its wake-up coming: the second    *)
(* test, after prepare_to_wait (short.c:287), leaves no gap before sleep.  *)
ReaderWoken ==
  excuse \cap {"overrun", "twice"} # {} \/ head = tail \/ h_pc = "wake" \/ bh_pc # "idle" \/
    \A r \in Readers : r_pc[r] # "asleep"

\* A record is two units; the units of the page that nobody has consumed.
Units(recs) == [u \in 1..2 * Len(recs) |-> Append(recs[(u + 1) \div 2], (u + 1) % 2)]
Remaining   == [i \in 1..Unread |-> page[(tail + i - 1) % Size]]

(* What four races can spoil, and nothing else (short.c:286-303, 363-410): *)
(* readers get the records in the order they were printed, each once,      *)
(* unless the head overruns the tail or two readers share one; and every   *)
(* interrupt has its time printed once, in order, unless a handler ran     *)
(* beside the bottom half, whose next run then prints the whole array, or  *)
(* lapped it.                                                              *)
OnceInOrder ==
  /\ excuse \cap {"overrun", "twice"} = {} => got \o Remaining = Units(sent)
  /\ excuse \cap {"overlap", "lapped"} = {} =>
       /\ \A k \in 1..Len(sent) : IsTime(k) => sent[k][2] = TimesTo(k)
       /\ h_pc = "idle" /\ bh_pc = "idle" /\ ~pending => TimesTo(Len(sent)) = irqs

=============================================================================
