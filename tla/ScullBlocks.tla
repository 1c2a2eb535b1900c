----------------------------- MODULE ScullBlocks ----------------------------
(***************************************************************************)
(* Book/scullc, scullp, scullv and sculld: the quantum sets of scull with  *)
(* four allocators, asynchronous I/O, and pages that user space may map.   *)
(* ScullMem shows how bytes find their place; this module keeps the size   *)
(* of every allocated block instead of its bytes, and the page tables.     *)
(* Sizes and offsets are in pages (for scullc, in units of its smallest    *)
(* quantum), a quantum of order o being 2^o pages.  The list always has an *)
(* item, which is the device itself.                                       *)
(***************************************************************************)
EXTENDS Naturals, Sequences

CONSTANTS Procs,    \* processes
          Mappers,  \* those that may map the device, once at a time
          Drivers,  \* the drivers looked at: of "c", "p", "v", "d"
          Quanta,   \* the sizes a quantum may be given: 2^order, or scullc_quantum
          Qset,     \* dev->qset
          MaxPos    \* bound: no call starts beyond this offset

VARIABLES driver,    \* which of the four this is
          param,     \* scullX_order or scullc_quantum, as a size
          cache,     \* the object size of scullc_cache
          quantum, size, list,   \* struct scullX_dev; 0 is a block not allocated
          vmas,      \* how many times the device is mapped
          pc, pos, geo, reg,     \* of a process; reg: vmas as it has read it
          pte,       \* pte[p][o]: what p has mapped at offset o
          queued,    \* asynchronous calls whose completion is still to come
          plain,     \* has the quantum always been as loaded (scullc), or a page?
          fault

device == <<quantum, size, list>>
user   == <<pc, pos, geo, reg, pte>>
static == <<driver, cache>>
vars   == <<static, param, device, vmas, user, queued, plain, fault>>

Offsets == 0 .. MaxPos
NoData  == <<>>
Nothing == <<>>
NoPages == [o \in Offsets |-> Nothing]

Init == /\ driver \in Drivers /\ param \in Quanta
        /\ cache = param /\ quantum = param /\ size = 0 /\ list = <<NoData>>
        /\ vmas = 0 /\ queued = {} /\ fault = "none"
        /\ plain = (driver = "c" \/ param = 1)
        /\ pc = [p \in Procs |-> "closed"] /\ pos = [p \in Procs |-> 0]
        /\ geo = [p \in Procs |-> 0] /\ reg = [p \in Procs |-> 0]
        /\ pte = [p \in Procs |-> NoPages]

Goto(p, from, to) == pc[p] = from /\ pc' = [pc EXCEPT ![p] = to]

-----------------------------------------------------------------------------
(* What the four drivers share *)

\* Mutant of Trim: without the test.
Trim_Mapped ==
  /\ list' = <<NoData>> /\ size' = 0 /\ quantum' = param
  /\ pte' = [p \in Procs |-> [o \in Offsets |-> IF pte[p][o] = Nothing THEN Nothing ELSE <<"stale">>]]
\* Active mappings forbid it; otherwise what is mapped is no longer the device's.
Trim ==
  \/ vmas # 0 /\ UNCHANGED <<device, pte>>
  \/ /\ vmas = 0
     /\ list' = <<NoData>> /\ size' = 0 /\ quantum' = param
     /\ pte' = [p \in Procs |-> [o \in Offsets |-> IF pte[p][o] = Nothing THEN Nothing ELSE <<"stale">>]]

Opens(p) == /\ Goto(p, "closed", "open")
            /\ UNCHANGED <<static, param, vmas, pos, geo, reg, queued, plain, fault>>

\* A file is released when it is neither mapped nor in asynchronous use.
Release(p) ==
  /\ pte[p] = NoPages /\ p \notin queued /\ Goto(p, "open", "closed")
  /\ pos' = [pos EXCEPT ![p] = 0]
  /\ UNCHANGED <<static, param, device, vmas, geo, reg, pte, queued, plain, fault>>

\* A call copies the geometry and waits for the semaphore.
Begin(p, l) ==
  /\ Goto(p, "open", l) /\ geo' = [geo EXCEPT ![p] = quantum]
  /\ pos[p] \in Offsets
  /\ UNCHANGED <<static, param, device, vmas, pos, reg, pte, queued, plain, fault>>

Item(q, i) == i \div (q * Qset) + 1
SPos(q, i) == (i % (q * Qset)) \div q + 1
QPos(q, i) == i % q

\* Mutant of ToEnd: the count is not cut.
ToEnd_No(q, i, n) == n
ToEnd(q, i, n) == IF n > q - QPos(q, i) THEN q - QPos(q, i) ELSE n

\* The list as scullX_follow leaves it.
Followed(k) == [j \in 1 .. (IF k > Len(list) THEN k ELSE Len(list)) |->
                  IF j <= Len(list) THEN list[j] ELSE NoData]
Block(l, k, s) == IF k > Len(l) THEN 0 ELSE IF l[k] = NoData THEN 0 ELSE l[k][s]

Fail(f) == fault' = f /\ UNCHANGED <<static, param, device, vmas, user, queued, plain>>

\* The kmalloc in follow is not checked.
FollowFault(p) ==
  /\ pc[p] \in {"read", "write"} /\ Item(geo[p], pos[p]) > Len(list)
  /\ pc[p] = "read" => pos[p] <= size
  /\ Fail("null")

\* A call of n is over.  An asynchronous one had a position of its own, and tells
\* its result later, unless the kernel waits for it or has no memory.
Over(p, n) ==
  /\ pc' = [pc EXCEPT ![p] = "open"] /\ geo' = [geo EXCEPT ![p] = 0]
  /\ \/ pos' = [pos EXCEPT ![p] = @ + n] /\ UNCHANGED queued
     \/ UNCHANGED pos /\ queued' \in {queued, queued \cup {p}}
  /\ p \notin queued
  /\ UNCHANGED <<static, param, quantum, vmas, reg, pte, plain>>

\* down_interruptible fails.
Interrupted(p, call) ==
  /\ Goto(p, call, "open") /\ geo' = [geo EXCEPT ![p] = 0]
  /\ UNCHANGED <<static, param, device, vmas, pos, reg, pte, queued, plain, fault>>

\* Nothing beyond the end or in a hole, and no more than the quantum has.
Read(p) ==
  LET q == geo[p]  i == pos[p]
      l == Followed(Item(q, i))  b == Block(l, Item(q, i), SPos(q, i)) IN
  /\ pc[p] = "read"
  /\ \/ (i > size \/ b = 0) /\ Over(p, 0) /\ UNCHANGED fault
     \/ /\ i <= size /\ b # 0
        /\ \E c \in {1, 2} :
             LET n == ToEnd(q, i, IF i + c > size THEN size - i ELSE c) IN
             /\ Over(p, n)
             /\ fault' = IF QPos(q, i) + n > b /\ n > 0 THEN "overrun" ELSE fault
  /\ list' = IF i > size THEN list ELSE l
  /\ UNCHANGED size

\* new: the block the allocator gives; zeroed: how much of it is cleared.
Write(p, new, zeroed) ==
  LET q == geo[p]  i == pos[p]  k == Item(q, i)  s == SPos(q, i)
      l == Followed(k)  b == Block(l, k, s)
      table == IF l[k] = NoData THEN [j \in 1 .. Qset |-> 0] ELSE l[k] IN
  /\ pc[p] = "write"
  /\ \/ /\ b = 0 /\ list' \in {l, [l EXCEPT ![k] = table]}   \* -ENOMEM
        /\ Over(p, 0) /\ UNCHANGED <<size, fault>>
     \/ /\ list' = [l EXCEPT ![k] = [table EXCEPT ![s] = IF b = 0 THEN new ELSE b]]
        /\ \/ Over(p, 0) /\ UNCHANGED <<size, fault>>        \* -EFAULT
           \/ \E c \in {1, 2} :
                LET n == ToEnd(q, i, c) IN
                /\ Over(p, n)
                /\ size' = IF size < i + n THEN i + n ELSE size
                /\ fault' = IF \/ b = 0 /\ zeroed > new
                               \/ QPos(q, i) + n > (IF b = 0 THEN new ELSE b)
                            THEN "overrun" ELSE fault

\* The order field of an item that follow has added is zero.
OrderOf(p) == IF Item(geo[p], pos[p]) = 1 THEN quantum ELSE 1

Ioctl(p) ==
  /\ pc[p] = "open" /\ param' \in Quanta
  /\ plain' = (plain /\ param' = IF driver = "c" THEN cache ELSE 1)
  /\ UNCHANGED <<static, device, vmas, user, queued, fault>>

Llseek(p) ==
  /\ pc[p] = "open" /\ \E i \in Offsets : pos' = [pos EXCEPT ![p] = i]
  /\ UNCHANGED <<static, param, device, vmas, pc, geo, reg, pte, queued, plain, fault>>

\* The work item of an asynchronous call tells its result.
Deferred(p) ==
  /\ p \in queued /\ queued' = queued \ {p}
  /\ UNCHANGED <<static, param, device, vmas, user, plain, fault>>

-----------------------------------------------------------------------------
(* Mappings: vmas++ and vmas-- are a load and a store, without the semaphore *)

Mmap(p) ==
  /\ p \in Mappers /\ Goto(p, "open", "m_load")
  /\ UNCHANGED <<static, param, device, vmas, pos, geo, reg, pte, queued, plain, fault>>

VmaOpen(p) ==
  \/ /\ Goto(p, "m_load", "m_store") /\ reg' = [reg EXCEPT ![p] = vmas]
     /\ UNCHANGED <<static, param, device, vmas, pos, geo, pte, queued, plain, fault>>
  \/ /\ Goto(p, "m_store", "mapped") /\ vmas' = reg[p] + 1 /\ reg' = [reg EXCEPT ![p] = 0]
     /\ UNCHANGED <<static, param, device, pos, geo, pte, queued, plain, fault>>

\* The pages of the mapping are given back before it is closed.
VmaClose(p) ==
  \/ /\ Goto(p, "mapped", "u_store") /\ reg' = [reg EXCEPT ![p] = vmas]
     /\ pte' = [pte EXCEPT ![p] = NoPages]
     /\ UNCHANGED <<static, param, device, vmas, pos, geo, queued, plain, fault>>
  \/ /\ Goto(p, "u_store", "open") /\ vmas' = reg[p] - 1 /\ reg' = [reg EXCEPT ![p] = 0]
     /\ UNCHANGED <<static, param, device, pos, geo, pte, queued, plain, fault>>

\* The fault at page o; past the end and in holes it is a SIGBUS.
Nopage(p) ==
  /\ pc[p] = "mapped"
  /\ \E o \in Offsets :
       /\ o < size /\ pte[p][o] = Nothing
       /\ LET k == o \div Qset + 1  s == (o % Qset) + 1 IN
          /\ k <= Len(list) /\ Block(list, k, s) # 0
          /\ pte' = [pte EXCEPT ![p][o] = <<k, s>>]
  /\ UNCHANGED <<static, param, device, vmas, pc, pos, geo, reg, queued, plain, fault>>

-----------------------------------------------------------------------------
(* The drivers *)

scullc_trim == driver = "c" /\ Trim
scullc_open(p)  == driver = "c" /\ Opens(p) /\ (scullc_trim \/ UNCHANGED <<device, pte>>)
scullc_release(p) == driver = "c" /\ Release(p)
scullc_read(p)   == driver = "c" /\ (Begin(p, "read") \/ Interrupted(p, "read") \/ Read(p))
scullc_write(p)  == driver = "c" /\ (Begin(p, "write") \/ Interrupted(p, "write") \/ Write(p, cache, param))
scullc_follow(p) == driver = "c" /\ FollowFault(p)
scullc_ioctl(p)  == driver = "c" /\ Ioctl(p)
scullc_llseek(p) == driver = "c" /\ Llseek(p)
scullc_aio(p)    == driver = "c" /\ Deferred(p)

scullp_trim == driver = "p" /\ Trim
scullp_open(p)  == driver = "p" /\ Opens(p) /\ (scullp_trim \/ UNCHANGED <<device, pte>>)
scullp_release(p) == driver = "p" /\ Release(p)
scullp_read(p)   == driver = "p" /\ (Begin(p, "read") \/ Interrupted(p, "read") \/ Read(p))
scullp_write(p)  == driver = "p" /\ (Begin(p, "write") \/ Interrupted(p, "write") \/ Write(p, OrderOf(p), OrderOf(p)))
scullp_follow(p) == driver = "p" /\ FollowFault(p)
scullp_ioctl(p)  == driver = "p" /\ Ioctl(p)
scullp_llseek(p) == driver = "p" /\ Llseek(p)
scullp_aio(p)    == driver = "p" /\ Deferred(p)
scullp_mmap(p)   == driver = "p" /\ quantum = 1 /\ Mmap(p)
scullp_vma(p)    == driver = "p" /\ (VmaOpen(p) \/ VmaClose(p))
scullp_vma_nopage(p) == driver = "p" /\ Nopage(p)

scullv_trim == driver = "v" /\ Trim
scullv_open(p)  == driver = "v" /\ Opens(p) /\ (scullv_trim \/ UNCHANGED <<device, pte>>)
scullv_release(p) == driver = "v" /\ Release(p)
scullv_read(p)   == driver = "v" /\ (Begin(p, "read") \/ Interrupted(p, "read") \/ Read(p))
scullv_write(p)  == driver = "v" /\ (Begin(p, "write") \/ Interrupted(p, "write") \/ Write(p, OrderOf(p), OrderOf(p)))
scullv_follow(p) == driver = "v" /\ FollowFault(p)
scullv_ioctl(p)  == driver = "v" /\ Ioctl(p)
scullv_llseek(p) == driver = "v" /\ Llseek(p)
scullv_aio(p)    == driver = "v" /\ Deferred(p)
scullv_mmap(p)   == driver = "v" /\ Mmap(p)
scullv_vma(p)    == driver = "v" /\ (VmaOpen(p) \/ VmaClose(p))
scullv_vma_nopage(p) == driver = "v" /\ Nopage(p)

sculld_trim == driver = "d" /\ Trim
sculld_open(p)  == driver = "d" /\ Opens(p) /\ (sculld_trim \/ UNCHANGED <<device, pte>>)
sculld_release(p) == driver = "d" /\ Release(p)
sculld_read(p)   == driver = "d" /\ (Begin(p, "read") \/ Interrupted(p, "read") \/ Read(p))
sculld_write(p)  == driver = "d" /\ (Begin(p, "write") \/ Interrupted(p, "write") \/ Write(p, OrderOf(p), OrderOf(p)))
sculld_follow(p) == driver = "d" /\ FollowFault(p)
sculld_ioctl(p)  == driver = "d" /\ Ioctl(p)
sculld_llseek(p) == driver = "d" /\ Llseek(p)
sculld_aio(p)    == driver = "d" /\ Deferred(p)
sculld_mmap(p)   == driver = "d" /\ quantum = 1 /\ Mmap(p)
sculld_vma(p)    == driver = "d" /\ (VmaOpen(p) \/ VmaClose(p))
sculld_vma_nopage(p) == driver = "d" /\ Nopage(p)

scullc(p) == \/ scullc_open(p) \/ scullc_release(p) \/ scullc_read(p) \/ scullc_write(p)
             \/ scullc_follow(p) \/ scullc_ioctl(p) \/ scullc_llseek(p) \/ scullc_aio(p)
scullp(p) == \/ scullp_open(p) \/ scullp_release(p) \/ scullp_read(p) \/ scullp_write(p)
             \/ scullp_follow(p) \/ scullp_ioctl(p) \/ scullp_llseek(p) \/ scullp_aio(p)
             \/ scullp_mmap(p) \/ scullp_vma(p) \/ scullp_vma_nopage(p)
scullv(p) == \/ scullv_open(p) \/ scullv_release(p) \/ scullv_read(p) \/ scullv_write(p)
             \/ scullv_follow(p) \/ scullv_ioctl(p) \/ scullv_llseek(p) \/ scullv_aio(p)
             \/ scullv_mmap(p) \/ scullv_vma(p) \/ scullv_vma_nopage(p)
sculld(p) == \/ sculld_open(p) \/ sculld_release(p) \/ sculld_read(p) \/ sculld_write(p)
             \/ sculld_follow(p) \/ sculld_ioctl(p) \/ sculld_llseek(p) \/ sculld_aio(p)
             \/ sculld_mmap(p) \/ sculld_vma(p) \/ sculld_vma_nopage(p)

Faulted == fault # "none" /\ UNCHANGED vars

Next ==
  \/ /\ fault = "none"
     /\ \E p \in Procs : scullc(p) \/ scullp(p) \/ scullv(p) \/ sculld(p)
  \/ Faulted

Spec == Init /\ [][Next]_vars

-----------------------------------------------------------------------------
(* Properties *)

\* As long as its quanta are of the size it was loaded with (scullc) or of one page
\* (the others), no read, write or clearing goes past the end of an allocated block,
\* also for a call that had copied the geometry before a trim.
WithinBlocks == fault = "overrun" => ~plain

\* "Just keep track of how many times the device is mapped, to avoid releasing it":
\* what a process has mapped at an offset is the block a read finds there.
MappedIsCurrent ==
  plain => \A p \in Procs : \A o \in Offsets :
    pte[p][o] # Nothing =>
      /\ pte[p][o] = <<Item(quantum, o), SPos(quantum, o)>>
      /\ Block(list, Item(quantum, o), SPos(quantum, o)) # 0

\* "Write only up to the end of this quantum".
UpToTheEnd == fault # "overrun"
=============================================================================
