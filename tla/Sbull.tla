------------------------------- MODULE Sbull --------------------------------
(***************************************************************************)
(* sbull (Book/sbull/sbull.c): a RAM disk whose media change when it is    *)
(* left alone for a while.  The block layer (external) takes bd_sem around *)
(* open and release of one block device, transfers only while it is open,  *)
(* and only inside its capacity; the request function of the first two     *)
(* modes runs under dev->lock.  A request is one bio.                      *)
(***************************************************************************)
EXTENDS Integers

CONSTANTS Disks,     \* processes that open the disk
          Sectors    \* nsectors: positive

VARIABLES request_mode,
          bd_sem, dev_lock,         \* who holds them, or "nobody"
          users, media_change,
          b_timer, invalidating,    \* pending?  is the timer function running?
          data, content,            \* the array, and what was last written to each sector
          d_pc, insane, uneven      \* history: a failed sanity check, an uneven bio

disk_vars == <<request_mode, bd_sem, dev_lock, users, media_change, b_timer, invalidating,
               data, content, d_pc, insane, uneven>>

Blank == [s \in 0..Sectors - 1 |-> 0]

SbullInit ==
  /\ request_mode \in {"simple", "full", "noqueue"}
  /\ bd_sem = "nobody" /\ dev_lock = "nobody"
  /\ users = 0 /\ media_change = FALSE /\ b_timer = FALSE /\ invalidating = FALSE
  /\ data = Blank /\ content = Blank
  /\ d_pc = [d \in Disks |-> "closed"] /\ insane = FALSE /\ uneven = FALSE

On(d, from, to) == d_pc[d] = from /\ d_pc' = [d_pc EXCEPT ![d] = to]

-----------------------------------------------------------------------------
(* sbull_open *)

BlkOpen(d) ==
  /\ On(d, "closed", "del_timer") /\ bd_sem = "nobody" /\ bd_sem' = d
  /\ UNCHANGED <<request_mode, dev_lock, users, media_change, b_timer, invalidating, data, content, insane, uneven>>

\* A mutant: it does not wait for the timer function.
DelTimerSync_No(d) ==
  /\ On(d, "del_timer", "lock") /\ b_timer' = FALSE
  /\ UNCHANGED <<request_mode, bd_sem, dev_lock, users, media_change, invalidating, data, content, insane, uneven>>

DelTimerSync(d) ==
  /\ ~invalidating /\ On(d, "del_timer", "lock") /\ b_timer' = FALSE
  /\ UNCHANGED <<request_mode, bd_sem, dev_lock, users, media_change, invalidating, data, content, insane, uneven>>

OpenLock(d) ==
  /\ On(d, "lock", IF users = 0 /\ media_change THEN "revalidate" ELSE "count") /\ dev_lock = "nobody" /\ dev_lock' = d
  /\ UNCHANGED <<request_mode, bd_sem, users, media_change, b_timer, invalidating, data, content, insane, uneven>>

\* check_disk_change; sbull_revalidate takes no lock, it is called with it held.
Revalidate(d) ==
  /\ On(d, "revalidate", "count")
  /\ media_change' = FALSE /\ data' = Blank /\ content' = Blank
  /\ UNCHANGED <<request_mode, bd_sem, dev_lock, users, b_timer, invalidating, insane, uneven>>

OpenCount(d) ==
  /\ On(d, "count", "open") /\ users' = users + 1
  /\ dev_lock' = "nobody" /\ bd_sem' = "nobody"
  /\ UNCHANGED <<request_mode, media_change, b_timer, invalidating, data, content, insane, uneven>>

-----------------------------------------------------------------------------
(* sbull_release *)

BlkRelease(d) ==
  /\ On(d, "open", "release") /\ bd_sem = "nobody" /\ bd_sem' = d
  /\ UNCHANGED <<request_mode, dev_lock, users, media_change, b_timer, invalidating, data, content, insane, uneven>>

ReleaseLock(d) ==
  /\ On(d, "release", "idle") /\ dev_lock = "nobody" /\ dev_lock' = d /\ users' = users - 1
  /\ UNCHANGED <<request_mode, bd_sem, media_change, b_timer, invalidating, data, content, insane, uneven>>

ReleaseTimer(d) ==
  /\ On(d, "idle", "closed") /\ b_timer' = (b_timer \/ users = 0)
  /\ dev_lock' = "nobody" /\ bd_sem' = "nobody"
  /\ UNCHANGED <<request_mode, users, media_change, invalidating, data, content, insane, uneven>>

-----------------------------------------------------------------------------
(* sbull_invalidate *)

Expire ==
  /\ b_timer /\ ~invalidating /\ b_timer' = FALSE /\ invalidating' = TRUE
  /\ UNCHANGED <<request_mode, bd_sem, dev_lock, users, media_change, data, content, d_pc, insane, uneven>>

sbull_invalidate ==
  /\ invalidating /\ dev_lock = "nobody" /\ invalidating' = FALSE
  /\ IF users > 0 THEN insane' = TRUE /\ UNCHANGED media_change
     ELSE media_change' = TRUE /\ UNCHANGED insane
  /\ UNCHANGED <<request_mode, bd_sem, dev_lock, users, b_timer, data, content, d_pc, uneven>>

-----------------------------------------------------------------------------
(* Transfers *)

\* sbull_transfer: n sectors of value v from s on, none of them when that is past the end.
sbull_transfer(array, s, n, v) ==
  IF s + n > Sectors THEN array
  ELSE [x \in DOMAIN array |-> IF x \in s..s + n - 1 THEN v ELSE array[x]]

\* sbull_request asks for one segment after the other.
sbull_request(array, s, first, second, v) ==
  sbull_transfer(sbull_transfer(array, s, first, v), s + first, second, v)

\* sbull_xfer_bio moves bio_cur_sectors for every segment: the length of the first.
sbull_xfer_bio(array, s, first, second, v) ==
  IF second = 0 THEN sbull_transfer(array, s, first, v)
  ELSE sbull_transfer(sbull_transfer(array, s, first, v), s + first, first, v)

\* A bio of one or two segments.
Request ==
  /\ users > 0 /\ (request_mode = "noqueue" \/ dev_lock = "nobody")
  /\ \E s \in 0..Sectors - 1, v \in 1..2, first \in 1..Sectors, second \in 0..Sectors :
       /\ s + first + second <= Sectors
       /\ data' = IF request_mode = "simple" THEN sbull_request(data, s, first, second, v)
                  ELSE sbull_xfer_bio(data, s, first, second, v)
       /\ content' = [x \in DOMAIN content |-> IF x \in s..s + first + second - 1 THEN v ELSE content[x]]
       /\ uneven' = (uneven \/ (request_mode # "simple" /\ second \notin {0, first}))
  /\ UNCHANGED <<request_mode, bd_sem, dev_lock, users, media_change, b_timer, invalidating, d_pc, insane>>

SbullNext ==
  \/ \E d \in Disks : \/ BlkOpen(d) \/ DelTimerSync(d) \/ OpenLock(d) \/ Revalidate(d) \/ OpenCount(d)
                      \/ BlkRelease(d) \/ ReleaseLock(d) \/ ReleaseTimer(d)
  \/ Expire \/ sbull_invalidate \/ Request

-----------------------------------------------------------------------------
(* The timer function never finds a user (sbull.c:270); the flag it sets   *)
(* is gone before there is one, so the data are only cleared between the   *)
(* last release and the next open; and but for a bio of uneven segments in *)
(* the modes that take whole bios, the disk holds what was written.        *)
MediaSound ==
  /\ ~insane
  /\ users > 0 => ~media_change /\ ~b_timer
  /\ uneven \/ data = content
=============================================================================
