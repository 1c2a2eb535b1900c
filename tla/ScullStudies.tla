---------------------------- MODULE ScullStudies ----------------------------
(***************************************************************************)
(* The three rewritten memory devices: exercise/scull ("scull"),           *)
(* exercise/scull_cache ("cache") and exercise/scull_page ("page").  Every *)
(* call runs under the device's semaphore, so a call is one step; positions*)
(* are those of pread, pwrite, or a seek before the call.  What a call     *)
(* does that spoils the file, or that C leaves open, goes into wrong; a    *)
(* device that was wrecked so, or whose semaphore is kept, serves no more. *)
(***************************************************************************)
EXTENDS Integers, Sequences, FiniteSets

CONSTANTS MaxPos,    \* bound: the last position
          MaxCount   \* bound: bytes of a call

VARIABLES study,
          geo,       \* dev->quantum, or the bytes of its order, and dev->qset
          param,     \* the same of the module's parameters
          csize,     \* size of the cache's objects
          items,     \* the list: each item's array has len entries, cell[s] is <<>> or bytes
          size, file, wrong, up

study_vars == <<study, geo, param, csize, items, size, file, wrong, up>>

Positions == 0..MaxPos
Junk == 9
PAGE_SIZE == 2
Geometry == {[q |-> PAGE_SIZE * k, n |-> n] : k \in 1..2, n \in 1..2}

StudyInit ==
  /\ study \in {"scull", "cache", "page"}
  /\ geo \in Geometry /\ param = geo /\ csize = geo.q
  /\ items = <<>> /\ size = 0 /\ file = [p \in Positions |-> 0]
  /\ wrong = {} /\ up = TRUE

Item(p) == p \div (geo.q * geo.n)
SPos(p) == (p % (geo.q * geo.n)) \div geo.q
QPos(p) == p % geo.q

Array(len) == [len |-> len, cell |-> [s \in 0..3 |-> <<>>]]
NoArray == Array(0)

Has(list, p) == /\ Item(p) < Len(list)
                /\ list[Item(p) + 1].len > 0
                /\ list[Item(p) + 1].cell[SPos(p)] # <<>>

Byte(p) == IF Has(items, p) THEN items[Item(p) + 1].cell[SPos(p)][QPos(p) + 1] ELSE 0

Spoils(reasons) == wrong' = wrong \cup reasons
Wreck(why) == /\ wrong' = wrong \cup {why} /\ up' = FALSE
              /\ UNCHANGED <<study, geo, param, csize, items, size, file>>

-----------------------------------------------------------------------------
(* follow: the list up to item n, or as far as memory lasts.  In the cache *)
(* the first item comes with an array, of as many entries as the quantum   *)
(* has bytes; in the page driver a second item is lost.                    *)
FirstItem == IF study = "cache" THEN {NoArray, Array(param.q)} ELSE {NoArray}

Longer(e, a) == items \o [k \in 1..e |-> IF k = 1 /\ items = <<>> THEN a ELSE NoArray]

follow(n) ==
  {Longer(e, a) : e \in 0..(IF n < Len(items) THEN 0 ELSE n + 1 - Len(items)), a \in FirstItem}

\* The array and the quantum of a position, as write finds or makes them.
WithArray(list, p) ==
  IF list[Item(p) + 1].len > 0 THEN list
  ELSE [list EXCEPT ![Item(p) + 1] = Array(geo.n)]

WithQuantum(list, p) ==
  IF list[Item(p) + 1].cell[SPos(p)] # <<>> THEN list
  ELSE [list EXCEPT ![Item(p) + 1].cell[SPos(p)] =
          IF study = "cache" THEN [b \in 1..csize |-> Junk] ELSE [b \in 1..geo.q |-> 0]]

\* A mutant of Fill: the position in the quantum is left out.
Fill_NoOffset(list, p, o, k, v) ==
  [list EXCEPT ![Item(p) + 1].cell[SPos(p)] =
     [b \in DOMAIN @ |-> IF b <= k THEN v ELSE @[b]]]

\* k bytes of value v go to the quantum of p, from its byte o on.
Fill(list, p, o, k, v) ==
  [list EXCEPT ![Item(p) + 1].cell[SPos(p)] =
     [b \in DOMAIN @ |-> IF b - 1 \in o..o + k - 1 THEN v ELSE @[b]]]

Store(list, p, k, v) ==
  /\ items' = list
  /\ size' = IF p + k > size THEN p + k ELSE size
  /\ file' = [x \in Positions |-> IF x \in p..p + k - 1 THEN v ELSE file[x]]

\* A call that fails, on a copy after k bytes or for lack of memory.
Fails(list, p, k, v) ==
  /\ items' = list
  /\ file' = [x \in Positions |-> IF x \in p..p + k - 1 THEN v ELSE file[x]]
  /\ UNCHANGED size

Least(a, b) == IF a < b THEN a ELSE b
quiet == <<study, geo, param, csize>>

-----------------------------------------------------------------------------
(* exercise/scull *)

scull_write(p, count, v) ==
  /\ study = "scull" /\ up /\ UNCHANGED <<quiet, wrong, up>>
  /\ \E list \in follow(Item(p)) :
       IF Item(p) >= Len(list) THEN Fails(list, p, 0, v)
       ELSE LET there == WithQuantum(WithArray(list, p), p)
                k == Least(count, geo.q - QPos(p))
            IN  \/ Fails(list, p, 0, v) \/ Fails(WithArray(list, p), p, 0, v)
                \/ \E d \in 0..k - 1 : Fails(Fill(there, p, QPos(p), d, v), p, d, v)
                \/ Store(Fill(there, p, QPos(p), k, v), p, k, v)

\* scull_open for writing: O_ACCMODE == O_WRONLY comes first, so nothing is ever trimmed.
scull_open == study \in {"scull", "page"} /\ up /\ UNCHANGED study_vars

-----------------------------------------------------------------------------
(* exercise/scull_cache *)

\* The array pointer moves by quan_pos with each copy; a longer write fills one quantum twice.
scullc_write(p, count, v) ==
  /\ study = "cache" /\ up /\ SPos(p) = 0 /\ QPos(p) + Least(count, geo.q - QPos(p)) <= csize
  /\ UNCHANGED quiet
  /\ \E list \in follow(Item(p)) :
       IF Item(p) >= Len(list) THEN Fails(list, p, 0, v) /\ UNCHANGED <<wrong, up>>
       ELSE LET there == WithQuantum(WithArray(list, p), p)
                first == Least(count, geo.q - QPos(p))
                once  == Fill(there, p, QPos(p), first, v)
            IN  \/ /\ list[Item(p) + 1].len = 0      \* no memory: up() is missing
                   /\ Fails(list, p, 0, v) /\ up' = FALSE /\ Spoils({"semaphore"})
                \/ Fails(WithArray(list, p), p, 0, v) /\ UNCHANGED <<wrong, up>>
                \/ /\ \E d \in 0..first - 1 : Fails(Fill(there, p, QPos(p), d, v), p, d, v)
                   /\ UNCHANGED <<wrong, up>>
                \/ /\ \E d \in 0..count - first - 1 : Fails(Fill(once, p, 0, d, v), p, first, v)
                   /\ Spoils({"twice"}) /\ UNCHANGED up
                \/ /\ Store(IF count = first THEN once ELSE Fill(once, p, 0, count - first, v),
                            p, count, v)
                   /\ Spoils((IF count = first THEN {} ELSE {"twice"}) \cup
                             (IF p > size THEN {"hole"} ELSE {}))
                   /\ UNCHANGED up

scullc_write_Wrecks(p, count) ==
  /\ study = "cache" /\ up
  /\ \/ SPos(p) # 0 /\ Wreck("moved array")
     \/ QPos(p) + Least(count, geo.q - QPos(p)) > csize /\ Wreck("past the object")

\* read makes the items it looks for, the one after the end among them.
scullc_read(p, count) ==
  /\ study = "cache" /\ up /\ p <= size
  /\ \E list \in follow(Item(p)) :
       IF Item(p) >= Len(list) THEN Wreck("no item")
       ELSE /\ items' = list /\ UNCHANGED <<quiet, size, file, wrong, up>>

scullc_open ==
  /\ study = "cache" /\ up
  /\ IF \E i \in 1..Len(items) : items[i].len < geo.n
     THEN Wreck("trim")   \* next is not set, or the array is shorter than qset_size
     ELSE /\ geo' = param /\ items' = <<>> /\ size' = 0 /\ file' = [p \in Positions |-> 0]
          /\ UNCHANGED <<study, param, csize, wrong, up>>

-----------------------------------------------------------------------------
(* exercise/scull_page *)

\* PAGE_SIZE << (order - rest): any limit when the shift is negative.
Clipped(count, rest) ==
  LET order == geo.q \div PAGE_SIZE - 1
  IN  IF rest > order THEN 0..count ELSE {Least(count, IF rest = 0 THEN geo.q ELSE PAGE_SIZE)}

scullp_write(p, count, v) ==
  /\ study = "page" /\ up /\ Item(p) = 0
  /\ \E list \in follow(0) \ {<<>>} :
       LET there == WithQuantum(WithArray(list, p), p)
       IN  \/ (Fails(items, p, 0, v) \/ Fails(list, p, 0, v) \/ Fails(WithArray(list, p), p, 0, v))
                /\ UNCHANGED <<quiet, wrong, up>>
           \/ \E k \in Clipped(count, QPos(p)) :
                IF QPos(p) + k > geo.q THEN Wreck("past the pages")
                ELSE /\ \/ Store(Fill(there, p, QPos(p), k, v), p, k, v)
                        \/ \E d \in 0..k - 1 : Fails(Fill(there, p, QPos(p), d, v), p, d, v)
                     /\ UNCHANGED <<quiet, wrong, up>>

\* A second item is allocated and lost; the search for a third starts from NULL.
scullp_write_Lost(p) ==
  /\ study = "page" /\ up /\ Item(p) > 0
  /\ \/ Wreck("no item")
     \/ /\ Item(p) = 1 /\ \E list \in follow(0) : Fails(list, p, 0, 0)
        /\ UNCHANGED <<quiet, wrong, up>>

scullp_read(p) ==
  /\ study = "page" /\ up /\ p <= size /\ Item(p) < Len(items)
  /\ items[Item(p) + 1].len = 0 /\ Wreck("no array")

-----------------------------------------------------------------------------
\* The ioctls of cache and page set the parameters; scull's are in no file_operations.
Ioctl ==
  /\ study \in {"cache", "page"}
  /\ \E g \in Geometry : param' = g
  /\ UNCHANGED <<study, geo, csize, items, size, file, wrong, up>>

StudyNext ==
  \/ \E p \in Positions, count \in 1..MaxCount, v \in 1..2 :
       /\ p + count <= MaxPos + 1
       /\ \/ scull_write(p, count, v) \/ scullc_write(p, count, v) \/ scullp_write(p, count, v)
  \/ \E p \in Positions, count \in 1..MaxCount :
       scullc_write_Wrecks(p, count) \/ scullc_read(p, count)
  \/ \E p \in Positions : scullp_write_Lost(p) \/ scullp_read(p)
  \/ scull_open \/ scullc_open \/ Ioctl

-----------------------------------------------------------------------------
(* Each device is a file while nothing of a known list has gone wrong: a   *)
(* byte below the size is the last one written there, and zero or a hole   *)
(* if none was.  exercise/scull has no such list: lists, arrays and quanta *)
(* made by the writes, in part when memory is short, never lose or move a  *)
(* byte (scull.c:302-372).                                                 *)
KeptAsWritten ==
  /\ wrong = {} => \A p \in Positions : p < size => Byte(p) = file[p]
  /\ wrong \subseteq
       (CASE study = "scull" -> {}
          [] study = "cache" -> {"semaphore", "twice", "hole", "moved array", "past the object",
                                 "no item", "trim"}
          [] OTHER           -> {"past the pages", "no item", "no array"})
=============================================================================
