------------------------------ MODULE PipeFifo ------------------------------
(***************************************************************************)
(* What the scull pipe (Book/scull/pipe.c) promises its users: a bounded   *)
(* first-in first-out queue of bytes.  A writer's bytes enter in one piece *)
(* at the tail, a reader is handed a prefix and that prefix leaves the     *)
(* queue.  Nothing else changes the queue, except that it is emptied by    *)
(* every open and when the last reader or writer closes.                   *)
(***************************************************************************)
EXTENDS Naturals, Sequences

CONSTANTS Procs,  \* the processes that may use the pipe
          Byte    \* the values a byte may have

VARIABLES queue,    \* the bytes written and not yet read, oldest first
          cap,      \* how many bytes the queue may hold at present
          holders,  \* the processes that have the pipe open
          active,   \* those of them that have it open to read or write
          user      \* user[p]: the bytes handed to p by its call in progress

fifoVars == <<queue, cap, holders, active, user>>

Init == /\ queue = <<>> /\ cap = 0
        /\ holders = {} /\ active = {}
        /\ user = [p \in Procs |-> <<>>]

\* p opens: what was queued is gone, and the capacity may be another one.
Open(p) == /\ p \notin holders
           /\ holders' = holders \cup {p}
           /\ active' \in {active, active \cup {p}}
           /\ queue' = <<>>
           /\ cap' \in Nat
           /\ UNCHANGED user

Close(p) == /\ p \in holders
            /\ holders' = holders \ {p}
            /\ active' = active \ {p}
            /\ queue' = IF active' = {} THEN <<>> ELSE queue
            /\ UNCHANGED <<cap, user>>

\* A write is accepted: some bytes, at most what fits, join the tail at once.
Put == /\ active # {}
       /\ \E n \in 0 .. (cap - Len(queue)) : \E data \in [1 .. n -> Byte] :
               queue' = queue \o data
       /\ UNCHANGED <<cap, holders, active, user>>

\* A read is served: p gets a prefix, which leaves the queue at the same time.
Get(p) == /\ p \in active
          /\ user[p] = <<>>
          /\ \E n \in 0 .. Len(queue) :
               /\ user' = [user EXCEPT ![p] = SubSeq(queue, 1, n)]
               /\ queue' = SubSeq(queue, n + 1, Len(queue))
          /\ UNCHANGED <<cap, holders, active>>

\* The call of p returns to user space with the bytes it was given.
Done(p) == /\ user' = [user EXCEPT ![p] = <<>>]
           /\ UNCHANGED <<queue, cap, holders, active>>

Next == Put \/ \E p \in Procs : Open(p) \/ Close(p) \/ Get(p) \/ Done(p)

Spec == Init /\ [][Next]_fifoVars
=============================================================================
