------------------------------ MODULE FlatFile ------------------------------
(***************************************************************************)
(* What a scull device promises its users: a file of bytes.  A write       *)
(* stores its bytes at the writer's position and disturbs no byte that is  *)
(* there already; a read returns what is stored at the reader's position,  *)
(* and nothing only at the end of the file or in a hole.  Memory that is   *)
(* allocated but was never written may show up as bytes of any value.      *)
(***************************************************************************)
EXTENDS Naturals, Sequences

CONSTANTS Procs, Byte

VARIABLES content,  \* the byte at each offset that has one
          size,     \* the end of the file
          pos,      \* pos[p]: file position of p
          request,  \* request[p]: the bytes p is asking to be written
          answer    \* answer[p]: <<>>, or <<bytes>> while p is handed bytes

flatVars == <<content, size, pos, request, answer>>

Empty == [i \in {} |-> 0]

Init == /\ content = Empty /\ size = 0
        /\ pos = [p \in Procs |-> 0]
        /\ request = [p \in Procs |-> <<>>]
        /\ answer = [p \in Procs |-> <<>>]

\* No byte is lost or changed, except those at the offsets in S.
KeepAllBut(S) == \A i \in DOMAIN content \ S :
                    i \in DOMAIN content' /\ content'[i] = content[i]

\* p opens the file: at its start, and for writing only also empty.
Open(p) == /\ \/ content' = Empty /\ size' = 0
              \/ UNCHANGED <<content, size>>
           /\ pos' = [pos EXCEPT ![p] = 0]
           /\ UNCHANGED <<request, answer>>

Seek(p) == /\ pos'[p] \in Nat /\ pos' = [pos EXCEPT ![p] = pos'[p]]
           /\ UNCHANGED <<content, size, request, answer>>

Ask(p) == /\ request'[p] \in Seq(Byte)
          /\ request' = [request EXCEPT ![p] = request'[p]]
          /\ UNCHANGED <<content, size, pos, answer>>

\* The first n of the requested bytes are stored at once.
Write(p) ==
  \E n \in 1 .. Len(request[p]) :
    /\ \A i \in 1 .. n : /\ pos[p] + i - 1 \in DOMAIN content'
                         /\ content'[pos[p] + i - 1] = request[p][i]
    /\ KeepAllBut(pos[p] .. pos[p] + n - 1)
    /\ size' = IF size < pos[p] + n THEN pos[p] + n ELSE size
    /\ pos' = [pos EXCEPT ![p] = pos[p] + n]
    /\ request' = [request EXCEPT ![p] = <<>>]
    /\ UNCHANGED answer

\* n bytes are handed over; none only where there is none to be had.
Read(p) ==
  /\ \E n \in 0 .. size :
       /\ pos[p] .. pos[p] + n - 1 \subseteq DOMAIN content \cap (0 .. size - 1)
       /\ n = 0 => pos[p] \notin DOMAIN content \cap (0 .. size - 1)
       /\ answer' = [answer EXCEPT ![p] =
                       << [i \in 1 .. n |-> content[pos[p] + i - 1]] >>]
       /\ pos' = [pos EXCEPT ![p] = pos[p] + n]
  /\ UNCHANGED <<content, size, request>>

\* The call of p ends.  One that fails moves nobody's position nor the end,
\* but it may have allocated memory, and a write that fails leaves the bytes
\* it was to replace in any state.
Done(p) == /\ KeepAllBut(pos[p] .. pos[p] + Len(request[p]) - 1)
           /\ request' = [request EXCEPT ![p] = <<>>]
           /\ answer' = [answer EXCEPT ![p] = <<>>]
           /\ UNCHANGED <<size, pos>>

Next == \E p \in Procs : Open(p) \/ Seek(p) \/ Ask(p) \/ Write(p) \/ Read(p)
                         \/ Done(p)

Spec == Init /\ [][Next]_flatVars
=============================================================================
