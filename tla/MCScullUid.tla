----------------------------- MODULE MCScullUid -----------------------------
EXTENDS ScullUid, TLC

CONSTANTS p1, p2, p3, p4, alice, bob

\* alice; bob; bob after su to alice; root.
RealUid == [p \in Procs |-> CASE p = p1 -> alice [] p = p4 -> root [] OTHER -> bob]
EffUid  == [p \in Procs |-> IF p = p3 THEN alice ELSE RealUid[p]]
=============================================================================
