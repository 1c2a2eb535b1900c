---------------------------- MODULE MCShortPrint ----------------------------
EXTENDS ShortPrint, TLC

CONSTANTS p1, p2

Symm == Permutations(Procs)
=============================================================================
