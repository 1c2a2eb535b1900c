---------------------------- MODULE MCScullPipe -----------------------------
EXTENDS ScullPipe, TLC

CONSTANTS p1, p2, p3

ReadOrWrite == {{"R"}, {"W"}}
AnyMode     == SUBSET {"R", "W"}
Symm        == Permutations(Procs)
=============================================================================
