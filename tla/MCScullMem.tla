----------------------------- MODULE MCScullMem -----------------------------
EXTENDS ScullMem, TLC

CONSTANTS p1, p2

AllModes   == {{"R"}, {"W"}, {"R", "W"}}
WriteModes == {{"W"}, {"R", "W"}}
Symm       == Permutations(Procs)
=============================================================================
