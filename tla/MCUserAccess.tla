----------------------------- MODULE MCUserAccess -----------------------------
(* Values of the constants for TLC.                                        *)
EXTENDS UserAccess, TLC

CONSTANTS u1, h1, h2, r1, b1, i1, i2, i3

MCUser == {u1}
MCHandler == {h1, h2}
MCRequest == {r1}
MCBatch == {b1}
MCItem == {i1, i2, i3}
\* Loops over two policies; nobody has i3.
MCWanted == {{}, {i1, i2}}
\* Three items between two goroutines: one is left over.
MCAsked == {MCItem}
UserAccessSymmetry == Permutations(MCHandler) \cup Permutations({i1, i2})
=============================================================================
