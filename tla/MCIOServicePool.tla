--------------------------- MODULE MCIOServicePool --------------------------
\* Two clients, interchangeable where no liveness is checked, or one.
EXTENDS IOServicePool, TLC

CONSTANTS c1, c2

MCOne == {c1}
MCTwo == {c1, c2}
Interchangeable == Permutations(MCTwo)
=============================================================================
