--------------------------- MODULE MCHalideBuffer ---------------------------
EXTENDS HalideBuffer, TLC
CONSTANTS x, y, z

Symmetry == Permutations(Vars)
=============================================================================
