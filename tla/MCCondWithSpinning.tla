---- MODULE MCCondWithSpinning ----
EXTENDS CondWithSpinning, TLC
Symmetry == Permutations(Threads)
====
