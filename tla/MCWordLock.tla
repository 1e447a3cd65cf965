---- MODULE MCWordLock ----
EXTENDS WordLock, TLC
Symmetry == Permutations(Threads)
====
