---- MODULE MCFastSyncHistory ----
EXTENDS FastSyncHistory, TLC
CONSTANTS m1, m2, c1, c2
Symmetry == Permutations(Threads)
\* The pairs of the two broadcasts, <<c1, m1>> and <<c2, m2>>, share their two
\* buckets crosswise.
Crosswise == m1 :> 1 @@ m2 :> 2 @@ c1 :> 2 @@ c2 :> 1
====
