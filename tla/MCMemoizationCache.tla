---- MODULE MCMemoizationCache ----
EXTENDS MemoizationCache, TLC
CONSTANTS k1, k2, k3
\* k1 and k2 collide; k2 and k3 can be evicted together; k3 is as large as two.
MCBucketOf == k1 :> 1 @@ k2 :> 1 @@ k3 :> 2
MCSize == k1 :> 1 @@ k2 :> 1 @@ k3 :> 2
MCEvictionKey == k2 :> "tag" @@ k3 :> "tag"
Symmetry == Permutations(Clients) \union Permutations(Entries)
====
