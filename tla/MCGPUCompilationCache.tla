----------------------- MODULE MCGPUCompilationCache -----------------------
EXTENDS GPUCompilationCache, TLC
CONSTANTS c1, c2
\* In the initial table three of the four collide at its last slot, the first doubling
\* separates one of them and the second all.
MCUpperBits ==
    <<c1, 2>> :> 28 @@ <<c2, 2>> :> 31 @@ <<c1, 3>> :> 25 @@ <<c2, 3>> :> 6
MCKernelHash == [k \in Contexts \X Ids \X (1 .. MaxBits) |-> MCUpperBits[<<k[1], k[2]>>] \div 2 ^ (5 - k[3])]
Symmetry == Permutations(Clients) \union Permutations(Modules) \union Permutations(Pipelines)
=============================================================================
