-------------------------- MODULE MemoizationCache --------------------------
(***************************************************************************)
(* The memoization cache (src/runtime/cache.cpp): the results of memoized  *)
(* Funcs, in a hash table whose entries are also on a doubly linked list   *)
(* from the most to the least recently used.                               *)
(*                                                                         *)
(* A client is one use of a memoized Func by a pipeline                    *)
(* (src/Memoization.cpp): it looks its key up and, on a miss, computes the *)
(* result and stores it; then it reads the buffers and releases them, one  *)
(* by one.  Each call holds memoization_lock from end to end and is one    *)
(* action.                                                                 *)
(*                                                                         *)
(* A key stands for everything the calls compare: the bytes of the key,    *)
(* the computed bounds, the number of buffers and their shapes.  An entry  *)
(* is an address: it may be allocated again once it has been freed, and    *)
(* pointers that still lead to it lead to what is there then.              *)
(***************************************************************************)
EXTENDS Integers, Sequences, FiniteSets, SequencesExt, FiniteSetsExt, Functions

CONSTANTS Clients,
          Keys,
          Entries,       \* the addresses of cache entries
          Nil,           \* nullptr
          NumBuckets,    \* kHashTableSize
          BucketOf,      \* hash % kHashTableSize
          Size,          \* the bytes of the buffers of a key's result
          EvictionKey,   \* of the keys that have one
          TupleCount,    \* the buffers of a result
          MaxSizes,      \* the sizes halide_memoization_cache_set_size is given
          MaxOverstated  \* bound: nothing is evicted once the size is that much too high

ASSUME CacheAssumption ==
    /\ IsFiniteSet(Clients)
    /\ IsFiniteSet(Entries) /\ Nil \notin Entries
    /\ NumBuckets \in Nat \ {0} /\ BucketOf \in [Keys -> 1 .. NumBuckets]
    /\ Size \in [Keys -> Nat \ {0}]
    /\ DOMAIN EvictionKey \subseteq Keys
    /\ TupleCount \in Nat \ {0}
    /\ MaxOverstated \in Nat
    /\ MaxSizes \subseteq Nat \ {0} /\ MaxSizes # {}

VARIABLES
    cache,    \* the cache, see Init
    pc,       \* "out", "computing" after a miss, "using"
    wanted,   \* the key a client uses
    using,    \* CacheBlockHeader.entry of its buffers
    held      \* the buffers it has not released

vars == <<cache, pc, wanted, using, held>>

\* fate: "undefined" after a pointer to a freed entry has been followed, what comes
\* then is up to the allocator; "aborted" after halide_abort_if_false.
\* recency and bypassed are history: the entries from the least to the most recently
\* used, and whether an entry was pruned while an older one stayed.
Empty(max) ==
    [bucket |-> [i \in 1 .. NumBuckets |-> <<>>],   \* cache_entries
     key |-> [e \in {} |-> Nil],                    \* of the entries allocated
     more |-> [e \in Entries |-> Nil],              \* more_recent
     less |-> [e \in Entries |-> Nil],              \* less_recent
     mru |-> Nil, lru |-> Nil,
     users |-> [e \in Entries |-> 0],               \* in_use_count
     size |-> 0, max |-> max,
     fate |-> "fine",
     recency |-> <<>>, bypassed |-> FALSE]

Init ==
    /\ \E max \in MaxSizes : cache = Empty(max)
    /\ pc = [t \in Clients |-> "out"]
    /\ wanted = [t \in Clients |-> Nil]
    /\ using = [t \in Clients |-> Nil]
    /\ held = [t \in Clients |-> 0]

-----------------------------------------------------------------------------
(* The list *)

Allocated(c) == DOMAIN c.key
Set(f, e, v) == IF e = Nil THEN f ELSE [f EXCEPT ![e] = v]

\* Pointers that are followed.
Follow(c, pointers) ==
    IF c.fate = "fine" /\ ~(pointers \subseteq Allocated(c) \union {Nil})
    THEN [c EXCEPT !.fate = "undefined"] ELSE c

\* The entries from one on, along one of the two links, and Nil after the last.  A walk
\* that is longer than there are entries goes in circles.
Along(link, first) ==
    LET at[i \in 1 .. Cardinality(Entries) + 1] ==
            IF i = 1 THEN first ELSE IF at[i - 1] = Nil THEN Nil ELSE link[at[i - 1]]
    IN  at

Walk(link, first) ==
    SubSeq(Along(link, first), 1, Cardinality({i \in 1 .. Cardinality(Entries) + 1 : Along(link, first)[i] # Nil}))

AtFront(c, e) ==
    [c EXCEPT !.more = Set(Set(@, e, Nil), c.mru, e),
              !.less[e] = c.mru,
              !.mru = e,
              !.recency = Append(RemoveFirst(@, e), e)]

\* Mutant: the neighbour below is not relinked.
UnlinkMutant(c, e) ==
    [c EXCEPT !.less = Set(@, c.more[e], c.less[e]),
              !.mru = IF c.more[e] = Nil THEN c.less[e] ELSE @,
              !.lru = IF c.less[e] = Nil THEN c.more[e] ELSE @]

Unlink(c, e) ==
    [c EXCEPT !.less = Set(@, c.more[e], c.less[e]),
              !.more = Set(@, c.less[e], c.more[e]),
              !.mru = IF c.more[e] = Nil THEN c.less[e] ELSE @,
              !.lru = IF c.less[e] = Nil THEN c.more[e] ELSE @]

\* A hit makes the entry the most recently used one.
Touch(c, e) ==
    IF e = c.mru THEN c
    ELSE IF c.more[e] = Nil \/ (c.less[e] = Nil /\ c.lru # e) THEN [c EXCEPT !.fate = "aborted"]
    ELSE AtFront(Unlink(Follow(c, {c.more[e], c.less[e], c.mru}), e), e)

Destroy(c, e) ==
    [c EXCEPT !.bucket[BucketOf[c.key[e]]] = RemoveFirst(@, e),
              !.key = Restrict(@, Allocated(c) \ {e}),
              !.more[e] = Nil, !.less[e] = Nil, !.users[e] = 0,   \* freed
              !.recency = RemoveFirst(@, e)]

-----------------------------------------------------------------------------
(* prune_cache *)

\* Mutant: entries in use are pruned as well.
PrunableMutant(c, e) == TRUE

Prunable(c, e) == c.users[e] = 0

\* The entry is taken off the list; its less recent neighbour goes on pointing to it.
PruneUnlink(c, e) ==
    [c EXCEPT !.less = Set(@, c.more[e], c.less[e]),
              !.mru = IF @ = e THEN c.less[e] ELSE @,
              !.lru = IF @ = e THEN c.more[e] ELSE @,
              !.bypassed = @ \/ c.less[e] # Nil]

PruneOne(c, e) ==
    IF c.size <= c.max \/ c.fate # "fine" THEN c
    ELSE IF e \notin Allocated(c) THEN Follow(c, {e})
    ELSE IF ~Prunable(c, e) THEN c
    ELSE [Destroy(PruneUnlink(Follow(c, {c.more[e]}), e), e) EXCEPT !.size = @ - Size[c.key[e]]]

\* Mutant: at most one entry is pruned.
PruneOnceMutant(c) == IF c.lru = Nil THEN c ELSE PruneOne(c, c.lru)

Prune(c) ==
    LET walk == Along(c.more, c.lru)
        after[i \in 0 .. Cardinality(Entries) + 1] ==
            IF i = 0 THEN c ELSE PruneOne(after[i - 1], walk[i])
    IN  after[Cardinality(Entries) + 1]

-----------------------------------------------------------------------------
(* halide_memoization_cache_lookup *)

Fine == cache.fate = "fine"

Chain(k) == cache.bucket[BucketOf[k]]

\* Where in its chain the key is first, 0 if it is not there.
Found(k) == SelectInSeq(Chain(k), LAMBDA e : cache.key[e] = k)

\* Mutant: a hit counts as one user, whatever the number of buffers.
AddUsersMutant(c, e) == [c EXCEPT !.users[e] = @ + 1]

AddUsers(c, e) == [c EXCEPT !.users[e] = @ + TupleCount]

Begin(t, k, where, e) ==
    /\ wanted' = [wanted EXCEPT ![t] = k]
    /\ pc' = [pc EXCEPT ![t] = where]
    /\ using' = [using EXCEPT ![t] = e]
    /\ held' = [held EXCEPT ![t] = TupleCount]

Hit(t, k) ==
    /\ Fine /\ pc[t] = "out" /\ Found(k) # 0
    /\ LET e == Chain(k)[Found(k)]
       IN  cache' = AddUsers(Touch(cache, e), e) /\ Begin(t, k, "using", e)

\* The buffers are allocated for the client to compute the result into, or none is.
Miss(t, k) ==
    /\ Fine /\ pc[t] = "out" /\ Found(k) = 0
    /\ Begin(t, k, "computing", Nil)
    /\ UNCHANGED cache

\* The stage that computes the result fails.
ComputeFails(t) ==
    /\ Fine /\ pc[t] = "computing"
    /\ pc' = [pc EXCEPT ![t] = "using"]
    /\ UNCHANGED <<cache, wanted, using, held>>

-----------------------------------------------------------------------------
(* halide_memoization_cache_store *)

\* Mutant: whether somebody has stored the result in the meantime is not looked at.
StoredByOtherMutant(k) == FALSE

StoredByOther(k) == Found(k) # 0

Insert(c, e, k) ==
    [AtFront(Follow(c, {c.mru}), e) EXCEPT
        !.key = [f \in Allocated(c) \union {e} |-> IF f = e THEN k ELSE c.key[f]],
        !.bucket[BucketOf[k]] = <<e>> \o @,
        !.lru = IF @ = Nil THEN e ELSE @,
        !.users[e] = TupleCount]

Grow(c, k) == [c EXCEPT !.size = @ + Size[k]]

Store(t) ==
    LET k == wanted[t]
        pruned == Prune(Grow(cache, k))
    IN  /\ Fine /\ pc[t] = "computing"
        /\ pc' = [pc EXCEPT ![t] = "using"]
        /\ \/ StoredByOther(k) /\ UNCHANGED <<cache, using>>
           \/ ~StoredByOther(k) /\ \E e \in Entries \ Allocated(pruned) :
                    /\ cache' = Insert(pruned, e, k)
                    /\ using' = [using EXCEPT ![t] = e]
        /\ UNCHANGED <<wanted, held>>

\* The entry cannot be allocated; the cache has been pruned for it all the same.
StoreFails(t) ==
    LET k == wanted[t] IN
    /\ Fine /\ pc[t] = "computing" /\ ~StoredByOther(k)
    /\ cache' = [Prune(Grow(cache, k)) EXCEPT !.size = @ - Size[k]]
    /\ pc' = [pc EXCEPT ![t] = "using"]
    /\ UNCHANGED <<wanted, using, held>>

-----------------------------------------------------------------------------
(* The other calls *)

\* halide_memoization_cache_release of one buffer: it is freed if no entry has it.
Release(t) ==
    LET e == using[t] IN
    /\ Fine /\ pc[t] = "using"
    /\ cache' = IF e = Nil THEN cache
                ELSE IF e \notin Allocated(cache) THEN Follow(cache, {e})
                ELSE IF cache.users[e] = 0 THEN [cache EXCEPT !.fate = "aborted"]
                ELSE [cache EXCEPT !.users[e] = @ - 1]
    /\ held' = [held EXCEPT ![t] = @ - 1]
    /\ pc' = [pc EXCEPT ![t] = IF held[t] = 1 THEN "out" ELSE "using"]
    /\ using' = [using EXCEPT ![t] = IF held[t] = 1 THEN Nil ELSE e]
    /\ wanted' = [wanted EXCEPT ![t] = IF held[t] = 1 THEN Nil ELSE @]

SetSize(max) ==
    /\ Fine /\ max # cache.max
    /\ cache' = Prune([cache EXCEPT !.max = max])
    /\ UNCHANGED <<pc, wanted, using, held>>

\* The bytes of the buffers in the cache.
Bytes(c) == Cardinality(UNION {{e} \X (1 .. Size[c.key[e]]) : e \in Allocated(c)})

Tagged(c, key) == {e \in Allocated(c) : c.key[e] \in DOMAIN EvictionKey /\ EvictionKey[c.key[e]] = key}

InUse(key) ==
    \E t \in Clients : pc[t] = "using" /\ wanted[t] \in DOMAIN EvictionKey /\ EvictionKey[wanted[t]] = key

EvictOne(c, e) == Destroy(Unlink(Follow(c, {c.more[e], c.less[e]}), e), e)

\* Chain by chain.
EvictFirst(c, key) ==
    LET buckets == {i \in 1 .. NumBuckets : Range(c.bucket[i]) \intersect Tagged(c, key) # {}}
        chain == c.bucket[Min(buckets)]
    IN  IF buckets = {} THEN c
        ELSE EvictOne(c, chain[SelectInSeq(chain, LAMBDA e : e \in Tagged(c, key))])

Evicted(c, key) ==
    LET after[n \in 0 .. Cardinality(Entries)] ==
            IF n = 0 THEN c ELSE EvictFirst(after[n - 1], key)
    IN  after[Cardinality(Entries)]

\* The entries are destroyed, in use or not, and the size of the cache is not
\* reduced.  The clients evict what nobody uses.
Evict(key) ==
    /\ Fine /\ ~InUse(key) /\ cache.size - Bytes(cache) < MaxOverstated
    /\ Tagged(cache, key) # {}
    /\ cache' = Evicted(cache, key)
    /\ UNCHANGED <<pc, wanted, using, held>>

\* Every entry is destroyed.  No other thread may be using the cache.
Cleanup ==
    /\ Fine /\ \A t \in Clients : pc[t] = "out"
    /\ cache' = Empty(cache.max)
    /\ UNCHANGED <<pc, wanted, using, held>>

-----------------------------------------------------------------------------
Client(t) ==
    \/ \E k \in Keys : Hit(t, k) \/ Miss(t, k)
    \/ ComputeFails(t) \/ Store(t) \/ StoreFails(t) \/ Release(t)

Next ==
    \/ \E t \in Clients : Client(t)
    \/ \E max \in MaxSizes : SetSize(max)
    \/ \E key \in Range(EvictionKey) : Evict(key)
    \/ Cleanup

Spec == Init /\ [][Next]_vars

-----------------------------------------------------------------------------
(* Properties *)

Live == Allocated(cache)

Caches ==
    [bucket : [1 .. NumBuckets -> Seq(Entries)],
     key : UNION {[es -> Keys] : es \in SUBSET Entries},
     more : [Entries -> Entries \union {Nil}], less : [Entries -> Entries \union {Nil}],
     mru : Entries \union {Nil}, lru : Entries \union {Nil},
     users : [Entries -> Nat],
     size : Nat, max : MaxSizes,
     fate : {"fine", "aborted", "undefined"},
     recency : Seq(Entries), bypassed : BOOLEAN]

TypeOK ==
    /\ cache \in Caches
    /\ pc \in [Clients -> {"out", "computing", "using"}]
    /\ wanted \in [Clients -> Keys \union {Nil}]
    /\ using \in [Clients -> Entries \union {Nil}]
    /\ held \in [Clients -> 0 .. TupleCount]

\* However many clients miss on a key at a time, the cache has one entry for it, and
\* every entry is once in the table, in the bucket of its key.
OneEntryPerKey ==
    /\ TypeOK
    /\ \A i \in 1 .. NumBuckets :
        /\ IsInjective(cache.bucket[i])
        /\ Range(cache.bucket[i]) = {e \in Live : BucketOf[cache.key[e]] = i}
    /\ \A e, f \in Live : cache.key[e] = cache.key[f] => e = f

\* The buffers of an entry that clients have not released.
InHands(e) == {b \in Clients \X (1 .. TupleCount) : pc[b[1]] = "using" /\ using[b[1]] = e /\ b[2] <= held[b[1]]}

\* in_use_count is the number of buffers of the entry that clients have not released.
InUseCountsUsers == \A e \in Live : cache.users[e] = Cardinality(InHands(e))

\* The buffers a client uses are still those of its key, whoever stores, prunes,
\* evicts or sets the size.
BuffersOutliveTheirUse ==
    \A t \in Clients : pc[t] = "using" /\ using[t] # Nil =>
        using[t] \in Live /\ cache.key[using[t]] = wanted[t]

\* Until an entry has been pruned while an older one stayed, both links lead through
\* all entries in the order of their last use.
LruIsExact ==
    ~cache.bypassed =>
        /\ Walk(cache.more, cache.lru) = cache.recency
        /\ Walk(cache.less, cache.mru) = Reverse(cache.recency)
        /\ Range(cache.recency) = Live
        /\ cache.fate = "fine"

\* A call that adds an entry or changes the limit leaves the cache within its limit,
\* or nothing unused in it.
Prunes ==
    \/ cache'.max # cache.max
    \/ \E t \in Clients : pc[t] = "computing" /\ using'[t] # Nil

PruneMakesRoom ==
    [][Prunes /\ ~cache.bypassed =>
          cache'.size <= cache'.max \/ \A e \in DOMAIN cache'.key : cache'.users[e] > 0]_vars

\* The checks of validate_cache: as many entries in the hash table as from either end
\* of the list.
ChainsHoldAllEntries ==
    /\ Len(Walk(cache.less, cache.mru)) = Cardinality(Live)
    /\ Len(Walk(cache.more, cache.lru)) = Cardinality(Live)
=============================================================================
