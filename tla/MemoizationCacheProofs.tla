------------------------ MODULE MemoizationCacheProofs ------------------------
(***************************************************************************)
(* Proofs about MemoizationCache: its table, its counts of use, its list   *)
(* and its limit.  A cache is a value here, and each function of cache.cpp *)
(* an operator on it: a lemma says what that does to each field, and       *)
(* another that it keeps the invariant.  The two walks that change the     *)
(* cache as they go, prune_cache and halide_memoization_cache_evict, are   *)
(* recursive functions of the number of the step; what they keep is proved *)
(* by looking at the least step after which it would not hold.             *)
(***************************************************************************)
EXTENDS MemoizationCache, FiniteSetTheorems, SequenceTheorems, WellFoundedInduction, TLAPS

\* A nonempty set of numbers has a least one.
LEMMA LeastExists ==
  ASSUME NEW S, S \subseteq Nat, S # {}
  PROVE  \E x \in S : \A y \in S : x <= y
<1>1. PICK x \in S : \A y \in S : <<y, x>> \notin OpToRel(<, Nat)
  BY NatLessThanWellFounded, WFMin, Zenon
<1>2. \A y \in S : ~ (y < x)
  BY <1>1, Zenon DEF OpToRel
<1>3. QED
  BY <1>2

\* Min finds it.
LEMMA MinIsLeast ==
  ASSUME NEW S, S \subseteq Nat, S # {}
  PROVE  Min(S) \in S /\ \A y \in S : Min(S) <= y
<1>1. \E x \in S : \A y \in S : x =< y
  BY LeastExists
<1>2. QED
  BY <1>1, Zenon DEF Min

-----------------------------------------------------------------------------
(* Sequences without repetitions *)

\* What a sequence is.
LEMMA SeqIs ==
  ASSUME NEW S, NEW s \in Seq(S)
  PROVE  /\ Len(s) \in Nat /\ DOMAIN s = 1 .. Len(s) /\ Range(s) \subseteq S
         /\ \A i \in 1 .. Len(s) : s[i] \in S /\ s[i] \in Range(s)
         /\ \A x : x \in Range(s) <=> \E i \in 1 .. Len(s) : s[i] = x
<1>1. Len(s) \in Nat /\ DOMAIN s = 1 .. Len(s)
  OBVIOUS
<1>2. \A i \in 1 .. Len(s) : s[i] \in S
  OBVIOUS
<1>3. \A x : x \in Range(s) <=> \E i \in 1 .. Len(s) : s[i] = x
  BY <1>1 DEF Range
<1>4. QED
  BY <1>1, <1>2, <1>3

\* q is s without its element at p.
Without(q, s, p) == Len(q) = Len(s) - 1 /\ \A i \in 1 .. Len(s) - 1 : q[i] = IF i < p THEN s[i] ELSE s[i + 1]

\* An element is removed.
LEMMA RemoveIs ==
  ASSUME NEW S, NEW s \in Seq(S), IsInjective(s), NEW p \in 1 .. Len(s), NEW q, q = RemoveFirst(s, s[p])
  PROVE  q \in Seq(S) /\ Without(q, s, p)
<1>1. Len(s) \in Nat /\ \A i \in 1 .. Len(s) : s[i] \in S
  OBVIOUS
<1>2. q = SubSeq(s, 1, p - 1) \o SubSeq(s, p + 1, Len(s))
  <2>1. PICK I : I = {i \in 1 .. Len(s) : s[i] = s[p]}
    OBVIOUS
  <2>2. I = {p}
    BY <2>1 DEF IsInjective
  <2>3. Min(I) = p
    BY <2>2 DEF Min
  <2>4. q = RemoveAt(s, Min(I))
    BY <2>1, <2>2 DEF RemoveFirst, SelectInSeq
  <2>5. QED
    BY <2>3, <2>4 DEF RemoveAt
<1>3. PICK a : a = SubSeq(s, 1, p - 1)
  OBVIOUS
<1>4. PICK b : b = SubSeq(s, p + 1, Len(s))
  OBVIOUS
<1>5. a \in Seq(S) /\ Len(a) = p - 1 /\ \A i \in 1 .. p - 1 : a[i] = s[i]
  <2>1. PICK m \in Int, n \in Int : m = 1 /\ n = p - 1
    OBVIOUS
  <2>2. \A i \in m .. n : s[i] \in S
    BY <1>1, <2>1
  <2>3. /\ SubSeq(s, m, n) \in Seq(S) /\ Len(SubSeq(s, m, n)) = IF m <= n THEN n - m + 1 ELSE 0
        /\ \A i \in 1 .. n - m + 1 : SubSeq(s, m, n)[i] = s[m + i - 1]
    BY <2>2, SubSeqProperties
  <2>4. QED
    BY <1>3, <2>1, <2>3
<1>6. b \in Seq(S) /\ Len(b) = Len(s) - p /\ \A i \in 1 .. Len(s) - p : b[i] = s[p + i]
  <2>1. PICK m \in Int, n \in Int : m = p + 1 /\ n = Len(s)
    BY <1>1
  <2>2. \A i \in m .. n : s[i] \in S
    BY <1>1, <2>1
  <2>3. /\ SubSeq(s, m, n) \in Seq(S) /\ Len(SubSeq(s, m, n)) = IF m <= n THEN n - m + 1 ELSE 0
        /\ \A i \in 1 .. n - m + 1 : SubSeq(s, m, n)[i] = s[m + i - 1]
    BY <2>2, SubSeqProperties
  <2>4. QED
    BY <1>1, <1>4, <2>1, <2>3
<1>7. /\ a \o b \in Seq(S) /\ Len(a \o b) = Len(a) + Len(b)
      /\ \A i \in 1 .. Len(a) + Len(b) : (a \o b)[i] = IF i <= Len(a) THEN a[i] ELSE b[i - Len(a)]
  BY <1>5, <1>6, ConcatProperties
<1>8. q = a \o b
  BY <1>2, <1>3, <1>4
<1>9. Len(a) + Len(b) = Len(s) - 1
  BY <1>1, <1>5, <1>6
<1>10. ASSUME NEW i \in 1 .. Len(s) - 1 PROVE q[i] = IF i < p THEN s[i] ELSE s[i + 1]
  <2>1. CASE i < p
    BY <1>1, <1>5, <1>7, <1>8, <1>9, <2>1
  <2>2. CASE ~(i < p)
    <3>1. PICK k \in Int : k = i - (p - 1)
      BY <1>1
    <3>2. k \in 1 .. Len(s) - p /\ p + k = i + 1 /\ i - Len(a) = k /\ ~(i <= Len(a))
      BY <1>1, <1>5, <2>2, <3>1
    <3>3. q[i] = b[k]
      BY <1>7, <1>8, <1>9, <3>2
    <3>4. QED
      BY <1>6, <2>2, <3>2, <3>3
  <2>3. QED
    BY <2>1, <2>2
<1>11. QED
  BY <1>7, <1>8, <1>9, <1>10 DEF Without

\* What is left of the sequence then.
LEMMA RemoveKeeps ==
  ASSUME NEW S, NEW s \in Seq(S), IsInjective(s), NEW e \in Range(s), NEW q, q = RemoveFirst(s, e)
  PROVE  q \in Seq(S) /\ IsInjective(q) /\ Range(q) = Range(s) \ {e}
<1>1. PICK p \in 1 .. Len(s) : s[p] = e
  BY SeqIs
<1>2. /\ q \in Seq(S) /\ Len(q) = Len(s) - 1
      /\ \A i \in 1 .. Len(s) - 1 : q[i] = IF i < p THEN s[i] ELSE s[i + 1]
  <2>1. q \in Seq(S) /\ Without(q, s, p)
    BY <1>1, RemoveIs
  <2>2. QED
    BY <2>1 DEF Without
<1>3. Len(s) \in Nat /\ DOMAIN s = 1 .. Len(s) /\ DOMAIN q = 1 .. Len(s) - 1
  BY <1>2
<1>4. IsInjective(q)
  <2>1. SUFFICES ASSUME NEW i \in 1 .. Len(s) - 1, NEW k \in 1 .. Len(s) - 1, q[i] = q[k] PROVE i = k
    BY <1>3 DEF IsInjective
  <2>2. PICK m \in 1 .. Len(s) : m = (IF i < p THEN i ELSE i + 1) /\ q[i] = s[m]
    BY <1>2, <1>3
  <2>3. PICK n \in 1 .. Len(s) : n = (IF k < p THEN k ELSE k + 1) /\ q[k] = s[n]
    BY <1>2, <1>3
  <2>4. m = n
    BY <1>3, <2>1, <2>2, <2>3 DEF IsInjective
  <2>5. QED
    BY <2>2, <2>3, <2>4
<1>5. ASSUME NEW x \in Range(q) PROVE x \in Range(s) /\ x # e
  <2>1. PICK i \in 1 .. Len(s) - 1 : q[i] = x
    BY <1>5, <1>3 DEF Range
  <2>2. PICK m \in 1 .. Len(s) : m = (IF i < p THEN i ELSE i + 1) /\ x = s[m]
    BY <1>2, <1>3, <2>1
  <2>3. m # p
    BY <2>2
  <2>4. QED
    BY <1>1, <1>3, <2>2, <2>3 DEF IsInjective, Range
<1>6. ASSUME NEW x \in Range(s), x # e PROVE x \in Range(q)
  <2>1. PICK m \in 1 .. Len(s) : s[m] = x /\ m # p
    BY <1>1, <1>3, <1>6 DEF Range
  <2>2. PICK i \in 1 .. Len(s) - 1 : i = IF m < p THEN m ELSE m - 1
    BY <1>3, <2>1
  <2>3. q[i] = x
    BY <1>2, <2>1, <2>2
  <2>4. QED
    BY <1>3, <2>3 DEF Range
<1>7. QED
  BY <1>2, <1>4, <1>5, <1>6

\* What is not there cannot be removed.
LEMMA RemoveNothing ==
  ASSUME NEW S, NEW s \in Seq(S), NEW e, e \notin Range(s)
  PROVE  RemoveFirst(s, e) = s
  BY SeqIs DEF RemoveFirst

Extends(q, s, e) == q = Append(s, e)

\* An element is put at the end.
LEMMA AppendKeeps ==
  ASSUME NEW S, NEW s \in Seq(S), IsInjective(s), NEW e \in S, e \notin Range(s), NEW q, Extends(q, s, e)
  PROVE  /\ q \in Seq(S) /\ IsInjective(q) /\ Range(q) = Range(s) \union {e}
         /\ Len(q) = Len(s) + 1 /\ q[Len(s) + 1] = e /\ \A i \in 1 .. Len(s) : q[i] = s[i]
<1>1. q \in Seq(S) /\ Len(q) = Len(s) + 1 /\ q[Len(s) + 1] = e /\ \A i \in 1 .. Len(s) : q[i] = s[i]
  BY DEF Extends
<1>2. Len(s) \in Nat /\ DOMAIN s = 1 .. Len(s) /\ DOMAIN q = 1 .. Len(s) + 1
  BY <1>1
<1>3. \A i \in 1 .. Len(s) + 1 : i \in 1 .. Len(s) \/ i = Len(s) + 1
  BY <1>2
<1>4. \A i \in 1 .. Len(s) : q[i] # e
  BY <1>1, <1>2 DEF Range
<1>5. IsInjective(q)
  BY <1>1, <1>2, <1>3, <1>4 DEF IsInjective
<1>6. Range(q) = Range(s) \union {e}
  BY <1>1, <1>2, <1>3 DEF Range
<1>7. QED
  BY <1>1, <1>5, <1>6

Precedes(q, s, e) == q = <<e>> \o s

\* An element is put at the front.
LEMMA PrependKeeps ==
  ASSUME NEW S, NEW s \in Seq(S), IsInjective(s), NEW e \in S, e \notin Range(s), NEW q, Precedes(q, s, e)
  PROVE  q \in Seq(S) /\ IsInjective(q) /\ Range(q) = Range(s) \union {e}
<1>1. <<e>> \in Seq(S) /\ Len(<<e>>) = 1
  OBVIOUS
<1>2. /\ q \in Seq(S) /\ Len(q) = 1 + Len(s)
      /\ \A i \in 1 .. 1 + Len(s) : q[i] = IF i <= 1 THEN <<e>>[i] ELSE s[i - 1]
  BY <1>1, ConcatProperties DEF Precedes
<1>3. Len(s) \in Nat /\ DOMAIN s = 1 .. Len(s) /\ DOMAIN q = 1 .. 1 + Len(s)
  BY <1>2
<1>4. q[1] = e
  BY <1>2, <1>3
<1>5. \A i \in 1 .. 1 + Len(s) : i = 1 \/ (i - 1 \in 1 .. Len(s) /\ q[i] = s[i - 1] /\ s[i - 1] # e)
  <2>1. TAKE i \in 1 .. 1 + Len(s)
  <2>2. CASE i = 1
    BY <2>2
  <2>3. CASE i # 1
    <3>1. i - 1 \in 1 .. Len(s) /\ ~(i <= 1)
      BY <1>3, <2>3
    <3>2. QED
      BY <1>2, <1>3, <3>1 DEF Range
  <2>4. QED
    BY <2>2, <2>3
<1>6. IsInjective(q)
  <2>1. SUFFICES ASSUME NEW i \in 1 .. 1 + Len(s), NEW k \in 1 .. 1 + Len(s), q[i] = q[k] PROVE i = k
    BY <1>3 DEF IsInjective
  <2>2. CASE i = 1 \/ k = 1
    BY <1>4, <1>5, <2>1, <2>2
  <2>3. CASE i # 1 /\ k # 1
    <3>1. i - 1 = k - 1
      BY <1>3, <1>5, <2>1, <2>3 DEF IsInjective
    <3>2. QED
      BY <3>1
  <2>4. QED
    BY <2>2, <2>3
<1>7. \A i \in 1 .. Len(s) : i + 1 \in 1 .. 1 + Len(s) /\ q[i + 1] = s[i]
  BY <1>3, <1>5
<1>8. 1 \in 1 .. 1 + Len(s)
  BY <1>3
<1>9. ASSUME NEW x \in Range(q) PROVE x \in Range(s) \union {e}
  BY <1>3, <1>4, <1>5, <1>9 DEF Range
<1>10. ASSUME NEW x \in Range(s) \union {e} PROVE x \in Range(q)
  BY <1>3, <1>4, <1>7, <1>8, <1>10 DEF Range
<1>11. QED
  BY <1>2, <1>6, <1>9, <1>10

-----------------------------------------------------------------------------
(* The invariant *)

Before(q, i) == IF 1 < i THEN q[i - 1] ELSE Nil
After(q, i) == IF i < Len(q) THEN q[i + 1] ELSE Nil

Joined(c, q) ==
    /\ c.mru = Before(q, Len(q) + 1)
    /\ \A i \in 1 .. Len(q) : c.more[q[i]] = After(q, i) /\ c.less[q[i]] = Before(q, i)

\* Both links lead through q, in its order.
Linked(c, q) == Joined(c, q) /\ c.lru = After(q, 0)

\* Every entry is in the chain of its key, and nothing else is.
Placed(c) ==
    \A i \in 1 .. NumBuckets :
        /\ IsInjective(c.bucket[i])
        /\ Range(c.bucket[i]) = {e \in Allocated(c) : BucketOf[c.key[e]] = i}

Distinct(c) == \A e, f \in Allocated(c) : c.key[e] = c.key[f] => e = f

Remembered(c) == IsInjective(c.recency) /\ Range(c.recency) = Allocated(c)

Ordered(c) == ~c.bypassed => Linked(c, c.recency) /\ c.fate = "fine"

Good(c) == c \in Caches /\ Placed(c) /\ Distinct(c) /\ Remembered(c) /\ Ordered(c)

\* The size is never too low: evictions leave it too high.
Sized(c) == Bytes(c) <= c.size

-----------------------------------------------------------------------------
(* What a cache is made of *)

IsTable(c) ==
    /\ c.bucket \in [1 .. NumBuckets -> Seq(Entries)]
    /\ c.key \in [DOMAIN c.key -> Keys]
    /\ DOMAIN c.key \subseteq Entries
    /\ c.users \in [Entries -> Nat]

IsList(c) ==
    /\ c.more \in [Entries -> Entries \union {Nil}]
    /\ c.less \in [Entries -> Entries \union {Nil}]
    /\ c.mru \in Entries \union {Nil}
    /\ c.lru \in Entries \union {Nil}
    /\ c.recency \in Seq(Entries)
    /\ c.bypassed \in BOOLEAN

IsLimit(c) == c.size \in Nat /\ c.max \in MaxSizes /\ c.fate \in {"fine", "aborted", "undefined"}

Fields(c) ==
    [bucket |-> c.bucket, key |-> c.key, more |-> c.more, less |-> c.less, mru |-> c.mru, lru |-> c.lru,
     users |-> c.users, size |-> c.size, max |-> c.max, fate |-> c.fate, recency |-> c.recency,
     bypassed |-> c.bypassed]

\* The fields of a cache have their types.
LEMMA CacheHas ==
  ASSUME NEW c \in Caches
  PROVE  c = Fields(c) /\ IsTable(c) /\ IsList(c) /\ IsLimit(c)
<1>1. c = Fields(c)
  BY DEF Caches, Fields
<1>2. c.key \in [DOMAIN c.key -> Keys] /\ DOMAIN c.key \subseteq Entries
  <2>1. c.key \in UNION {[es -> Keys] : es \in SUBSET Entries}
    BY DEF Caches
  <2>2. PICK es \in SUBSET Entries : c.key \in [es -> Keys]
    BY <2>1
  <2>3. QED
    BY <2>2
<1>3. IsTable(c)
  BY <1>2 DEF Caches, IsTable
<1>4. IsList(c)
  BY DEF Caches, IsList
<1>5. IsLimit(c)
  BY DEF Caches, IsLimit
<1>6. QED
  BY <1>1, <1>3, <1>4, <1>5

\* And what has such fields is a cache.
LEMMA CacheFrom ==
  ASSUME NEW c, c = Fields(c), IsTable(c), IsList(c), IsLimit(c)
  PROVE  c \in Caches
<1>1. c.key \in UNION {[es -> Keys] : es \in SUBSET Entries}
  BY DEF IsTable
<1>2. QED
  BY <1>1 DEF Caches, Fields, IsTable, IsList, IsLimit

SameTable(c, d) == d.bucket = c.bucket /\ d.key = c.key /\ d.users = c.users
SameList(c, d) ==
    d.more = c.more /\ d.less = c.less /\ d.mru = c.mru /\ d.lru = c.lru /\ d.recency = c.recency /\ d.bypassed = c.bypassed
SameLimit(c, d) == d.size = c.size /\ d.max = c.max

\* A pointer is followed.
LEMMA FollowIs ==
  ASSUME NEW c \in Caches, NEW ps, NEW d, d = Follow(c, ps)
  PROVE  /\ d \in Caches /\ SameTable(c, d) /\ SameList(c, d) /\ SameLimit(c, d)
         /\ d.fate = c.fate \/ d.fate = "undefined"
         /\ ps \subseteq Allocated(c) \union {Nil} => d.fate = c.fate
<1>1. c = Fields(c) /\ IsTable(c) /\ IsList(c) /\ IsLimit(c)
  BY CacheHas
<1>2. CASE c.fate = "fine" /\ ~(ps \subseteq Allocated(c) \union {Nil})
  <2>1. d = [c EXCEPT !.fate = "undefined"]
    BY <1>2 DEF Follow
  <2>2. SameTable(c, d) /\ SameList(c, d) /\ SameLimit(c, d) /\ d.fate = "undefined" /\ d = Fields(d)
    BY <1>1, <2>1 DEF SameTable, SameList, SameLimit, Fields
  <2>3. IsTable(d) /\ IsList(d) /\ IsLimit(d)
    BY <1>1, <2>2 DEF IsTable, IsList, IsLimit, SameTable, SameList, SameLimit
  <2>4. QED
    BY <1>2, <2>2, <2>3, CacheFrom
<1>3. CASE ~(c.fate = "fine" /\ ~(ps \subseteq Allocated(c) \union {Nil}))
  BY <1>3 DEF Follow, SameTable, SameList, SameLimit
<1>4. QED
  BY <1>2, <1>3

\* One link is set, if there is an entry to set it in.
LEMMA SetIs ==
  ASSUME NEW f \in [Entries -> Entries \union {Nil}], NEW e \in Entries \union {Nil}, NEW v \in Entries \union {Nil},
         NEW g, g = Set(f, e, v)
  PROVE  /\ g \in [Entries -> Entries \union {Nil}]
         /\ e \in Entries => g[e] = v
         /\ \A x \in Entries : x # e => g[x] = f[x]
  BY CacheAssumption DEF Set

\* An entry is taken off the list.
LEMMA UnlinkIs ==
  ASSUME NEW c \in Caches, NEW e \in Entries, NEW d, d = Unlink(c, e)
  PROVE  /\ d \in Caches /\ SameTable(c, d) /\ SameLimit(c, d) /\ d.fate = c.fate
         /\ d.recency = c.recency /\ d.bypassed = c.bypassed
         /\ d.less = Set(c.less, c.more[e], c.less[e])
         /\ d.more = Set(c.more, c.less[e], c.more[e])
         /\ d.mru = IF c.more[e] = Nil THEN c.less[e] ELSE c.mru
         /\ d.lru = IF c.less[e] = Nil THEN c.more[e] ELSE c.lru
<1>1. c = Fields(c) /\ IsTable(c) /\ IsList(c) /\ IsLimit(c)
  BY CacheHas
<1>2. /\ SameTable(c, d) /\ SameLimit(c, d) /\ d.fate = c.fate
      /\ d.recency = c.recency /\ d.bypassed = c.bypassed
      /\ d.less = Set(c.less, c.more[e], c.less[e])
      /\ d.more = Set(c.more, c.less[e], c.more[e])
      /\ d.mru = IF c.more[e] = Nil THEN c.less[e] ELSE c.mru
      /\ d.lru = IF c.less[e] = Nil THEN c.more[e] ELSE c.lru
      /\ d = Fields(d)
  BY <1>1 DEF Unlink, Fields, SameTable, SameLimit
<1>3. c.more[e] \in Entries \union {Nil} /\ c.less[e] \in Entries \union {Nil}
  BY <1>1 DEF IsList
<1>4. d.less \in [Entries -> Entries \union {Nil}] /\ d.more \in [Entries -> Entries \union {Nil}]
  <2>1. c.more \in [Entries -> Entries \union {Nil}] /\ c.less \in [Entries -> Entries \union {Nil}]
    BY <1>1 DEF IsList
  <2>2. d.less \in [Entries -> Entries \union {Nil}]
    BY <1>2, <1>3, <2>1 DEF Set
  <2>3. d.more \in [Entries -> Entries \union {Nil}]
    BY <1>2, <1>3, <2>1 DEF Set
  <2>4. QED
    BY <2>2, <2>3
<1>5. IsList(d)
  BY <1>1, <1>2, <1>3, <1>4 DEF IsList
<1>6. IsTable(d) /\ IsLimit(d)
  BY <1>1, <1>2 DEF IsTable, IsLimit, SameTable, SameLimit
<1>7. QED
  BY <1>2, <1>5, <1>6, CacheFrom

\* prune_cache takes an entry off the list.
LEMMA PruneUnlinkIs ==
  ASSUME NEW c \in Caches, NEW e \in Entries, NEW d, d = PruneUnlink(c, e)
  PROVE  /\ d \in Caches /\ SameTable(c, d) /\ SameLimit(c, d) /\ d.fate = c.fate
         /\ d.recency = c.recency
         /\ d.bypassed <=> c.bypassed \/ c.less[e] # Nil
         /\ d.less = Set(c.less, c.more[e], c.less[e])
         /\ d.more = c.more
         /\ d.mru = IF c.mru = e THEN c.less[e] ELSE c.mru
         /\ d.lru = IF c.lru = e THEN c.more[e] ELSE c.lru
<1>1. c = Fields(c) /\ IsTable(c) /\ IsList(c) /\ IsLimit(c)
  BY CacheHas
<1>2. /\ SameTable(c, d) /\ SameLimit(c, d) /\ d.fate = c.fate
      /\ d.recency = c.recency
      /\ d.bypassed = (c.bypassed \/ c.less[e] # Nil)
      /\ d.less = Set(c.less, c.more[e], c.less[e])
      /\ d.more = c.more
      /\ d.mru = IF c.mru = e THEN c.less[e] ELSE c.mru
      /\ d.lru = IF c.lru = e THEN c.more[e] ELSE c.lru
      /\ d = Fields(d)
  BY <1>1 DEF PruneUnlink, Fields, SameTable, SameLimit
<1>3. c.more[e] \in Entries \union {Nil} /\ c.less[e] \in Entries \union {Nil}
  BY <1>1 DEF IsList
<1>4. d.less \in [Entries -> Entries \union {Nil}]
  <2>1. c.less \in [Entries -> Entries \union {Nil}]
    BY <1>1 DEF IsList
  <2>2. QED
    BY <1>2, <1>3, <2>1 DEF Set
<1>5. IsList(d)
  BY <1>1, <1>2, <1>3, <1>4 DEF IsList
<1>6. IsTable(d) /\ IsLimit(d)
  BY <1>1, <1>2 DEF IsTable, IsLimit, SameTable, SameLimit
<1>7. QED
  BY <1>2, <1>5, <1>6, CacheFrom

\* An entry becomes the most recently used one.
LEMMA AtFrontIs ==
  ASSUME NEW c \in Caches, NEW e \in Entries, NEW d, d = AtFront(c, e),
         IsInjective(c.recency)
  PROVE  /\ d \in Caches /\ SameTable(c, d) /\ SameLimit(c, d) /\ d.fate = c.fate
         /\ d.bypassed = c.bypassed
         /\ Extends(d.recency, RemoveFirst(c.recency, e), e)
         /\ d.less[e] = c.mru /\ \A x \in Entries : x # e => d.less[x] = c.less[x]
         /\ d.more = Set(Set(c.more, e, Nil), c.mru, e)
         /\ d.mru = e /\ d.lru = c.lru
<1>1. c = Fields(c) /\ IsTable(c) /\ IsList(c) /\ IsLimit(c)
  BY CacheHas
<1>2. /\ SameTable(c, d) /\ SameLimit(c, d) /\ d.fate = c.fate
      /\ d.bypassed = c.bypassed
      /\ d.recency = Append(RemoveFirst(c.recency, e), e)
      /\ d.less = [c.less EXCEPT ![e] = c.mru]
      /\ d.more = Set(Set(c.more, e, Nil), c.mru, e)
      /\ d.mru = e /\ d.lru = c.lru
      /\ d = Fields(d)
  BY <1>1 DEF AtFront, Fields, SameTable, SameLimit
<1>3. Set(c.more, e, Nil) \in [Entries -> Entries \union {Nil}]
  BY <1>1 DEF IsList, Set
<1>4. d.more \in [Entries -> Entries \union {Nil}] /\ d.less \in [Entries -> Entries \union {Nil}]
  <2>1. d.more \in [Entries -> Entries \union {Nil}]
    BY <1>1, <1>2, <1>3, SetIs DEF IsList
  <2>2. QED
    BY <1>1, <1>2, <2>1 DEF IsList
<1>5. d.recency \in Seq(Entries)
  <2>1. RemoveFirst(c.recency, e) \in Seq(Entries)
    <3>1. CASE e \in Range(c.recency)
      BY <1>1, <3>1, RemoveKeeps DEF IsList
    <3>2. CASE e \notin Range(c.recency)
      BY <1>1, <3>2, RemoveNothing DEF IsList
    <3>3. QED
      BY <3>1, <3>2
  <2>2. QED
    BY <1>2, <2>1
<1>6. IsList(d)
  BY <1>1, <1>2, <1>4, <1>5 DEF IsList
<1>7. IsTable(d) /\ IsLimit(d)
  BY <1>1, <1>2 DEF IsTable, IsLimit, SameTable, SameLimit
<1>8. d.less[e] = c.mru /\ \A x \in Entries : x # e => d.less[x] = c.less[x]
  BY <1>1, <1>2 DEF IsList
<1>9. QED
  BY <1>2, <1>6, <1>7, <1>8, CacheFrom DEF Extends

\* An entry that is in the table is destroyed.
LEMMA DestroyIs ==
  ASSUME NEW c \in Caches, NEW e \in Allocated(c), Placed(c), Remembered(c), NEW d, d = Destroy(c, e)
  PROVE  /\ d \in Caches /\ SameLimit(c, d) /\ d.fate = c.fate
         /\ d.mru = c.mru /\ d.lru = c.lru /\ d.bypassed = c.bypassed
         /\ Allocated(d) = Allocated(c) \ {e}
         /\ \A x \in Allocated(d) : d.key[x] = c.key[x]
         /\ \A x \in Entries \ {e} : d.users[x] = c.users[x] /\ d.more[x] = c.more[x] /\ d.less[x] = c.less[x]
         /\ d.recency = RemoveFirst(c.recency, e)
         /\ Placed(d) /\ Remembered(d)
<1>1. c = Fields(c) /\ IsTable(c) /\ IsList(c) /\ IsLimit(c)
  BY CacheHas
<1>2. e \in Entries /\ c.key[e] \in Keys /\ BucketOf[c.key[e]] \in 1 .. NumBuckets
  BY <1>1, CacheAssumption DEF IsTable, Allocated
<1>3. PICK b : b = BucketOf[c.key[e]]
  OBVIOUS
<1>4. /\ SameLimit(c, d) /\ d.fate = c.fate
      /\ d.mru = c.mru /\ d.lru = c.lru /\ d.bypassed = c.bypassed
      /\ d.recency = RemoveFirst(c.recency, e)
      /\ d.bucket = [c.bucket EXCEPT ![b] = RemoveFirst(c.bucket[b], e)]
      /\ d.key = [x \in Allocated(c) \ {e} |-> c.key[x]]
      /\ d.more = [c.more EXCEPT ![e] = Nil]
      /\ d.less = [c.less EXCEPT ![e] = Nil]
      /\ d.users = [c.users EXCEPT ![e] = 0]
      /\ d = Fields(d)
  BY <1>1, <1>3 DEF Destroy, Fields, SameLimit, Restrict
<1>5. Allocated(d) = Allocated(c) \ {e} /\ \A x \in Allocated(d) : d.key[x] = c.key[x]
  BY <1>4 DEF Allocated
<1>6. \A x \in Entries \ {e} : d.users[x] = c.users[x] /\ d.more[x] = c.more[x] /\ d.less[x] = c.less[x]
  BY <1>4
<1>7. /\ c.bucket[b] \in Seq(Entries) /\ IsInjective(c.bucket[b]) /\ e \in Range(c.bucket[b])
      /\ Range(c.bucket[b]) = {x \in Allocated(c) : BucketOf[c.key[x]] = b}
  BY <1>1, <1>2, <1>3 DEF IsTable, Placed
<1>8. PICK q : q = RemoveFirst(c.bucket[b], e)
  OBVIOUS
<1>9. q \in Seq(Entries) /\ IsInjective(q) /\ Range(q) = Range(c.bucket[b]) \ {e}
  BY <1>7, <1>8, RemoveKeeps
<1>10. d.bucket \in [1 .. NumBuckets -> Seq(Entries)]
  <2>1. c.bucket \in [1 .. NumBuckets -> Seq(Entries)]
    BY <1>1 DEF IsTable
  <2>2. d.bucket = [c.bucket EXCEPT ![b] = q]
    BY <1>4, <1>8
  <2>3. QED
    BY <1>9, <2>1, <2>2
<1>11. Placed(d)
  <2>1. SUFFICES ASSUME NEW i \in 1 .. NumBuckets
                 PROVE  IsInjective(d.bucket[i]) /\ Range(d.bucket[i]) = {x \in Allocated(d) : BucketOf[d.key[x]] = i}
    BY DEF Placed
  <2>2. IsInjective(c.bucket[i]) /\ Range(c.bucket[i]) = {x \in Allocated(c) : BucketOf[c.key[x]] = i}
    BY DEF Placed
  <2>3. {x \in Allocated(d) : BucketOf[d.key[x]] = i} = {x \in Allocated(c) : BucketOf[c.key[x]] = i} \ {e}
    BY <1>5
  <2>4. CASE i = b
    <3>1. d.bucket[i] = q
      BY <1>1, <1>4, <1>8, <2>4 DEF IsTable
    <3>2. QED
      BY <1>9, <2>2, <2>3, <2>4, <3>1
  <2>5. CASE i # b
    <3>1. d.bucket[i] = c.bucket[i]
      BY <1>1, <1>4, <2>5 DEF IsTable
    <3>2. e \notin {x \in Allocated(c) : BucketOf[c.key[x]] = i}
      BY <1>3, <2>5
    <3>3. QED
      BY <2>2, <2>3, <3>1, <3>2
  <2>6. QED
    BY <2>4, <2>5
<1>12. /\ d.recency \in Seq(Entries)
       /\ Remembered(d)
  <2>1. c.recency \in Seq(Entries) /\ IsInjective(c.recency) /\ e \in Range(c.recency)
    BY <1>1 DEF IsList, Remembered
  <2>2. d.recency \in Seq(Entries) /\ IsInjective(d.recency) /\ Range(d.recency) = Range(c.recency) \ {e}
    BY <1>4, <2>1, RemoveKeeps
  <2>3. QED
    BY <1>5, <2>2 DEF Remembered
<1>13. IsTable(d)
  <2>1. d.key \in [DOMAIN d.key -> Keys] /\ DOMAIN d.key \subseteq Entries
    BY <1>1, <1>4 DEF IsTable, Allocated
  <2>2. d.users \in [Entries -> Nat]
    <3>1. c.users \in [Entries -> Nat]
      BY <1>1 DEF IsTable
    <3>2. QED
      BY <1>2, <1>4, <3>1
  <2>3. QED
    BY <1>10, <2>1, <2>2 DEF IsTable
<1>14. IsList(d)
  <2>1. /\ c.more \in [Entries -> Entries \union {Nil}] /\ c.less \in [Entries -> Entries \union {Nil}]
        /\ d.mru \in Entries \union {Nil} /\ d.lru \in Entries \union {Nil} /\ d.bypassed \in BOOLEAN
    BY <1>1, <1>4 DEF IsList
  <2>2. d.more \in [Entries -> Entries \union {Nil}]
    <3>1. d.more = [c.more EXCEPT ![e] = Nil] /\ c.more \in [Entries -> Entries \union {Nil}]
      BY <1>4, <2>1
    <3>2. QED
      BY <3>1
  <2>3. d.less \in [Entries -> Entries \union {Nil}]
    <3>1. d.less = [c.less EXCEPT ![e] = Nil] /\ c.less \in [Entries -> Entries \union {Nil}]
      BY <1>4, <2>1
    <3>2. QED
      BY <3>1
  <2>4. QED
    BY <1>12, <2>1, <2>2, <2>3 DEF IsList
<1>15. IsLimit(d)
  BY <1>1, <1>4 DEF IsLimit, SameLimit
<1>16. d \in Caches
  BY <1>4, <1>13, <1>14, <1>15, CacheFrom
<1>17. QED
  BY <1>4, <1>5, <1>6, <1>11, <1>12, <1>16

-----------------------------------------------------------------------------
(* The list *)

SameLinks(c, d, q) ==
    /\ d.mru = c.mru /\ d.lru = c.lru
    /\ \A x \in Range(q) : d.more[x] = c.more[x] /\ d.less[x] = c.less[x]

\* The links that matter are those of the entries of the list.
LEMMA LinkedFrame ==
  ASSUME NEW c, NEW d, NEW q \in Seq(Entries), Linked(c, q), SameLinks(c, d, q)
  PROVE  Linked(d, q)
<1>1. \A i \in 1 .. Len(q) : q[i] \in Range(q)
  BY DEF Range
<1>2. QED
  BY <1>1 DEF Linked, Joined, SameLinks

\* Entries of the list are not null.
LEMMA NotNull ==
  ASSUME NEW q \in Seq(Entries), NEW i \in Int
  PROVE  /\ i \in 2 .. Len(q) + 1 => Before(q, i) = q[i - 1] /\ i - 1 \in 1 .. Len(q) /\ Before(q, i) \in Entries /\ Before(q, i) # Nil
         /\ i <= 1 => Before(q, i) = Nil
         /\ i \in 0 .. Len(q) - 1 => After(q, i) = q[i + 1] /\ i + 1 \in 1 .. Len(q) /\ After(q, i) \in Entries /\ After(q, i) # Nil
         /\ i >= Len(q) => After(q, i) = Nil
<1>1. Len(q) \in Nat /\ \A k \in 1 .. Len(q) : q[k] \in Entries
  OBVIOUS
<1>2. ASSUME i \in 2 .. Len(q) + 1 PROVE Before(q, i) = q[i - 1] /\ i - 1 \in 1 .. Len(q)
  BY <1>1, <1>2 DEF Before
<1>3. ASSUME i <= 1 PROVE Before(q, i) = Nil
  BY <1>3 DEF Before
<1>4. ASSUME i \in 0 .. Len(q) - 1 PROVE After(q, i) = q[i + 1] /\ i + 1 \in 1 .. Len(q)
  BY <1>1, <1>4 DEF After
<1>5. ASSUME i >= Len(q) PROVE After(q, i) = Nil
  BY <1>1, <1>5 DEF After
<1>6. QED
  BY <1>1, <1>2, <1>3, <1>4, <1>5, CacheAssumption

\* An entry is unlinked: its neighbours are linked to each other.
LEMMA UnlinkLinks ==
  ASSUME NEW c \in Caches, NEW q \in Seq(Entries), IsInjective(q), Linked(c, q), NEW p \in 1 .. Len(q),
         NEW r, r = RemoveFirst(q, q[p]), NEW d, d = Unlink(c, q[p])
  PROVE  Linked(d, r)
<1>1. /\ r \in Seq(Entries) /\ Len(r) = Len(q) - 1
      /\ \A i \in 1 .. Len(q) - 1 : r[i] = IF i < p THEN q[i] ELSE q[i + 1]
  <2>1. r \in Seq(Entries) /\ Without(r, q, p)
    BY RemoveIs
  <2>2. QED
    BY <2>1 DEF Without
<1>2. PICK n \in Nat : n = Len(q)
  OBVIOUS
<1>3. \A i \in 1 .. n : q[i] \in Entries /\ \A k \in 1 .. n : q[i] = q[k] => i = k
  BY <1>2 DEF IsInjective
<1>4. PICK e \in Entries : e = q[p]
  BY <1>2, <1>3
<1>5. /\ d.less = Set(c.less, c.more[e], c.less[e])
      /\ d.more = Set(c.more, c.less[e], c.more[e])
      /\ d.mru = IF c.more[e] = Nil THEN c.less[e] ELSE c.mru
      /\ d.lru = IF c.less[e] = Nil THEN c.more[e] ELSE c.lru
  BY <1>4, UnlinkIs
<1>6. /\ c.mru = Before(q, n + 1) /\ c.lru = After(q, 0)
      /\ \A i \in 1 .. n : c.more[q[i]] = After(q, i) /\ c.less[q[i]] = Before(q, i)
  BY <1>2 DEF Linked, Joined
<1>7. c.more[e] = After(q, p) /\ c.less[e] = Before(q, p)
  BY <1>2, <1>4, <1>6
<1>8. c.more \in [Entries -> Entries \union {Nil}] /\ c.less \in [Entries -> Entries \union {Nil}] /\ Nil \notin Entries
  BY CacheHas, CacheAssumption DEF IsList
<1>9. p \in Int /\ n \in Int /\ p \in 1 .. n
  BY <1>2
<1>10. /\ p < n => After(q, p) = q[p + 1] /\ p + 1 \in 1 .. n
       /\ p = n => After(q, p) = Nil
       /\ p > 1 => Before(q, p) = q[p - 1] /\ p - 1 \in 1 .. n
       /\ p = 1 => Before(q, p) = Nil
  <2>1. p < n => p \in 0 .. n - 1
    BY <1>9
  <2>2. p > 1 => p \in 2 .. n + 1
    BY <1>9
  <2>3. QED
    BY <1>2, <1>9, <2>1, <2>2, NotNull
<1>11. \A i \in 1 .. n : /\ d.less[q[i]] = IF i = p + 1 THEN Before(q, p) ELSE Before(q, i)
                         /\ d.more[q[i]] = IF i = p - 1 THEN After(q, p) ELSE After(q, i)
  <2>1. After(q, p) \in Entries \union {Nil} /\ Before(q, p) \in Entries \union {Nil}
    BY <1>4, <1>7, <1>8
  <2>2. /\ After(q, p) \in Entries => d.less[After(q, p)] = Before(q, p)
        /\ \A x \in Entries : x # After(q, p) => d.less[x] = c.less[x]
    <3>1. PICK f \in [Entries -> Entries \union {Nil}] : f = c.less
      BY <1>8
    <3>2. PICK x \in Entries \union {Nil}, v \in Entries \union {Nil} : x = After(q, p) /\ v = Before(q, p)
      BY <2>1
    <3>3. PICK g : g = Set(f, x, v)
      OBVIOUS
    <3>4. (x \in Entries => g[x] = v) /\ \A y \in Entries : y # x => g[y] = f[y]
      BY <3>3, SetIs
    <3>5. QED
      BY <1>5, <1>7, <3>1, <3>2, <3>3, <3>4
  <2>3. /\ Before(q, p) \in Entries => d.more[Before(q, p)] = After(q, p)
        /\ \A x \in Entries : x # Before(q, p) => d.more[x] = c.more[x]
    <3>1. PICK f \in [Entries -> Entries \union {Nil}] : f = c.more
      BY <1>8
    <3>2. PICK x \in Entries \union {Nil}, v \in Entries \union {Nil} : x = Before(q, p) /\ v = After(q, p)
      BY <2>1
    <3>3. PICK g : g = Set(f, x, v)
      OBVIOUS
    <3>4. (x \in Entries => g[x] = v) /\ \A y \in Entries : y # x => g[y] = f[y]
      BY <3>3, SetIs
    <3>5. QED
      BY <1>5, <1>7, <3>1, <3>2, <3>3, <3>4
  <2>4. TAKE i \in 1 .. n
  <2>5. q[i] \in Entries
    BY <1>3
  <2>6. d.less[q[i]] = IF i = p + 1 THEN Before(q, p) ELSE Before(q, i)
    <3>1. CASE i = p + 1
      <4>1. p < n
        BY <1>9, <3>1
      <4>2. After(q, p) = q[i]
        BY <1>10, <3>1, <4>1
      <4>3. QED
        BY <2>2, <2>5, <3>1, <4>2
    <3>2. CASE i # p + 1
      <4>1. After(q, p) # q[i]
        BY <1>3, <1>8, <1>9, <1>10, <2>5, <3>2
      <4>2. QED
        BY <1>6, <2>2, <2>5, <3>2, <4>1
    <3>3. QED
      BY <3>1, <3>2
  <2>7. d.more[q[i]] = IF i = p - 1 THEN After(q, p) ELSE After(q, i)
    <3>1. CASE i = p - 1
      <4>1. p > 1
        BY <1>9, <3>1
      <4>2. Before(q, p) = q[i]
        BY <1>10, <3>1, <4>1
      <4>3. QED
        BY <2>3, <2>5, <3>1, <4>2
    <3>2. CASE i # p - 1
      <4>1. Before(q, p) # q[i]
        BY <1>3, <1>8, <1>9, <1>10, <2>5, <3>2
      <4>2. QED
        BY <1>6, <2>3, <2>5, <3>2, <4>1
    <3>3. QED
      BY <3>1, <3>2
  <2>8. QED
    BY <2>6, <2>7
<1>12. ASSUME NEW i \in 1 .. n - 1 PROVE d.more[r[i]] = After(r, i) /\ d.less[r[i]] = Before(r, i)
  <2>1. i \in Int /\ i \in 1 .. n /\ i + 1 \in 1 .. n /\ Len(r) = n - 1 /\ n \in Int
    BY <1>1, <1>2
  <2>2. r[i] = IF i < p THEN q[i] ELSE q[i + 1]
    BY <1>1, <1>2
  <2>3. After(r, i) = IF i < n - 1 THEN (IF i + 1 < p THEN q[i + 1] ELSE q[i + 2]) ELSE Nil
    <3>1. CASE i < n - 1
      <4>1. i + 1 \in 1 .. n - 1 /\ (i + 1) + 1 = i + 2
        BY <2>1, <3>1
      <4>2. QED
        BY <1>1, <1>2, <2>1, <3>1, <4>1 DEF After
    <3>2. CASE ~(i < n - 1)
      BY <2>1, <3>2 DEF After
    <3>3. QED
      BY <3>1, <3>2
  <2>4. Before(r, i) = IF 1 < i THEN (IF i - 1 < p THEN q[i - 1] ELSE q[i]) ELSE Nil
    <3>1. CASE 1 < i
      <4>1. i - 1 \in 1 .. n - 1 /\ (i - 1) + 1 = i
        BY <2>1, <3>1
      <4>2. QED
        BY <1>1, <1>2, <2>1, <3>1, <4>1 DEF Before
    <3>2. CASE ~(1 < i)
      BY <3>2 DEF Before
    <3>3. QED
      BY <3>1, <3>2
  <2>5. CASE i < p
    <3>1. r[i] = q[i] /\ i # p + 1
      BY <1>9, <2>1, <2>2, <2>5
    <3>2. d.less[r[i]] = Before(q, i) /\ d.more[r[i]] = IF i = p - 1 THEN After(q, p) ELSE After(q, i)
      BY <1>11, <2>1, <3>1
    <3>3. Before(q, i) = Before(r, i)
      BY <1>9, <2>1, <2>4, <2>5 DEF Before
    <3>4. (IF i = p - 1 THEN After(q, p) ELSE After(q, i)) = After(r, i)
      BY <1>2, <1>9, <2>1, <2>3, <2>5 DEF After
    <3>5. QED
      BY <3>2, <3>3, <3>4
  <2>6. CASE ~(i < p)
    <3>1. r[i] = q[i + 1] /\ i + 1 # p - 1
      BY <1>9, <2>1, <2>2, <2>6
    <3>2. d.less[r[i]] = (IF i + 1 = p + 1 THEN Before(q, p) ELSE Before(q, i + 1)) /\ d.more[r[i]] = After(q, i + 1)
      BY <1>11, <2>1, <3>1
    <3>3. (IF i + 1 = p + 1 THEN Before(q, p) ELSE Before(q, i + 1)) = Before(r, i)
      BY <1>9, <2>1, <2>4, <2>6 DEF Before
    <3>4. After(q, i + 1) = After(r, i)
      BY <1>2, <1>9, <2>1, <2>3, <2>6 DEF After
    <3>5. QED
      BY <3>2, <3>3, <3>4
  <2>7. QED
    BY <2>5, <2>6
<1>13. d.mru = Before(r, Len(r) + 1)
  <2>1. Len(r) + 1 = n
    BY <1>1, <1>2
  <2>2. Before(r, n) = IF 1 < n THEN (IF n - 1 < p THEN q[n - 1] ELSE q[n]) ELSE Nil
    <3>1. CASE 1 < n
      <4>1. n - 1 \in 1 .. n - 1 /\ (n - 1) + 1 = n
        BY <1>9, <3>1
      <4>2. QED
        BY <1>1, <1>2, <3>1, <4>1 DEF Before
    <3>2. CASE ~(1 < n)
      BY <3>2 DEF Before
    <3>3. QED
      BY <3>1, <3>2
  <2>3. CASE p = n
    <3>1. d.mru = Before(q, p)
      BY <1>5, <1>7, <1>10, <2>3
    <3>2. QED
      BY <1>9, <2>1, <2>2, <2>3, <3>1 DEF Before
  <2>4. CASE p # n
    <3>1. p < n /\ 1 < n /\ ~(n - 1 < p) /\ 1 < n + 1
      BY <1>9, <2>4
    <3>2. c.more[e] # Nil
      BY <1>3, <1>7, <1>8, <1>10, <3>1
    <3>3. d.mru = Before(q, n + 1)
      BY <1>5, <1>6, <3>2
    <3>4. Before(q, n + 1) = q[n]
      BY <1>9, <3>1 DEF Before
    <3>5. QED
      BY <2>1, <2>2, <3>1, <3>3, <3>4
  <2>5. QED
    BY <2>3, <2>4
<1>14. d.lru = After(r, 0)
  <2>1. After(r, 0) = IF 0 < n - 1 THEN (IF 1 < p THEN q[1] ELSE q[2]) ELSE Nil
    <3>1. CASE 0 < n - 1
      <4>1. 1 \in 1 .. n - 1 /\ 0 + 1 = 1 /\ 1 + 1 = 2
        BY <1>9, <3>1
      <4>2. QED
        BY <1>1, <1>2, <3>1, <4>1 DEF After
    <3>2. CASE ~(0 < n - 1)
      BY <1>1, <1>2, <3>2 DEF After
    <3>3. QED
      BY <3>1, <3>2
  <2>2. CASE p = 1
    <3>1. d.lru = After(q, 1)
      BY <1>5, <1>7, <1>10, <2>2
    <3>2. QED
      BY <1>2, <1>9, <2>1, <2>2, <3>1 DEF After
  <2>3. CASE p # 1
    <3>1. 1 < p /\ 0 < n - 1 /\ 0 < n /\ 0 + 1 = 1
      BY <1>9, <2>3
    <3>2. c.less[e] # Nil
      BY <1>3, <1>7, <1>8, <1>10, <3>1
    <3>3. d.lru = After(q, 0)
      BY <1>5, <1>6, <3>2
    <3>4. After(q, 0) = q[1]
      BY <1>2, <3>1 DEF After
    <3>5. QED
      BY <2>1, <3>1, <3>3, <3>4
  <2>4. QED
    BY <2>2, <2>3
<1>15. QED
  <2>1. Len(r) = n - 1
    BY <1>1, <1>2
  <2>2. Joined(d, r)
    BY <1>12, <1>13, <2>1 DEF Joined
  <2>3. QED
    BY <1>14, <2>2 DEF Linked

\* A new entry at the front: it is linked to the one that was there.
LEMMA AtFrontLinks ==
  ASSUME NEW c \in Caches, IsInjective(c.recency), NEW q \in Seq(Entries), IsInjective(q), Joined(c, q),
         NEW e \in Entries, e \notin Range(q), NEW r, Extends(r, q, e), NEW d, d = AtFront(c, e)
  PROVE  /\ Joined(d, r)
         /\ Len(q) > 0 => After(r, 0) = After(q, 0)
         /\ Len(q) = 0 => After(r, 0) = e
<1>1. /\ r \in Seq(Entries) /\ IsInjective(r) /\ Len(r) = Len(q) + 1 /\ r[Len(q) + 1] = e
      /\ \A i \in 1 .. Len(q) : r[i] = q[i]
  BY AppendKeeps
<1>2. PICK n \in Nat : n = Len(q)
  OBVIOUS
<1>3. \A i \in 1 .. n : q[i] \in Entries /\ q[i] # e /\ \A k \in 1 .. n : q[i] = q[k] => i = k
  BY <1>2, SeqIs DEF IsInjective
<1>4. /\ d.less[e] = c.mru /\ \A x \in Entries : x # e => d.less[x] = c.less[x]
      /\ d.more = Set(Set(c.more, e, Nil), c.mru, e)
      /\ d.mru = e
  BY AtFrontIs
<1>5. /\ c.mru = Before(q, n + 1)
      /\ \A i \in 1 .. n : c.more[q[i]] = After(q, i) /\ c.less[q[i]] = Before(q, i)
  BY <1>2 DEF Joined
<1>6. c.more \in [Entries -> Entries \union {Nil}] /\ c.less \in [Entries -> Entries \union {Nil}] /\ Nil \notin Entries
  BY CacheHas, CacheAssumption DEF IsList
<1>7. /\ n > 0 => c.mru = q[n] /\ c.mru \in Entries /\ c.mru # Nil /\ n \in 1 .. n
      /\ n = 0 => c.mru = Nil
  <2>1. n > 0 => n + 1 \in 2 .. n + 1
    OBVIOUS
  <2>2. QED
    BY <1>2, <1>5, <2>1, NotNull
<1>8. PICK f : f = Set(c.more, e, Nil)
  OBVIOUS
<1>9. f \in [Entries -> Entries \union {Nil}] /\ f[e] = Nil /\ \A x \in Entries : x # e => f[x] = c.more[x]
  BY <1>6, <1>8 DEF Set
<1>10. d.more[e] = Nil
  <2>1. c.mru # e
    BY <1>3, <1>6, <1>7
  <2>2. QED
    BY <1>4, <1>6, <1>7, <1>8, <1>9, <2>1 DEF Set
<1>11. \A i \in 1 .. n : d.more[q[i]] = (IF i = n THEN e ELSE c.more[q[i]]) /\ d.less[q[i]] = c.less[q[i]]
  <2>1. TAKE i \in 1 .. n
  <2>2. n > 0 /\ q[i] \in Entries /\ q[i] # e
    BY <1>3
  <2>3. d.less[q[i]] = c.less[q[i]]
    BY <1>4, <1>6, <2>2
  <2>4. d.more = [f EXCEPT ![c.mru] = e]
    BY <1>4, <1>7, <1>8, <2>2 DEF Set
  <2>5. CASE i = n
    BY <1>7, <1>9, <2>2, <2>3, <2>4, <2>5
  <2>6. CASE i # n
    <3>1. q[i] # c.mru
      BY <1>3, <1>7, <2>2, <2>6
    <3>2. QED
      BY <1>9, <2>2, <2>3, <2>4, <2>6, <3>1
  <2>7. QED
    BY <2>5, <2>6
<1>12. d.mru = Before(r, Len(r) + 1)
  BY <1>1, <1>2, <1>4 DEF Before
<1>13. ASSUME NEW i \in 1 .. n + 1 PROVE d.more[r[i]] = After(r, i) /\ d.less[r[i]] = Before(r, i)
  <2>1. Len(r) = n + 1 /\ r[n + 1] = e
    BY <1>1, <1>2
  <2>2. CASE i = n + 1
    <3>1. After(r, i) = Nil
      BY <2>1, <2>2 DEF After
    <3>2. Before(r, i) = c.mru
      <4>1. CASE n = 0
        BY <1>7, <2>2, <4>1 DEF Before
      <4>2. CASE n # 0
        <5>1. 1 < n + 1 /\ n \in 1 .. Len(q) /\ (n + 1) - 1 = n
          BY <1>2, <4>2
        <5>2. QED
          BY <1>1, <1>7, <2>2, <5>1 DEF Before
      <4>3. QED
        BY <4>1, <4>2
    <3>3. d.less[e] = c.mru
      BY <1>4, <1>6
    <3>4. QED
      BY <1>10, <2>1, <2>2, <3>1, <3>2, <3>3
  <2>3. CASE i # n + 1
    <3>1. i \in 1 .. n /\ r[i] = q[i]
      BY <1>1, <1>2, <2>3
    <3>2. After(r, i) = IF i = n THEN e ELSE After(q, i)
      <4>1. CASE i = n
        BY <2>1, <4>1 DEF After
      <4>2. CASE i # n
        <5>1. i + 1 \in 1 .. Len(q) /\ i < n /\ i < n + 1
          BY <1>2, <3>1, <4>2
        <5>2. QED
          BY <1>1, <1>2, <2>1, <4>2, <5>1 DEF After
      <4>3. QED
        BY <4>1, <4>2
    <3>3. Before(r, i) = Before(q, i)
      <4>1. CASE 1 < i
        <5>1. i - 1 \in 1 .. Len(q)
          BY <1>2, <3>1, <4>1
        <5>2. QED
          BY <1>1, <5>1 DEF Before
      <4>2. CASE ~(1 < i)
        BY <4>2 DEF Before
      <4>3. QED
        BY <4>1, <4>2
    <3>4. QED
      BY <1>5, <1>11, <3>1, <3>2, <3>3
  <2>4. QED
    BY <2>2, <2>3
<1>14. Joined(d, r)
  BY <1>1, <1>2, <1>12, <1>13 DEF Joined
<1>15. ASSUME Len(q) > 0 PROVE After(r, 0) = After(q, 0)
  <2>1. 1 \in 1 .. Len(q) /\ 0 + 1 = 1 /\ 0 < Len(q) + 1
    BY <1>2, <1>15
  <2>2. QED
    BY <1>1, <1>15, <2>1 DEF After
<1>16. ASSUME Len(q) = 0 PROVE After(r, 0) = e
  BY <1>1, <1>16 DEF After
<1>17. QED
  BY <1>14, <1>15, <1>16

\* An entry of the list, and its neighbours.
LEMMA Neighbours ==
  ASSUME NEW q \in Seq(Entries), IsInjective(q), NEW c, Linked(c, q), NEW e \in Range(q)
  PROVE  /\ c.more[e] \in Range(q) \union {Nil} /\ c.less[e] \in Range(q) \union {Nil}
         /\ c.mru \in Range(q)
         /\ c.more[e] = Nil => c.mru = e
         /\ c.less[e] = Nil => c.lru = e
         /\ c.mru # e => Len(q) > 1
<1>1. PICK p \in 1 .. Len(q) : q[p] = e
  BY SeqIs
<1>2. PICK n \in Nat : n = Len(q)
  OBVIOUS
<1>3. p \in Int /\ p \in 1 .. n /\ \A i \in 1 .. n : q[i] \in Range(q)
  BY <1>1, <1>2, SeqIs
<1>4. c.mru = Before(q, n + 1) /\ c.lru = After(q, 0) /\ c.more[e] = After(q, p) /\ c.less[e] = Before(q, p)
  BY <1>1, <1>2 DEF Linked, Joined
<1>5. Before(q, n + 1) = q[n] /\ n \in 1 .. n /\ After(q, 0) = q[1] /\ 1 \in 1 .. n
  <2>1. n + 1 \in 2 .. n + 1 /\ 0 \in 0 .. n - 1 /\ n + 1 \in Int /\ 0 \in Int
    BY <1>3
  <2>2. QED
    BY <1>2, <1>3, <2>1, NotNull
<1>6. CASE p = n /\ p # 1
  <2>1. p \in 2 .. n + 1
    BY <1>3, <1>6
  <2>2. After(q, p) = Nil /\ Before(q, p) = q[p - 1] /\ p - 1 \in 1 .. n /\ Before(q, p) # Nil
    BY <1>2, <1>3, <1>6, <2>1, NotNull
  <2>3. QED
    BY <1>1, <1>2, <1>3, <1>4, <1>5, <1>6, <2>2
<1>7. CASE p = n /\ p = 1
  <2>1. p <= 1 /\ p >= n
    BY <1>3, <1>7
  <2>2. After(q, p) = Nil /\ Before(q, p) = Nil
    BY <1>2, <1>3, <2>1, NotNull
  <2>3. QED
    BY <1>1, <1>2, <1>3, <1>4, <1>5, <1>7, <2>2
<1>8. CASE p # n
  <2>1. p \in 0 .. n - 1 /\ n > 1
    BY <1>3, <1>8
  <2>2. After(q, p) = q[p + 1] /\ p + 1 \in 1 .. n /\ After(q, p) # Nil
    BY <1>2, <1>3, <2>1, NotNull
  <2>3. CASE p = 1
    <3>1. Before(q, p) = Nil
      BY <2>3, NotNull
    <3>2. QED
      BY <1>1, <1>2, <1>3, <1>4, <1>5, <2>1, <2>2, <2>3, <3>1
  <2>4. CASE p # 1
    <3>1. p \in 2 .. n + 1
      BY <1>3, <2>4
    <3>2. Before(q, p) = q[p - 1] /\ p - 1 \in 1 .. n /\ Before(q, p) # Nil
      BY <1>2, <1>3, <3>1, NotNull
    <3>3. QED
      BY <1>1, <1>2, <1>3, <1>4, <1>5, <2>1, <2>2, <3>2
  <2>5. QED
    BY <2>3, <2>4
<1>9. QED
  BY <1>6, <1>7, <1>8

-----------------------------------------------------------------------------
(* The bytes in the cache *)

Slots(f) == UNION {{e} \X (1 .. Size[f[e]]) : e \in DOMAIN f}

\* The bytes of one entry.
LEMMA SlotsOfOne ==
  ASSUME NEW x, NEW n \in Nat
  PROVE  IsFiniteSet({x} \X (1 .. n)) /\ Cardinality({x} \X (1 .. n)) = n
<1>1. PICK S : S = {x}
  OBVIOUS
<1>2. PICK T : T = 1 .. n
  OBVIOUS
<1>3. IsFiniteSet(S) /\ Cardinality(S) = 1
  BY <1>1, FS_Singleton
<1>4. IsFiniteSet(T) /\ Cardinality(T) = n
  BY <1>2, FS_Interval
<1>5. IsFiniteSet(S \X T) /\ Cardinality(S \X T) = Cardinality(S) * Cardinality(T)
  BY <1>3, <1>4, FS_Product
<1>6. QED
  BY <1>1, <1>2, <1>3, <1>4, <1>5

\* The bytes of finitely many entries are finitely many.
LEMMA SlotsFinite ==
  ASSUME NEW f, f \in [DOMAIN f -> Keys], IsFiniteSet(DOMAIN f)
  PROVE  IsFiniteSet(Slots(f)) /\ Cardinality(Slots(f)) \in Nat
<1>1. PICK D : D = DOMAIN f
  OBVIOUS
<1>2. PICK g : g = [e \in D |-> {e} \X (1 .. Size[f[e]])]
  OBVIOUS
<1>3. PICK R : R = {g[e] : e \in D}
  OBVIOUS
<1>4. IsFiniteSet(R)
  <2>1. PICK h : h = g
    OBVIOUS
  <2>2. h \in Surjection(D, R)
    BY <1>2, <1>3, <2>1 DEF Surjection
  <2>3. QED
    BY <1>1, <2>2, FS_Surjection
<1>5. \A T \in R : IsFiniteSet(T)
  <2>1. TAKE T \in R
  <2>2. PICK e \in D : T = {e} \X (1 .. Size[f[e]])
    BY <1>2, <1>3
  <2>3. Size[f[e]] \in Nat
    BY <1>1, <2>2, CacheAssumption
  <2>4. QED
    BY <2>2, <2>3, SlotsOfOne
<1>6. IsFiniteSet(UNION R)
  BY <1>4, <1>5, FS_UNION
<1>7. Slots(f) = UNION R
  BY <1>1, <1>2, <1>3 DEF Slots
<1>8. QED
  BY <1>6, <1>7, FS_CardinalityType

\* One more entry.
LEMMA SlotsGrow ==
  ASSUME NEW f, f \in [DOMAIN f -> Keys], IsFiniteSet(DOMAIN f), NEW g, NEW x, x \notin DOMAIN f,
         DOMAIN g = DOMAIN f \union {x}, g[x] \in Keys, \A y \in DOMAIN f : g[y] = f[y]
  PROVE  Cardinality(Slots(g)) = Cardinality(Slots(f)) + Size[g[x]]
<1>1. PICK T : T = {x} \X (1 .. Size[g[x]])
  OBVIOUS
<1>2. Size[g[x]] \in Nat
  BY CacheAssumption
<1>3. IsFiniteSet(T) /\ Cardinality(T) = Size[g[x]]
  BY <1>1, <1>2, SlotsOfOne
<1>4. Slots(g) = Slots(f) \union T
  BY <1>1 DEF Slots
<1>5. Slots(f) \intersect T = {}
  BY <1>1 DEF Slots
<1>6. IsFiniteSet(Slots(f)) /\ Cardinality(Slots(f)) \in Nat
  BY SlotsFinite
<1>7. Cardinality(Slots(f) \union T) = Cardinality(Slots(f)) + Cardinality(T) - Cardinality(Slots(f) \intersect T)
  BY <1>3, <1>6, FS_Union
<1>8. Cardinality(Slots(f) \intersect T) = 0
  BY <1>5, FS_EmptySet
<1>9. QED
  BY <1>2, <1>3, <1>4, <1>6, <1>7, <1>8

\* The bytes in a cache are a number.
LEMMA BytesType ==
  ASSUME NEW c \in Caches
  PROVE  Bytes(c) \in Nat /\ Bytes(c) = Cardinality(Slots(c.key)) /\ c.key \in [DOMAIN c.key -> Keys] /\ IsFiniteSet(DOMAIN c.key)
<1>1. c.key \in [DOMAIN c.key -> Keys] /\ DOMAIN c.key \subseteq Entries
  BY CacheHas DEF IsTable
<1>2. IsFiniteSet(DOMAIN c.key)
  BY <1>1, FS_Subset, CacheAssumption
<1>3. Bytes(c) = Cardinality(Slots(c.key))
  BY DEF Bytes, Slots, Allocated
<1>4. QED
  BY <1>1, <1>2, <1>3, SlotsFinite

OneMore(c, d, e) ==
    /\ e \notin Allocated(c) /\ Allocated(d) = Allocated(c) \union {e}
    /\ \A x \in Allocated(c) : d.key[x] = c.key[x]

\* The cache d has an entry more.
LEMMA BytesGrow ==
  ASSUME NEW c \in Caches, NEW d \in Caches, NEW e, OneMore(c, d, e)
  PROVE  Bytes(d) = Bytes(c) + Size[d.key[e]] /\ Size[d.key[e]] \in Nat \ {0} /\ d.key[e] \in Keys
<1>1. d.key \in [DOMAIN d.key -> Keys]
  BY CacheHas DEF IsTable
<1>2. d.key[e] \in Keys
  BY <1>1 DEF Allocated, OneMore
<1>3. /\ Bytes(c) = Cardinality(Slots(c.key)) /\ c.key \in [DOMAIN c.key -> Keys] /\ IsFiniteSet(DOMAIN c.key)
      /\ Bytes(d) = Cardinality(Slots(d.key))
  BY BytesType
<1>4. PICK f : f = c.key
  OBVIOUS
<1>5. PICK g : g = d.key
  OBVIOUS
<1>6. /\ f \in [DOMAIN f -> Keys] /\ IsFiniteSet(DOMAIN f) /\ e \notin DOMAIN f
      /\ DOMAIN g = DOMAIN f \union {e} /\ g[e] \in Keys /\ \A y \in DOMAIN f : g[y] = f[y]
  BY <1>2, <1>3, <1>4, <1>5 DEF Allocated, OneMore
<1>7. Cardinality(Slots(g)) = Cardinality(Slots(f)) + Size[g[e]]
  BY <1>6, SlotsGrow
<1>8. QED
  BY <1>2, <1>3, <1>4, <1>5, <1>7, CacheAssumption

\* The bytes depend on the keys of the entries only.
LEMMA BytesSame ==
  ASSUME NEW c, NEW d, d.key = c.key
  PROVE  Bytes(d) = Bytes(c)
  BY DEF Bytes, Allocated

-----------------------------------------------------------------------------
(* Hits and new entries *)

\* The table of a good cache says nothing of its list.
LEMMA SameTableKeeps ==
  ASSUME NEW c, NEW d, SameTable(c, d)
  PROVE  /\ Allocated(d) = Allocated(c) /\ Bytes(d) = Bytes(c)
         /\ Placed(c) => Placed(d)
         /\ Distinct(c) => Distinct(d)
         /\ Remembered(c) /\ d.recency = c.recency => Remembered(d)
<1>1. Allocated(d) = Allocated(c) /\ Bytes(d) = Bytes(c)
  BY BytesSame DEF SameTable, Allocated
<1>2. Placed(c) => Placed(d)
  BY <1>1 DEF Placed, SameTable
<1>3. Distinct(c) => Distinct(d)
  BY <1>1 DEF Distinct, SameTable
<1>4. Remembered(c) /\ d.recency = c.recency => Remembered(d)
  BY <1>1 DEF Remembered
<1>5. QED
  BY <1>1, <1>2, <1>3, <1>4

\* What a hit does to the cache before it counts the user.
LEMMA TouchKeeps ==
  ASSUME NEW c, Good(c), NEW e \in Allocated(c), NEW d, d = Touch(c, e)
  PROVE  Good(d) /\ SameTable(c, d) /\ SameLimit(c, d) /\ d.bypassed = c.bypassed
<1>1. c \in Caches /\ Placed(c) /\ Distinct(c) /\ Remembered(c) /\ Ordered(c)
  BY DEF Good
<1>2. c = Fields(c) /\ IsTable(c) /\ IsList(c) /\ IsLimit(c) /\ e \in Entries
  BY <1>1, CacheHas DEF IsTable, Allocated
<1>3. c.recency \in Seq(Entries) /\ IsInjective(c.recency) /\ Range(c.recency) = Allocated(c)
  BY <1>1, <1>2 DEF Remembered, IsList
<1>4. CASE e = c.mru
  BY <1>4 DEF Touch, SameTable, SameLimit
<1>5. CASE e # c.mru /\ (c.more[e] = Nil \/ (c.less[e] = Nil /\ c.lru # e))
  <2>1. c.bypassed
    <3>1. SUFFICES ASSUME ~c.bypassed PROVE FALSE
      OBVIOUS
    <3>2. Linked(c, c.recency)
      BY <1>1, <3>1 DEF Ordered
    <3>3. (c.more[e] = Nil => c.mru = e) /\ (c.less[e] = Nil => c.lru = e)
      BY <1>3, <3>2, Neighbours
    <3>4. QED
      BY <1>5, <3>3
  <2>2. d = [c EXCEPT !.fate = "aborted"]
    BY <1>5 DEF Touch
  <2>3. SameTable(c, d) /\ SameList(c, d) /\ SameLimit(c, d) /\ d.fate = "aborted" /\ d = Fields(d)
    BY <1>2, <2>2 DEF SameTable, SameList, SameLimit, Fields
  <2>4. IsTable(d) /\ IsList(d) /\ IsLimit(d)
    BY <1>2, <2>3 DEF IsTable, IsList, IsLimit, SameTable, SameList, SameLimit
  <2>5. d \in Caches
    BY <2>3, <2>4, CacheFrom
  <2>6. Placed(d) /\ Distinct(d) /\ Remembered(d)
    BY <1>1, <2>3, SameTableKeeps DEF SameList
  <2>7. Ordered(d)
    BY <2>1, <2>3 DEF Ordered, SameList
  <2>8. QED
    BY <2>1, <2>3, <2>5, <2>6, <2>7 DEF Good, SameList
<1>6. CASE e # c.mru /\ ~(c.more[e] = Nil \/ (c.less[e] = Nil /\ c.lru # e))
  <2>1. PICK x : x = Follow(c, {c.more[e], c.less[e], c.mru})
    OBVIOUS
  <2>2. PICK u : u = Unlink(x, e)
    OBVIOUS
  <2>3. d = AtFront(u, e)
    BY <1>6, <2>1, <2>2 DEF Touch
  <2>4. /\ x \in Caches /\ SameTable(c, x) /\ SameList(c, x) /\ SameLimit(c, x)
        /\ {c.more[e], c.less[e], c.mru} \subseteq Allocated(c) \union {Nil} => x.fate = c.fate
    BY <1>1, <2>1, FollowIs
  <2>5. u \in Caches /\ SameTable(x, u) /\ SameLimit(x, u) /\ u.fate = x.fate /\ u.recency = x.recency /\ u.bypassed = x.bypassed
    BY <1>2, <2>2, <2>4, UnlinkIs
  <2>6. u.recency = c.recency /\ u.bypassed = c.bypassed /\ IsInjective(u.recency)
    BY <1>3, <2>4, <2>5 DEF SameList
  <2>7. /\ d \in Caches /\ SameTable(u, d) /\ SameLimit(u, d) /\ d.fate = u.fate /\ d.bypassed = u.bypassed
        /\ Extends(d.recency, RemoveFirst(u.recency, e), e) /\ d.lru = u.lru
    BY <1>2, <2>3, <2>5, <2>6, AtFrontIs
  <2>8. SameTable(c, d) /\ SameLimit(c, d) /\ d.bypassed = c.bypassed
    BY <2>4, <2>5, <2>6, <2>7 DEF SameTable, SameLimit
  <2>9. PICK r : r = RemoveFirst(c.recency, e)
    OBVIOUS
  <2>10. r \in Seq(Entries) /\ IsInjective(r) /\ Range(r) = Allocated(c) \ {e}
    BY <1>3, <2>9, RemoveKeeps
  <2>11. Extends(d.recency, r, e) /\ e \notin Range(r)
    BY <2>6, <2>7, <2>9, <2>10
  <2>12. IsInjective(d.recency) /\ Range(d.recency) = Range(r) \union {e}
    BY <1>2, <2>10, <2>11, AppendKeeps
  <2>13. Remembered(d)
    BY <2>8, <2>10, <2>12, SameTableKeeps DEF Remembered
  <2>14. Ordered(d)
    <3>1. SUFFICES ASSUME ~d.bypassed PROVE Linked(d, d.recency) /\ d.fate = "fine"
      BY DEF Ordered
    <3>2. Linked(c, c.recency) /\ c.fate = "fine"
      BY <1>1, <2>8, <3>1 DEF Ordered
    <3>3. /\ c.more[e] \in Range(c.recency) \union {Nil} /\ c.less[e] \in Range(c.recency) \union {Nil}
          /\ c.mru \in Range(c.recency) /\ Len(c.recency) > 1
      BY <1>3, <1>6, <3>2, Neighbours
    <3>4. x.fate = "fine"
      BY <1>3, <2>4, <3>2, <3>3
    <3>5. PICK p \in 1 .. Len(c.recency) : c.recency[p] = e
      BY <1>3, SeqIs
    <3>6. Linked(x, c.recency)
      <4>1. x.mru = c.mru /\ x.lru = c.lru /\ x.more = c.more /\ x.less = c.less
        BY <2>4 DEF SameList
      <4>2. SameLinks(c, x, c.recency)
        BY <4>1 DEF SameLinks
      <4>3. QED
        BY <1>3, <3>2, <4>2, LinkedFrame
    <3>7. Linked(u, r)
      BY <1>3, <2>2, <2>4, <2>9, <3>5, <3>6, UnlinkLinks
    <3>8. /\ Joined(d, d.recency)
          /\ Len(r) > 0 => After(d.recency, 0) = After(r, 0)
      <4>1. Joined(u, r)
        BY <3>7 DEF Linked
      <4>2. QED
        BY <1>2, <2>3, <2>5, <2>6, <2>10, <2>11, <4>1, AtFrontLinks
    <3>9. Len(r) > 0
      <4>1. Len(r) = Len(c.recency) - 1
        BY <1>3, <2>9, <3>5, RemoveIs DEF Without
      <4>2. QED
        BY <1>3, <3>3, <4>1
    <3>10. d.lru = After(r, 0)
      BY <2>7, <3>7 DEF Linked
    <3>11. QED
      BY <2>5, <2>7, <3>4, <3>8, <3>9, <3>10 DEF Linked
  <2>15. QED
    BY <1>1, <2>7, <2>8, <2>13, <2>14, SameTableKeeps DEF Good
<1>7. QED
  BY <1>4, <1>5, <1>6

\* A new entry is put into the cache.
LEMMA InsertKeeps ==
  ASSUME NEW c, Good(c), NEW e \in Entries \ Allocated(c), NEW k \in Keys, \A f \in Allocated(c) : c.key[f] # k,
         NEW d, d = Insert(c, e, k)
  PROVE  /\ Good(d) /\ SameLimit(c, d) /\ d.bypassed = c.bypassed
         /\ Allocated(d) = Allocated(c) \union {e}
         /\ d.key[e] = k /\ d.users[e] = TupleCount
         /\ \A f \in Allocated(c) : d.key[f] = c.key[f] /\ d.users[f] = c.users[f]
<1>1. c \in Caches /\ Placed(c) /\ Distinct(c) /\ Remembered(c) /\ Ordered(c)
  BY DEF Good
<1>2. c.recency \in Seq(Entries) /\ IsInjective(c.recency) /\ Range(c.recency) = Allocated(c)
  BY <1>1, CacheHas DEF Remembered, IsList
<1>3. PICK x : x = Follow(c, {c.mru})
  OBVIOUS
<1>4. /\ x \in Caches /\ SameTable(c, x) /\ SameList(c, x) /\ SameLimit(c, x)
      /\ {c.mru} \subseteq Allocated(c) \union {Nil} => x.fate = c.fate
  BY <1>1, <1>3, FollowIs
<1>5. x.recency = c.recency /\ x.bypassed = c.bypassed /\ x.mru = c.mru /\ x.lru = c.lru /\ x.more = c.more /\ x.less = c.less
  BY <1>4 DEF SameList
<1>6. PICK u : u = AtFront(x, e)
  OBVIOUS
<1>7. /\ u \in Caches /\ SameTable(x, u) /\ SameLimit(x, u) /\ u.fate = x.fate /\ u.bypassed = x.bypassed
      /\ Extends(u.recency, RemoveFirst(x.recency, e), e) /\ u.mru = e /\ u.lru = x.lru
  BY <1>2, <1>4, <1>5, <1>6, AtFrontIs
<1>8. RemoveFirst(x.recency, e) = c.recency
  BY <1>2, <1>5, RemoveNothing
<1>9. /\ u.recency \in Seq(Entries) /\ IsInjective(u.recency) /\ Range(u.recency) = Allocated(c) \union {e}
      /\ Extends(u.recency, c.recency, e) /\ e \notin Range(c.recency)
  BY <1>2, <1>7, <1>8, AppendKeeps
<1>10. PICK b \in 1 .. NumBuckets : b = BucketOf[k]
  BY CacheAssumption
<1>11. u = Fields(u) /\ IsTable(u) /\ IsList(u) /\ IsLimit(u)
  BY <1>7, CacheHas
<1>12. u.bucket = c.bucket /\ u.key = c.key /\ u.users = c.users
  BY <1>4, <1>7 DEF SameTable
<1>13. /\ d.more = u.more /\ d.less = u.less /\ d.mru = u.mru /\ d.recency = u.recency /\ d.bypassed = u.bypassed
       /\ d.size = u.size /\ d.max = u.max /\ d.fate = u.fate
       /\ d.lru = IF u.lru = Nil THEN e ELSE u.lru
       /\ d.key = [f \in Allocated(c) \union {e} |-> IF f = e THEN k ELSE c.key[f]]
       /\ d.bucket = [u.bucket EXCEPT ![b] = <<e>> \o u.bucket[b]]
       /\ d.users = [u.users EXCEPT ![e] = TupleCount]
       /\ d = Fields(d)
  <2>1. d = [u EXCEPT !.key = [f \in Allocated(c) \union {e} |-> IF f = e THEN k ELSE c.key[f]],
                       !.bucket[b] = <<e>> \o u.bucket[b],
                       !.lru = IF u.lru = Nil THEN e ELSE u.lru,
                       !.users[e] = TupleCount]
    BY <1>3, <1>6, <1>10 DEF Insert
  <2>2. u = Fields(u)
    BY <1>11
  <2>3. /\ d.more = u.more /\ d.less = u.less /\ d.mru = u.mru /\ d.recency = u.recency /\ d.bypassed = u.bypassed
        /\ d.size = u.size /\ d.max = u.max /\ d.fate = u.fate
        /\ d.lru = IF u.lru = Nil THEN e ELSE u.lru
    BY <2>1, <2>2 DEF Fields
  <2>4. d.key = [f \in Allocated(c) \union {e} |-> IF f = e THEN k ELSE c.key[f]]
    BY <2>1, <2>2 DEF Fields
  <2>5. d.bucket = [u.bucket EXCEPT ![b] = <<e>> \o u.bucket[b]]
    BY <2>1, <2>2 DEF Fields
  <2>6. d.users = [u.users EXCEPT ![e] = TupleCount]
    BY <2>1, <2>2 DEF Fields
  <2>7. d = Fields(d)
    BY <2>1, <2>2 DEF Fields
  <2>8. QED
    BY <2>3, <2>4, <2>5, <2>6, <2>7
<1>14. /\ Allocated(d) = Allocated(c) \union {e} /\ d.key[e] = k
       /\ \A f \in Allocated(c) : d.key[f] = c.key[f]
  BY <1>13 DEF Allocated
<1>15. d.users[e] = TupleCount /\ \A f \in Entries : f # e => d.users[f] = c.users[f]
  BY <1>11, <1>12, <1>13 DEF IsTable
<1>16. Allocated(c) \subseteq Entries /\ c.key \in [Allocated(c) -> Keys]
  BY <1>11, <1>12 DEF IsTable, Allocated
<1>17. /\ c.bucket[b] \in Seq(Entries) /\ IsInjective(c.bucket[b]) /\ e \notin Range(c.bucket[b])
       /\ Range(c.bucket[b]) = {f \in Allocated(c) : BucketOf[c.key[f]] = b}
  BY <1>1, <1>11, <1>12 DEF IsTable, Placed
<1>18. PICK q : q = <<e>> \o c.bucket[b]
  OBVIOUS
<1>19. q \in Seq(Entries) /\ IsInjective(q) /\ Range(q) = Range(c.bucket[b]) \union {e}
  <2>1. Precedes(q, c.bucket[b], e)
    BY <1>18 DEF Precedes
  <2>2. QED
    BY <1>17, <2>1, PrependKeeps
<1>20. /\ d.bucket \in [1 .. NumBuckets -> Seq(Entries)]
       /\ d.bucket[b] = q /\ \A i \in 1 .. NumBuckets : i # b => d.bucket[i] = c.bucket[i]
  <2>1. c.bucket \in [1 .. NumBuckets -> Seq(Entries)]
    BY <1>11, <1>12 DEF IsTable
  <2>2. d.bucket = [c.bucket EXCEPT ![b] = q]
    BY <1>12, <1>13, <1>18
  <2>3. q \in Seq(Entries)
    BY <1>19
  <2>4. QED
    BY <2>1, <2>2, <2>3
<1>21. d \in Caches
  <2>1. d.key \in [DOMAIN d.key -> Keys] /\ DOMAIN d.key \subseteq Entries
    BY <1>13, <1>16 DEF Allocated
  <2>2. d.users \in [Entries -> Nat]
    <3>1. u.users \in [Entries -> Nat] /\ TupleCount \in Nat
      BY <1>11, CacheAssumption DEF IsTable
    <3>2. QED
      BY <1>13, <3>1
  <2>3. IsTable(d)
    BY <1>20, <2>1, <2>2 DEF IsTable
  <2>4. IsList(d) /\ IsLimit(d)
    BY <1>11, <1>13 DEF IsList, IsLimit
  <2>5. QED
    BY <1>13, <2>3, <2>4, CacheFrom
<1>22. Placed(d)
  <2>1. SUFFICES ASSUME NEW i \in 1 .. NumBuckets
                 PROVE  IsInjective(d.bucket[i]) /\ Range(d.bucket[i]) = {f \in Allocated(d) : BucketOf[d.key[f]] = i}
    BY DEF Placed
  <2>2. IsInjective(c.bucket[i]) /\ Range(c.bucket[i]) = {f \in Allocated(c) : BucketOf[c.key[f]] = i}
    BY <1>1 DEF Placed
  <2>3. {f \in Allocated(d) : BucketOf[d.key[f]] = i} =
            {f \in Allocated(c) : BucketOf[c.key[f]] = i} \union (IF i = b THEN {e} ELSE {})
    BY <1>10, <1>14
  <2>4. QED
    BY <1>19, <1>20, <2>2, <2>3
<1>23. Distinct(d)
  BY <1>1, <1>14 DEF Distinct
<1>24. Remembered(d)
  BY <1>9, <1>13, <1>14 DEF Remembered
<1>25. Ordered(d)
  <2>1. SUFFICES ASSUME ~d.bypassed PROVE Linked(d, d.recency) /\ d.fate = "fine"
    BY DEF Ordered
  <2>2. Linked(c, c.recency) /\ c.fate = "fine"
    BY <1>1, <1>5, <1>7, <1>13, <2>1 DEF Ordered
  <2>3. PICK q1 \in Seq(Entries) : q1 = c.recency
    BY <1>2
  <2>4. Len(q1) \in Nat /\ c.lru = After(q1, 0) /\ c.mru = Before(q1, Len(q1) + 1)
    BY <2>2, <2>3 DEF Linked, Joined
  <2>5. Len(q1) = 0 => c.lru = Nil /\ c.mru = Nil
    <3>1. SUFFICES ASSUME Len(q1) = 0 PROVE c.lru = Nil /\ c.mru = Nil
      OBVIOUS
    <3>2. ~(0 < Len(q1)) /\ ~(1 < Len(q1) + 1)
      BY <3>1
    <3>3. QED
      BY <2>4, <3>2 DEF After, Before
  <2>6. Len(q1) # 0 => c.lru # Nil /\ c.mru \in Range(q1)
    <3>1. SUFFICES ASSUME Len(q1) # 0 PROVE c.lru # Nil /\ c.mru \in Range(q1)
      OBVIOUS
    <3>2. 0 \in 0 .. Len(q1) - 1 /\ Len(q1) + 1 \in 2 .. Len(q1) + 1 /\ Len(q1) + 1 \in Int /\ Len(q1) \in 1 .. Len(q1)
      BY <2>4, <3>1
    <3>3. c.lru # Nil /\ c.mru = q1[Len(q1)]
      BY <2>4, <3>2, NotNull
    <3>4. QED
      BY <3>2, <3>3, SeqIs
  <2>7. x.fate = "fine"
    BY <1>2, <1>4, <2>2, <2>3, <2>4, <2>5, <2>6
  <2>8. Joined(x, c.recency)
    <3>1. SameLinks(c, x, c.recency)
      BY <1>5 DEF SameLinks
    <3>2. Linked(x, c.recency)
      BY <1>2, <2>2, <3>1, LinkedFrame
    <3>3. QED
      BY <3>2 DEF Linked
  <2>9. /\ Joined(u, u.recency)
        /\ Len(q1) > 0 => After(u.recency, 0) = After(q1, 0)
        /\ Len(q1) = 0 => After(u.recency, 0) = e
    BY <1>2, <1>4, <1>5, <1>6, <1>9, <2>3, <2>8, AtFrontLinks
  <2>10. Joined(d, d.recency)
    BY <1>13, <2>9 DEF Joined
  <2>11. d.lru = After(d.recency, 0)
    <3>1. CASE Len(q1) = 0
      BY <1>5, <1>7, <1>13, <2>5, <2>9, <3>1
    <3>2. CASE Len(q1) # 0
      <4>1. Len(q1) > 0
        BY <2>4, <3>2
      <4>2. QED
        BY <1>5, <1>7, <1>13, <2>4, <2>6, <2>9, <4>1
    <3>3. QED
      BY <3>1, <3>2
  <2>12. QED
    BY <1>7, <1>13, <2>7, <2>10, <2>11 DEF Linked
<1>26. SameLimit(c, d) /\ d.bypassed = c.bypassed
  BY <1>4, <1>5, <1>7, <1>13 DEF SameLimit
<1>27. QED
  BY <1>14, <1>15, <1>16, <1>21, <1>22, <1>23, <1>24, <1>25, <1>26 DEF Good

-----------------------------------------------------------------------------
(* Entries are taken out *)

Table(c) == Placed(c) /\ Distinct(c) /\ Remembered(c)

\* What is left of the table is what it was.
Shrinks(c, d) ==
    /\ Allocated(d) \subseteq Allocated(c)
    /\ \A e \in Allocated(d) : d.key[e] = c.key[e] /\ d.users[e] = c.users[e]
    /\ d.max = c.max
    /\ c.bypassed => d.bypassed

\* Nothing is lost that is in use.
Spares(c, d) == \A e \in Allocated(c) : c.users[e] # 0 => e \in Allocated(d)

\* The size goes down by the bytes of what is taken out.
Balances(c, d) == d.size + Bytes(c) = c.size + Bytes(d)

\* One after the other.
LEMMA ShrinksOn ==
  ASSUME NEW c, NEW d, NEW z, Shrinks(c, d), Shrinks(d, z)
  PROVE  Shrinks(c, z)
  BY DEF Shrinks

\* So is what is spared.
LEMMA SparesOn ==
  ASSUME NEW c, NEW d, NEW z, Shrinks(c, d), Spares(c, d), Spares(d, z)
  PROVE  Spares(c, z)
  BY DEF Spares, Shrinks

\* A cache that does not change.
LEMMA SameShrinks ==
  ASSUME NEW c, NEW d, SameTable(c, d), d.size = c.size, d.max = c.max, d.bypassed = c.bypassed
  PROVE  Shrinks(c, d) /\ Spares(c, d) /\ Balances(c, d)
<1>1. Allocated(d) = Allocated(c) /\ Bytes(d) = Bytes(c)
  BY SameTableKeeps
<1>2. QED
  BY <1>1 DEF Shrinks, Spares, Balances, SameTable

\* An entry that nobody uses is pruned.
LEMMA PruneTakes ==
  ASSUME NEW c \in Caches, Table(c), Sized(c), NEW e \in Allocated(c), c.users[e] = 0,
         NEW d, d = [Destroy(PruneUnlink(Follow(c, {c.more[e]}), e), e) EXCEPT !.size = @ - Size[c.key[e]]]
  PROVE  /\ d \in Caches /\ Table(d) /\ Shrinks(c, d) /\ Spares(c, d) /\ Balances(c, d)
         /\ Allocated(d) = Allocated(c) \ {e}
         /\ \A x \in Entries \ {e} : d.more[x] = c.more[x]
         /\ c.more[e] \in Allocated(c) \union {Nil} => d.fate = c.fate
         /\ Ordered(c) => Ordered(d)
<1>1. Placed(c) /\ Distinct(c) /\ Remembered(c)
  BY DEF Table
<1>2. IsTable(c) /\ IsList(c) /\ IsLimit(c) /\ e \in Entries
  BY CacheHas DEF IsTable, Allocated
<1>3. PICK x : x = Follow(c, {c.more[e]})
  OBVIOUS
<1>4. /\ x \in Caches /\ SameTable(c, x) /\ SameList(c, x) /\ SameLimit(c, x)
      /\ {c.more[e]} \subseteq Allocated(c) \union {Nil} => x.fate = c.fate
  BY <1>3, FollowIs
<1>5. x.recency = c.recency /\ x.bypassed = c.bypassed /\ x.mru = c.mru /\ x.lru = c.lru /\ x.more = c.more /\ x.less = c.less
  BY <1>4 DEF SameList
<1>6. PICK u : u = PruneUnlink(x, e)
  OBVIOUS
<1>7. /\ u \in Caches /\ SameTable(x, u) /\ SameLimit(x, u) /\ u.fate = x.fate /\ u.recency = x.recency
      /\ u.bypassed <=> x.bypassed \/ x.less[e] # Nil
      /\ u.less = Set(x.less, x.more[e], x.less[e]) /\ u.more = x.more
      /\ u.mru = IF x.mru = e THEN x.less[e] ELSE x.mru
      /\ u.lru = IF x.lru = e THEN x.more[e] ELSE x.lru
  BY <1>2, <1>4, <1>6, PruneUnlinkIs
<1>8. SameTable(c, u) /\ SameLimit(c, u)
  BY <1>4, <1>7 DEF SameTable, SameLimit
<1>9. Allocated(u) = Allocated(c) /\ Bytes(u) = Bytes(c) /\ Placed(u) /\ Distinct(u) /\ Remembered(u)
  BY <1>1, <1>5, <1>7, <1>8, SameTableKeeps
<1>10. PICK z : z = Destroy(u, e)
  OBVIOUS
<1>11. /\ z \in Caches /\ SameLimit(u, z) /\ z.fate = u.fate
       /\ z.mru = u.mru /\ z.lru = u.lru /\ z.bypassed = u.bypassed
       /\ Allocated(z) = Allocated(u) \ {e}
       /\ \A y \in Allocated(z) : z.key[y] = u.key[y]
       /\ \A y \in Entries \ {e} : z.users[y] = u.users[y] /\ z.more[y] = u.more[y] /\ z.less[y] = u.less[y]
       /\ z.recency = RemoveFirst(u.recency, e)
       /\ Placed(z) /\ Remembered(z)
  BY <1>7, <1>9, <1>10, DestroyIs
<1>12. d = [z EXCEPT !.size = z.size - Size[c.key[e]]]
  BY <1>3, <1>6, <1>10
<1>13. z = Fields(z) /\ IsTable(z) /\ IsList(z) /\ IsLimit(z)
  BY <1>11, CacheHas
<1>14. SameTable(z, d) /\ SameList(z, d) /\ d.max = z.max /\ d.fate = z.fate /\ d.size = z.size - Size[c.key[e]] /\ d = Fields(d)
  BY <1>12, <1>13 DEF SameTable, SameList, Fields
<1>15. Bytes(c) = Bytes(z) + Size[c.key[e]] /\ Size[c.key[e]] \in Nat \ {0} /\ Bytes(z) \in Nat
  <2>1. Bytes(u) = Bytes(z) + Size[u.key[e]] /\ Size[u.key[e]] \in Nat \ {0}
    <3>1. OneMore(z, u, e)
      BY <1>9, <1>11 DEF OneMore
    <3>2. QED
      BY <1>7, <1>11, <3>1, BytesGrow
  <2>2. u.key = c.key
    BY <1>8 DEF SameTable
  <2>3. QED
    BY <1>9, <1>11, <2>1, <2>2, BytesType
<1>16. z.size = c.size /\ z.max = c.max /\ c.size \in Nat /\ Bytes(c) <= c.size
  BY <1>2, <1>8, <1>11 DEF SameLimit, IsLimit, Sized
<1>17. d \in Caches
  <2>1. d.size \in Nat
    BY <1>14, <1>15, <1>16
  <2>2. IsTable(d) /\ IsList(d) /\ IsLimit(d)
    BY <1>13, <1>14, <2>1 DEF IsTable, IsList, IsLimit, SameTable, SameList
  <2>3. QED
    BY <1>14, <2>2, CacheFrom
<1>18. Allocated(d) = Allocated(z) /\ Bytes(d) = Bytes(z) /\ Placed(d) /\ Remembered(d) /\ Allocated(d) = Allocated(c) \ {e}
  <2>1. d.recency = z.recency
    BY <1>14 DEF SameList
  <2>2. QED
    BY <1>9, <1>11, <1>14, <2>1, SameTableKeeps
<1>19. \A y \in Allocated(d) : d.key[y] = c.key[y] /\ d.users[y] = c.users[y]
  <2>1. TAKE y \in Allocated(d)
  <2>2. y \in Allocated(z) /\ y \in Entries \ {e}
    BY <1>2, <1>18 DEF IsTable, Allocated
  <2>3. QED
    BY <1>8, <1>11, <1>14, <2>2 DEF SameTable
<1>20. Distinct(d)
  BY <1>1, <1>18, <1>19 DEF Distinct
<1>21. d.bypassed = u.bypassed /\ d.fate = x.fate /\ d.recency = RemoveFirst(c.recency, e) /\ d.mru = u.mru /\ d.lru = u.lru
  BY <1>5, <1>7, <1>11, <1>14 DEF SameList
<1>22. Shrinks(c, d)
  BY <1>5, <1>7, <1>14, <1>16, <1>18, <1>19, <1>21 DEF Shrinks
<1>23. Spares(c, d)
  BY <1>18 DEF Spares
<1>24. Balances(c, d)
  BY <1>14, <1>15, <1>16, <1>18 DEF Balances
<1>25. \A y \in Entries \ {e} : d.more[y] = c.more[y] /\ d.less[y] = u.less[y]
  BY <1>5, <1>7, <1>11, <1>14 DEF SameList
<1>26. ASSUME Ordered(c) PROVE Ordered(d)
  <2>1. SUFFICES ASSUME ~d.bypassed PROVE Linked(d, d.recency) /\ d.fate = "fine"
    BY DEF Ordered
  <2>2. ~c.bypassed /\ c.less[e] = Nil
    BY <1>5, <1>7, <1>21, <2>1
  <2>3. Linked(c, c.recency) /\ c.fate = "fine"
    BY <1>26, <2>2 DEF Ordered
  <2>4. c.recency \in Seq(Entries) /\ IsInjective(c.recency) /\ Range(c.recency) = Allocated(c)
    BY <1>1, <1>2 DEF Remembered, IsList
  <2>5. c.more[e] \in Allocated(c) \union {Nil} /\ c.lru = e /\ (c.more[e] = Nil => c.mru = e)
    BY <2>2, <2>3, <2>4, Neighbours
  <2>6. d.fate = "fine"
    BY <1>4, <1>21, <2>3, <2>5
  <2>7. PICK p \in 1 .. Len(c.recency) : c.recency[p] = e
    BY <2>4, SeqIs
  <2>8. PICK w : w = Unlink(c, e)
    OBVIOUS
  <2>9. Linked(w, d.recency)
    BY <1>21, <2>3, <2>4, <2>7, <2>8, UnlinkLinks
  <2>10. /\ w.less = Set(c.less, c.more[e], c.less[e])
         /\ w.more = Set(c.more, c.less[e], c.more[e])
         /\ w.mru = (IF c.more[e] = Nil THEN c.less[e] ELSE c.mru)
         /\ w.lru = IF c.less[e] = Nil THEN c.more[e] ELSE c.lru
    BY <1>2, <2>8, UnlinkIs
  <2>11. w.more = c.more
    BY <2>2, <2>10 DEF Set
  <2>12. w.less = u.less
    BY <1>5, <1>7, <2>10
  <2>13. w.lru = u.lru
    BY <1>5, <1>7, <2>2, <2>5, <2>10
  <2>14. w.mru = u.mru
    <3>1. c.mru = e => c.more[e] = Nil
      <4>1. CASE c.more[e] = Nil
        BY <4>1
      <4>2. CASE c.more[e] # Nil
        <5>1. PICK n \in Nat : n = Len(c.recency)
          BY <2>4
        <5>2. c.mru = Before(c.recency, n + 1) /\ c.more[e] = After(c.recency, p)
          BY <2>3, <2>7, <5>1 DEF Linked, Joined
        <5>3. p < n
          BY <4>2, <5>1, <5>2 DEF After
        <5>4. Before(c.recency, n + 1) = c.recency[n] /\ n \in 1 .. Len(c.recency) /\ n # p
          BY <5>1, <5>3 DEF Before
        <5>5. c.recency[n] # c.recency[p]
          BY <2>4, <5>4 DEF IsInjective
        <5>6. QED
          BY <2>7, <5>2, <5>4, <5>5
      <4>3. QED
        BY <4>1, <4>2
    <3>2. QED
      BY <1>5, <1>7, <2>2, <2>5, <2>10, <3>1
  <2>15. \A y \in Range(d.recency) : d.more[y] = w.more[y] /\ d.less[y] = w.less[y]
    <3>1. Range(d.recency) \subseteq Entries \ {e}
      BY <1>2, <1>18 DEF Remembered, IsTable, Allocated
    <3>2. QED
      BY <1>25, <2>11, <2>12, <3>1
  <2>16. d.recency \in Seq(Entries)
    BY <1>17, CacheHas DEF IsList
  <2>17. Linked(d, d.recency)
    <3>1. d.mru = w.mru /\ d.lru = w.lru
      BY <1>21, <2>13, <2>14
    <3>2. SameLinks(w, d, d.recency)
      BY <2>15, <3>1 DEF SameLinks
    <3>3. QED
      BY <2>9, <2>16, <3>2, LinkedFrame
  <2>18. QED
    BY <2>6, <2>17
<1>27. c.more[e] \in Allocated(c) \union {Nil} => d.fate = c.fate
  BY <1>4, <1>21
<1>28. Table(d)
  BY <1>18, <1>20 DEF Table
<1>29. QED
  BY <1>17, <1>18, <1>22, <1>23, <1>24, <1>25, <1>26, <1>27, <1>28

Sound(c) == c \in Caches /\ Table(c) /\ Sized(c)

Takes(c, d) == Shrinks(c, d) /\ Spares(c, d) /\ Balances(c, d)

\* The size stays above the bytes in the cache.
LEMMA SizedOn ==
  ASSUME NEW c \in Caches, NEW d \in Caches, Sized(c), Balances(c, d)
  PROVE  Sized(d)
<1>1. Bytes(c) \in Nat /\ Bytes(d) \in Nat /\ c.size \in Nat /\ d.size \in Nat
  BY BytesType, CacheHas DEF IsLimit
<1>2. QED
  BY <1>1 DEF Sized, Balances

\* One step of prune_cache: it looks at one entry.
LEMMA PruneOneKeeps ==
  ASSUME NEW c, Sound(c), NEW e, NEW d, d = PruneOne(c, e)
  PROVE  /\ Sound(d) /\ Takes(c, d)
         /\ \A x \in Allocated(c) : x # e => x \in Allocated(d) /\ d.more[x] = c.more[x]
         /\ e \in Allocated(c) \union {Nil} /\ (e \in Allocated(c) => c.more[e] \in Allocated(c) \union {Nil}) =>
                d.fate = c.fate
         /\ e \in Allocated(c) \union {Nil} /\ Ordered(c) => Ordered(d)
         /\ c.fate = "fine" => d.size <= d.max \/ e \notin Allocated(d) \/ d.users[e] # 0
         /\ c.size <= c.max => d.size <= d.max
<1>1. c \in Caches /\ Table(c) /\ Sized(c)
  BY DEF Sound
<1>2. Allocated(c) \subseteq Entries /\ Nil \notin Entries /\ IsLimit(c)
  BY <1>1, CacheHas, CacheAssumption DEF IsTable, Allocated
<1>3. CASE d = c /\ (c.size <= c.max \/ c.fate # "fine" \/ (e \in Allocated(c) /\ c.users[e] # 0))
  <2>1. SameTable(c, d) /\ d.size = c.size /\ d.max = c.max /\ d.bypassed = c.bypassed
    BY <1>3 DEF SameTable
  <2>2. Takes(c, d)
    BY <2>1, SameShrinks DEF Takes
  <2>3. QED
    BY <1>3, <2>2
<1>4. CASE e \notin Allocated(c) /\ d = Follow(c, {e})
  <2>1. /\ d \in Caches /\ SameTable(c, d) /\ SameList(c, d) /\ SameLimit(c, d)
        /\ {e} \subseteq Allocated(c) \union {Nil} => d.fate = c.fate
    BY <1>1, <1>4, FollowIs
  <2>2. d.size = c.size /\ d.max = c.max /\ d.bypassed = c.bypassed /\ d.recency = c.recency /\ d.more = c.more
    BY <2>1 DEF SameLimit, SameList
  <2>3. Takes(c, d)
    BY <2>1, <2>2, SameShrinks DEF Takes
  <2>4. Allocated(d) = Allocated(c) /\ Table(d) /\ Bytes(d) = Bytes(c)
    BY <1>1, <2>1, <2>2, SameTableKeeps DEF Table
  <2>5. Sound(d)
    BY <1>1, <2>1, <2>2, <2>4 DEF Sound, Sized
  <2>6. ASSUME e \in Allocated(c) \union {Nil}, Ordered(c) PROVE Ordered(d)
    <3>1. d.fate = c.fate
      BY <2>1, <2>6
    <3>2. c.recency \in Seq(Entries)
      BY <1>1, CacheHas DEF IsList
    <3>4. SUFFICES ASSUME ~c.bypassed PROVE Linked(d, d.recency) /\ d.fate = "fine"
      BY <2>2 DEF Ordered
    <3>5. Linked(c, c.recency) /\ c.fate = "fine"
      BY <2>6, <3>4 DEF Ordered
    <3>6. d.mru = c.mru /\ d.lru = c.lru /\ d.more = c.more /\ d.less = c.less
      BY <2>1 DEF SameList
    <3>7. SameLinks(c, d, c.recency)
      BY <3>6 DEF SameLinks
    <3>8. QED
      BY <2>2, <3>1, <3>2, <3>5, <3>7, LinkedFrame
  <2>7. QED
    BY <1>4, <2>1, <2>2, <2>3, <2>4, <2>5, <2>6
<1>5. CASE /\ e \in Allocated(c) /\ c.users[e] = 0
           /\ d = [Destroy(PruneUnlink(Follow(c, {c.more[e]}), e), e) EXCEPT !.size = @ - Size[c.key[e]]]
  <2>1. /\ d \in Caches /\ Table(d) /\ Shrinks(c, d) /\ Spares(c, d) /\ Balances(c, d)
        /\ Allocated(d) = Allocated(c) \ {e}
        /\ \A x \in Entries \ {e} : d.more[x] = c.more[x]
        /\ c.more[e] \in Allocated(c) \union {Nil} => d.fate = c.fate
        /\ Ordered(c) => Ordered(d)
    BY <1>1, <1>5, PruneTakes
  <2>2. Sound(d) /\ Takes(c, d)
    BY <1>1, <2>1, SizedOn DEF Sound, Takes
  <2>3. c.size <= c.max => d.size <= d.max
    <3>1. Bytes(c) \in Nat /\ Bytes(d) \in Nat /\ c.size \in Nat /\ d.size \in Nat /\ c.max \in Nat
      BY <1>1, <2>1, BytesType, CacheHas, CacheAssumption DEF IsLimit
    <3>2. Bytes(d) <= Bytes(c)
      <4>1. OneMore(d, c, e)
        BY <1>5, <2>1 DEF Shrinks, OneMore
      <4>2. Bytes(c) = Bytes(d) + Size[c.key[e]] /\ Size[c.key[e]] \in Nat \ {0}
        BY <1>1, <2>1, <4>1, BytesGrow
      <4>3. QED
        BY <3>1, <4>2
    <3>3. d.size + Bytes(c) = c.size + Bytes(d) /\ d.max = c.max
      BY <2>1 DEF Balances, Shrinks
    <3>4. QED
      BY <3>1, <3>2, <3>3
  <2>4. QED
    BY <1>2, <1>5, <2>1, <2>2, <2>3
<1>6. QED
  BY <1>3, <1>4, <1>5 DEF PruneOne, Prunable

-----------------------------------------------------------------------------
(* Walks *)

N == Cardinality(Entries)

\* There are finitely many entries.
LEMMA EntriesFinite ==
  IsFiniteSet(Entries) /\ N \in Nat
  BY CacheAssumption, FS_CardinalityType DEF N

\* A sequence without repetitions is no longer than there are entries.
LEMMA SeqFits ==
  ASSUME NEW q \in Seq(Entries), IsInjective(q)
  PROVE  Len(q) <= N
<1>1. PICK n \in Nat : n = Len(q)
  OBVIOUS
<1>2. IsFiniteSet(1 .. n) /\ Cardinality(1 .. n) = n
  BY FS_Interval
<1>3. q \in Injection(1 .. n, Entries)
  <2>1. q \in [1 .. n -> Entries]
    BY <1>1
  <2>2. QED
    BY <2>1 DEF Injection, IsInjective
<1>4. Cardinality(1 .. n) <= Cardinality(Entries)
  BY <1>2, <1>3, EntriesFinite, FS_Injection
<1>5. QED
  BY <1>1, <1>2, <1>4 DEF N

\* And it is as long as it has elements.
LEMMA SeqCounts ==
  ASSUME NEW q \in Seq(Entries), IsInjective(q)
  PROVE  Len(q) = Cardinality(Range(q))
<1>1. PICK n \in Nat : n = Len(q)
  OBVIOUS
<1>2. PICK R : R = Range(q)
  OBVIOUS
<1>3. IsFiniteSet(1 .. n) /\ Cardinality(1 .. n) = n
  BY FS_Interval
<1>4. q \in Bijection(1 .. n, R)
  <2>1. q \in [1 .. n -> R] /\ \A x \in R : \E i \in 1 .. n : q[i] = x
    BY <1>1, <1>2, SeqIs
  <2>2. \A i, k \in 1 .. n : q[i] = q[k] => i = k
    BY <1>1 DEF IsInjective
  <2>3. QED
    BY <2>1, <2>2 DEF Bijection, Injection, Surjection, IsInjective
<1>5. Cardinality(1 .. n) = Cardinality(R)
  <2>1. PICK T : T = 1 .. n
    OBVIOUS
  <2>2. IsFiniteSet(T) /\ ExistsBijection(T, R)
    BY <1>3, <1>4, <2>1 DEF ExistsBijection
  <2>3. QED
    BY <2>1, <2>2, FS_Bijection
<1>6. QED
  BY <1>1, <1>2, <1>3, <1>5

Leads(link, first, q) ==
    /\ first = After(q, 0)
    /\ \A i \in 1 .. Len(q) : link[q[i]] = After(q, i)

IsAlong(link, first, at) ==
    at = [i \in 1 .. N + 1 |-> IF i = 1 THEN first ELSE IF at[i - 1] = Nil THEN Nil ELSE link[at[i - 1]]]

\* A walk along links that lead through q goes through q.
LEMMA AlongIs ==
  ASSUME NEW link, NEW first, NEW q \in Seq(Entries), Leads(link, first, q)
  PROVE  /\ Along(link, first) = [i \in 1 .. N + 1 |-> Along(link, first)[i]]
         /\ \A i \in 1 .. N + 1 : Along(link, first)[i] = After(q, i - 1)
<1>1. N \in Nat
  BY EntriesFinite
<1>2. PICK l \in Nat : l = Len(q)
  OBVIOUS
<1>3. \A i \in 2 .. N + 1 : After(q, i - 1) = IF After(q, i - 2) = Nil THEN Nil ELSE link[After(q, i - 2)]
  <2>1. TAKE i \in 2 .. N + 1
  <2>2. CASE i - 2 < l
    <3>1. i - 1 \in 1 .. l /\ (i - 2) + 1 = i - 1 /\ q[i - 1] \in Entries
      BY <1>1, <1>2, <2>2
    <3>2. After(q, i - 2) = q[i - 1]
      BY <1>2, <2>2, <3>1 DEF After
    <3>3. link[q[i - 1]] = After(q, i - 1)
      BY <1>2, <3>1 DEF Leads
    <3>4. QED
      BY <3>1, <3>2, <3>3, CacheAssumption
  <2>3. CASE ~(i - 2 < l)
    <3>1. ~(i - 1 < l)
      BY <1>1, <1>2, <2>3
    <3>2. QED
      BY <1>2, <2>3, <3>1 DEF After
  <2>4. QED
    BY <2>2, <2>3
<1>4. PICK f : f = [i \in 1 .. N + 1 |-> After(q, i - 1)]
  OBVIOUS
<1>5. IsAlong(link, first, f)
  <2>1. \A i \in 1 .. N + 1 : After(q, i - 1) = IF i = 1 THEN first ELSE IF f[i - 1] = Nil THEN Nil ELSE link[f[i - 1]]
    <3> TAKE i \in 1 .. N + 1
    <3>1. CASE i = 1
      BY <3>1 DEF Leads
    <3>2. CASE i # 1
      <4>1. i \in 2 .. N + 1 /\ i - 1 \in 1 .. N + 1 /\ (i - 1) - 1 = i - 2
        BY <1>1, <3>2
      <4>2. f[i - 1] = After(q, i - 2)
        BY <1>4, <4>1
      <4>3. QED
        BY <1>3, <3>2, <4>1, <4>2
    <3>3. QED
      BY <3>1, <3>2
  <2>2. f = [i \in 1 .. N + 1 |-> IF i = 1 THEN first ELSE IF f[i - 1] = Nil THEN Nil ELSE link[f[i - 1]]]
    BY <1>4, <2>1, Zenon
  <2>3. QED
    BY <2>2, Zenon DEF IsAlong
<1>6. Along(link, first) = CHOOSE at : IsAlong(link, first, at)
  BY Zenon DEF Along, IsAlong, N
<1>7. PICK g : g = Along(link, first) /\ IsAlong(link, first, g)
  BY <1>5, <1>6, Zenon
<1>8. \A i \in 1 .. N + 1 : g[i] = IF i = 1 THEN first ELSE IF g[i - 1] = Nil THEN Nil ELSE link[g[i - 1]]
  <2>1. g = [i \in 1 .. N + 1 |-> IF i = 1 THEN first ELSE IF g[i - 1] = Nil THEN Nil ELSE link[g[i - 1]]]
    BY <1>7, Zenon DEF IsAlong
  <2>2. QED
    BY <2>1, Zenon
<1>9. PICK T : T = {i \in 1 .. N + 1 : g[i] # After(q, i - 1)}
  OBVIOUS
<1>10. T = {}
  <2> SUFFICES ASSUME T # {} PROVE FALSE
    OBVIOUS
  <2>1. T \subseteq Nat
    BY <1>1, <1>9
  <2>2. PICK n \in T : \A y \in T : n <= y
    BY <2>1, LeastExists
  <2>3. n \in 1 .. N + 1 /\ g[n] # After(q, n - 1)
    BY <1>9, <2>2
  <2>4. CASE n = 1
    BY <1>8, <2>3, <2>4 DEF Leads
  <2>5. CASE n # 1
    <3>1. n \in 2 .. N + 1 /\ n - 1 \in 1 .. N + 1 /\ (n - 1) - 1 = n - 2 /\ ~(n <= n - 1)
      BY <1>1, <2>3, <2>5
    <3>2. g[n - 1] = After(q, n - 2)
      <4>1. n - 1 \notin T
        BY <2>2, <3>1
      <4>2. QED
        BY <1>9, <3>1, <4>1
    <3>3. g[n] = After(q, n - 1)
      BY <1>3, <1>8, <2>3, <2>5, <3>1, <3>2
    <3>4. QED
      BY <2>3, <3>3
  <2>6. QED
    BY <2>4, <2>5
<1>11. g = [i \in 1 .. N + 1 |-> g[i]]
  <2>1. g = [i \in 1 .. N + 1 |-> IF i = 1 THEN first ELSE IF g[i - 1] = Nil THEN Nil ELSE link[g[i - 1]]]
    BY <1>7, Zenon DEF IsAlong
  <2>2. QED
    BY <2>1, Zenon
<1>12. QED
  BY <1>7, <1>9, <1>10, <1>11

\* So it finds all of q.
LEMMA WalkIs ==
  ASSUME NEW link, NEW first, NEW q \in Seq(Entries), IsInjective(q), Leads(link, first, q)
  PROVE  Walk(link, first) = q
<1>1. N \in Nat /\ Len(q) \in Nat /\ Len(q) <= N
  BY EntriesFinite, SeqFits
<1>2. PICK at : at = Along(link, first)
  OBVIOUS
<1>3. \A i \in 1 .. N + 1 : at[i] = After(q, i - 1)
  BY <1>2, AlongIs
<1>4. \A i \in 1 .. N + 1 : at[i] = IF i <= Len(q) THEN q[i] ELSE Nil
  <2>1. TAKE i \in 1 .. N + 1
  <2>2. i - 1 < Len(q) <=> i <= Len(q)
    BY <1>1
  <2>3. (i - 1) + 1 = i
    BY <1>1
  <2>4. QED
    BY <1>3, <2>2, <2>3 DEF After
<1>5. PICK D : D = {i \in 1 .. N + 1 : at[i] # Nil}
  OBVIOUS
<1>6. PICK l \in Nat : l = Len(q)
  OBVIOUS
<1>7. D = 1 .. l
  <2>1. \A i \in 1 .. l : q[i] # Nil /\ i \in 1 .. N + 1 /\ i <= l
    BY <1>1, <1>6, CacheAssumption
  <2>2. \A i \in 1 .. N + 1 : i <= l => i \in 1 .. l
    BY <1>1, <1>6
  <2>3. QED
    BY <1>4, <1>5, <1>6, <2>1, <2>2
<1>8. Cardinality(D) = l
  BY <1>7, FS_Interval
<1>9. Walk(link, first) = SubSeq(at, 1, l)
  BY <1>2, <1>5, <1>8 DEF Walk, N
<1>10. PICK m \in Int : m = 1
  OBVIOUS
<1>11. PICK k \in Int : k = l
  OBVIOUS
<1>12. \A i \in m .. k : at[i] \in Entries
  BY <1>1, <1>4, <1>6, <1>10, <1>11
<1>13. /\ SubSeq(at, m, k) \in Seq(Entries)
       /\ Len(SubSeq(at, m, k)) = (IF m <= k THEN k - m + 1 ELSE 0)
       /\ \A i \in 1 .. k - m + 1 : SubSeq(at, m, k)[i] = at[m + i - 1]
  BY <1>12, SubSeqProperties
<1>14. PICK s : s = SubSeq(at, m, k)
  OBVIOUS
<1>15. s \in Seq(Entries) /\ Len(s) = Len(q) /\ \A i \in 1 .. Len(s) : s[i] = q[i]
  <2>1. s \in Seq(Entries) /\ Len(s) = l
    BY <1>6, <1>10, <1>11, <1>13, <1>14
  <2>2. \A i \in 1 .. l : i \in 1 .. k - m + 1 /\ m + i - 1 = i /\ i \in 1 .. N + 1 /\ i <= Len(q)
    BY <1>1, <1>6, <1>10, <1>11
  <2>3. QED
    BY <1>4, <1>6, <1>13, <1>14, <2>1, <2>2
<1>16. s = q
  BY <1>15, SeqEqual
<1>17. QED
  BY <1>9, <1>10, <1>11, <1>14, <1>16

\* Both links lead through the list, from either end.
LEMMA BothLead ==
  ASSUME NEW c, NEW q \in Seq(Entries), IsInjective(q), Linked(c, q)
  PROVE  /\ Leads(c.more, c.lru, q)
         /\ Reverse(q) \in Seq(Entries) /\ IsInjective(Reverse(q)) /\ Leads(c.less, c.mru, Reverse(q))
<1>1. Leads(c.more, c.lru, q)
  BY DEF Linked, Joined, Leads
<1>2. PICK n \in Nat : n = Len(q)
  OBVIOUS
<1>3. PICK r : r = [i \in 1 .. n |-> q[n - i + 1]]
  OBVIOUS
<1>4. Reverse(q) = r
  BY <1>2, <1>3 DEF Reverse
<1>5. \A i \in 1 .. n : n - i + 1 \in 1 .. n /\ r[i] = q[n - i + 1] /\ r[i] \in Entries
  BY <1>2, <1>3
<1>6. r \in Seq(Entries) /\ Len(r) = n /\ DOMAIN r = 1 .. n
  <2>1. r \in [1 .. n -> Entries]
    BY <1>3, <1>5
  <2>2. QED
    BY <2>1
<1>7. IsInjective(r)
  <2>1. SUFFICES ASSUME NEW i \in 1 .. n, NEW k \in 1 .. n, r[i] = r[k] PROVE i = k
    BY <1>6 DEF IsInjective
  <2>2. PICK x \in 1 .. n, y \in 1 .. n : x = n - i + 1 /\ y = n - k + 1
    BY <1>5
  <2>3. q[x] = q[y] /\ DOMAIN q = 1 .. n
    BY <1>2, <1>5, <2>1, <2>2
  <2>4. x = y
    BY <2>3 DEF IsInjective
  <2>5. QED
    BY <2>2, <2>4
<1>8. c.mru = After(r, 0)
  <2>1. c.mru = Before(q, n + 1)
    BY <1>2 DEF Linked, Joined
  <2>2. CASE n = 0
    BY <1>6, <2>1, <2>2 DEF Before, After
  <2>3. CASE n # 0
    <3>1. 1 \in 1 .. n /\ n - 1 + 1 = n /\ 0 + 1 = 1 /\ (n + 1) - 1 = n /\ 0 < n /\ 1 < n + 1
      BY <2>3
    <3>2. r[1] = q[n]
      BY <1>5, <3>1
    <3>3. QED
      BY <1>6, <2>1, <3>1, <3>2 DEF Before, After
  <2>4. QED
    BY <2>2, <2>3
<1>9. ASSUME NEW i \in 1 .. n PROVE c.less[r[i]] = After(r, i)
  <2>1. PICK k \in 1 .. n : k = n - i + 1
    BY <1>5
  <2>2. c.less[r[i]] = Before(q, k)
    BY <1>2, <1>5, <2>1 DEF Linked, Joined
  <2>3. CASE i < n
    <3>1. i + 1 \in 1 .. n /\ n - (i + 1) + 1 = k - 1 /\ 1 < k
      BY <2>1, <2>3
    <3>2. r[i + 1] = q[k - 1]
      BY <1>5, <3>1
    <3>3. QED
      BY <1>6, <2>2, <2>3, <3>1, <3>2 DEF Before, After
  <2>4. CASE ~(i < n)
    <3>1. ~(1 < k)
      BY <2>1, <2>4
    <3>2. QED
      BY <1>6, <2>2, <2>4, <3>1 DEF Before, After
  <2>5. QED
    BY <2>3, <2>4
<1>10. Leads(c.less, c.mru, r)
  BY <1>6, <1>8, <1>9 DEF Leads
<1>11. QED
  BY <1>1, <1>4, <1>6, <1>7, <1>10

-----------------------------------------------------------------------------
(* prune_cache *)

IsPruning(c, walk, n, f) == f = [i \in 0 .. n |-> IF i = 0 THEN c ELSE PruneOne(f[i - 1], walk[i])]

\* What a recursive function is at its arguments.
LEMMA PruningAt ==
  ASSUME NEW c, NEW walk, NEW n \in Nat, NEW f, IsPruning(c, walk, n, f)
  PROVE  f[0] = c /\ \A i \in 1 .. n : f[i] = PruneOne(f[i - 1], walk[i])
<1>1. \A i \in 0 .. n : f[i] = IF i = 0 THEN c ELSE PruneOne(f[i - 1], walk[i])
  <2>1. f = [i \in 0 .. n |-> IF i = 0 THEN c ELSE PruneOne(f[i - 1], walk[i])]
    BY Zenon DEF IsPruning
  <2>2. QED
    BY <2>1, Zenon
<1>2. 0 \in 0 .. n /\ \A i \in 1 .. n : i \in 0 .. n /\ i # 0
  OBVIOUS
<1>3. QED
  BY <1>1, <1>2

\* One step more.
LEMMA PruningGrows ==
  ASSUME NEW c, NEW walk, NEW n \in Nat, NEW f, IsPruning(c, walk, n, f)
  PROVE  \E g : IsPruning(c, walk, n + 1, g)
<1>1. f[0] = c /\ \A i \in 1 .. n : f[i] = PruneOne(f[i - 1], walk[i])
  BY PruningAt
<1>2. PICK g : g = [i \in 0 .. n + 1 |-> IF i = n + 1 THEN PruneOne(f[n], walk[n + 1]) ELSE f[i]]
  OBVIOUS
<1>3. \A i \in 0 .. n : g[i] = f[i]
  BY <1>2
<1>4. \A i \in 0 .. n + 1 : (IF i = n + 1 THEN PruneOne(f[n], walk[n + 1]) ELSE f[i]) =
                            (IF i = 0 THEN c ELSE PruneOne(g[i - 1], walk[i]))
  <2>1. TAKE i \in 0 .. n + 1
  <2>2. CASE i = 0
    BY <1>1, <2>2
  <2>3. CASE i = n + 1
    <3>1. i - 1 = n /\ i # 0 /\ n \in 0 .. n
      BY <2>3
    <3>2. QED
      BY <1>3, <2>3, <3>1
  <2>4. CASE i # 0 /\ i # n + 1
    <3>1. i \in 1 .. n /\ i - 1 \in 0 .. n
      BY <2>4
    <3>2. QED
      BY <1>1, <1>3, <2>4, <3>1
  <2>5. QED
    BY <2>2, <2>3, <2>4
<1>5. g = [i \in 0 .. n + 1 |-> IF i = 0 THEN c ELSE PruneOne(g[i - 1], walk[i])]
  BY <1>2, <1>4, Zenon
<1>6. QED
  BY <1>5, Zenon DEF IsPruning

\* There is such a function, of any length.
LEMMA PruningExists ==
  ASSUME NEW c, NEW walk, NEW n \in Nat
  PROVE  \E f : IsPruning(c, walk, n, f)
<1>1. PICK T : T = {i \in Nat : ~ \E f : IsPruning(c, walk, i, f)}
  OBVIOUS
<1>2. T = {}
  <2> SUFFICES ASSUME T # {} PROVE FALSE
    OBVIOUS
  <2>1. T \subseteq Nat
    BY <1>1
  <2>2. PICK m \in T : \A y \in T : m <= y
    BY <2>1, LeastExists
  <2>3. m \in Nat /\ ~ \E f : IsPruning(c, walk, m, f)
    BY <1>1, <2>2
  <2>4. CASE m = 0
    <3>1. PICK f : f = [i \in 0 .. 0 |-> c]
      OBVIOUS
    <3>2. \A i \in 0 .. 0 : c = IF i = 0 THEN c ELSE PruneOne(f[i - 1], walk[i])
      OBVIOUS
    <3>3. f = [i \in 0 .. 0 |-> IF i = 0 THEN c ELSE PruneOne(f[i - 1], walk[i])]
      BY <3>1, <3>2, Zenon
    <3>4. IsPruning(c, walk, 0, f)
      BY <3>3, Zenon DEF IsPruning
    <3>5. QED
      BY <2>3, <2>4, <3>4
  <2>5. CASE m # 0
    <3>1. PICK k \in Nat : k + 1 = m /\ ~(m <= k)
      <4>1. m - 1 \in Nat /\ (m - 1) + 1 = m /\ ~(m <= m - 1)
        BY <2>3, <2>5
      <4>2. QED
        BY <4>1
    <3>2. k \notin T
      BY <2>2, <3>1
    <3>3. PICK f : IsPruning(c, walk, k, f)
      BY <1>1, <3>2
    <3>4. \E g : IsPruning(c, walk, k + 1, g)
      BY <3>3, PruningGrows
    <3>5. QED
      BY <2>3, <3>1, <3>4
  <2>6. QED
    BY <2>4, <2>5
<1>3. QED
  BY <1>1, <1>2

\* prune_cache step by step.
LEMMA PruneUnfolds ==
  ASSUME NEW c
  PROVE  \E f : /\ Prune(c) = f[N + 1] /\ f[0] = c
                /\ \A i \in 1 .. N + 1 : f[i] = PruneOne(f[i - 1], Along(c.more, c.lru)[i])
<1>1. PICK walk : walk = Along(c.more, c.lru)
  OBVIOUS
<1>2. N \in Nat /\ N + 1 \in Nat
  BY EntriesFinite
<1>3. PICK m \in Nat : m = N + 1
  BY <1>2
<1>4. Prune(c) = (CHOOSE f : IsPruning(c, walk, m, f))[m]
  <2>1. Prune(c) = (CHOOSE f : IsPruning(c, Along(c.more, c.lru), N + 1, f))[N + 1]
    BY Zenon DEF Prune, IsPruning, N
  <2>2. QED
    BY <1>1, <1>3, <2>1
<1>5. \E f : IsPruning(c, walk, m, f)
  BY PruningExists
<1>6. PICK g : g = (CHOOSE f : IsPruning(c, walk, m, f)) /\ IsPruning(c, walk, m, g)
  BY <1>5, Zenon
<1>7. g[0] = c /\ \A i \in 1 .. m : g[i] = PruneOne(g[i - 1], walk[i])
  <2>1. IsPruning(c, walk, m, g)
    BY <1>6
  <2>2. QED
    BY <2>1, PruningAt
<1>8. Prune(c) = g[m]
  BY <1>4, <1>6
<1>9. QED
  BY <1>1, <1>3, <1>7, <1>8

\* What the walk has still before it, and what it has left behind.
Untouched(c, d, i) ==
    \A j \in i + 1 .. Len(c.recency) : c.recency[j] \in Allocated(d) /\ d.more[c.recency[j]] = c.more[c.recency[j]]

Cleared(c, d, i) ==
    d.size <= d.max \/ \A j \in 1 .. Len(c.recency) : j <= i => c.recency[j] \notin Allocated(d) \/ d.users[c.recency[j]] # 0

PrunedTo(c, d, i) ==
    /\ Sound(d) /\ Takes(c, d) /\ Ordered(d)
    /\ ~c.bypassed => d.fate = "fine" /\ Untouched(c, d, i) /\ Cleared(c, d, i)

\* Taking out some, and then some more.
LEMMA TakesOn ==
  ASSUME NEW c, NEW d, NEW z, Sound(c), Sound(d), Sound(z), Takes(c, d), Takes(d, z)
  PROVE  Takes(c, z)
<1>1. Shrinks(c, z) /\ Spares(c, z)
  BY ShrinksOn, SparesOn DEF Takes
<1>2. /\ Bytes(c) \in Nat /\ Bytes(d) \in Nat /\ Bytes(z) \in Nat
      /\ c.size \in Nat /\ d.size \in Nat /\ z.size \in Nat
  BY BytesType, CacheHas DEF IsLimit, Sound
<1>3. Balances(c, z)
  BY <1>2 DEF Takes, Balances
<1>4. QED
  BY <1>1, <1>3 DEF Takes

\* The walk goes one step further.
LEMMA PrunesOn ==
  ASSUME NEW c, Good(c), Sized(c), NEW i \in 0 .. N, NEW d, PrunedTo(c, d, i),
         NEW e, e = Along(c.more, c.lru)[i + 1], NEW z, z = PruneOne(d, e)
  PROVE  PrunedTo(c, z, i + 1)
<1>1. Sound(d) /\ Takes(c, d) /\ Ordered(d) /\ Shrinks(c, d)
  BY DEF PrunedTo, Takes
<1>2. /\ Sound(z) /\ Takes(d, z)
      /\ \A x \in Allocated(d) : x # e => x \in Allocated(z) /\ z.more[x] = d.more[x]
      /\ (e \in Allocated(d) \union {Nil} /\ (e \in Allocated(d) => d.more[e] \in Allocated(d) \union {Nil})) => z.fate = d.fate
      /\ e \in Allocated(d) \union {Nil} /\ Ordered(d) => Ordered(z)
      /\ d.fate = "fine" => z.size <= z.max \/ e \notin Allocated(z) \/ z.users[e] # 0
      /\ d.size <= d.max => z.size <= z.max
  BY <1>1, PruneOneKeeps
<1>3. Sound(c)
  BY DEF Good, Sound, Table
<1>4. Takes(c, z) /\ Shrinks(d, z)
  BY <1>1, <1>2, <1>3, TakesOn DEF Takes
<1>5. CASE c.bypassed
  <2>1. z.bypassed
    BY <1>4, <1>5 DEF Takes, Shrinks
  <2>2. Ordered(z)
    BY <2>1 DEF Ordered
  <2>3. QED
    BY <1>2, <1>4, <1>5, <2>2 DEF PrunedTo
<1>6. CASE ~c.bypassed
  <2>1. d.fate = "fine" /\ Untouched(c, d, i) /\ Cleared(c, d, i)
    BY <1>6 DEF PrunedTo
  <2>2. /\ c.recency \in Seq(Entries) /\ IsInjective(c.recency) /\ Range(c.recency) = Allocated(c)
        /\ Linked(c, c.recency)
    BY <1>6, CacheHas DEF Good, Remembered, Ordered, IsList
  <2>3. PICK n \in Nat : n = Len(c.recency)
    BY <2>2
  <2>4. N \in Nat /\ i \in Nat /\ i + 1 \in 1 .. N + 1
    BY EntriesFinite
  <2>5. e = After(c.recency, i)
    <3>1. Leads(c.more, c.lru, c.recency)
      BY <2>2, BothLead
    <3>2. \A j \in 1 .. N + 1 : Along(c.more, c.lru)[j] = After(c.recency, j - 1)
      BY <2>2, <3>1, AlongIs
    <3>3. (i + 1) - 1 = i
      BY <2>4
    <3>4. QED
      BY <2>4, <3>2, <3>3
  <2>6. CASE i < n
    <3>1. i + 1 \in 1 .. n /\ i + 1 \in i + 1 .. n /\ i + 1 \in Int /\ i \in Int
      BY <2>4, <2>6
    <3>2. e = c.recency[i + 1]
      BY <2>3, <2>5, <2>6 DEF After
    <3>3. e \in Allocated(d) /\ d.more[e] = c.more[e]
      BY <2>1, <2>3, <3>1, <3>2 DEF Untouched
    <3>4. c.more[e] = After(c.recency, i + 1)
      BY <2>2, <2>3, <3>1, <3>2 DEF Linked, Joined
    <3>5. d.more[e] \in Allocated(d) \union {Nil}
      <4>1. CASE i + 1 < n
        <5>1. i + 2 \in i + 1 .. n /\ (i + 1) + 1 = i + 2
          BY <3>1, <4>1
        <5>2. c.more[e] = c.recency[i + 2]
          BY <2>3, <3>4, <4>1, <5>1 DEF After
        <5>3. QED
          BY <2>1, <2>3, <3>3, <5>1, <5>2 DEF Untouched
      <4>2. CASE ~(i + 1 < n)
        BY <2>3, <3>3, <3>4, <4>2 DEF After
      <4>3. QED
        BY <4>1, <4>2
    <3>6. z.fate = "fine" /\ Ordered(z)
      BY <1>1, <1>2, <2>1, <3>3, <3>5
    <3>7. Untouched(c, z, i + 1)
      <4>1. SUFFICES ASSUME NEW j \in (i + 1) + 1 .. n
                     PROVE  c.recency[j] \in Allocated(z) /\ z.more[c.recency[j]] = c.more[c.recency[j]]
        BY <2>3 DEF Untouched
      <4>2. j \in i + 1 .. n /\ j # i + 1 /\ j \in 1 .. n
        BY <2>4, <4>1
      <4>3. c.recency[j] \in Allocated(d) /\ d.more[c.recency[j]] = c.more[c.recency[j]]
        BY <2>1, <2>3, <4>2 DEF Untouched
      <4>4. c.recency[j] # e
        BY <2>2, <2>3, <3>1, <3>2, <4>2 DEF IsInjective
      <4>5. QED
        BY <1>2, <4>3, <4>4
    <3>8. Cleared(c, z, i + 1)
      <4>1. CASE d.size <= d.max
        BY <1>2, <4>1 DEF Cleared
      <4>2. CASE ~(d.size <= d.max) /\ ~(z.size <= z.max)
        <5>1. SUFFICES ASSUME NEW j \in 1 .. n, j <= i + 1
                       PROVE  c.recency[j] \notin Allocated(z) \/ z.users[c.recency[j]] # 0
          BY <2>3 DEF Cleared
        <5>2. CASE j = i + 1
          BY <1>2, <2>1, <3>2, <4>2, <5>2
        <5>3. CASE j # i + 1
          <6>1. j <= i
            BY <3>1, <5>1, <5>3
          <6>2. c.recency[j] \notin Allocated(d) \/ d.users[c.recency[j]] # 0
            BY <2>1, <2>3, <4>2, <6>1 DEF Cleared
          <6>3. QED
            BY <1>4, <6>2 DEF Shrinks
        <5>4. QED
          BY <5>2, <5>3
      <4>3. QED
        BY <4>1, <4>2 DEF Cleared
    <3>9. QED
      BY <1>2, <1>4, <3>6, <3>7, <3>8 DEF PrunedTo
  <2>7. CASE ~(i < n)
    <3>1. e = Nil
      BY <2>3, <2>5, <2>7 DEF After
    <3>2. Nil \notin Allocated(d)
      BY <1>1, CacheHas, CacheAssumption DEF Sound, IsTable, Allocated
    <3>3. z.fate = "fine" /\ Ordered(z)
      BY <1>1, <1>2, <2>1, <3>1, <3>2
    <3>4. Untouched(c, z, i + 1)
      <4>1. (i + 1) + 1 .. n = {}
        BY <2>4, <2>7
      <4>2. QED
        BY <2>3, <4>1 DEF Untouched
    <3>5. Cleared(c, z, i + 1)
      <4>1. CASE d.size <= d.max
        BY <1>2, <4>1 DEF Cleared
      <4>2. CASE ~(d.size <= d.max)
        <5>1. SUFFICES ASSUME NEW j \in 1 .. n
                       PROVE  c.recency[j] \notin Allocated(z) \/ z.users[c.recency[j]] # 0
          BY <2>3 DEF Cleared
        <5>2. j <= i
          BY <2>4, <2>7
        <5>3. c.recency[j] \notin Allocated(d) \/ d.users[c.recency[j]] # 0
          BY <2>1, <2>3, <4>2, <5>2 DEF Cleared
        <5>4. QED
          BY <1>4, <5>3 DEF Shrinks
      <4>3. QED
        BY <4>1, <4>2
    <3>6. QED
      BY <1>2, <1>4, <3>3, <3>4, <3>5 DEF PrunedTo
  <2>8. QED
    BY <2>6, <2>7
<1>7. QED
  BY <1>5, <1>6

\* prune_cache takes out only what nobody uses, keeps the list in order, and makes room
\* unless all that is left is in use.
LEMMA PruneKeeps ==
  ASSUME NEW c, Good(c), Sized(c), NEW d, d = Prune(c)
  PROVE  /\ Good(d) /\ Sized(d) /\ Takes(c, d)
         /\ ~c.bypassed => d.size <= d.max \/ \A e \in Allocated(d) : d.users[e] # 0
<1>1. N \in Nat
  BY EntriesFinite
<1>2. PICK f : /\ Prune(c) = f[N + 1] /\ f[0] = c
               /\ \A i \in 1 .. N + 1 : f[i] = PruneOne(f[i - 1], Along(c.more, c.lru)[i])
  BY PruneUnfolds
<1>3. Sound(c) /\ Takes(c, c)
  <2>1. SameTable(c, c)
    BY DEF SameTable
  <2>2. QED
    BY <2>1, SameShrinks DEF Good, Sound, Table, Takes
<1>4. ~c.bypassed => c.recency \in Seq(Entries) /\ IsInjective(c.recency) /\ Range(c.recency) = Allocated(c)
  BY CacheHas DEF Good, Remembered, IsList
<1>5. PrunedTo(c, f[0], 0)
  <2>1. Untouched(c, c, 0)
    <3>1. c.recency \in Seq(Entries) /\ Range(c.recency) = Allocated(c)
      BY CacheHas DEF Good, Remembered, IsList
    <3>2. \A j \in 0 + 1 .. Len(c.recency) : j \in 1 .. Len(c.recency)
      OBVIOUS
    <3>3. \A j \in 1 .. Len(c.recency) : c.recency[j] \in Allocated(c)
      BY <3>1, SeqIs
    <3>4. QED
      BY <3>2, <3>3 DEF Untouched
  <2>2. Cleared(c, c, 0)
    <3>1. \A j \in 1 .. Len(c.recency) : ~(j <= 0)
      OBVIOUS
    <3>2. QED
      BY <3>1 DEF Cleared
  <2>3. QED
    BY <1>2, <1>3, <2>1, <2>2 DEF PrunedTo, Good, Ordered
<1>6. PICK T : T = {i \in 0 .. N + 1 : ~PrunedTo(c, f[i], i)}
  OBVIOUS
<1>7. T = {}
  <2> SUFFICES ASSUME T # {} PROVE FALSE
    OBVIOUS
  <2>1. T \subseteq Nat
    BY <1>1, <1>6
  <2>2. PICK m \in T : \A y \in T : m <= y
    BY <2>1, LeastExists
  <2>3. m \in 0 .. N + 1 /\ ~PrunedTo(c, f[m], m)
    BY <1>6, <2>2
  <2>4. m # 0
    BY <1>5, <2>3
  <2>5. PICK k \in 0 .. N : k + 1 = m /\ m - 1 = k /\ ~(m <= k) /\ k \in 0 .. N + 1 /\ m \in 1 .. N + 1
    <3>1. /\ m - 1 \in 0 .. N /\ (m - 1) + 1 = m /\ ~(m <= m - 1)
          /\ m - 1 \in 0 .. N + 1 /\ m \in 1 .. N + 1
      BY <1>1, <2>3, <2>4
    <3>2. QED
      BY <3>1
  <2>6. PrunedTo(c, f[k], k)
    <3>1. k \notin T
      BY <2>2, <2>5
    <3>2. QED
      BY <1>6, <2>5, <3>1
  <2>7. PICK e : e = Along(c.more, c.lru)[k + 1]
    OBVIOUS
  <2>8. f[m] = PruneOne(f[k], e)
    BY <1>2, <2>5, <2>7
  <2>9. PrunedTo(c, f[m], k + 1)
    BY <2>6, <2>7, <2>8, PrunesOn
  <2>10. QED
    BY <2>3, <2>5, <2>9
<1>8. PrunedTo(c, d, N + 1)
  <2>1. N + 1 \in 0 .. N + 1
    BY <1>1
  <2>2. QED
    BY <1>2, <1>6, <1>7, <2>1
<1>9. Good(d) /\ Sized(d) /\ Takes(c, d)
  BY <1>8 DEF PrunedTo, Sound, Table, Good
<1>10. ASSUME ~c.bypassed, ~(d.size <= d.max), NEW e \in Allocated(d) PROVE d.users[e] # 0
  <2>1. e \in Allocated(c)
    BY <1>9, <1>10 DEF Takes, Shrinks
  <2>2. PICK j \in 1 .. Len(c.recency) : c.recency[j] = e
    BY <1>4, <1>10, <2>1, SeqIs
  <2>3. j <= N + 1
    <3>1. Len(c.recency) <= N /\ Len(c.recency) \in Nat
      BY <1>4, <1>10, SeqFits
    <3>2. QED
      BY <1>1, <3>1
  <2>4. Cleared(c, d, N + 1)
    BY <1>8, <1>10 DEF PrunedTo
  <2>5. QED
    BY <1>10, <2>2, <2>3, <2>4 DEF Cleared
<1>11. QED
  BY <1>9, <1>10


-----------------------------------------------------------------------------
(* halide_memoization_cache_evict *)

\* One entry is taken off the list and destroyed.
LEMMA EvictOneKeeps ==
  ASSUME NEW c, Good(c), NEW e \in Allocated(c), NEW d, d = EvictOne(c, e)
  PROVE  /\ Good(d) /\ Shrinks(c, d) /\ d.size = c.size
         /\ Allocated(d) = Allocated(c) \ {e}
         /\ Sized(c) => Sized(d)
<1>1. c \in Caches /\ Placed(c) /\ Distinct(c) /\ Remembered(c) /\ Ordered(c)
  BY DEF Good
<1>2. IsTable(c) /\ IsList(c) /\ IsLimit(c) /\ e \in Entries
  BY <1>1, CacheHas DEF IsTable, Allocated
<1>3. PICK x : x = Follow(c, {c.more[e], c.less[e]})
  OBVIOUS
<1>4. /\ x \in Caches /\ SameTable(c, x) /\ SameList(c, x) /\ SameLimit(c, x)
      /\ {c.more[e], c.less[e]} \subseteq Allocated(c) \union {Nil} => x.fate = c.fate
  BY <1>1, <1>3, FollowIs
<1>5. x.recency = c.recency /\ x.bypassed = c.bypassed /\ x.mru = c.mru /\ x.lru = c.lru /\ x.more = c.more /\ x.less = c.less
  BY <1>4 DEF SameList
<1>6. PICK u : u = Unlink(x, e)
  OBVIOUS
<1>7. u \in Caches /\ SameTable(x, u) /\ SameLimit(x, u) /\ u.fate = x.fate /\ u.recency = x.recency /\ u.bypassed = x.bypassed
  BY <1>2, <1>4, <1>6, UnlinkIs
<1>8. SameTable(c, u) /\ SameLimit(c, u)
  BY <1>4, <1>7 DEF SameTable, SameLimit
<1>9. Allocated(u) = Allocated(c) /\ Bytes(u) = Bytes(c) /\ Placed(u) /\ Distinct(u) /\ Remembered(u)
  BY <1>1, <1>5, <1>7, <1>8, SameTableKeeps
<1>10. /\ d \in Caches /\ SameLimit(u, d) /\ d.fate = u.fate
       /\ d.mru = u.mru /\ d.lru = u.lru /\ d.bypassed = u.bypassed
       /\ Allocated(d) = Allocated(u) \ {e}
       /\ \A y \in Allocated(d) : d.key[y] = u.key[y]
       /\ \A y \in Entries \ {e} : d.users[y] = u.users[y] /\ d.more[y] = u.more[y] /\ d.less[y] = u.less[y]
       /\ d.recency = RemoveFirst(u.recency, e)
       /\ Placed(d) /\ Remembered(d)
  <2>1. d = Destroy(u, e)
    BY <1>3, <1>6 DEF EvictOne
  <2>2. QED
    BY <1>7, <1>9, <2>1, DestroyIs
<1>11. Allocated(d) = Allocated(c) \ {e} /\ d.size = c.size /\ d.max = c.max
  BY <1>8, <1>9, <1>10 DEF SameLimit
<1>12. \A y \in Allocated(d) : d.key[y] = c.key[y] /\ d.users[y] = c.users[y]
  <2>1. TAKE y \in Allocated(d)
  <2>2. y \in Entries \ {e}
    BY <1>2, <1>11 DEF IsTable, Allocated
  <2>3. QED
    BY <1>8, <1>10, <2>2 DEF SameTable
<1>13. Distinct(d)
  BY <1>1, <1>11, <1>12 DEF Distinct
<1>14. Shrinks(c, d)
  BY <1>5, <1>7, <1>10, <1>11, <1>12 DEF Shrinks
<1>15. Sized(c) => Sized(d)
  <2>1. OneMore(d, c, e)
    BY <1>11, <1>12 DEF OneMore
  <2>2. Bytes(c) = Bytes(d) + Size[c.key[e]] /\ Size[c.key[e]] \in Nat \ {0}
    BY <1>1, <1>10, <2>1, BytesGrow
  <2>3. Bytes(d) \in Nat /\ Bytes(c) \in Nat /\ c.size \in Nat
    BY <1>1, <1>2, <1>10, BytesType DEF IsLimit
  <2>4. QED
    BY <1>11, <2>2, <2>3 DEF Sized
<1>16. Ordered(d)
  <2>1. SUFFICES ASSUME ~d.bypassed PROVE Linked(d, d.recency) /\ d.fate = "fine"
    BY DEF Ordered
  <2>2. Linked(c, c.recency) /\ c.fate = "fine"
    BY <1>1, <1>5, <1>7, <1>10, <2>1 DEF Ordered
  <2>3. c.recency \in Seq(Entries) /\ IsInjective(c.recency) /\ Range(c.recency) = Allocated(c)
    BY <1>1, <1>2 DEF Remembered, IsList
  <2>4. c.more[e] \in Allocated(c) \union {Nil} /\ c.less[e] \in Allocated(c) \union {Nil}
    BY <2>2, <2>3, Neighbours
  <2>5. d.fate = "fine"
    BY <1>4, <1>7, <1>10, <2>2, <2>4
  <2>6. PICK p \in 1 .. Len(c.recency) : c.recency[p] = e
    BY <2>3, SeqIs
  <2>7. Linked(x, c.recency)
    <3>1. SameLinks(c, x, c.recency)
      BY <1>5 DEF SameLinks
    <3>2. QED
      BY <2>2, <2>3, <3>1, LinkedFrame
  <2>8. PICK r : r = RemoveFirst(c.recency, e)
    OBVIOUS
  <2>9. Linked(u, r)
    BY <1>4, <1>6, <2>3, <2>6, <2>7, <2>8, UnlinkLinks
  <2>10. d.recency = r /\ r \in Seq(Entries)
    BY <1>5, <1>7, <1>10, <2>8, CacheHas DEF IsList
  <2>11. Range(r) \subseteq Entries \ {e}
    BY <1>2, <1>10, <1>11, <2>10 DEF Remembered, IsTable, Allocated
  <2>12. SameLinks(u, d, r)
    BY <1>10, <2>11 DEF SameLinks
  <2>13. QED
    BY <2>5, <2>9, <2>10, <2>12, LinkedFrame
<1>17. QED
  BY <1>10, <1>11, <1>13, <1>14, <1>15, <1>16 DEF Good

\* What is evicted are entries with that eviction key.
Evicts(c, d, key) == Shrinks(c, d) /\ d.size = c.size /\ \A e \in Allocated(c) \ Allocated(d) : e \in Tagged(c, key)

\* In the first chain that has any, the first entry with that eviction key is picked.
LEMMA EvictFirstKeeps ==
  ASSUME NEW c, Good(c), Sized(c), NEW key, NEW d, d = EvictFirst(c, key)
  PROVE  /\ Good(d) /\ Sized(d) /\ Evicts(c, d, key)
         /\ IF Tagged(c, key) = {} THEN d = c
            ELSE \E e \in Tagged(c, key) : Tagged(d, key) = Tagged(c, key) \ {e}
<1>1. PICK B : B = {i \in 1 .. NumBuckets : Range(c.bucket[i]) \intersect Tagged(c, key) # {}}
  OBVIOUS
<1>2. CASE B = {}
  <2>1. d = c
    BY <1>1, <1>2 DEF EvictFirst
  <2>2. Tagged(c, key) = {}
    <3>1. SUFFICES ASSUME NEW e \in Tagged(c, key) PROVE FALSE
      OBVIOUS
    <3>2. e \in Allocated(c) /\ c.key \in [Allocated(c) -> Keys]
      BY CacheHas DEF Tagged, Good, IsTable, Allocated
    <3>3. BucketOf[c.key[e]] \in 1 .. NumBuckets
      BY <3>2, CacheAssumption
    <3>4. e \in Range(c.bucket[BucketOf[c.key[e]]])
      BY <3>2, <3>3 DEF Good, Placed
    <3>5. QED
      BY <1>1, <1>2, <3>3, <3>4
  <2>3. QED
    BY <2>1, <2>2 DEF Evicts, Shrinks
<1>3. CASE B # {}
  <2>1. B \subseteq Nat
    BY <1>1
  <2>2. PICK b : b = Min(B)
    OBVIOUS
  <2>3. b \in B
    BY <1>3, <2>1, <2>2, MinIsLeast
  <2>4. b \in 1 .. NumBuckets /\ Range(c.bucket[b]) \intersect Tagged(c, key) # {}
    BY <1>1, <2>3
  <2>5. PICK s : s = c.bucket[b]
    OBVIOUS
  <2>6. s \in Seq(Entries)
    BY <2>4, <2>5, CacheHas DEF Good, IsTable
  <2>7. PICK J : J = {j \in 1 .. Len(s) : s[j] \in Tagged(c, key)}
    OBVIOUS
  <2>8. J \subseteq Nat /\ J # {}
    BY <2>4, <2>5, <2>6, <2>7, SeqIs
  <2>9. Min(J) \in J
    BY <2>8, MinIsLeast
  <2>10. PICK j \in 1 .. Len(s) : j = Min(J) /\ s[j] \in Tagged(c, key)
    BY <2>7, <2>9
  <2>11. d = EvictOne(c, s[j])
    <3>1. DOMAIN s = 1 .. Len(s)
      BY <2>6
    <3>2. SelectInSeq(s, LAMBDA e : e \in Tagged(c, key)) = j
      BY <2>7, <2>8, <2>10, <3>1 DEF SelectInSeq
    <3>3. d = EvictOne(c, s[SelectInSeq(s, LAMBDA e : e \in Tagged(c, key))])
      BY <1>1, <1>3, <2>2, <2>5 DEF EvictFirst
    <3>4. QED
      BY <3>2, <3>3
  <2>12. PICK e \in Allocated(c) : e = s[j] /\ e \in Tagged(c, key)
    BY <2>10 DEF Tagged
  <2>13. /\ Good(d) /\ Shrinks(c, d) /\ d.size = c.size
         /\ Allocated(d) = Allocated(c) \ {e} /\ Sized(d)
    BY <2>11, <2>12, EvictOneKeeps
  <2>14. Tagged(d, key) = Tagged(c, key) \ {e}
    BY <2>13 DEF Tagged, Shrinks
  <2>15. QED
    BY <2>12, <2>13, <2>14 DEF Evicts
<1>4. QED
  BY <1>2, <1>3

\* And then another.
LEMMA EvictsOn ==
  ASSUME NEW c, NEW d, NEW z, NEW key, Evicts(c, d, key), Evicts(d, z, key)
  PROVE  Evicts(c, z, key)
<1>1. Shrinks(c, z)
  BY ShrinksOn DEF Evicts
<1>2. \A e \in Tagged(d, key) : e \in Tagged(c, key)
  BY DEF Evicts, Shrinks, Tagged
<1>3. QED
  BY <1>1, <1>2 DEF Evicts

IsEvicting(c, key, n, f) == f = [i \in 0 .. n |-> IF i = 0 THEN c ELSE EvictFirst(f[i - 1], key)]

\* What a recursive function is at its arguments.
LEMMA EvictingAt ==
  ASSUME NEW c, NEW key, NEW n \in Nat, NEW f, IsEvicting(c, key, n, f)
  PROVE  f[0] = c /\ \A i \in 1 .. n : f[i] = EvictFirst(f[i - 1], key)
<1>1. \A i \in 0 .. n : f[i] = IF i = 0 THEN c ELSE EvictFirst(f[i - 1], key)
  <2>1. f = [i \in 0 .. n |-> IF i = 0 THEN c ELSE EvictFirst(f[i - 1], key)]
    BY Zenon DEF IsEvicting
  <2>2. QED
    BY <2>1, Zenon
<1>2. 0 \in 0 .. n /\ \A i \in 1 .. n : i \in 0 .. n /\ i # 0
  OBVIOUS
<1>3. QED
  BY <1>1, <1>2

\* One step more.
LEMMA EvictingGrows ==
  ASSUME NEW c, NEW key, NEW n \in Nat, NEW f, IsEvicting(c, key, n, f)
  PROVE  \E g : IsEvicting(c, key, n + 1, g)
<1>1. f[0] = c /\ \A i \in 1 .. n : f[i] = EvictFirst(f[i - 1], key)
  BY EvictingAt
<1>2. PICK g : g = [i \in 0 .. n + 1 |-> IF i = n + 1 THEN EvictFirst(f[n], key) ELSE f[i]]
  OBVIOUS
<1>3. \A i \in 0 .. n : g[i] = f[i]
  BY <1>2
<1>4. \A i \in 0 .. n + 1 : (IF i = n + 1 THEN EvictFirst(f[n], key) ELSE f[i]) =
                            (IF i = 0 THEN c ELSE EvictFirst(g[i - 1], key))
  <2>1. TAKE i \in 0 .. n + 1
  <2>2. CASE i = 0
    BY <1>1, <2>2
  <2>3. CASE i = n + 1
    <3>1. i - 1 = n /\ i # 0 /\ n \in 0 .. n
      BY <2>3
    <3>2. QED
      BY <1>3, <2>3, <3>1
  <2>4. CASE i # 0 /\ i # n + 1
    <3>1. i \in 1 .. n /\ i - 1 \in 0 .. n
      BY <2>4
    <3>2. QED
      BY <1>1, <1>3, <2>4, <3>1
  <2>5. QED
    BY <2>2, <2>3, <2>4
<1>5. g = [i \in 0 .. n + 1 |-> IF i = 0 THEN c ELSE EvictFirst(g[i - 1], key)]
  BY <1>2, <1>4, Zenon
<1>6. QED
  BY <1>5, Zenon DEF IsEvicting

\* There is such a function, of any length.
LEMMA EvictingExists ==
  ASSUME NEW c, NEW key, NEW n \in Nat
  PROVE  \E f : IsEvicting(c, key, n, f)
<1>1. PICK T : T = {i \in Nat : ~ \E f : IsEvicting(c, key, i, f)}
  OBVIOUS
<1>2. T = {}
  <2> SUFFICES ASSUME T # {} PROVE FALSE
    OBVIOUS
  <2>1. T \subseteq Nat
    BY <1>1
  <2>2. PICK m \in T : \A y \in T : m <= y
    BY <2>1, LeastExists
  <2>3. m \in Nat /\ ~ \E f : IsEvicting(c, key, m, f)
    BY <1>1, <2>2
  <2>4. CASE m = 0
    <3>1. PICK f : f = [i \in 0 .. 0 |-> c]
      OBVIOUS
    <3>2. \A i \in 0 .. 0 : c = IF i = 0 THEN c ELSE EvictFirst(f[i - 1], key)
      OBVIOUS
    <3>3. f = [i \in 0 .. 0 |-> IF i = 0 THEN c ELSE EvictFirst(f[i - 1], key)]
      BY <3>1, <3>2, Zenon
    <3>4. IsEvicting(c, key, 0, f)
      BY <3>3, Zenon DEF IsEvicting
    <3>5. QED
      BY <2>3, <2>4, <3>4
  <2>5. CASE m # 0
    <3>1. PICK k \in Nat : k + 1 = m /\ ~(m <= k)
      <4>1. m - 1 \in Nat /\ (m - 1) + 1 = m /\ ~(m <= m - 1)
        BY <2>3, <2>5
      <4>2. QED
        BY <4>1
    <3>2. k \notin T
      BY <2>2, <3>1
    <3>3. PICK f : IsEvicting(c, key, k, f)
      BY <1>1, <3>2
    <3>4. \E g : IsEvicting(c, key, k + 1, g)
      BY <3>3, EvictingGrows
    <3>5. QED
      BY <2>3, <3>1, <3>4
  <2>6. QED
    BY <2>4, <2>5
<1>3. QED
  BY <1>1, <1>2

\* The eviction step by step.
LEMMA EvictedUnfolds ==
  ASSUME NEW c, NEW key
  PROVE  \E f : /\ Evicted(c, key) = f[N] /\ f[0] = c
                /\ \A i \in 1 .. N : f[i] = EvictFirst(f[i - 1], key)
<1>1. PICK m \in Nat : m = N
  BY EntriesFinite
<1>2. Evicted(c, key) = (CHOOSE f : IsEvicting(c, key, m, f))[m]
  <2>1. Evicted(c, key) = (CHOOSE f : IsEvicting(c, key, N, f))[N]
    BY Zenon DEF Evicted, IsEvicting, N
  <2>2. QED
    BY <1>1, <2>1
<1>3. \E f : IsEvicting(c, key, m, f)
  BY EvictingExists
<1>4. PICK g : g = (CHOOSE f : IsEvicting(c, key, m, f)) /\ IsEvicting(c, key, m, g)
  BY <1>3, Zenon
<1>5. g[0] = c /\ \A i \in 1 .. m : g[i] = EvictFirst(g[i - 1], key)
  <2>1. IsEvicting(c, key, m, g)
    BY <1>4
  <2>2. QED
    BY <2>1, EvictingAt
<1>6. Evicted(c, key) = g[m]
  BY <1>2, <1>4
<1>7. QED
  BY <1>1, <1>5, <1>6

\* No more than n entries with that eviction key are left.
AtMost(c, key, n) == Cardinality(Tagged(c, key)) <= n

\* The entries with an eviction key can be counted.
LEMMA TaggedFinite ==
  ASSUME NEW c, Good(c), NEW key
  PROVE  IsFiniteSet(Tagged(c, key)) /\ Cardinality(Tagged(c, key)) \in Nat /\ Cardinality(Tagged(c, key)) <= N
<1>1. Tagged(c, key) \in SUBSET Entries
  BY CacheHas DEF Good, IsTable, Tagged, Allocated
<1>2. IsFiniteSet(Tagged(c, key)) /\ Cardinality(Tagged(c, key)) <= Cardinality(Entries)
  BY <1>1, EntriesFinite, FS_Subset
<1>3. QED
  BY <1>2, FS_CardinalityType DEF N

\* What is left to evict after one step more.
LEMMA EvictFirstCounts ==
  ASSUME NEW c, Good(c), Sized(c), NEW key, NEW n \in Nat, AtMost(c, key, n + 1), NEW d, d = EvictFirst(c, key)
  PROVE  AtMost(d, key, n)
<1>1. IsFiniteSet(Tagged(c, key)) /\ Cardinality(Tagged(c, key)) \in Nat /\ Cardinality(Tagged(c, key)) <= n + 1
  BY TaggedFinite DEF AtMost
<1>2. CASE Tagged(c, key) = {}
  <2>1. d = c
    BY <1>2, EvictFirstKeeps
  <2>2. Cardinality(Tagged(c, key)) = 0
    BY <1>2, FS_EmptySet
  <2>3. QED
    BY <2>1, <2>2 DEF AtMost
<1>3. CASE Tagged(c, key) # {}
  <2>1. PICK e \in Tagged(c, key) : Tagged(d, key) = Tagged(c, key) \ {e}
    BY <1>3, EvictFirstKeeps
  <2>2. PICK S : S = Tagged(c, key)
    OBVIOUS
  <2>3. Cardinality(S \ {e}) = Cardinality(S) - 1
    BY <1>1, <2>1, <2>2, FS_RemoveElement
  <2>4. QED
    BY <1>1, <2>1, <2>2, <2>3 DEF AtMost
<1>4. QED
  BY <1>2, <1>3

\* An eviction keeps the cache in order and destroys what it was asked to, and nothing else.
LEMMA EvictKeeps ==
  ASSUME NEW c, Good(c), Sized(c), NEW key, NEW d, d = Evicted(c, key)
  PROVE  Good(d) /\ Sized(d) /\ Evicts(c, d, key) /\ Tagged(d, key) = {}
<1>1. N \in Nat
  BY EntriesFinite
<1>2. PICK f : /\ Evicted(c, key) = f[N] /\ f[0] = c
               /\ \A i \in 1 .. N : f[i] = EvictFirst(f[i - 1], key)
  BY EvictedUnfolds
<1>3. PICK T : T = {i \in 0 .. N : ~(Good(f[i]) /\ Sized(f[i]) /\ Evicts(c, f[i], key) /\ AtMost(f[i], key, N - i))}
  OBVIOUS
<1>4. T = {}
  <2> SUFFICES ASSUME T # {} PROVE FALSE
    OBVIOUS
  <2>1. T \subseteq Nat
    BY <1>1, <1>3
  <2>2. PICK m \in T : \A y \in T : m <= y
    BY <2>1, LeastExists
  <2>3. m \in 0 .. N /\ ~(Good(f[m]) /\ Sized(f[m]) /\ Evicts(c, f[m], key) /\ AtMost(f[m], key, N - m))
    BY <1>3, <2>2
  <2>4. m # 0
    <3>1. Evicts(c, c, key)
      BY DEF Evicts, Shrinks
    <3>2. AtMost(c, key, N) /\ N - 0 = N
      BY <1>1, TaggedFinite DEF AtMost
    <3>3. QED
      BY <1>2, <2>3, <3>1, <3>2
  <2>5. PICK k \in 0 .. N : m - 1 = k /\ ~(m <= k) /\ m \in 1 .. N /\ N - k = (N - m) + 1 /\ N - m \in Nat
    <3>1. m - 1 \in 0 .. N /\ ~(m <= m - 1) /\ m \in 1 .. N /\ N - (m - 1) = (N - m) + 1 /\ N - m \in Nat
      BY <1>1, <2>3, <2>4
    <3>2. QED
      BY <3>1
  <2>6. Good(f[k]) /\ Sized(f[k]) /\ Evicts(c, f[k], key) /\ AtMost(f[k], key, (N - m) + 1)
    <3>1. k \notin T
      BY <2>2, <2>5
    <3>2. QED
      BY <1>3, <2>5, <3>1
  <2>7. f[m] = EvictFirst(f[k], key)
    BY <1>2, <2>5
  <2>8. Good(f[m]) /\ Sized(f[m]) /\ Evicts(f[k], f[m], key)
    BY <2>6, <2>7, EvictFirstKeeps
  <2>9. Evicts(c, f[m], key)
    BY <2>6, <2>8, EvictsOn
  <2>10. AtMost(f[m], key, N - m)
    BY <2>5, <2>6, <2>7, EvictFirstCounts
  <2>11. QED
    BY <2>3, <2>8, <2>9, <2>10
<1>5. N \in 0 .. N /\ N - N = 0
  BY <1>1
<1>6. Good(d) /\ Sized(d) /\ Evicts(c, d, key) /\ AtMost(d, key, 0)
  BY <1>2, <1>3, <1>4, <1>5
<1>7. Tagged(d, key) = {}
  <2>1. Cardinality(Tagged(d, key)) = 0
    BY <1>6, TaggedFinite DEF AtMost
  <2>2. QED
    BY <1>6, <2>1, TaggedFinite, FS_EmptySet
<1>8. QED
  BY <1>6, <1>7

-----------------------------------------------------------------------------
(* The buffers in the hands of clients *)

Holds(p, u, t, e) == p[t] = "using" /\ u[t] = e

Hands(p, u, h, e) == {b \in Clients \X (1 .. TupleCount) : Holds(p, u, b[1], e) /\ b[2] <= h[b[1]]}

\* InHands is about the state the clients are in.
LEMMA InHandsIs ==
  \A e : InHands(e) = Hands(pc, using, held, e)
  BY DEF InHands, Hands, Holds

\* They are finitely many.
LEMMA HandsFinite ==
  ASSUME NEW p, NEW u, NEW h, NEW e
  PROVE  IsFiniteSet(Hands(p, u, h, e)) /\ Cardinality(Hands(p, u, h, e)) \in Nat
<1>1. PICK B : B = 1 .. TupleCount
  OBVIOUS
<1>2. IsFiniteSet(Clients) /\ IsFiniteSet(B)
  BY <1>1, FS_Interval, CacheAssumption
<1>3. PICK A : A = Clients \X B
  OBVIOUS
<1>4. IsFiniteSet(A)
  BY <1>2, <1>3, FS_Product
<1>5. Hands(p, u, h, e) \in SUBSET A
  BY <1>1, <1>3 DEF Hands
<1>6. IsFiniteSet(Hands(p, u, h, e))
  BY <1>4, <1>5, FS_Subset
<1>7. QED
  BY <1>6, FS_CardinalityType

\* Who holds an entry, and how much of it, goes on as it was.
SameHands(p, u, h, p2, u2, h2, e) ==
    \A t \in Clients : (Holds(p2, u2, t, e) <=> Holds(p, u, t, e)) /\ (Holds(p, u, t, e) => h2[t] = h[t])

\* Then the buffers in hands are the same.
LEMMA HandsSame ==
  ASSUME NEW p, NEW u, NEW h, NEW p2, NEW u2, NEW h2, NEW e, SameHands(p, u, h, p2, u2, h2, e)
  PROVE  Hands(p2, u2, h2, e) = Hands(p, u, h, e)
<1>1. \A b \in Clients \X (1 .. TupleCount) :
        (Holds(p2, u2, b[1], e) /\ b[2] <= h2[b[1]]) <=> (Holds(p, u, b[1], e) /\ b[2] <= h[b[1]])
  <2>1. TAKE b \in Clients \X (1 .. TupleCount)
  <2>2. b[1] \in Clients
    OBVIOUS
  <2>3. (Holds(p2, u2, b[1], e) <=> Holds(p, u, b[1], e)) /\ (Holds(p, u, b[1], e) => h2[b[1]] = h[b[1]])
    BY <2>2 DEF SameHands
  <2>4. QED
    BY <2>3
<1>2. QED
  BY <1>1 DEF Hands

\* One client takes all the buffers of an entry.
TakesAll(p, u, h, p2, u2, h2, t, e) ==
    /\ ~Holds(p, u, t, e) /\ Holds(p2, u2, t, e) /\ h2[t] = TupleCount
    /\ \A s \in Clients : s # t =>
         (Holds(p2, u2, s, e) <=> Holds(p, u, s, e)) /\ (Holds(p, u, s, e) => h2[s] = h[s])

\* Then there are TupleCount more in hands.
LEMMA HandsMore ==
  ASSUME NEW p, NEW u, NEW h, NEW p2, NEW u2, NEW h2, NEW e, NEW t \in Clients, TakesAll(p, u, h, p2, u2, h2, t, e)
  PROVE  Cardinality(Hands(p2, u2, h2, e)) = Cardinality(Hands(p, u, h, e)) + TupleCount
<1>1. PICK T : T = {t} \X (1 .. TupleCount)
  OBVIOUS
<1>2. PICK H : H = Hands(p, u, h, e)
  OBVIOUS
<1>3. TupleCount \in Nat
  BY CacheAssumption
<1>4. IsFiniteSet(T) /\ Cardinality(T) = TupleCount
  BY <1>1, <1>3, SlotsOfOne
<1>5. IsFiniteSet(H) /\ Cardinality(H) \in Nat
  BY <1>2, HandsFinite
<1>6. \A b \in Clients \X (1 .. TupleCount) :
        (Holds(p2, u2, b[1], e) /\ b[2] <= h2[b[1]]) <=> (Holds(p, u, b[1], e) /\ b[2] <= h[b[1]]) \/ b[1] = t
  <2>1. TAKE b \in Clients \X (1 .. TupleCount)
  <2>2. b[1] \in Clients /\ b[2] \in 1 .. TupleCount
    OBVIOUS
  <2>3. CASE b[1] = t
    <3>1. b[2] <= TupleCount
      BY <1>3, <2>2
    <3>2. QED
      BY <2>3, <3>1 DEF TakesAll
  <2>4. CASE b[1] # t
    <3>1. (Holds(p2, u2, b[1], e) <=> Holds(p, u, b[1], e)) /\ (Holds(p, u, b[1], e) => h2[b[1]] = h[b[1]])
      BY <2>2, <2>4 DEF TakesAll
    <3>2. QED
      BY <2>4, <3>1
  <2>5. QED
    BY <2>3, <2>4
<1>7. Hands(p2, u2, h2, e) = {b \in Clients \X (1 .. TupleCount) : (Holds(p, u, b[1], e) /\ b[2] <= h[b[1]]) \/ b[1] = t}
  BY <1>6 DEF Hands
<1>8. Hands(p2, u2, h2, e) = H \union T
  BY <1>1, <1>2, <1>7 DEF Hands
<1>9. H \intersect T = {}
  BY <1>1, <1>2 DEF Hands, TakesAll
<1>10. Cardinality(H \union T) = Cardinality(H) + Cardinality(T) - Cardinality(H \intersect T)
  BY <1>4, <1>5, FS_Union
<1>11. Cardinality(H \intersect T) = 0
  BY <1>9, FS_EmptySet
<1>12. QED
  BY <1>2, <1>3, <1>4, <1>5, <1>8, <1>10, <1>11

\* One client lets one buffer of an entry go.
LetsGo(p, u, h, p2, u2, h2, t, e) ==
    /\ Holds(p, u, t, e) /\ h[t] \in 1 .. TupleCount
    /\ IF h[t] = 1 THEN ~Holds(p2, u2, t, e) ELSE Holds(p2, u2, t, e) /\ h2[t] = h[t] - 1
    /\ \A s \in Clients : s # t =>
         (Holds(p2, u2, s, e) <=> Holds(p, u, s, e)) /\ (Holds(p, u, s, e) => h2[s] = h[s])

\* Then there is one less in hands.
LEMMA HandsLess ==
  ASSUME NEW p, NEW u, NEW h, NEW p2, NEW u2, NEW h2, NEW e, NEW t \in Clients, LetsGo(p, u, h, p2, u2, h2, t, e)
  PROVE  /\ Cardinality(Hands(p, u, h, e)) \in Nat \ {0}
         /\ Cardinality(Hands(p2, u2, h2, e)) = Cardinality(Hands(p, u, h, e)) - 1
<1>1. PICK n \in 1 .. TupleCount : n = h[t]
  BY DEF LetsGo
<1>2. PICK H : H = Hands(p, u, h, e)
  OBVIOUS
<1>3. PICK a : a = <<t, n>>
  OBVIOUS
<1>4. IsFiniteSet(H) /\ Cardinality(H) \in Nat
  BY <1>2, HandsFinite
<1>5. TupleCount \in Nat /\ n \in Nat /\ n >= 1 /\ n <= TupleCount
  BY <1>1, CacheAssumption
<1>6. a \in Clients \X (1 .. TupleCount) /\ a[1] = t /\ a[2] = n
  BY <1>1, <1>3
<1>7. a \in H
  BY <1>1, <1>2, <1>5, <1>6 DEF Hands, LetsGo
<1>8. \A b \in Clients \X (1 .. TupleCount) :
        (Holds(p2, u2, b[1], e) /\ b[2] <= h2[b[1]]) <=> (Holds(p, u, b[1], e) /\ b[2] <= h[b[1]]) /\ b # a
  <2>1. TAKE b \in Clients \X (1 .. TupleCount)
  <2>2. b[1] \in Clients /\ b[2] \in 1 .. TupleCount /\ b = <<b[1], b[2]>>
    OBVIOUS
  <2>3. CASE b[1] = t
    <3>1. b # a <=> b[2] # n
      BY <1>3, <2>2, <2>3
    <3>2. CASE n = 1
      <4>1. ~Holds(p2, u2, t, e)
        BY <1>1, <3>2 DEF LetsGo
      <4>2. b[2] <= n => b[2] = n
        BY <2>2, <3>2
      <4>3. QED
        BY <1>1, <2>3, <3>1, <4>1, <4>2
    <3>3. CASE n # 1
      <4>1. Holds(p2, u2, t, e) /\ h2[t] = n - 1 /\ Holds(p, u, t, e)
        BY <1>1, <3>3 DEF LetsGo
      <4>2. b[2] <= n - 1 <=> b[2] <= n /\ b[2] # n
        BY <1>5, <2>2
      <4>3. QED
        BY <1>1, <2>3, <3>1, <4>1, <4>2
    <3>4. QED
      BY <3>2, <3>3
  <2>4. CASE b[1] # t
    <3>1. (Holds(p2, u2, b[1], e) <=> Holds(p, u, b[1], e)) /\ (Holds(p, u, b[1], e) => h2[b[1]] = h[b[1]])
      BY <2>2, <2>4 DEF LetsGo
    <3>2. b # a
      BY <1>6, <2>4
    <3>3. QED
      BY <3>1, <3>2
  <2>5. QED
    BY <2>3, <2>4
<1>9. Hands(p2, u2, h2, e) = {b \in Clients \X (1 .. TupleCount) : (Holds(p, u, b[1], e) /\ b[2] <= h[b[1]]) /\ b # a}
  BY <1>8 DEF Hands
<1>10. Hands(p2, u2, h2, e) = H \ {a}
  BY <1>2, <1>9 DEF Hands
<1>11. Cardinality(H \ {a}) = Cardinality(H) - 1
  BY <1>4, <1>7, FS_RemoveElement
<1>12. Cardinality(H) # 0
  BY <1>4, <1>7, FS_EmptySet
<1>13. QED
  BY <1>2, <1>4, <1>10, <1>11, <1>12

\* Without a client that holds an entry, nothing of it is in hands.
LEMMA HandsNone ==
  ASSUME NEW p, NEW u, NEW h, NEW e, \A t \in Clients : ~Holds(p, u, t, e)
  PROVE  Cardinality(Hands(p, u, h, e)) = 0
<1>1. Hands(p, u, h, e) = {}
  BY DEF Hands
<1>2. QED
  BY <1>1, FS_EmptySet

\* With one, something is.
LEMMA HandsSome ==
  ASSUME NEW p, NEW u, NEW h, NEW e, NEW t \in Clients, Holds(p, u, t, e), h[t] \in 1 .. TupleCount
  PROVE  Cardinality(Hands(p, u, h, e)) # 0
<1>1. PICK a : a = <<t, 1>>
  OBVIOUS
<1>2. TupleCount \in Nat \ {0} /\ 1 \in 1 .. TupleCount /\ 1 <= h[t]
  BY CacheAssumption
<1>3. a \in Clients \X (1 .. TupleCount) /\ a[1] = t /\ a[2] = 1
  BY <1>1, <1>2
<1>4. a \in Hands(p, u, h, e)
  BY <1>2, <1>3 DEF Hands
<1>5. IsFiniteSet(Hands(p, u, h, e))
  BY HandsFinite
<1>6. QED
  BY <1>4, <1>5, FS_EmptySet

-----------------------------------------------------------------------------
(* One field of the cache changes *)

\* An empty cache.
LEMMA EmptyGood ==
  ASSUME NEW max \in MaxSizes, NEW c, c = Empty(max)
  PROVE  Good(c) /\ Sized(c) /\ Allocated(c) = {} /\ c.max = max
<1>1. /\ c.bucket = [i \in 1 .. NumBuckets |-> <<>>]
      /\ c.key = [e \in {} |-> Nil]
      /\ c.more = [e \in Entries |-> Nil] /\ c.less = [e \in Entries |-> Nil]
      /\ c.mru = Nil /\ c.lru = Nil
      /\ c.users = [e \in Entries |-> 0]
      /\ c.size = 0 /\ c.max = max /\ c.fate = "fine" /\ c.recency = <<>> /\ c.bypassed = FALSE
      /\ c = Fields(c)
  BY DEF Empty, Fields
<1>2. Allocated(c) = {}
  BY <1>1 DEF Allocated
<1>3. IsTable(c)
  <2>1. c.bucket \in [1 .. NumBuckets -> Seq(Entries)]
    BY <1>1
  <2>2. c.key \in [DOMAIN c.key -> Keys] /\ DOMAIN c.key \subseteq Entries
    BY <1>1
  <2>3. c.users \in [Entries -> Nat]
    BY <1>1
  <2>4. QED
    BY <2>1, <2>2, <2>3 DEF IsTable
<1>4. IsList(c)
  <2>1. c.recency \in Seq(Entries)
    BY <1>1
  <2>2. QED
    BY <1>1, <2>1 DEF IsList
<1>5. IsLimit(c)
  BY <1>1 DEF IsLimit
<1>6. c \in Caches
  BY <1>1, <1>3, <1>4, <1>5, CacheFrom
<1>7. PICK q \in Seq(Entries) : q = <<>> /\ Len(q) = 0 /\ IsInjective(q) /\ Range(q) = {}
  <2>1. PICK w : w = <<>>
    OBVIOUS
  <2>2. Len(w) = 0 /\ DOMAIN w = {}
    BY <2>1
  <2>3. IsInjective(w) /\ Range(w) = {}
    BY <2>2 DEF IsInjective, Range
  <2>4. w \in Seq(Entries)
    BY <2>1
  <2>5. QED
    BY <2>1, <2>2, <2>3, <2>4
<1>8. Placed(c)
  <2>1. \A i \in 1 .. NumBuckets : c.bucket[i] = q
    BY <1>1, <1>7
  <2>2. \A i \in 1 .. NumBuckets : {e \in Allocated(c) : BucketOf[c.key[e]] = i} = {}
    BY <1>2
  <2>3. QED
    BY <1>7, <2>1, <2>2 DEF Placed
<1>9. Distinct(c)
  BY <1>2 DEF Distinct
<1>10. Remembered(c)
  BY <1>1, <1>2, <1>7 DEF Remembered
<1>11. Ordered(c)
  <2>1. c.recency = q
    BY <1>1, <1>7
  <2>2. Before(q, Len(q) + 1) = Nil /\ After(q, 0) = Nil
    BY <1>7 DEF Before, After
  <2>3. Linked(c, q)
    BY <1>1, <1>7, <2>2 DEF Linked, Joined
  <2>4. QED
    BY <1>1, <2>1, <2>3 DEF Ordered
<1>12. Sized(c)
  <2>1. Bytes(c) = Cardinality({})
    BY <1>2 DEF Bytes
  <2>2. QED
    BY <1>1, <2>1, FS_EmptySet DEF Sized
<1>13. QED
  BY <1>1, <1>2, <1>6, <1>8, <1>9, <1>10, <1>11, <1>12 DEF Good

\* Only the size, the limit or the counts differ.
SameButSize(c, d) == d = Fields(d) /\ SameTable(c, d) /\ SameList(c, d) /\ d.fate = c.fate

SameButUsers(c, d) ==
    d = Fields(d) /\ d.bucket = c.bucket /\ d.key = c.key /\ SameList(c, d) /\ SameLimit(c, d) /\ d.fate = c.fate

\* That keeps the table and the list in order.
LEMMA SizeKeeps ==
  ASSUME NEW c, Good(c), NEW d, SameButSize(c, d), d.size \in Nat, d.max \in MaxSizes
  PROVE  Good(d) /\ Allocated(d) = Allocated(c) /\ Bytes(d) = Bytes(c) /\ d.bypassed = c.bypassed
<1>1. c \in Caches /\ Placed(c) /\ Distinct(c) /\ Remembered(c) /\ Ordered(c)
  BY DEF Good
<1>2. IsTable(c) /\ IsList(c) /\ IsLimit(c)
  BY <1>1, CacheHas
<1>3. /\ d.more = c.more /\ d.less = c.less /\ d.mru = c.mru /\ d.lru = c.lru /\ d.recency = c.recency
      /\ d.bypassed = c.bypassed /\ d.fate = c.fate /\ SameTable(c, d)
  BY DEF SameButSize, SameList
<1>4. IsTable(d) /\ IsList(d) /\ IsLimit(d)
  BY <1>2, <1>3 DEF IsTable, IsList, IsLimit, SameTable
<1>5. d \in Caches
  BY <1>4, CacheFrom DEF SameButSize
<1>6. Allocated(d) = Allocated(c) /\ Bytes(d) = Bytes(c) /\ Placed(d) /\ Distinct(d) /\ Remembered(d)
  BY <1>1, <1>3, SameTableKeeps
<1>7. Ordered(d)
  BY <1>1, <1>3 DEF Ordered, Linked, Joined
<1>8. QED
  BY <1>3, <1>5, <1>6, <1>7 DEF Good

\* And so do the counts.
LEMMA UsersKeep ==
  ASSUME NEW c, Good(c), NEW d, SameButUsers(c, d), d.users \in [Entries -> Nat]
  PROVE  Good(d) /\ Allocated(d) = Allocated(c) /\ (Sized(c) => Sized(d)) /\ d.bypassed = c.bypassed /\ d.max = c.max
<1>1. c \in Caches /\ Placed(c) /\ Distinct(c) /\ Remembered(c) /\ Ordered(c)
  BY DEF Good
<1>2. IsTable(c) /\ IsList(c) /\ IsLimit(c)
  BY <1>1, CacheHas
<1>3. /\ d.more = c.more /\ d.less = c.less /\ d.mru = c.mru /\ d.lru = c.lru /\ d.recency = c.recency
      /\ d.bypassed = c.bypassed /\ d.fate = c.fate /\ d.bucket = c.bucket /\ d.key = c.key
      /\ d.size = c.size /\ d.max = c.max
  BY DEF SameButUsers, SameList, SameLimit
<1>4. IsTable(d) /\ IsList(d) /\ IsLimit(d)
  BY <1>2, <1>3 DEF IsTable, IsList, IsLimit
<1>5. d \in Caches
  BY <1>4, CacheFrom DEF SameButUsers
<1>6. Allocated(d) = Allocated(c) /\ Placed(d) /\ Distinct(d) /\ Remembered(d)
  BY <1>1, <1>3 DEF Allocated, Placed, Distinct, Remembered
<1>7. Ordered(d)
  BY <1>1, <1>3 DEF Ordered, Linked, Joined
<1>8. Bytes(d) = Bytes(c)
  BY <1>3, BytesSame
<1>9. QED
  BY <1>3, <1>5, <1>6, <1>7, <1>8 DEF Good, Sized

\* The count of one entry is set.
LEMMA OneCountKeeps ==
  ASSUME NEW c, Good(c), NEW e \in Allocated(c), NEW n \in Nat, NEW d, d = [c EXCEPT !.users[e] = n]
  PROVE  /\ Good(d) /\ Allocated(d) = Allocated(c) /\ d.key = c.key /\ (Sized(c) => Sized(d))
         /\ d.bypassed = c.bypassed /\ d.max = c.max
         /\ d.users[e] = n /\ \A f \in Allocated(c) : f # e => d.users[f] = c.users[f]
<1>1. c = Fields(c) /\ IsTable(c) /\ e \in Entries /\ Allocated(c) \subseteq Entries
  BY CacheHas DEF Good, IsTable, Allocated
<1>2. SameButUsers(c, d) /\ d.users = [c.users EXCEPT ![e] = n] /\ d.key = c.key
  BY <1>1 DEF SameButUsers, SameList, SameLimit, Fields
<1>3. c.users \in [Entries -> Nat]
  BY <1>1 DEF IsTable
<1>4. d.users \in [Entries -> Nat] /\ d.users[e] = n /\ \A f \in Entries : f # e => d.users[f] = c.users[f]
  BY <1>1, <1>2, <1>3
<1>5. Good(d) /\ Allocated(d) = Allocated(c) /\ (Sized(c) => Sized(d)) /\ d.bypassed = c.bypassed /\ d.max = c.max
  <2>1. SameButUsers(c, d) /\ d.users \in [Entries -> Nat]
    BY <1>2, <1>4
  <2>2. QED
    BY <2>1, UsersKeep
<1>6. QED
  BY <1>1, <1>2, <1>4, <1>5

\* The result of a key is found if and only if an entry has it.
LEMMA FoundIs ==
  ASSUME Good(cache), NEW k \in Keys
  PROVE  /\ Found(k) = 0 => \A e \in Live : cache.key[e] # k
         /\ Found(k) # 0 => Chain(k)[Found(k)] \in Live /\ cache.key[Chain(k)[Found(k)]] = k
<1>1. PICK b \in 1 .. NumBuckets : b = BucketOf[k]
  BY CacheAssumption
<1>2. PICK s : s = cache.bucket[b]
  OBVIOUS
<1>3. s \in Seq(Entries) /\ Range(s) = {e \in Allocated(cache) : BucketOf[cache.key[e]] = b}
  BY <1>2, CacheHas DEF Good, Placed, IsTable
<1>4. Chain(k) = s
  BY <1>1, <1>2 DEF Chain
<1>5. PICK J : J = {j \in 1 .. Len(s) : cache.key[s[j]] = k}
  OBVIOUS
<1>6. DOMAIN s = 1 .. Len(s)
  BY <1>3
<1>7. Found(k) = IF J # {} THEN Min(J) ELSE 0
  <2>1. DOMAIN Chain(k) = 1 .. Len(s) /\ Chain(k) = s
    BY <1>4, <1>6
  <2>2. QED
    BY <1>5, <2>1 DEF Found, SelectInSeq
<1>8. CASE J = {}
  <2>1. Found(k) = 0
    BY <1>7, <1>8
  <2>2. ASSUME NEW e \in Live, cache.key[e] = k PROVE FALSE
    <3>1. e \in Range(s)
      BY <1>1, <1>3, <2>2 DEF Live
    <3>2. PICK j \in 1 .. Len(s) : s[j] = e
      BY <1>3, <3>1, SeqIs
    <3>3. QED
      BY <1>5, <1>8, <2>2, <3>2
  <2>3. QED
    BY <2>1, <2>2
<1>9. CASE J # {}
  <2>1. J \subseteq Nat
    BY <1>5
  <2>2. Min(J) \in J
    BY <1>9, <2>1, MinIsLeast
  <2>3. PICK j \in 1 .. Len(s) : j = Found(k) /\ cache.key[s[j]] = k
    BY <1>5, <1>7, <1>9, <2>2
  <2>4. s[j] \in Allocated(cache)
    BY <1>3, SeqIs
  <2>5. QED
    BY <1>4, <2>3, <2>4 DEF Live
<1>10. QED
  BY <1>8, <1>9

-----------------------------------------------------------------------------
(* The steps *)

\* What is known of a client.
ClientInv ==
    \A t \in Clients :
        /\ pc[t] = "out" => using[t] = Nil
        /\ pc[t] = "computing" => using[t] = Nil /\ held[t] = TupleCount /\ wanted[t] \in Keys
        /\ pc[t] = "using" => held[t] \in 1 .. TupleCount /\ wanted[t] \in Keys

IInv ==
    /\ TypeOK
    /\ Good(cache) /\ Sized(cache)
    /\ ClientInv
    /\ InUseCountsUsers
    /\ BuffersOutliveTheirUse

\* There is room, or nothing unused.
Room(c) == c.size <= c.max \/ \A e \in Allocated(c) : c.users[e] > 0

RoomStep == Prunes /\ ~cache.bypassed => Room(cache')

\* The counts are right for clients in that state.
Counted(c, p, u, h) == \A e \in Allocated(c) : c.users[e] = Cardinality(Hands(p, u, h, e))

\* And the entries they use are those of their keys.
Kept(c, p, u, w) ==
    \A t \in Clients : p[t] = "using" /\ u[t] # Nil => u[t] \in Allocated(c) /\ c.key[u[t]] = w[t]

\* The invariant says that of the cache and the clients.
LEMMA IInvSays ==
  ASSUME IInv
  PROVE  /\ Good(cache) /\ Sized(cache) /\ cache \in Caches /\ Live \subseteq Entries /\ Nil \notin Entries
         /\ Counted(cache, pc, using, held) /\ Kept(cache, pc, using, wanted) /\ ClientInv /\ TypeOK
<1>1. cache \in Caches
  BY DEF IInv, Good
<1>2. Live \subseteq Entries
  BY <1>1, CacheHas DEF Live, Allocated, IsTable
<1>3. Counted(cache, pc, using, held)
  BY InHandsIs DEF IInv, InUseCountsUsers, Counted, Live
<1>4. Kept(cache, pc, using, wanted)
  BY DEF IInv, BuffersOutliveTheirUse, Kept, Live
<1>5. QED
  BY <1>1, <1>2, <1>3, <1>4, CacheAssumption DEF IInv

\* It is what has to be shown after a step.
LEMMA IInvFrom ==
  Good(cache) /\ Sized(cache) /\ Counted(cache, pc, using, held) /\ Kept(cache, pc, using, wanted) /\ ClientInv /\ TypeOK => IInv
<1>1. Good(cache) /\ Counted(cache, pc, using, held) => InUseCountsUsers
  BY InHandsIs DEF InUseCountsUsers, Counted, Live
<1>2. Kept(cache, pc, using, wanted) => BuffersOutliveTheirUse
  BY DEF BuffersOutliveTheirUse, Kept, Live
<1>3. QED
  BY <1>1, <1>2 DEF IInv

\* The same after a step.
LEMMA IInvNext ==
  (Good(cache) /\ Sized(cache) /\ Counted(cache, pc, using, held) /\ Kept(cache, pc, using, wanted) /\ ClientInv /\ TypeOK)' => IInv'
  BY IInvFrom, PTL

\* What is left of the entries is as it was, and what clients use is left.
Leaves(c, d) ==
    /\ Allocated(d) \subseteq Allocated(c)
    /\ \A e \in Allocated(d) : d.key[e] = c.key[e] /\ d.users[e] = c.users[e]
    /\ \A t \in Clients : pc[t] = "using" /\ using[t] # Nil => using[t] \in Allocated(d)

\* Nobody takes or releases a buffer, but entries that nobody uses may go.
LEMMA NobodyMoves ==
  ASSUME IInv, Good(cache'), Sized(cache'), Leaves(cache, cache'),
         pc' \in [Clients -> {"out", "computing", "using"}], UNCHANGED <<wanted, using, held>>,
         \A t \in Clients : pc'[t] = pc[t] \/ (pc[t] = "computing" /\ pc'[t] = "using")
  PROVE  IInv'
<1>1. /\ Live \subseteq Entries /\ Nil \notin Entries /\ ClientInv /\ TypeOK
      /\ Counted(cache, pc, using, held) /\ Kept(cache, pc, using, wanted)
  BY IInvSays
<1>2. using' = using /\ held' = held /\ wanted' = wanted
  OBVIOUS
<1>3. \A t \in Clients : pc[t] = "computing" => using[t] = Nil /\ held[t] \in 1 .. TupleCount /\ wanted[t] \in Keys
  BY <1>1, CacheAssumption DEF ClientInv
<1>4. Counted(cache', pc', using', held')
  <2>1. SUFFICES ASSUME NEW e \in Allocated(cache')
                 PROVE  cache'.users[e] = Cardinality(Hands(pc', using', held', e))
    BY DEF Counted
  <2>2. e \in Allocated(cache) /\ cache'.users[e] = cache.users[e] /\ e # Nil
    BY <1>1 DEF Leaves, Live
  <2>3. SameHands(pc, using, held, pc', using', held', e)
    <3>1. SUFFICES ASSUME NEW t \in Clients
                   PROVE  (Holds(pc', using', t, e) <=> Holds(pc, using, t, e)) /\ (Holds(pc, using, t, e) => held'[t] = held[t])
      BY DEF SameHands
    <3>2. pc'[t] = pc[t] \/ (pc[t] = "computing" /\ pc'[t] = "using" /\ using[t] = Nil)
      BY <1>3
    <3>3. QED
      BY <1>2, <2>2, <3>2 DEF Holds
  <2>4. Hands(pc', using', held', e) = Hands(pc, using, held, e)
    BY <2>3, HandsSame
  <2>5. QED
    BY <1>1, <2>2, <2>4 DEF Counted
<1>5. Kept(cache', pc', using', wanted')
  <2>1. SUFFICES ASSUME NEW t \in Clients, pc'[t] = "using", using[t] # Nil
                 PROVE  using[t] \in Allocated(cache') /\ cache'.key[using[t]] = wanted[t]
    BY <1>2 DEF Kept
  <2>2. pc[t] = "using"
    BY <1>3, <2>1
  <2>3. QED
    BY <1>1, <2>1, <2>2 DEF Leaves, Kept
<1>6. ClientInv'
  <2>1. SUFFICES ASSUME NEW t \in Clients
                 PROVE  /\ pc'[t] = "out" => using[t] = Nil
                        /\ pc'[t] = "computing" => using[t] = Nil /\ held[t] = TupleCount /\ wanted[t] \in Keys
                        /\ pc'[t] = "using" => held[t] \in 1 .. TupleCount /\ wanted[t] \in Keys
    BY <1>2 DEF ClientInv
  <2>2. CASE pc'[t] = pc[t]
    BY <1>1, <2>2 DEF ClientInv
  <2>3. CASE pc[t] = "computing" /\ pc'[t] = "using"
    BY <1>3, <2>3
  <2>4. QED
    BY <2>2, <2>3
<1>7. TypeOK'
  BY <1>1, <1>2 DEF TypeOK, Good
<1>8. QED
  BY <1>4, <1>5, <1>6, <1>7, IInvNext

\* The client of an entry that is left.
LEMMA UsedIsCounted ==
  ASSUME IInv, NEW t \in Clients, pc[t] = "using", using[t] # Nil
  PROVE  using[t] \in Allocated(cache) /\ cache.users[using[t]] # 0 /\ cache.key[using[t]] = wanted[t]
<1>1. Counted(cache, pc, using, held) /\ Kept(cache, pc, using, wanted) /\ ClientInv
  BY IInvSays
<1>2. using[t] \in Allocated(cache) /\ cache.key[using[t]] = wanted[t]
  BY <1>1 DEF Kept
<1>3. PICK e : e = using[t]
  OBVIOUS
<1>4. Cardinality(Hands(pc, using, held, e)) # 0
  BY <1>1, <1>3, HandsSome DEF ClientInv, Holds
<1>5. QED
  BY <1>1, <1>2, <1>3, <1>4 DEF Counted

\* What prune_cache leaves is what clients use, and more.
LEMMA PruneLeaves ==
  ASSUME IInv, NEW y, SameTable(cache, y), NEW d, Takes(y, d), NEW z, SameTable(d, z)
  PROVE  Leaves(cache, z)
<1>1. Allocated(y) = Allocated(cache) /\ Allocated(z) = Allocated(d)
  BY SameTableKeeps
<1>2. \A t \in Clients : pc[t] = "using" /\ using[t] # Nil => using[t] \in Allocated(cache) /\ cache.users[using[t]] # 0
  BY UsedIsCounted
<1>3. QED
  BY <1>1, <1>2 DEF Leaves, Takes, Shrinks, Spares, SameTable

\* Nothing to make room for.
LEMMA NotPruning ==
  ASSUME cache'.max = cache.max, \A s \in Clients : pc[s] = "computing" => using'[s] = Nil
  PROVE  RoomStep
  BY DEF RoomStep, Prunes

\* A client takes the buffers of an entry, which may be new.
LEMMA OneTakes ==
  ASSUME IInv, NEW t \in Clients, pc[t] # "using", NEW e \in Entries, NEW k \in Keys,
         Good(cache'), Sized(cache'), e \in Allocated(cache'), cache'.key[e] = k,
         cache'.users[e] = Cardinality(Hands(pc, using, held, e)) + TupleCount,
         \A f \in Allocated(cache') : f # e =>
             f \in Allocated(cache) /\ cache'.key[f] = cache.key[f] /\ cache'.users[f] = cache.users[f],
         \A s \in Clients : pc[s] = "using" /\ using[s] # Nil =>
             using[s] \in Allocated(cache') /\ cache'.key[using[s]] = cache.key[using[s]],
         pc' = [pc EXCEPT ![t] = "using"], using' = [using EXCEPT ![t] = e],
         held' = [held EXCEPT ![t] = TupleCount], wanted' = [wanted EXCEPT ![t] = k]
  PROVE  IInv'
<1>1. /\ Live \subseteq Entries /\ Nil \notin Entries /\ ClientInv /\ TypeOK
      /\ Counted(cache, pc, using, held) /\ Kept(cache, pc, using, wanted)
  BY IInvSays
<1>2. /\ pc \in [Clients -> {"out", "computing", "using"}] /\ using \in [Clients -> Entries \union {Nil}]
      /\ held \in [Clients -> 0 .. TupleCount] /\ wanted \in [Clients -> Keys \union {Nil}]
  BY <1>1 DEF TypeOK
<1>3. /\ pc'[t] = "using" /\ using'[t] = e /\ held'[t] = TupleCount /\ wanted'[t] = k
      /\ \A s \in Clients : s # t => pc'[s] = pc[s] /\ using'[s] = using[s] /\ held'[s] = held[s] /\ wanted'[s] = wanted[s]
  BY <1>2
<1>4. TupleCount \in Nat \ {0} /\ TupleCount \in 1 .. TupleCount /\ TupleCount \in 0 .. TupleCount
  BY CacheAssumption
<1>5. Counted(cache', pc', using', held')
  <2>1. SUFFICES ASSUME NEW f \in Allocated(cache')
                 PROVE  cache'.users[f] = Cardinality(Hands(pc', using', held', f))
    BY DEF Counted
  <2>2. CASE f = e
    <3>1. TakesAll(pc, using, held, pc', using', held', t, e)
      BY <1>3 DEF TakesAll, Holds
    <3>2. QED
      BY <2>2, <3>1, HandsMore
  <2>3. CASE f # e
    <3>1. SameHands(pc, using, held, pc', using', held', f)
      BY <1>3, <2>3 DEF SameHands, Holds
    <3>2. Hands(pc', using', held', f) = Hands(pc, using, held, f)
      BY <3>1, HandsSame
    <3>3. QED
      BY <1>1, <2>3, <3>2 DEF Counted
  <2>4. QED
    BY <2>2, <2>3
<1>6. Kept(cache', pc', using', wanted')
  <2>1. SUFFICES ASSUME NEW s \in Clients, pc'[s] = "using", using'[s] # Nil
                 PROVE  using'[s] \in Allocated(cache') /\ cache'.key[using'[s]] = wanted'[s]
    BY DEF Kept
  <2>2. CASE s = t
    BY <1>3, <2>2
  <2>3. CASE s # t
    BY <1>1, <1>3, <2>1, <2>3 DEF Kept
  <2>4. QED
    BY <2>2, <2>3
<1>7. ClientInv'
  <2>1. SUFFICES ASSUME NEW s \in Clients
                 PROVE  /\ pc'[s] = "out" => using'[s] = Nil
                        /\ pc'[s] = "computing" => using'[s] = Nil /\ held'[s] = TupleCount /\ wanted'[s] \in Keys
                        /\ pc'[s] = "using" => held'[s] \in 1 .. TupleCount /\ wanted'[s] \in Keys
    BY DEF ClientInv
  <2>2. CASE s = t
    BY <1>3, <1>4, <2>2
  <2>3. CASE s # t
    BY <1>1, <1>3, <2>3 DEF ClientInv
  <2>4. QED
    BY <2>2, <2>3
<1>8. TypeOK'
  <2>1. cache' \in Caches
    BY DEF Good
  <2>2. pc' \in [Clients -> {"out", "computing", "using"}]
    BY <1>2
  <2>3. using' \in [Clients -> Entries \union {Nil}]
    BY <1>2
  <2>4. held' \in [Clients -> 0 .. TupleCount]
    BY <1>2, <1>4
  <2>5. wanted' \in [Clients -> Keys \union {Nil}]
    BY <1>2
  <2>6. QED
    BY <2>1, <2>2, <2>3, <2>4, <2>5 DEF TypeOK
<1>9. QED
  BY <1>5, <1>6, <1>7, <1>8, IInvNext

\* A hit.
LEMMA HitKeeps ==
  ASSUME IInv, NEW t \in Clients, NEW k \in Keys, Hit(t, k)
  PROVE  IInv' /\ RoomStep
<1>1. /\ Good(cache) /\ Sized(cache) /\ Live \subseteq Entries /\ ClientInv /\ TypeOK
      /\ Counted(cache, pc, using, held) /\ Kept(cache, pc, using, wanted)
  BY IInvSays
<1>2. PICK e : e = Chain(k)[Found(k)]
  OBVIOUS
<1>3. pc[t] = "out" /\ Found(k) # 0 /\ cache' = AddUsers(Touch(cache, e), e) /\ Begin(t, k, "using", e)
  BY <1>2 DEF Hit
<1>4. e \in Allocated(cache) /\ e \in Entries /\ cache.key[e] = k
  BY <1>1, <1>2, <1>3, FoundIs DEF Live
<1>5. PICK y : y = Touch(cache, e)
  OBVIOUS
<1>6. Good(y) /\ SameTable(cache, y) /\ SameLimit(cache, y) /\ y.bypassed = cache.bypassed
  BY <1>1, <1>4, <1>5, TouchKeeps
<1>7. Allocated(y) = Allocated(cache) /\ Bytes(y) = Bytes(cache)
  BY <1>6, SameTableKeeps
<1>8. y.key = cache.key /\ y.users = cache.users /\ y.size = cache.size /\ y.max = cache.max
  BY <1>6 DEF SameTable, SameLimit
<1>9. PICK n : n = y.users[e]
  OBVIOUS
<1>10. n \in Nat /\ n = Cardinality(Hands(pc, using, held, e)) /\ n + TupleCount \in Nat
  <2>1. n = Cardinality(Hands(pc, using, held, e))
    BY <1>1, <1>4, <1>8, <1>9 DEF Counted
  <2>2. QED
    BY <2>1, HandsFinite, CacheAssumption
<1>11. cache' = [y EXCEPT !.users[e] = n + TupleCount]
  BY <1>3, <1>5, <1>9, Zenon DEF AddUsers
<1>12. /\ Good(cache') /\ Allocated(cache') = Allocated(y) /\ cache'.key = y.key /\ (Sized(y) => Sized(cache'))
       /\ cache'.max = y.max
       /\ cache'.users[e] = n + TupleCount /\ \A f \in Allocated(y) : f # e => cache'.users[f] = y.users[f]
  BY <1>4, <1>6, <1>7, <1>10, <1>11, OneCountKeeps
<1>13. Sized(cache')
  BY <1>1, <1>7, <1>8, <1>12 DEF Sized
<1>14. /\ pc' = [pc EXCEPT ![t] = "using"] /\ using' = [using EXCEPT ![t] = e]
       /\ held' = [held EXCEPT ![t] = TupleCount] /\ wanted' = [wanted EXCEPT ![t] = k]
  BY <1>3 DEF Begin
<1>15. IInv'
  <2>1. \A s \in Clients : pc[s] = "using" /\ using[s] # Nil =>
             using[s] \in Allocated(cache') /\ cache'.key[using[s]] = cache.key[using[s]]
    BY <1>1, <1>7, <1>8, <1>12 DEF Kept
  <2>2. \A f \in Allocated(cache') : f # e =>
             f \in Allocated(cache) /\ cache'.key[f] = cache.key[f] /\ cache'.users[f] = cache.users[f]
    BY <1>7, <1>8, <1>12
  <2>3. e \in Allocated(cache') /\ cache'.key[e] = k /\ pc[t] # "using"
    BY <1>3, <1>4, <1>7, <1>8, <1>12
  <2>4. cache'.users[e] = Cardinality(Hands(pc, using, held, e)) + TupleCount
    BY <1>10, <1>12
  <2>5. QED
    BY <1>4, <1>12, <1>13, <1>14, <2>1, <2>2, <2>3, <2>4, OneTakes
<1>16. RoomStep
  <2>1. \A s \in Clients : pc[s] = "computing" => using'[s] = Nil
    BY <1>1, <1>3, <1>14 DEF ClientInv, TypeOK
  <2>2. QED
    BY <1>8, <1>12, <2>1, NotPruning
<1>17. QED
  BY <1>15, <1>16

\* A miss.
LEMMA MissKeeps ==
  ASSUME IInv, NEW t \in Clients, NEW k \in Keys, Miss(t, k)
  PROVE  IInv' /\ RoomStep
<1>1. /\ Good(cache) /\ Sized(cache) /\ Live \subseteq Entries /\ Nil \notin Entries /\ ClientInv /\ TypeOK
      /\ Counted(cache, pc, using, held) /\ Kept(cache, pc, using, wanted)
  BY IInvSays
<1>2. /\ pc \in [Clients -> {"out", "computing", "using"}] /\ using \in [Clients -> Entries \union {Nil}]
      /\ held \in [Clients -> 0 .. TupleCount] /\ wanted \in [Clients -> Keys \union {Nil}]
  BY <1>1 DEF TypeOK
<1>3. /\ pc[t] = "out" /\ cache' = cache
      /\ pc' = [pc EXCEPT ![t] = "computing"] /\ using' = [using EXCEPT ![t] = Nil]
      /\ held' = [held EXCEPT ![t] = TupleCount] /\ wanted' = [wanted EXCEPT ![t] = k]
  BY DEF Miss, Begin
<1>4. /\ pc'[t] = "computing" /\ using'[t] = Nil /\ held'[t] = TupleCount /\ wanted'[t] = k
      /\ \A s \in Clients : s # t => pc'[s] = pc[s] /\ using'[s] = using[s] /\ held'[s] = held[s] /\ wanted'[s] = wanted[s]
  BY <1>2, <1>3
<1>5. TupleCount \in 0 .. TupleCount
  BY CacheAssumption
<1>6. Counted(cache', pc', using', held')
  <2>1. SUFFICES ASSUME NEW e \in Allocated(cache)
                 PROVE  cache.users[e] = Cardinality(Hands(pc', using', held', e))
    BY <1>3 DEF Counted
  <2>2. SameHands(pc, using, held, pc', using', held', e)
    BY <1>3, <1>4 DEF SameHands, Holds
  <2>3. Hands(pc', using', held', e) = Hands(pc, using, held, e)
    BY <2>2, HandsSame
  <2>4. QED
    BY <1>1, <2>3 DEF Counted
<1>7. Kept(cache', pc', using', wanted')
  <2>1. SUFFICES ASSUME NEW s \in Clients, pc'[s] = "using", using'[s] # Nil
                 PROVE  using'[s] \in Allocated(cache) /\ cache.key[using'[s]] = wanted'[s]
    BY <1>3 DEF Kept
  <2>2. s # t
    BY <1>4, <2>1
  <2>3. QED
    BY <1>1, <1>4, <2>1, <2>2 DEF Kept
<1>8. ClientInv'
  <2>1. SUFFICES ASSUME NEW s \in Clients
                 PROVE  /\ pc'[s] = "out" => using'[s] = Nil
                        /\ pc'[s] = "computing" => using'[s] = Nil /\ held'[s] = TupleCount /\ wanted'[s] \in Keys
                        /\ pc'[s] = "using" => held'[s] \in 1 .. TupleCount /\ wanted'[s] \in Keys
    BY DEF ClientInv
  <2>2. CASE s = t
    BY <1>4, <2>2
  <2>3. CASE s # t
    BY <1>1, <1>4, <2>3 DEF ClientInv
  <2>4. QED
    BY <2>2, <2>3
<1>9. TypeOK'
  <2>1. pc' \in [Clients -> {"out", "computing", "using"}] /\ using' \in [Clients -> Entries \union {Nil}]
    BY <1>2, <1>3
  <2>2. held' \in [Clients -> 0 .. TupleCount]
    BY <1>2, <1>3, <1>5
  <2>3. wanted' \in [Clients -> Keys \union {Nil}]
    BY <1>2, <1>3
  <2>4. QED
    BY <1>1, <1>3, <2>1, <2>2, <2>3 DEF TypeOK
<1>10. IInv'
  BY <1>1, <1>3, <1>6, <1>7, <1>8, <1>9, IInvNext
<1>11. RoomStep
  BY <1>1, <1>3, <1>4, NotPruning DEF ClientInv
<1>12. QED
  BY <1>10, <1>11

\* A release of one buffer.
LEMMA ReleaseKeeps ==
  ASSUME IInv, NEW t \in Clients, Release(t)
  PROVE  IInv' /\ RoomStep
<1>1. /\ Good(cache) /\ Sized(cache) /\ Live \subseteq Entries /\ Nil \notin Entries /\ ClientInv /\ TypeOK
      /\ Counted(cache, pc, using, held) /\ Kept(cache, pc, using, wanted)
  BY IInvSays
<1>2. /\ pc \in [Clients -> {"out", "computing", "using"}] /\ using \in [Clients -> Entries \union {Nil}]
      /\ held \in [Clients -> 0 .. TupleCount] /\ wanted \in [Clients -> Keys \union {Nil}]
  BY <1>1 DEF TypeOK
<1>3. PICK e : e = using[t]
  OBVIOUS
<1>4. /\ pc[t] = "using"
      /\ cache' = IF e = Nil THEN cache
                  ELSE IF e \notin Allocated(cache) THEN Follow(cache, {e})
                  ELSE IF cache.users[e] = 0 THEN [cache EXCEPT !.fate = "aborted"]
                  ELSE [cache EXCEPT !.users[e] = cache.users[e] - 1]
      /\ held' = [held EXCEPT ![t] = held[t] - 1]
      /\ pc' = [pc EXCEPT ![t] = IF held[t] = 1 THEN "out" ELSE "using"]
      /\ using' = [using EXCEPT ![t] = IF held[t] = 1 THEN Nil ELSE e]
      /\ wanted' = [wanted EXCEPT ![t] = IF held[t] = 1 THEN Nil ELSE wanted[t]]
  <2>1. cache' = IF e = Nil THEN cache
                  ELSE IF e \notin Allocated(cache) THEN Follow(cache, {e})
                  ELSE IF cache.users[e] = 0 THEN [cache EXCEPT !.fate = "aborted"]
                  ELSE [cache EXCEPT !.users[e] = cache.users[e] - 1]
    BY <1>3, Zenon DEF Release
  <2>2. QED
    BY <1>3, <2>1 DEF Release
<1>5. /\ held'[t] = held[t] - 1
      /\ pc'[t] = (IF held[t] = 1 THEN "out" ELSE "using")
      /\ using'[t] = (IF held[t] = 1 THEN Nil ELSE e)
      /\ wanted'[t] = (IF held[t] = 1 THEN Nil ELSE wanted[t])
      /\ \A s \in Clients : s # t => pc'[s] = pc[s] /\ using'[s] = using[s] /\ held'[s] = held[s] /\ wanted'[s] = wanted[s]
  BY <1>2, <1>4
<1>6. /\ held[t] \in 1 .. TupleCount /\ wanted[t] \in Keys /\ TupleCount \in Nat
      /\ (held[t] # 1 => held[t] - 1 \in 1 .. TupleCount) /\ held[t] - 1 \in 0 .. TupleCount
  <2>1. held[t] \in 1 .. TupleCount /\ wanted[t] \in Keys /\ TupleCount \in Nat
    BY <1>1, <1>4, CacheAssumption DEF ClientInv
  <2>2. QED
    BY <2>1
<1>7. /\ Good(cache') /\ Sized(cache') /\ Allocated(cache') = Allocated(cache) /\ cache'.key = cache.key
      /\ cache'.max = cache.max
      /\ \A f \in Allocated(cache) : f # e => cache'.users[f] = cache.users[f]
      /\ e # Nil => LetsGo(pc, using, held, pc', using', held', t, e) /\ cache'.users[e] = cache.users[e] - 1
  <2>1. CASE e = Nil
    <3>1. cache' = cache
      BY <1>4, <2>1
    <3>2. QED
      BY <1>1, <2>1, <3>1
  <2>2. CASE e # Nil
    <3>1. e \in Allocated(cache) /\ cache.users[e] # 0
      BY <1>3, <1>4, <2>2, UsedIsCounted
    <3>2. PICK n : n = cache.users[e] - 1
      OBVIOUS
    <3>3. n \in Nat
      <4>1. cache.users[e] \in Nat
        BY <1>1, <3>1, HandsFinite DEF Counted
      <4>2. QED
        BY <3>1, <3>2, <4>1
    <3>4. cache' = [cache EXCEPT !.users[e] = n]
      BY <1>4, <2>2, <3>1, <3>2
    <3>5. /\ Good(cache') /\ Allocated(cache') = Allocated(cache) /\ cache'.key = cache.key
          /\ (Sized(cache) => Sized(cache')) /\ cache'.max = cache.max
          /\ cache'.users[e] = n /\ \A f \in Allocated(cache) : f # e => cache'.users[f] = cache.users[f]
      BY <1>1, <3>1, <3>3, <3>4, OneCountKeeps
    <3>6. LetsGo(pc, using, held, pc', using', held', t, e)
      BY <1>3, <1>4, <1>5, <1>6 DEF LetsGo, Holds
    <3>7. QED
      BY <1>1, <3>2, <3>5, <3>6
  <2>3. QED
    BY <2>1, <2>2
<1>8. Counted(cache', pc', using', held')
  <2>1. SUFFICES ASSUME NEW f \in Allocated(cache)
                 PROVE  cache'.users[f] = Cardinality(Hands(pc', using', held', f))
    BY <1>7 DEF Counted
  <2>2. f # Nil
    BY <1>1 DEF Live
  <2>3. CASE f = e
    BY <1>1, <1>7, <2>2, <2>3, HandsLess DEF Counted
  <2>4. CASE f # e
    <3>1. SameHands(pc, using, held, pc', using', held', f)
      BY <1>3, <1>5, <2>2, <2>4 DEF SameHands, Holds
    <3>2. Hands(pc', using', held', f) = Hands(pc, using, held, f)
      BY <3>1, HandsSame
    <3>3. QED
      BY <1>1, <1>7, <2>4, <3>2 DEF Counted
  <2>5. QED
    BY <2>3, <2>4
<1>9. Kept(cache', pc', using', wanted')
  <2>1. SUFFICES ASSUME NEW s \in Clients, pc'[s] = "using", using'[s] # Nil
                 PROVE  using'[s] \in Allocated(cache) /\ cache.key[using'[s]] = wanted'[s]
    BY <1>7 DEF Kept
  <2>2. pc[s] = "using" /\ using'[s] = using[s] /\ wanted'[s] = wanted[s]
    BY <1>3, <1>4, <1>5, <2>1
  <2>3. QED
    BY <1>1, <2>1, <2>2 DEF Kept
<1>10. ClientInv'
  <2>1. SUFFICES ASSUME NEW s \in Clients
                 PROVE  /\ pc'[s] = "out" => using'[s] = Nil
                        /\ pc'[s] = "computing" => using'[s] = Nil /\ held'[s] = TupleCount /\ wanted'[s] \in Keys
                        /\ pc'[s] = "using" => held'[s] \in 1 .. TupleCount /\ wanted'[s] \in Keys
    BY DEF ClientInv
  <2>2. CASE s = t
    BY <1>5, <1>6, <2>2
  <2>3. CASE s # t
    BY <1>1, <1>5, <2>3 DEF ClientInv
  <2>4. QED
    BY <2>2, <2>3
<1>11. TypeOK'
  <2>1. cache' \in Caches
    BY <1>7 DEF Good
  <2>2. pc' \in [Clients -> {"out", "computing", "using"}]
    BY <1>2, <1>4
  <2>3. using' \in [Clients -> Entries \union {Nil}]
    BY <1>2, <1>3, <1>4
  <2>4. held' \in [Clients -> 0 .. TupleCount]
    BY <1>2, <1>4, <1>6
  <2>5. wanted' \in [Clients -> Keys \union {Nil}]
    BY <1>2, <1>4
  <2>6. QED
    BY <2>1, <2>2, <2>3, <2>4, <2>5 DEF TypeOK
<1>12. IInv'
  BY <1>7, <1>8, <1>9, <1>10, <1>11, IInvNext
<1>13. RoomStep
  <2>1. \A s \in Clients : pc[s] = "computing" => using'[s] = Nil
    BY <1>1, <1>4, <1>5 DEF ClientInv
  <2>2. QED
    BY <1>7, <2>1, NotPruning
<1>14. QED
  BY <1>12, <1>13

\* The result cannot be computed, or somebody else has stored it.
LEMMA SettlesKeeps ==
  ASSUME IInv, NEW t \in Clients, pc[t] = "computing", pc' = [pc EXCEPT ![t] = "using"],
         UNCHANGED <<cache, wanted, using, held>>
  PROVE  IInv' /\ RoomStep
<1>1. Good(cache) /\ Sized(cache) /\ ClientInv /\ TypeOK /\ Kept(cache, pc, using, wanted)
  BY IInvSays
<1>2. pc \in [Clients -> {"out", "computing", "using"}]
  BY <1>1 DEF TypeOK
<1>3. cache' = cache /\ using' = using
  OBVIOUS
<1>4. Leaves(cache, cache')
  BY <1>1, <1>3 DEF Leaves, Kept
<1>5. /\ pc' \in [Clients -> {"out", "computing", "using"}]
      /\ \A s \in Clients : pc'[s] = pc[s] \/ (pc[s] = "computing" /\ pc'[s] = "using")
  BY <1>2
<1>6. IInv'
  BY <1>1, <1>3, <1>4, <1>5, NobodyMoves
<1>7. RoomStep
  BY <1>1, <1>3, NotPruning DEF ClientInv
<1>8. QED
  BY <1>6, <1>7

\* The cache has grown for a result, and has been pruned for that.
LEMMA GrownAndPruned ==
  ASSUME IInv, NEW k \in Keys, NEW p, p = Prune(Grow(cache, k))
  PROVE  /\ Good(p) /\ p.max = cache.max
         /\ Leaves(cache, p)
         /\ p.size \in Nat /\ Bytes(p) \in Nat /\ Size[k] \in Nat /\ Bytes(p) + Size[k] <= p.size
         /\ ~cache.bypassed => p.size <= p.max \/ \A e \in Allocated(p) : p.users[e] # 0
<1>1. Good(cache) /\ Sized(cache) /\ cache \in Caches
  BY IInvSays
<1>2. cache = Fields(cache) /\ IsLimit(cache)
  BY <1>1, CacheHas
<1>3. Size[k] \in Nat
  BY CacheAssumption
<1>4. PICK y : y = Grow(cache, k)
  OBVIOUS
<1>5. SameButSize(cache, y) /\ y.size = cache.size + Size[k] /\ y.max = cache.max /\ SameTable(cache, y)
  BY <1>2, <1>4 DEF Grow, SameButSize, SameTable, SameList, Fields
<1>6. cache.size \in Nat /\ cache.max \in MaxSizes /\ Bytes(cache) \in Nat /\ Bytes(cache) <= cache.size
  BY <1>1, <1>2, BytesType DEF IsLimit, Sized
<1>7. y.size \in Nat /\ y.max \in MaxSizes
  BY <1>3, <1>5, <1>6
<1>8. Good(y) /\ Bytes(y) = Bytes(cache) /\ y.bypassed = cache.bypassed
  BY <1>1, <1>5, <1>7, SizeKeeps
<1>9. Sized(y)
  BY <1>3, <1>5, <1>6, <1>8 DEF Sized
<1>10. /\ Good(p) /\ Sized(p) /\ Takes(y, p)
       /\ ~y.bypassed => p.size <= p.max \/ \A e \in Allocated(p) : p.users[e] # 0
  BY <1>4, <1>8, <1>9, PruneKeeps
<1>11. Leaves(cache, p)
  <2>1. SameTable(p, p)
    BY DEF SameTable
  <2>2. QED
    BY <1>5, <1>10, <2>1, PruneLeaves
<1>12. p.max = cache.max
  BY <1>5, <1>10 DEF Takes, Shrinks
<1>13. p.size \in Nat /\ Bytes(p) \in Nat
  BY <1>10, CacheHas, BytesType DEF Good, IsLimit
<1>14. p.size + Bytes(y) = y.size + Bytes(p)
  BY <1>10 DEF Takes, Balances
<1>15. Bytes(p) + Size[k] <= p.size
  BY <1>3, <1>5, <1>6, <1>8, <1>13, <1>14
<1>16. QED
  BY <1>3, <1>8, <1>10, <1>11, <1>12, <1>13, <1>15

\* The result is stored.
LEMMA StoreKeeps ==
  ASSUME IInv, NEW t \in Clients, Store(t)
  PROVE  IInv' /\ RoomStep
<1>1. /\ Good(cache) /\ ClientInv /\ TypeOK /\ Live \subseteq Entries
      /\ Counted(cache, pc, using, held) /\ Kept(cache, pc, using, wanted)
  BY IInvSays
<1>2. PICK k : k = wanted[t]
  OBVIOUS
<1>3. PICK p : p = Prune(Grow(cache, k))
  OBVIOUS
<1>4. /\ pc[t] = "computing" /\ pc' = [pc EXCEPT ![t] = "using"] /\ wanted' = wanted /\ held' = held
      /\ \/ StoredByOther(k) /\ UNCHANGED <<cache, using>>
         \/ ~StoredByOther(k) /\ \E e \in Entries \ Allocated(p) :
              cache' = Insert(p, e, k) /\ using' = [using EXCEPT ![t] = e]
  BY <1>2, <1>3 DEF Store
<1>5. k \in Keys /\ held[t] = TupleCount /\ using[t] = Nil
  BY <1>1, <1>2, <1>4 DEF ClientInv
<1>6. CASE UNCHANGED <<cache, using>>
  BY <1>4, <1>6, SettlesKeeps
<1>7. CASE ~StoredByOther(k) /\ \E e \in Entries \ Allocated(p) :
              cache' = Insert(p, e, k) /\ using' = [using EXCEPT ![t] = e]
  <2>1. PICK e \in Entries \ Allocated(p) : cache' = Insert(p, e, k) /\ using' = [using EXCEPT ![t] = e]
    BY <1>7
  <2>2. /\ Good(p) /\ p.max = cache.max /\ Leaves(cache, p)
        /\ p.size \in Nat /\ Bytes(p) \in Nat /\ Size[k] \in Nat /\ Bytes(p) + Size[k] <= p.size
        /\ ~cache.bypassed => p.size <= p.max \/ \A f \in Allocated(p) : p.users[f] # 0
    BY <1>3, <1>5, GrownAndPruned
  <2>3. \A f \in Allocated(p) : p.key[f] # k /\ f \in Allocated(cache) /\ p.key[f] = cache.key[f] /\ p.users[f] = cache.users[f]
    <3>1. \A f \in Live : cache.key[f] # k
      BY <1>1, <1>5, <1>7, FoundIs DEF StoredByOther
    <3>2. QED
      BY <2>2, <3>1 DEF Leaves, Live
  <2>4. /\ Good(cache') /\ SameLimit(p, cache') /\ cache'.bypassed = p.bypassed
        /\ Allocated(cache') = Allocated(p) \union {e}
        /\ cache'.key[e] = k /\ cache'.users[e] = TupleCount
        /\ \A f \in Allocated(p) : cache'.key[f] = p.key[f] /\ cache'.users[f] = p.users[f]
    BY <1>5, <2>1, <2>2, <2>3, InsertKeeps
  <2>5. cache'.size = p.size /\ cache'.max = p.max
    BY <2>4 DEF SameLimit
  <2>6. Sized(cache')
    <3>1. OneMore(p, cache', e)
      BY <2>1, <2>4 DEF OneMore
    <3>2. p \in Caches /\ cache' \in Caches
      BY <2>2, <2>4 DEF Good
    <3>3. Bytes(cache') = Bytes(p) + Size[k]
      BY <2>4, <3>1, <3>2, BytesGrow
    <3>4. QED
      BY <2>2, <2>5, <3>3 DEF Sized
  <2>7. e # Nil
    BY <2>1, CacheAssumption
  <2>8. \A s \in Clients : pc[s] = "using" /\ using[s] # Nil => using[s] \in Allocated(p) /\ using[s] # e
    BY <2>1, <2>2 DEF Leaves
  <2>9. Cardinality(Hands(pc, using, held, e)) = 0
    <3>1. \A s \in Clients : ~Holds(pc, using, s, e)
      BY <2>7, <2>8 DEF Holds
    <3>2. QED
      BY <3>1, HandsNone
  <2>10. cache'.users[e] = Cardinality(Hands(pc, using, held, e)) + TupleCount
    BY <2>4, <2>9, CacheAssumption
  <2>11. \A f \in Allocated(cache') : f # e =>
             f \in Allocated(cache) /\ cache'.key[f] = cache.key[f] /\ cache'.users[f] = cache.users[f]
    BY <2>3, <2>4
  <2>12. \A s \in Clients : pc[s] = "using" /\ using[s] # Nil =>
             using[s] \in Allocated(cache') /\ cache'.key[using[s]] = cache.key[using[s]]
    BY <2>3, <2>4, <2>8
  <2>13. held' = [held EXCEPT ![t] = TupleCount] /\ wanted' = [wanted EXCEPT ![t] = k]
    BY <1>1, <1>2, <1>4, <1>5 DEF TypeOK
  <2>14. IInv'
    <3>1. e \in Entries /\ e \in Allocated(cache') /\ cache'.key[e] = k /\ Good(cache') /\ pc[t] # "using"
      BY <1>4, <2>1, <2>4
    <3>2. pc' = [pc EXCEPT ![t] = "using"] /\ using' = [using EXCEPT ![t] = e]
      BY <1>4, <2>1
    <3>3. QED
      BY <1>5, <2>6, <2>10, <2>11, <2>12, <2>13, <3>1, <3>2, OneTakes
  <2>15. RoomStep
    <3>1. SUFFICES ASSUME ~cache.bypassed PROVE Room(cache')
      BY DEF RoomStep
    <3>2. CASE p.size <= p.max
      BY <2>5, <3>2 DEF Room
    <3>3. CASE \A f \in Allocated(p) : p.users[f] # 0
      <4>1. SUFFICES ASSUME NEW f \in Allocated(cache') PROVE cache'.users[f] > 0
        BY DEF Room
      <4>2. cache'.users[f] # 0
        BY <2>4, <3>3, CacheAssumption
      <4>3. cache'.users[f] \in Nat
        <5>1. IsTable(cache')
          BY <2>4, CacheHas DEF Good
        <5>2. QED
          BY <5>1 DEF IsTable, Allocated
      <4>4. QED
        BY <4>2, <4>3
    <3>4. QED
      BY <2>2, <3>1, <3>2, <3>3
  <2>16. QED
    BY <2>14, <2>15
<1>8. QED
  BY <1>4, <1>6, <1>7

\* The result cannot be stored for want of memory.
LEMMA StoreFailsKeeps ==
  ASSUME IInv, NEW t \in Clients, StoreFails(t)
  PROVE  IInv' /\ RoomStep
<1>1. ClientInv /\ TypeOK
  BY IInvSays
<1>2. PICK k : k = wanted[t]
  OBVIOUS
<1>3. PICK p : p = Prune(Grow(cache, k))
  OBVIOUS
<1>4. /\ pc[t] = "computing" /\ pc' = [pc EXCEPT ![t] = "using"] /\ UNCHANGED <<wanted, using, held>>
      /\ cache' = [p EXCEPT !.size = p.size - Size[k]]
  BY <1>2, <1>3 DEF StoreFails
<1>5. k \in Keys
  BY <1>1, <1>2, <1>4 DEF ClientInv
<1>6. /\ Good(p) /\ p.max = cache.max /\ Leaves(cache, p)
      /\ p.size \in Nat /\ Bytes(p) \in Nat /\ Size[k] \in Nat /\ Bytes(p) + Size[k] <= p.size
  BY <1>3, <1>5, GrownAndPruned
<1>7. p = Fields(p) /\ IsLimit(p)
  BY <1>6, CacheHas DEF Good
<1>8. SameButSize(p, cache') /\ cache'.size = p.size - Size[k] /\ cache'.max = p.max
  BY <1>4, <1>7 DEF SameButSize, SameTable, SameList, Fields
<1>9. cache'.size \in Nat /\ cache'.max \in MaxSizes
  BY <1>6, <1>7, <1>8 DEF IsLimit
<1>10. Good(cache') /\ Allocated(cache') = Allocated(p) /\ Bytes(cache') = Bytes(p)
  BY <1>6, <1>8, <1>9, SizeKeeps
<1>11. Sized(cache')
  BY <1>6, <1>8, <1>10 DEF Sized
<1>12. Leaves(cache, cache')
  BY <1>6, <1>8, <1>10 DEF Leaves, SameButSize, SameTable
<1>13. /\ pc' \in [Clients -> {"out", "computing", "using"}]
       /\ \A s \in Clients : pc'[s] = pc[s] \/ (pc[s] = "computing" /\ pc'[s] = "using")
  BY <1>1, <1>4 DEF TypeOK
<1>14. IInv'
  BY <1>4, <1>10, <1>11, <1>12, <1>13, NobodyMoves
<1>15. RoomStep
  BY <1>1, <1>4, <1>6, <1>8, NotPruning DEF ClientInv
<1>16. QED
  BY <1>14, <1>15

\* The limit is set.
LEMMA SetSizeKeeps ==
  ASSUME IInv, NEW max \in MaxSizes, SetSize(max)
  PROVE  IInv' /\ RoomStep
<1>1. Good(cache) /\ Sized(cache) /\ cache \in Caches /\ TypeOK
  BY IInvSays
<1>2. cache = Fields(cache) /\ IsLimit(cache)
  BY <1>1, CacheHas
<1>3. PICK y : y = [cache EXCEPT !.max = max]
  OBVIOUS
<1>4. SameButSize(cache, y) /\ y.size = cache.size /\ y.max = max /\ SameTable(cache, y)
  BY <1>2, <1>3 DEF SameButSize, SameTable, SameList, Fields
<1>5. y.size \in Nat /\ y.max \in MaxSizes
  BY <1>2, <1>4 DEF IsLimit
<1>6. Good(y) /\ Bytes(y) = Bytes(cache) /\ y.bypassed = cache.bypassed
  BY <1>1, <1>4, <1>5, SizeKeeps
<1>7. Sized(y)
  BY <1>1, <1>4, <1>6 DEF Sized
<1>8. cache' = Prune(y) /\ UNCHANGED <<pc, wanted, using, held>>
  BY <1>3 DEF SetSize
<1>9. /\ Good(cache') /\ Sized(cache') /\ Takes(y, cache')
      /\ ~y.bypassed => cache'.size <= cache'.max \/ \A e \in Allocated(cache') : cache'.users[e] # 0
  BY <1>6, <1>7, <1>8, PruneKeeps
<1>10. Leaves(cache, cache')
  <2>1. SameTable(cache', cache')
    BY DEF SameTable
  <2>2. QED
    BY <1>4, <1>9, <2>1, PruneLeaves
<1>11. IInv'
  <2>1. pc' = pc /\ pc' \in [Clients -> {"out", "computing", "using"}]
    BY <1>1, <1>8 DEF TypeOK
  <2>2. QED
    BY <1>8, <1>9, <1>10, <2>1, NobodyMoves
<1>12. RoomStep
  <2>1. SUFFICES ASSUME ~cache.bypassed PROVE Room(cache')
    BY DEF RoomStep
  <2>2. IsTable(cache')
    BY <1>9, CacheHas DEF Good
  <2>3. \A e \in Allocated(cache') : cache'.users[e] \in Nat
    BY <2>2 DEF IsTable, Allocated
  <2>4. QED
    BY <1>6, <1>9, <2>1, <2>3 DEF Room
<1>13. QED
  BY <1>11, <1>12

\* Entries are evicted that nobody uses.
LEMMA EvictStepKeeps ==
  ASSUME IInv, NEW key, Evict(key)
  PROVE  IInv' /\ RoomStep
<1>1. Good(cache) /\ Sized(cache) /\ TypeOK /\ ClientInv
  BY IInvSays
<1>2. ~InUse(key) /\ cache' = Evicted(cache, key) /\ UNCHANGED <<pc, wanted, using, held>>
  BY DEF Evict
<1>3. Good(cache') /\ Sized(cache') /\ Evicts(cache, cache', key)
  BY <1>1, <1>2, EvictKeeps
<1>4. \A t \in Clients : pc[t] = "using" /\ using[t] # Nil => using[t] \in Allocated(cache')
  <2>1. SUFFICES ASSUME NEW t \in Clients, pc[t] = "using", using[t] # Nil, using[t] \notin Allocated(cache')
                 PROVE  FALSE
    OBVIOUS
  <2>2. using[t] \in Allocated(cache) /\ cache.key[using[t]] = wanted[t]
    BY <2>1, UsedIsCounted
  <2>3. using[t] \in Tagged(cache, key)
    BY <1>3, <2>1, <2>2 DEF Evicts
  <2>4. QED
    BY <1>2, <2>1, <2>2, <2>3 DEF Tagged, InUse
<1>5. Leaves(cache, cache')
  BY <1>3, <1>4 DEF Leaves, Evicts, Shrinks
<1>6. IInv'
  <2>1. pc' = pc /\ pc' \in [Clients -> {"out", "computing", "using"}]
    BY <1>1, <1>2 DEF TypeOK
  <2>2. QED
    BY <1>2, <1>3, <1>5, <2>1, NobodyMoves
<1>7. RoomStep
  BY <1>1, <1>2, <1>3, NotPruning DEF ClientInv, Evicts, Shrinks
<1>8. QED
  BY <1>6, <1>7

\* Everything is destroyed, when nobody uses anything.
LEMMA CleanupKeeps ==
  ASSUME IInv, Cleanup
  PROVE  IInv' /\ RoomStep
<1>1. cache \in Caches /\ TypeOK /\ ClientInv
  BY IInvSays
<1>2. (\A t \in Clients : pc[t] = "out") /\ cache' = Empty(cache.max) /\ UNCHANGED <<pc, wanted, using, held>>
  BY DEF Cleanup
<1>3. cache.max \in MaxSizes
  BY <1>1, CacheHas DEF IsLimit
<1>4. Good(cache') /\ Sized(cache') /\ Allocated(cache') = {} /\ cache'.max = cache.max
  BY <1>2, <1>3, EmptyGood
<1>5. Leaves(cache, cache')
  BY <1>2, <1>4 DEF Leaves
<1>6. IInv'
  <2>1. pc' = pc /\ pc' \in [Clients -> {"out", "computing", "using"}]
    BY <1>1, <1>2 DEF TypeOK
  <2>2. QED
    BY <1>2, <1>4, <1>5, <2>1, NobodyMoves
<1>7. RoomStep
  BY <1>1, <1>2, <1>4, NotPruning DEF ClientInv
<1>8. QED
  BY <1>6, <1>7

-----------------------------------------------------------------------------
(* The theorems *)

\* In the beginning the cache is empty and nobody uses it.
LEMMA InitKeeps ==
  Init => IInv
<1> SUFFICES ASSUME Init PROVE IInv
  OBVIOUS
<1>1. PICK max \in MaxSizes : cache = Empty(max)
  BY DEF Init
<1>2. Good(cache) /\ Sized(cache) /\ Allocated(cache) = {}
  BY <1>1, EmptyGood
<1>3. TypeOK
  BY <1>2, CacheAssumption DEF Init, TypeOK, Good
<1>4. ClientInv
  BY DEF Init, ClientInv
<1>5. Counted(cache, pc, using, held)
  BY <1>2 DEF Counted
<1>6. Kept(cache, pc, using, wanted)
  BY DEF Kept, Init
<1>7. QED
  BY <1>2, <1>3, <1>4, <1>5, <1>6, IInvFrom

\* A step of a client.
LEMMA ClientKeeps ==
  ASSUME IInv, NEW t \in Clients, Client(t)
  PROVE  IInv' /\ RoomStep
<1>1. CASE \E k \in Keys : Hit(t, k)
  BY <1>1, HitKeeps
<1>2. CASE \E k \in Keys : Miss(t, k)
  BY <1>2, MissKeeps
<1>3. CASE ComputeFails(t)
  BY <1>3, SettlesKeeps DEF ComputeFails
<1>4. CASE Store(t)
  BY <1>4, StoreKeeps
<1>5. CASE StoreFails(t)
  BY <1>5, StoreFailsKeeps
<1>6. CASE Release(t)
  BY <1>6, ReleaseKeeps
<1>7. QED
  BY <1>1, <1>2, <1>3, <1>4, <1>5, <1>6 DEF Client

\* The invariant is inductive, and the cache makes room.
LEMMA StepKeeps ==
  IInv /\ [Next]_vars => IInv' /\ (RoomStep \/ UNCHANGED vars)
<1> SUFFICES ASSUME IInv, [Next]_vars PROVE IInv' /\ (RoomStep \/ UNCHANGED vars)
  OBVIOUS
<1>1. ASSUME NEW t \in Clients, Client(t) PROVE IInv' /\ RoomStep
  BY <1>1, ClientKeeps
<1>2. ASSUME NEW max \in MaxSizes, SetSize(max) PROVE IInv' /\ RoomStep
  BY <1>2, SetSizeKeeps
<1>3. ASSUME NEW key \in Range(EvictionKey), Evict(key) PROVE IInv' /\ RoomStep
  BY <1>3, EvictStepKeeps
<1>4. ASSUME Cleanup PROVE IInv' /\ RoomStep
  BY <1>4, CleanupKeeps
<1>5. ASSUME UNCHANGED vars PROVE IInv'
  <2>1. cache' = cache /\ pc' = pc /\ wanted' = wanted /\ using' = using /\ held' = held
    BY <1>5 DEF vars
  <2>2. /\ Good(cache) /\ Sized(cache) /\ ClientInv /\ TypeOK
        /\ Counted(cache, pc, using, held) /\ Kept(cache, pc, using, wanted)
    BY IInvSays
  <2>3. ClientInv' /\ TypeOK'
    BY <2>1, <2>2 DEF ClientInv, TypeOK
  <2>4. QED
    BY <2>1, <2>2, <2>3, IInvNext
<1>6. QED
  BY <1>1, <1>2, <1>3, <1>4, <1>5 DEF Next

\* The invariant holds in every state: the table, the counts of use and, until an entry
\* is pruned past an older one, the list are in order, and the size is never too low.
THEOREM Invariance == Spec => []IInv
<1>1. Init => IInv
  BY InitKeeps
<1>2. IInv /\ [Next]_vars => IInv'
  BY StepKeeps
<1>3. QED
  BY <1>1, <1>2, PTL DEF Spec

\* Whoever misses on a key together, the cache has one entry for it, and each entry is
\* once in the chain of its key.
THEOREM OneEntryPerKeyAlways == Spec => []OneEntryPerKey
<1>1. IInv => OneEntryPerKey
  BY DEF IInv, OneEntryPerKey, Good, Placed, Distinct, Live
<1>2. QED
  BY <1>1, Invariance, PTL

\* in_use_count is the number of buffers that clients have not released.
THEOREM InUseCountsUsersAlways == Spec => []InUseCountsUsers
<1>1. IInv => InUseCountsUsers
  BY DEF IInv
<1>2. QED
  BY <1>1, Invariance, PTL

\* The buffers a client uses stay in the cache, as those of its key.
THEOREM BuffersOutliveTheirUseAlways == Spec => []BuffersOutliveTheirUse
<1>1. IInv => BuffersOutliveTheirUse
  BY DEF IInv
<1>2. QED
  BY <1>1, Invariance, PTL

\* The links lead through the list as long as no entry has been pruned past an older one.
LEMMA ListIsExact ==
  IInv => LruIsExact
<1> SUFFICES ASSUME IInv, ~cache.bypassed
             PROVE  /\ Walk(cache.more, cache.lru) = cache.recency
                    /\ Walk(cache.less, cache.mru) = Reverse(cache.recency)
                    /\ Range(cache.recency) = Live
                    /\ cache.fate = "fine"
  BY DEF LruIsExact
<1>1. Good(cache)
  BY DEF IInv
<1>2. Linked(cache, cache.recency) /\ cache.fate = "fine"
  BY <1>1 DEF Good, Ordered
<1>3. cache.recency \in Seq(Entries) /\ IsInjective(cache.recency) /\ Range(cache.recency) = Live
  BY <1>1, CacheHas DEF Good, Remembered, IsList, Live
<1>4. /\ Leads(cache.more, cache.lru, cache.recency)
      /\ Reverse(cache.recency) \in Seq(Entries) /\ IsInjective(Reverse(cache.recency))
      /\ Leads(cache.less, cache.mru, Reverse(cache.recency))
  BY <1>2, <1>3, BothLead
<1>5. Walk(cache.more, cache.lru) = cache.recency
  BY <1>3, <1>4, WalkIs
<1>6. Walk(cache.less, cache.mru) = Reverse(cache.recency)
  BY <1>4, WalkIs
<1>7. QED
  BY <1>2, <1>3, <1>5, <1>6

\* Until an entry is pruned past an older one that is in use, the list has all entries
\* in the order of their last use, from either end.
THEOREM LruIsExactAlways == Spec => []LruIsExact
<1>1. IInv => LruIsExact
  BY ListIsExact
<1>2. QED
  BY <1>1, Invariance, PTL

\* A call that adds an entry or changes the limit leaves the cache within its limit, or
\* nothing unused in it.
THEOREM RoomIsMade == Spec => PruneMakesRoom
<1>1. IInv /\ [Next]_vars => [Prunes /\ ~cache.bypassed =>
          cache'.size <= cache'.max \/ \A e \in DOMAIN cache'.key : cache'.users[e] > 0]_vars
  BY StepKeeps DEF RoomStep, Room, Allocated
<1>2. QED
  BY <1>1, Invariance, PTL DEF Spec, PruneMakesRoom

\* What validate_cache asserts of the hash table and the list holds until then.
THEOREM ValidUntilBypassed == Spec => [](~cache.bypassed => ChainsHoldAllEntries)
<1>1. IInv => (~cache.bypassed => ChainsHoldAllEntries)
  <2> SUFFICES ASSUME IInv, ~cache.bypassed PROVE ChainsHoldAllEntries
    OBVIOUS
  <2>1. cache.recency \in Seq(Entries) /\ IsInjective(cache.recency) /\ Range(cache.recency) = Live
    BY CacheHas DEF IInv, Good, Remembered, IsList, Live
  <2>2. Len(cache.recency) = Cardinality(Live)
    BY <2>1, SeqCounts
  <2>3. Walk(cache.more, cache.lru) = cache.recency /\ Walk(cache.less, cache.mru) = Reverse(cache.recency)
    BY ListIsExact DEF LruIsExact
  <2>4. Len(Reverse(cache.recency)) = Len(cache.recency)
    BY <2>1 DEF Reverse
  <2>5. QED
    BY <2>2, <2>3, <2>4 DEF ChainsHoldAllEntries
<1>2. QED
  BY <1>1, Invariance, PTL

\* An eviction leaves nothing in the cache that has the eviction key.
THEOREM EvictionIsComplete == Spec => [][\A key : Evict(key) => Tagged(cache', key) = {}]_vars
<1>1. IInv => [\A key : Evict(key) => Tagged(cache', key) = {}]_vars
  <2> SUFFICES ASSUME IInv, NEW key, Evict(key) PROVE Tagged(cache', key) = {}
    OBVIOUS
  <2>1. Good(cache) /\ Sized(cache)
    BY DEF IInv
  <2>2. cache' = Evicted(cache, key)
    BY DEF Evict
  <2>3. QED
    BY <2>1, <2>2, EvictKeeps
<1>2. QED
  BY <1>1, Invariance, PTL
=============================================================================
