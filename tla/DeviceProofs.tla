---------------------------- MODULE DeviceProofs ----------------------------
(***************************************************************************)
(* Proofs about the two modules on device memory and device code.          *)
(*                                                                         *)
(* DeviceInterface, for any buffers, views, interfaces, sizes and device   *)
(* memory, with the driver failing anywhere: the memory of the driver is   *)
(* owned, module uses balance, and the dirty bits tell where the newest    *)
(* content is.  A call is a chain of operators on the state, so there is   *)
(* one lemma per operator, in the order of the module: what it does to the *)
(* memory (Mallocs, Drops, Trims), what it does to the content (Lands,     *)
(* Tears, Arrives), and that it keeps what is said of both (Sound, Seen).  *)
(* The invariants are these two of the state the variables make up.  Each  *)
(* says of an effect only what the next lemma needs, in a predicate of its *)
(* own.                                                                    *)
(*                                                                         *)
(* GPUCompilationCache, for any clients, contexts, pipelines, modules,     *)
(* hash and sizes, with every allocation failing: the search finds every   *)
(* entry, and a module in use stays in the cache with the count of its     *)
(* users, unless it is one that a nested resize had no memory for.  The    *)
(* entries are those in the table and those an insertion has taken out of  *)
(* a smaller one and still has to place; the invariant says of the two     *)
(* together what the properties say of the table.  Nothing else is lost on *)
(* the way because a table that has grown has room for all that is still   *)
(* to be placed, whatever `count' says (HasRoom), and the keys that were   *)
(* lost do not disturb the others because who runs with the module of an   *)
(* entry runs with its key (Owners).                                       *)
(***************************************************************************)
EXTENDS DeviceInterface, GPUCompilationCache, TLAPS, FiniteSetTheorems, SequenceTheorems

-----------------------------------------------------------------------------
(* The least and the greatest of a set of numbers, powers of two, and what *)
(* quantize_allocation_size makes of a size                                *)

\* A set of numbers that is not empty has a least one.
LEMMA LeastExists ==
    ASSUME NEW S, S \subseteq Nat, S # {}
    PROVE  \E x \in S : \A y \in S : x <= y
<1>1. PICK x \in S : \A y \in S : <<y, x>> \notin OpToRel(<, Nat)
  BY NatLessThanWellFounded, WFMin, Zenon
<1>2. \A y \in S : ~ (y < x)
  BY <1>1, Zenon DEF OpToRel
<1>3. QED
  BY <1>2

\* Min is the least of them.
LEMMA MinIsLeast ==
    ASSUME NEW S, S \subseteq Nat, S # {}
    PROVE  Min(S) \in S /\ \A y \in S : Min(S) <= y
BY LeastExists DEF Min

\* Max is the greatest of numbers that are bounded.
LEMMA MaxIsGreatest ==
    ASSUME NEW S, NEW n \in Nat, S \subseteq 0 .. n, S # {}
    PROVE  Max(S) \in S /\ \A y \in S : Max(S) >= y
<1> DEFINE T == {n - x : x \in S}
<1>1. T \subseteq Nat /\ T # {}
  <2>1. \A x \in S : n - x \in Nat
    OBVIOUS
  <2>2. QED
    BY <2>1
<1>2. PICK t \in T : \A u \in T : t <= u
  BY <1>1, LeastExists
<1>3. PICK x \in S : t = n - x
  BY <1>2
<1>4. ASSUME NEW y \in S PROVE x >= y
  <2>1. t <= n - y
    BY <1>2
  <2>2. QED
    BY <2>1, <1>3
<1>5. QED
  BY <1>4 DEF Max

\* 2^k is the number of the subsets of k things: exponentiation has no theorems of its own.
LEMMA PowerSets ==
    ASSUME NEW k \in Nat
    PROVE  2 ^ k \in Nat /\ 2 ^ k = Cardinality(SUBSET (1 .. k)) /\ IsFiniteSet(SUBSET (1 .. k))
<1>1. IsFiniteSet(1 .. k) /\ Cardinality(1 .. k) = k
  BY FS_Interval
<1>2. IsFiniteSet(SUBSET (1 .. k)) /\ Cardinality(SUBSET (1 .. k)) = 2 ^ k
  BY <1>1, FS_SUBSET
<1>3. QED
  BY <1>2, FS_CardinalityType

\* One thing more doubles it.
LEMMA PowerDoubles ==
    ASSUME NEW k \in Nat
    PROVE  2 ^ (k + 1) = 2 * 2 ^ k
<1> DEFINE A == SUBSET (1 .. k)
           B == {T \union {k + 1} : T \in A}
           f == [T \in A |-> T \union {k + 1}]
<1>1. IsFiniteSet(A) /\ Cardinality(A) = 2 ^ k /\ 2 ^ k \in Nat
  BY PowerSets
<1>2. f \in Bijection(A, B)
  <2>1. \A S, T \in A : f[S] = f[T] => S = T
    <3> SUFFICES ASSUME NEW S \in A, NEW T \in A, f[S] = f[T] PROVE S = T
      OBVIOUS
    <3>1. S \union {k + 1} = T \union {k + 1} /\ k + 1 \notin S /\ k + 1 \notin T
      OBVIOUS
    <3>2. QED
      BY <3>1
  <2>2. f \in [A -> B] /\ \A U \in B : \E T \in A : f[T] = U
    OBVIOUS
  <2>3. QED
    BY <2>1, <2>2 DEF Bijection, Injection, Surjection, IsInjective
<1>3. IsFiniteSet(B) /\ Cardinality(B) = 2 ^ k
  BY <1>1, <1>2, FS_Bijection DEF ExistsBijection
<1>4. A \cap B = {}
  OBVIOUS
<1>5. SUBSET (1 .. k + 1) = A \union B
  <2>1. ASSUME NEW S \in SUBSET (1 .. k + 1), S \notin A PROVE S \in B
    <3>1. k + 1 \in S /\ S \ {k + 1} \in A
      BY <2>1
    <3>2. S = (S \ {k + 1}) \union {k + 1}
      BY <3>1
    <3>3. QED
      BY <3>1, <3>2
  <2>2. A \subseteq SUBSET (1 .. k + 1) /\ B \subseteq SUBSET (1 .. k + 1)
    <3>1. \A T \in A : T \subseteq 1 .. k + 1 /\ T \union {k + 1} \subseteq 1 .. k + 1
      OBVIOUS
    <3>2. QED
      BY <3>1
  <2>3. QED
    BY <2>1, <2>2
<1>6. Cardinality(A \union B) = Cardinality(A) + Cardinality(B) - Cardinality({})
  <2> HIDE DEF A, B
  <2>1. QED
    BY <1>1, <1>3, <1>4, FS_Union
<1>7. 2 ^ (k + 1) = Cardinality(A \union B)
  <2>1. k + 1 \in Nat
    OBVIOUS
  <2>2. 2 ^ (k + 1) = Cardinality(SUBSET (1 .. k + 1))
    BY <2>1, PowerSets
  <2> HIDE DEF A, B
  <2>3. QED
    BY <1>5, <2>2
<1>8. 2 ^ k + 2 ^ k - 0 = 2 * 2 ^ k
  BY <1>1
<1>9. QED
  BY <1>1, <1>3, <1>6, <1>7, <1>8, FS_EmptySet

\* So that the search for a power of two above n / 16 ends.
LEMMA PowerExceeds ==
    ASSUME NEW n \in Nat
    PROVE  2 ^ n > n
<1> SUFFICES ASSUME ~ (2 ^ n > n) PROVE FALSE
  OBVIOUS
<1> DEFINE T == {m \in Nat : ~ (2 ^ m > m)}
<1>1. PICK m \in T : \A l \in T : m <= l
  BY LeastExists
<1>2. m # 0
  <2>1. 2 ^ 0 > 0
    OBVIOUS
  <2>2. QED
    BY <1>1, <2>1
<1>3. m - 1 \in Nat /\ m - 1 \notin T
  BY <1>1, <1>2
<1>4. 2 ^ (m - 1) > m - 1 /\ 2 ^ (m - 1) \in Nat
  BY <1>3, PowerSets
<1>5. 2 ^ m = 2 * 2 ^ (m - 1)
  <2>1. 2 ^ ((m - 1) + 1) = 2 * 2 ^ (m - 1)
    BY <1>3, PowerDoubles
  <2>2. (m - 1) + 1 = m
    OBVIOUS
  <2>3. QED
    BY <2>1, <2>2
<1>6. m \in Nat /\ ~ (2 ^ m > m)
  BY <1>1
<1>7. PICK x \in Nat : x = 2 ^ (m - 1) /\ x > m - 1 /\ 2 ^ m = 2 * x
  BY <1>4, <1>5
<1>8. QED
  BY <1>2, <1>6, <1>7

\* To round up to a multiple does not make smaller.
LEMMA RoundsUp ==
    ASSUME NEW n \in Nat, NEW u \in Nat \ {0}
    PROVE  RoundUp(n, u) \in Nat /\ RoundUp(n, u) >= n
BY DEF RoundUp

\* quantize_allocation_size never makes a size smaller: there is a power of two to round
\* up by, and what is kept under the quantized size can take the buffer it came from.
THEOREM QuantizeRoundsUp ==
    ASSUME NEW n \in Nat
    PROVE  Quantize(n) \in Nat /\ Quantize(n) >= n
<1> DEFINE Powers == {2 ^ k : k \in 1 .. n}
           T == {k \in Nat : n < 16 * 2 ^ k}
<1>1. CASE n < 16
  BY <1>1 DEF Quantize
<1>2. CASE n >= 16
  <2>1. n \in T
    <3>1. 2 ^ n > n /\ 2 ^ n \in Nat
      BY PowerExceeds, PowerSets
    <3>2. QED
      BY <3>1
  <2>2. PICK k \in T : \A l \in T : k <= l
    BY <2>1, LeastExists
  <2>3. k # 0
    <3>1. 16 * 2 ^ 0 = 16
      OBVIOUS
    <3>2. 0 \notin T
      BY <1>2, <3>1
    <3>3. QED
      BY <2>2, <3>2
  <2>4. k - 1 \in Nat /\ k - 1 \notin T /\ k \in 1 .. n
    BY <2>1, <2>2, <2>3
  <2>5. 2 ^ k = 2 * 2 ^ (k - 1) /\ 2 ^ (k - 1) \in Nat
    <3>1. 2 ^ ((k - 1) + 1) = 2 * 2 ^ (k - 1)
      BY <2>4, PowerDoubles
    <3>2. (k - 1) + 1 = k
      OBVIOUS
    <3>3. QED
      BY <3>1, <3>2, <2>4, PowerSets
  <2>6. 8 * 2 ^ k <= n /\ n < 16 * 2 ^ k
    BY <2>2, <2>4, <2>5
  <2>7. \E u \in Powers : 8 * u <= n /\ n < 16 * u
    BY <2>4, <2>6
  <2>8. PICK u : u = CHOOSE v \in Powers : 8 * v <= n /\ n < 16 * v
    OBVIOUS
  <2>9. u \in Powers /\ n < 16 * u
    BY <2>7, <2>8
  <2>10. u \in Nat \ {0}
    <3>1. PICK j \in 1 .. n : u = 2 ^ j
      BY <2>9
    <3>2. j \in Nat
      OBVIOUS
    <3>3. 2 ^ j \in Nat
      BY <3>2, PowerSets
    <3>4. QED
      BY <1>2, <2>9, <3>1, <3>3
  <2>11. Quantize(n) = RoundUp(n, u)
    BY <1>2, <2>8 DEF Quantize
  <2>12. QED
    BY <2>10, <2>11, RoundsUp
<1>3. QED
  BY <1>1, <1>2

-----------------------------------------------------------------------------
(* The state, as the operators take and return it *)

Pointers == DeviceMemory \union NativeMemory
BufferStates == [host : {None, "client", "halide"},
                 device : {Null} \union Pointers,
                 interface : Interfaces \union {None},
                 hostDirty : BOOLEAN, deviceDirty : BOOLEAN]
Contents == [known : BOOLEAN, host : BOOLEAN, device : BOOLEAN]
Items == [ptr : DeviceMemory, size : Nat]
Origins == {None, "malloc", "wrap", "failed"} \union Buffers
Results == {"ok", "error", "incompatible"}

State == [buf : [All -> BufferStates], origin : [All -> Origins], content : [All -> Contents],
          memory : [DeviceMemory -> Nat], list : [Interfaces -> Seq(Items)],
          uses : [Interfaces -> Int], refused : [Interfaces -> Nat], reuse : BOOLEAN,
          fuse : Nat, result : Results]

\* The types of the parts.
LEMMA StateHas ==
    ASSUME NEW s \in State
    PROVE  /\ s.buf \in [All -> BufferStates] /\ s.origin \in [All -> Origins]
           /\ s.content \in [All -> Contents] /\ s.memory \in [DeviceMemory -> Nat]
           /\ s.list \in [Interfaces -> Seq(Items)] /\ s.uses \in [Interfaces -> Int]
           /\ s.refused \in [Interfaces -> Nat]
           /\ s.reuse \in BOOLEAN /\ s.fuse \in Nat /\ s.result \in Results
BY DEF State

\* The buffer with memory p of interface i, or with Null and None.
Repoint(r, p, i) == [r EXCEPT !.device = p, !.interface = i]

\* Its other parts stay.
LEMMA Repointed ==
    ASSUME NEW r \in BufferStates, NEW p \in {Null} \union Pointers, NEW i \in Interfaces \union {None}
    PROVE  /\ Repoint(r, p, i) \in BufferStates
           /\ Repoint(r, p, i).device = p /\ Repoint(r, p, i).interface = i /\ Repoint(r, p, i).host = r.host
           /\ Repoint(r, p, i).hostDirty = r.hostDirty /\ Repoint(r, p, i).deviceDirty = r.deviceDirty
BY DEF BufferStates, Repoint

\* In t, b has memory p of interface i; the other buffers are those of s.
Points(s, t, b, p, i) == t.buf = [s.buf EXCEPT ![b] = Repoint(s.buf[b], p, i)]

\* What that says of b and of the others.
LEMMA Repoints ==
    ASSUME NEW s \in State, NEW t, NEW b \in All,
           NEW p \in {Null} \union Pointers, NEW i \in Interfaces \union {None},
           Points(s, t, b, p, i)
    PROVE  /\ t.buf[b].device = p /\ t.buf[b].interface = i /\ t.buf[b].host = s.buf[b].host
           /\ t.buf[b].hostDirty = s.buf[b].hostDirty /\ t.buf[b].deviceDirty = s.buf[b].deviceDirty
           /\ \A c \in All \ {b} : t.buf[c] = s.buf[c]
<1>1. s.buf \in [All -> BufferStates] /\ s.buf[b] \in BufferStates
  BY StateHas
<1>2. t.buf[b] = Repoint(s.buf[b], p, i)
  BY <1>1 DEF Points
<1>3. /\ t.buf[b].device = p /\ t.buf[b].interface = i /\ t.buf[b].host = s.buf[b].host
      /\ t.buf[b].hostDirty = s.buf[b].hostDirty /\ t.buf[b].deviceDirty = s.buf[b].deviceDirty
  BY <1>1, <1>2, Repointed
<1>4. \A c \in All \ {b} : t.buf[c] = s.buf[c]
  BY <1>1 DEF Points
<1>5. QED
  BY <1>3, <1>4

\* b has got memory p of interface i.
Attached(s, t, b, i, p) ==
    /\ t \in State
    /\ Points(s, t, b, p, i)
    /\ t.uses = [s.uses EXCEPT ![i] = s.uses[i] + 1]
    /\ t.origin = s.origin /\ t.content = s.content /\ t.memory = s.memory
    /\ t.list = s.list /\ t.refused = s.refused /\ t.reuse = s.reuse /\ t.fuse = s.fuse /\ t.result = s.result

\* That is what Attach does.
LEMMA AttachEffect ==
    ASSUME NEW s \in State, NEW b \in All, NEW i \in Interfaces, NEW p \in Pointers
    PROVE  Attached(s, Attach(s, b, i, p), b, i, p)
<1> DEFINE t == Attach(s, b, i, p)
<1>1. t.buf = [s.buf EXCEPT ![b] = Repoint(s.buf[b], p, i)]
  BY DEF Attach, State, BufferStates, Repoint
<1>2. t.uses = [s.uses EXCEPT ![i] = s.uses[i] + 1]
  BY DEF Attach, State
<1>3. t = [s EXCEPT !.buf = t.buf, !.uses = t.uses]
  BY DEF Attach, State
<1>4. Repoint(s.buf[b], p, i) \in BufferStates
  <2>1. s.buf[b] \in BufferStates
    BY StateHas
  <2>2. p \in {Null} \union Pointers /\ i \in Interfaces \union {None}
    OBVIOUS
  <2>3. QED
    BY <2>1, <2>2, Repointed, Zenon
<1>5. t.buf \in [All -> BufferStates] /\ t.uses \in [Interfaces -> Int]
  BY <1>1, <1>2, <1>4, StateHas
<1> HIDE DEF t
<1>6. t \in State
  BY <1>3, <1>5 DEF State
<1>7. /\ t.origin = s.origin /\ t.content = s.content /\ t.memory = s.memory
           /\ t.list = s.list /\ t.refused = s.refused /\ t.reuse = s.reuse /\ t.fuse = s.fuse /\ t.result = s.result
  BY <1>3 DEF State
<1>8. QED
  BY <1>1, <1>2, <1>6, <1>7 DEF t, Attached, Points

\* t has what s has, but for the fuse and the result.
Same(s, t) ==
    /\ t \in State
    /\ t.buf = s.buf /\ t.origin = s.origin /\ t.content = s.content /\ t.memory = s.memory
    /\ t.list = s.list /\ t.uses = s.uses /\ t.refused = s.refused /\ t.reuse = s.reuse

\* Nothing, and then nothing.
LEMMA SameTransitive ==
    ASSUME NEW s, NEW t, NEW u, Same(s, t), Same(t, u)
    PROVE  Same(s, u)
BY DEF Same

\* Results and the fuse are all that Ok, Error, Incompatible and Burn change.
LEMMA ResultEffect ==
    ASSUME NEW s \in State
    PROVE  /\ Same(s, Ok(s)) /\ Ok(s).result = "ok"
           /\ Same(s, Error(s)) /\ Error(s).result = "error"
           /\ Same(s, Incompatible(s)) /\ Incompatible(s).result = "incompatible"
           /\ Same(s, Burn(s)) /\ Burn(s).result = s.result
<1>1. ASSUME NEW r \in Results
      PROVE  Same(s, [s EXCEPT !.result = r]) /\ [s EXCEPT !.result = r].result = r
  BY <1>1 DEF Same, State
<1>2. ASSUME NEW n \in Nat
      PROVE  Same(s, [s EXCEPT !.fuse = n]) /\ [s EXCEPT !.fuse = n].result = s.result
  BY <1>2 DEF Same, State
<1>3. Ok(s) = [s EXCEPT !.result = "ok"] /\ "ok" \in Results
  BY DEF Ok, Results
<1>4. Error(s) = [s EXCEPT !.result = "error"] /\ "error" \in Results
  BY DEF Error, Results
<1>5. Incompatible(s) = [s EXCEPT !.result = "incompatible"] /\ "incompatible" \in Results
  BY DEF Incompatible, Results
<1>6. \E n \in Nat : Burn(s) = [s EXCEPT !.fuse = n]
  <2>1. s.fuse \in Nat
    BY StateHas
  <2>2. (IF s.fuse = 0 THEN 0 ELSE s.fuse - 1) \in Nat
    BY <2>1
  <2>3. QED
    BY <2>2 DEF Burn
<1>7. QED
  BY <1>1, <1>2, <1>3, <1>4, <1>5, <1>6

\* b has got n bytes of the driver's, at p.
Allocated(s, t, b, i, p, n) ==
    /\ t \in State
    /\ Points(s, t, b, p, i)
    /\ t.uses = [s.uses EXCEPT ![i] = s.uses[i] + 1]
    /\ t.memory = [s.memory EXCEPT ![p] = n]
    /\ t.origin = [s.origin EXCEPT ![b] = "malloc"]
    /\ t.content = s.content /\ t.list = s.list
    /\ t.refused = s.refused /\ t.reuse = s.reuse /\ t.fuse = s.fuse /\ t.result = s.result

\* That is what cuMemAlloc and Attach do together.
LEMMA AllocatedEffect ==
    ASSUME NEW s \in State, NEW b \in All, NEW i \in Interfaces, NEW p \in DeviceMemory, NEW n \in Nat
    PROVE  Allocated(s, [Attach(s, b, i, p) EXCEPT !.memory[p] = n, !.origin[b] = "malloc"], b, i, p, n)
<1> DEFINE a == Attach(s, b, i, p)
           t == [a EXCEPT !.memory[p] = n, !.origin[b] = "malloc"]
<1>1. p \in Pointers
  BY DEF Pointers
<1>2. Attached(s, a, b, i, p)
  BY <1>1, AttachEffect
<1> HIDE DEF a
<1>3. t.memory = [s.memory EXCEPT ![p] = n] /\ t.origin = [s.origin EXCEPT ![b] = "malloc"]
  BY <1>2 DEF Attached, State
<1>5. t = [a EXCEPT !.memory = t.memory, !.origin = t.origin]
  BY <1>2 DEF Attached, State
<1> HIDE DEF t
<1>4. t.memory \in [DeviceMemory -> Nat] /\ t.origin \in [All -> Origins]
  BY <1>3, StateHas DEF Origins
<1>6. t \in State
  BY <1>2, <1>4, <1>5 DEF Attached, State
<1>7. /\ t.buf = a.buf /\ t.uses = a.uses /\ t.refused = a.refused /\ t.content = s.content
      /\ t.list = s.list /\ t.refused = s.refused /\ t.reuse = s.reuse /\ t.fuse = s.fuse /\ t.result = s.result
  BY <1>2, <1>5 DEF Attached, State
<1>8. QED
  BY <1>2, <1>3, <1>6, <1>7 DEF t, a, Attached, Allocated, Points

\* b has let go of its memory, of interface i.
Detached(s, t, b, i) ==
    /\ t \in State
    /\ Points(s, t, b, Null, None)
    /\ t.uses = [s.uses EXCEPT ![i] = s.uses[i] - 1]
    /\ t.origin = [s.origin EXCEPT ![b] = None]
    /\ t.content = [s.content EXCEPT ![b] =
                       IF s.buf[b].deviceDirty THEN Unknown ELSE [s.content[b] EXCEPT !.device = FALSE]]
    /\ t.memory = s.memory
    /\ t.list = s.list /\ t.refused = s.refused /\ t.reuse = s.reuse /\ t.fuse = s.fuse /\ t.result = s.result

\* That is what Detach does.
LEMMA DetachEffect ==
    ASSUME NEW s \in State, NEW b \in All, s.buf[b].interface \in Interfaces
    PROVE  Detached(s, Detach(s, b), b, s.buf[b].interface)
<1> DEFINE t == Detach(s, b)
           i == s.buf[b].interface
<1>1. t.buf = [s.buf EXCEPT ![b] = Repoint(s.buf[b], Null, None)]
  BY DEF Detach, State, BufferStates, Repoint
<1>2. t.uses = [s.uses EXCEPT ![i] = s.uses[i] - 1]
  BY DEF Detach, State
<1>3. t.origin = [s.origin EXCEPT ![b] = None]
  BY DEF Detach, State
<1>4. t.content = [s.content EXCEPT ![b] =
                     IF s.buf[b].deviceDirty THEN Unknown ELSE [s.content[b] EXCEPT !.device = FALSE]]
  BY DEF Detach, State
<1>5. t = [s EXCEPT !.buf = t.buf, !.uses = t.uses, !.origin = t.origin, !.content = t.content]
  BY ZenonT(60) DEF Detach, State
<1>6. Repoint(s.buf[b], Null, None) \in BufferStates
  <2>1. s.buf[b] \in BufferStates
    BY StateHas
  <2>2. QED
    BY <2>1, Repointed, Zenon
<1>7. Unknown \in Contents /\ [s.content[b] EXCEPT !.device = FALSE] \in Contents
  <2>1. s.content[b] \in Contents
    BY StateHas
  <2>2. QED
    BY <2>1 DEF Unknown, Contents
<1>8. t.buf \in [All -> BufferStates] /\ t.uses \in [Interfaces -> Int]
      /\ t.origin \in [All -> Origins] /\ t.content \in [All -> Contents]
  BY <1>1, <1>2, <1>3, <1>4, <1>6, <1>7, StateHas DEF Origins
<1> HIDE DEF t
<1>9. t \in State
  BY <1>5, <1>8 DEF State
<1>10. /\ t.memory = s.memory
       /\ t.list = s.list /\ t.refused = s.refused /\ t.reuse = s.reuse /\ t.fuse = s.fuse /\ t.result = s.result
  BY <1>5 DEF State
<1>11. QED
  BY <1>1, <1>2, <1>3, <1>4, <1>9, <1>10 DEF t, Detached, Points

-----------------------------------------------------------------------------
(* The invariant of the memory *)

\* A buffer has memory when it has an interface, unless a crop or a wrap has failed.
Linked(s) ==
    \A b \in All : IF s.buf[b].device = Null THEN s.buf[b].interface # None => s.origin[b] = "failed"
                   ELSE s.buf[b].interface # None

UsersOf(s, i) == {b \in All : s.buf[b].device # Null /\ s.buf[b].interface = i}
Balanced(s) == \A i \in Interfaces : s.uses[i] = Cardinality(UsersOf(s, i)) + s.refused[i]

\* A view has the memory of what it is a crop of.
Cropped(s) ==
    \A v \in Views : s.buf[v].device # Null =>
        s.origin[v] \in Buffers /\ s.buf[s.origin[v]].device = s.buf[v].device

\* The origin tells the driver's memory from the client's.
Told(s) ==
    \A b \in Buffers : /\ s.buf[b].device \in DeviceMemory => s.origin[b] = "malloc"
                       /\ s.buf[b].device \in NativeMemory => s.origin[b] = "wrap"

\* m bytes are enough for n, unless reuse is turned on for memory of the exact size.
Large(m, n) == m > 0 /\ (m >= n \/ MayMixSizes)

\* A buffer's memory is as large as the buffer and, where it goes to the free list when
\* the buffer lets go of it, as large as the list will say.
Roomy(s) ==
    \A b \in Buffers : s.buf[b].device \in DeviceMemory =>
        /\ Large(s.memory[s.buf[b].device], SizeOf[b])
        /\ Pools(s, s.buf[b].interface) => Large(s.memory[s.buf[b].device], Quantize(SizeOf[b]))

Listed(s) ==
    \A i \in Interfaces : \A k \in DOMAIN s.list[i] :
        s.list[i][k].size > 0 /\ Large(s.memory[s.list[i][k].ptr], s.list[i][k].size)

\* No memory is in two places, and none is lost.
NotInTwoBuffers(s) ==
    \A b, c \in Buffers : s.buf[b].device \in DeviceMemory /\ s.buf[b].device = s.buf[c].device => b = c
NotInListAndBuffer(s) ==
    \A b \in Buffers, i \in Interfaces : \A k \in DOMAIN s.list[i] : s.list[i][k].ptr # s.buf[b].device
NotTwiceInLists(s) ==
    \A i, j \in Interfaces : \A k \in DOMAIN s.list[i], l \in DOMAIN s.list[j] :
        s.list[i][k].ptr = s.list[j][l].ptr => i = j /\ k = l
NoneLost(s) ==
    \A p \in DeviceMemory : s.memory[p] > 0 =>
        \/ \E b \in Buffers : s.buf[b].device = p
        \/ \E i \in Interfaces : \E k \in DOMAIN s.list[i] : s.list[i][k].ptr = p

Owned(s) ==
    Roomy(s) /\ Listed(s) /\ NotInTwoBuffers(s) /\ NotInListAndBuffer(s) /\ NotTwiceInLists(s) /\ NoneLost(s)

Sound(s) == s \in State /\ Linked(s) /\ Balanced(s) /\ Cropped(s) /\ Told(s) /\ Owned(s)

\* t has the memory s has, whatever became of the dirty bits, the hosts and the content.
Quiet(s, t) ==
    /\ t \in State
    /\ t.origin = s.origin /\ t.memory = s.memory /\ t.list = s.list
    /\ t.uses = s.uses /\ t.refused = s.refused /\ t.reuse = s.reuse
    /\ \A b \in All : t.buf[b].device = s.buf[b].device /\ t.buf[b].interface = s.buf[b].interface

\* The invariant of the memory does not depend on those.
LEMMA QuietSound ==
    ASSUME NEW s, NEW t, Sound(s), Quiet(s, t)
    PROVE  Sound(t)
<1>1. t \in State /\ Linked(t) /\ Told(t)
  BY DEF Sound, Quiet, Linked, Told, All
<1>2. Balanced(t)
  <2>1. \A i \in Interfaces : UsersOf(t, i) = UsersOf(s, i)
    BY DEF Quiet, UsersOf
  <2>2. QED
    BY <2>1 DEF Sound, Quiet, Balanced
<1>3. Cropped(t)
  BY DEF Sound, Quiet, Cropped, All
<1>4. Roomy(t)
  BY DEF Sound, Quiet, Owned, Roomy, Pools, All
<1>5. Listed(t) /\ NotTwiceInLists(t)
  BY DEF Sound, Quiet, Owned, Listed, NotTwiceInLists
<1>6. NotInTwoBuffers(t) /\ NotInListAndBuffer(t) /\ NoneLost(t)
  BY DEF Sound, Quiet, Owned, NotInTwoBuffers, NotInListAndBuffer, NoneLost, All
<1>7. QED
  BY <1>1, <1>2, <1>3, <1>4, <1>5, <1>6 DEF Sound, Owned

\* A call that has no effect is quiet.
LEMMA SameIsQuiet ==
    ASSUME NEW s, NEW t, Same(s, t)
    PROVE  Quiet(s, t)
BY DEF Same, Quiet

\* Where a buffer gets memory the module has one user more.
LEMMA UserJoins ==
    ASSUME NEW s \in State, NEW t \in State, NEW b \in All, NEW i \in Interfaces,
           Balanced(s), s.buf[b].device = Null, t.buf[b].device # Null, t.buf[b].interface = i,
           \A c \in All \ {b} : t.buf[c] = s.buf[c],
           t.refused = s.refused, t.uses = [s.uses EXCEPT ![i] = s.uses[i] + 1]
    PROVE  Balanced(t)
<1>1. IsFiniteSet(All)
  BY DeviceAssumption, FS_Union DEF All
<1>2. None \notin Interfaces
  BY DeviceAssumption
<1>3. UsersOf(t, i) = UsersOf(s, i) \union {b} /\ b \notin UsersOf(s, i)
  BY <1>2 DEF UsersOf
<1>4. \A j \in Interfaces \ {i} : UsersOf(t, j) = UsersOf(s, j)
  BY <1>2 DEF UsersOf
<1>5. IsFiniteSet(UsersOf(s, i))
  BY <1>1, FS_Subset DEF UsersOf
<1>6. Cardinality(UsersOf(t, i)) = Cardinality(UsersOf(s, i)) + 1
  BY <1>3, <1>5, FS_AddElement
<1>7. s.uses \in [Interfaces -> Int] /\ s.refused \in [Interfaces -> Nat]
  BY StateHas
<1>8. Cardinality(UsersOf(s, i)) \in Nat
  BY <1>5, FS_CardinalityType
<1>9. QED
  BY <1>4, <1>6, <1>7, <1>8 DEF Balanced

\* Where it loses it, one less.
LEMMA UserLeaves ==
    ASSUME NEW s \in State, NEW t \in State, NEW b \in All, NEW i \in Interfaces,
           Balanced(s), s.buf[b].device # Null, s.buf[b].interface = i, t.buf[b].device = Null,
           \A c \in All \ {b} : t.buf[c] = s.buf[c],
           t.refused = s.refused, t.uses = [s.uses EXCEPT ![i] = s.uses[i] - 1]
    PROVE  Balanced(t)
<1>1. IsFiniteSet(All)
  BY DeviceAssumption, FS_Union DEF All
<1>2. None \notin Interfaces
  BY DeviceAssumption
<1>3. UsersOf(t, i) = UsersOf(s, i) \ {b} /\ b \in UsersOf(s, i)
  BY <1>2 DEF UsersOf
<1>4. \A j \in Interfaces \ {i} : UsersOf(t, j) = UsersOf(s, j)
  BY <1>2 DEF UsersOf
<1>5. IsFiniteSet(UsersOf(s, i))
  BY <1>1, FS_Subset DEF UsersOf
<1>6. Cardinality(UsersOf(t, i)) = Cardinality(UsersOf(s, i)) - 1
  BY <1>3, <1>5, FS_RemoveElement
<1>7. s.uses \in [Interfaces -> Int] /\ s.refused \in [Interfaces -> Nat]
  BY StateHas
<1>8. Cardinality(UsersOf(s, i)) \in Nat
  BY <1>5, FS_CardinalityType
<1>9. QED
  BY <1>4, <1>6, <1>7, <1>8 DEF Balanced

\* Positions and items of a free list.
LEMMA ListHas ==
    ASSUME NEW s \in State, NEW i \in Interfaces
    PROVE  /\ s.list[i] \in Seq(Items) /\ Len(s.list[i]) \in Nat /\ DOMAIN s.list[i] = 1 .. Len(s.list[i])
           /\ \A k \in DOMAIN s.list[i] : /\ s.list[i][k] \in Items
                                          /\ s.list[i][k].ptr \in DeviceMemory /\ s.list[i][k].size \in Nat
<1>1. s.list[i] \in Seq(Items)
  BY StateHas
<1>2. Len(s.list[i]) \in Nat /\ DOMAIN s.list[i] = 1 .. Len(s.list[i])
  BY <1>1, LenProperties
<1>3. \A k \in 1 .. Len(s.list[i]) : s.list[i][k] \in Items
  BY <1>1, ElementOfSeq
<1>4. QED
  BY <1>1, <1>2, <1>3 DEF Items

\* The list of interface i is cut off after n, and what was further down is unallocated.
CutOff(s, t, i, n) ==
    /\ t \in State
    /\ t.buf = s.buf /\ t.origin = s.origin /\ t.content = s.content
    /\ t.uses = s.uses /\ t.refused = s.refused /\ t.reuse = s.reuse
    /\ t.list = [s.list EXCEPT ![i] = SubSeq(s.list[i], 1, n)]
    /\ t.memory = [p \in DeviceMemory |->
                      IF \E k \in n + 1 .. Len(s.list[i]) : s.list[i][k].ptr = p THEN 0 ELSE s.memory[p]]

\* What is cut off is lost neither to the driver nor to a buffer.
LEMMA CutOffSound ==
    ASSUME NEW s, NEW t, NEW i \in Interfaces, NEW n \in 0 .. Len(s.list[i]), Sound(s), CutOff(s, t, i, n)
    PROVE  Sound(t)
<1>1. s \in State /\ t \in State /\ Owned(s)
  BY DEF Sound, CutOff
<1>2. t.list[i] = SubSeq(s.list[i], 1, n) /\ \A j \in Interfaces \ {i} : t.list[j] = s.list[j]
  BY <1>1, StateHas DEF CutOff
<1>3. DOMAIN t.list[i] = 1 .. n /\ \A k \in 1 .. n : k \in DOMAIN s.list[i] /\ t.list[i][k] = s.list[i][k]
  <2>1. s.list[i] \in Seq(Items) /\ Len(s.list[i]) \in Nat /\ DOMAIN s.list[i] = 1 .. Len(s.list[i])
    BY <1>1, ListHas
  <2>2. \A k \in 1 .. n : s.list[i][k] \in Items
    BY <2>1, ElementOfSeq
  <2>3. /\ SubSeq(s.list[i], 1, n) \in Seq(Items)
        /\ Len(SubSeq(s.list[i], 1, n)) = IF 1 <= n THEN n - 1 + 1 ELSE 0
        /\ \A k \in 1 .. n - 1 + 1 : SubSeq(s.list[i], 1, n)[k] = s.list[i][1 + k - 1]
    BY <2>2, SubSeqProperties
  <2>4. Len(t.list[i]) = n /\ DOMAIN t.list[i] = 1 .. Len(t.list[i])
    BY <1>1, <1>2, <2>3, ListHas
  <2>5. QED
    BY <1>2, <2>1, <2>3, <2>4
<1>4. \A j \in Interfaces : \A k \in DOMAIN t.list[j] :
        k \in DOMAIN s.list[j] /\ t.list[j][k] = s.list[j][k] /\ (j = i => k <= n)
  BY <1>2, <1>3
<1>5. \A p \in DeviceMemory :
        \/ t.memory[p] = s.memory[p] /\ ~ \E k \in n + 1 .. Len(s.list[i]) : s.list[i][k].ptr = p
        \/ t.memory[p] = 0 /\ \E k \in n + 1 .. Len(s.list[i]) : s.list[i][k].ptr = p
  BY DEF CutOff
<1>6. \A k \in n + 1 .. Len(s.list[i]) : k \in DOMAIN s.list[i]
  BY <1>1, ListHas
<1>7. \A b \in Buffers : s.buf[b].device \in DeviceMemory => t.memory[s.buf[b].device] = s.memory[s.buf[b].device]
  BY <1>1, <1>5, <1>6 DEF Owned, NotInListAndBuffer
<1>8. \A j \in Interfaces : \A k \in DOMAIN t.list[j] :
        s.list[j][k].ptr \in DeviceMemory /\ t.memory[s.list[j][k].ptr] = s.memory[s.list[j][k].ptr]
  <2> SUFFICES ASSUME NEW j \in Interfaces, NEW k \in DOMAIN t.list[j]
               PROVE  s.list[j][k].ptr \in DeviceMemory /\ t.memory[s.list[j][k].ptr] = s.memory[s.list[j][k].ptr]
    OBVIOUS
  <2>1. k \in DOMAIN s.list[j] /\ s.list[j][k].ptr \in DeviceMemory
    BY <1>1, <1>4, ListHas
  <2>2. \A l \in n + 1 .. Len(s.list[i]) : s.list[i][l].ptr = s.list[j][k].ptr => j = i /\ l = k
    BY <1>1, <1>6, <2>1 DEF Owned, NotTwiceInLists
  <2>3. k \in Int
    BY <1>1, <2>1, ListHas
  <2>4. QED
    BY <1>4, <1>5, <2>1, <2>2, <2>3
<1>9. Linked(t) /\ Balanced(t) /\ Cropped(t) /\ Told(t) /\ NotInTwoBuffers(t)
  <2>1. \A j \in Interfaces : UsersOf(t, j) = UsersOf(s, j)
    BY DEF CutOff, UsersOf
  <2>2. QED
    BY <2>1 DEF CutOff, Sound, Linked, Balanced, Cropped, Told, Owned, NotInTwoBuffers
<1>10. Roomy(t)
  BY <1>7 DEF CutOff, Sound, Owned, Roomy, Pools
<1>11. Listed(t)
  BY <1>1, <1>4, <1>8 DEF Owned, Listed
<1>12. NotInListAndBuffer(t) /\ NotTwiceInLists(t)
  BY <1>1, <1>4 DEF CutOff, Owned, NotInListAndBuffer, NotTwiceInLists
<1>13. NoneLost(t)
  <2> SUFFICES ASSUME NEW p \in DeviceMemory, t.memory[p] > 0
               PROVE  \/ \E b \in Buffers : t.buf[b].device = p
                      \/ \E j \in Interfaces : \E k \in DOMAIN t.list[j] : t.list[j][k].ptr = p
    BY DEF NoneLost
  <2>1. s.memory[p] > 0 /\ ~ \E k \in n + 1 .. Len(s.list[i]) : s.list[i][k].ptr = p
    BY <1>5
  <2>2. CASE \E b \in Buffers : s.buf[b].device = p
    BY <2>2 DEF CutOff
  <2>3. ASSUME NEW j \in Interfaces, NEW k \in DOMAIN s.list[j], s.list[j][k].ptr = p
        PROVE  k \in DOMAIN t.list[j] /\ t.list[j][k].ptr = p
    <3>1. CASE j = i
      <4>1. k \in 1 .. Len(s.list[i])
        BY <1>1, <2>3, <3>1, ListHas
      <4>2. k \in 1 .. n
        BY <2>1, <2>3, <3>1, <4>1
      <4>3. QED
        BY <1>3, <2>3, <3>1, <4>2
    <3>2. CASE j # i
      BY <1>2, <2>3, <3>2
    <3>3. QED
      BY <3>1, <3>2
  <2>4. QED
    BY <1>1, <2>1, <2>2, <2>3 DEF Owned, NoneLost
<1>14. QED
  BY <1>1, <1>9, <1>10, <1>11, <1>12, <1>13 DEF Sound, Owned

\* b, a buffer or a view, gets memory p of interface i.
Gets(s, t, b, i, p, o) ==
    /\ t \in State /\ Points(s, t, b, p, i)
    /\ t.uses = [s.uses EXCEPT ![i] = s.uses[i] + 1]
    /\ t.origin = [s.origin EXCEPT ![b] = o]
    /\ t.refused = s.refused /\ t.reuse = s.reuse

\* What that says of b and of the others.
LEMMA GetsFacts ==
    ASSUME NEW s \in State, NEW t, NEW b \in All, NEW i \in Interfaces, NEW p \in Pointers, NEW o,
           Gets(s, t, b, i, p, o)
    PROVE  /\ t \in State
           /\ t.buf[b].device = p /\ t.buf[b].interface = i /\ t.origin[b] = o
           /\ \A c \in All \ {b} : t.buf[c] = s.buf[c] /\ t.origin[c] = s.origin[c]
<1>1. p \in {Null} \union Pointers /\ i \in Interfaces \union {None} /\ Points(s, t, b, p, i)
  BY DEF Gets
<1>2. t.buf[b].device = p /\ t.buf[b].interface = i /\ \A c \in All \ {b} : t.buf[c] = s.buf[c]
  BY <1>1, Repoints
<1>3. t.origin[b] = o /\ \A c \in All \ {b} : t.origin[c] = s.origin[c]
  BY StateHas DEF Gets
<1>4. QED
  BY <1>2, <1>3 DEF Gets

\* The parts of the invariant that do not depend on sizes and lists, where b had no memory.
LEMMA GetsKeeps ==
    ASSUME NEW s, NEW t, NEW b \in All, NEW i \in Interfaces, NEW p \in Pointers, NEW o,
           Sound(s), Gets(s, t, b, i, p, o), s.buf[b].device = Null,
           b \in Buffers => (p \in DeviceMemory => o = "malloc") /\ (p \in NativeMemory => o = "wrap"),
           b \in Views => o \in Buffers /\ s.buf[o].device = p
    PROVE  Linked(t) /\ Balanced(t) /\ Cropped(t) /\ Told(t)
<1>1. s \in State
  BY DEF Sound
<1>2. /\ t \in State
      /\ t.buf[b].device = p /\ t.buf[b].interface = i /\ t.origin[b] = o
      /\ \A c \in All \ {b} : t.buf[c] = s.buf[c] /\ t.origin[c] = s.origin[c]
  BY <1>1, GetsFacts
<1>3. p # Null /\ i # None
  BY DeviceAssumption DEF Null, Pointers
<1>4. Linked(t)
  BY <1>2, <1>3 DEF Sound, Linked
<1>5. Balanced(t)
  <2>1. Balanced(s) /\ t.uses = [s.uses EXCEPT ![i] = s.uses[i] + 1]
    BY DEF Sound, Gets
  <2>2. t.refused = s.refused
    BY DEF Gets
  <2>3. \A c \in All \ {b} : t.buf[c] = s.buf[c]
    BY <1>2
  <2>4. t.buf[b].interface = i /\ t.buf[b].device # Null
    BY <1>2, <1>3
  <2>5. s.buf[b].device = Null
    OBVIOUS
  <2>6. QED
    BY <1>1, <1>2, <2>1, <2>2, <2>3, <2>4, <2>5, UserJoins
<1>6. Cropped(t)
  <2> SUFFICES ASSUME NEW v \in Views, t.buf[v].device # Null
               PROVE  t.origin[v] \in Buffers /\ t.buf[t.origin[v]].device = t.buf[v].device
    BY DEF Cropped
  <2>1. v \in All /\ \A c \in Buffers : c \in All /\ c # v
    BY DeviceAssumption DEF All
  <2>2. CASE v = b
    <3>1. o \in Buffers /\ s.buf[o].device = p /\ o \in All \ {b}
      BY <2>1, <2>2
    <3>2. QED
      BY <1>2, <2>2, <3>1
  <2>3. CASE v # b
    <3>1. s.origin[v] \in Buffers /\ s.buf[s.origin[v]].device = s.buf[v].device /\ s.buf[v].device # Null
      BY <1>2, <2>1, <2>3 DEF Sound, Cropped
    <3>2. s.origin[v] # b /\ s.origin[v] \in All
      BY <2>1, <3>1
    <3>3. QED
      BY <1>2, <2>1, <2>3, <3>1, <3>2
  <2>4. QED
    BY <2>2, <2>3
<1>7. Told(t)
  <2> SUFFICES ASSUME NEW c \in Buffers
               PROVE  /\ t.buf[c].device \in DeviceMemory => t.origin[c] = "malloc"
                      /\ t.buf[c].device \in NativeMemory => t.origin[c] = "wrap"
    BY DEF Told
  <2>1. c \in All
    BY DEF All
  <2>2. CASE c = b
    BY <1>2, <2>2
  <2>3. CASE c # b
    BY <1>2, <2>1, <2>3 DEF Sound, Told
  <2>4. QED
    BY <2>2, <2>3
<1>8. QED
  BY <1>4, <1>5, <1>6, <1>7

\* b lets go of its memory, of interface i.
LetsGo(s, t, b, i) ==
    /\ t \in State /\ Points(s, t, b, Null, None)
    /\ t.uses = [s.uses EXCEPT ![i] = s.uses[i] - 1]
    /\ t.origin = [s.origin EXCEPT ![b] = None]
    /\ t.refused = s.refused /\ t.reuse = s.reuse

\* What that says of b and of the others.
LEMMA LetsGoFacts ==
    ASSUME NEW s \in State, NEW t, NEW b \in All, NEW i \in Interfaces, LetsGo(s, t, b, i)
    PROVE  /\ t \in State
           /\ t.buf[b].device = Null /\ t.buf[b].interface = None /\ t.origin[b] = None
           /\ \A c \in All \ {b} : t.buf[c] = s.buf[c] /\ t.origin[c] = s.origin[c]
<1>1. Null \in {Null} \union Pointers /\ None \in Interfaces \union {None} /\ Points(s, t, b, Null, None)
  BY DEF LetsGo
<1>2. t.buf[b].device = Null /\ t.buf[b].interface = None /\ \A c \in All \ {b} : t.buf[c] = s.buf[c]
  BY <1>1, Repoints
<1>3. t.origin[b] = None /\ \A c \in All \ {b} : t.origin[c] = s.origin[c]
  BY StateHas DEF LetsGo
<1>4. QED
  BY <1>2, <1>3 DEF LetsGo

\* No view is a crop of b.
NoCropOf(s, b) == \A v \in Views : s.origin[v] # b

\* The same parts, where no view needs the memory.
LEMMA LetsGoKeeps ==
    ASSUME NEW s, NEW t, NEW b \in All, NEW i \in Interfaces,
           Sound(s), LetsGo(s, t, b, i), s.buf[b].device # Null, s.buf[b].interface = i,
           b \in Buffers => NoCropOf(s, b)
    PROVE  Linked(t) /\ Balanced(t) /\ Cropped(t) /\ Told(t) /\ NotInTwoBuffers(t)
<1>1. s \in State
  BY DEF Sound
<1>2. /\ t \in State
      /\ t.buf[b].device = Null /\ t.buf[b].interface = None /\ t.origin[b] = None
      /\ \A c \in All \ {b} : t.buf[c] = s.buf[c] /\ t.origin[c] = s.origin[c]
  BY <1>1, LetsGoFacts
<1>3. Null \notin Pointers
  BY DeviceAssumption DEF Null, Pointers
<1>4. Linked(t)
  BY <1>2, <1>3 DEF Sound, Linked
<1>5. Balanced(t)
  <2>1. Balanced(s) /\ t.uses = [s.uses EXCEPT ![i] = s.uses[i] - 1]
    BY DEF Sound, LetsGo
  <2>2. \A c \in All \ {b} : t.buf[c] = s.buf[c]
    BY <1>2
  <2>3. t.buf[b].device = Null
    BY <1>2
  <2>4. t.refused = s.refused
    BY DEF LetsGo
  <2>5. s.buf[b].device # Null /\ s.buf[b].interface = i
    OBVIOUS
  <2>6. QED
    BY <1>1, <1>2, <2>1, <2>2, <2>3, <2>4, <2>5, UserLeaves
<1>6. Cropped(t)
  <2> SUFFICES ASSUME NEW v \in Views, t.buf[v].device # Null
               PROVE  t.origin[v] \in Buffers /\ t.buf[t.origin[v]].device = t.buf[v].device
    BY DEF Cropped
  <2>1. v \in All /\ v # b /\ \A c \in Buffers : c \in All /\ c # v
    BY <1>2, DeviceAssumption DEF All
  <2>2. s.origin[v] \in Buffers /\ s.buf[s.origin[v]].device = s.buf[v].device /\ s.buf[v].device # Null
    BY <1>2, <2>1 DEF Sound, Cropped
  <2>3. s.origin[v] # b /\ s.origin[v] \in All
    <3>1. CASE b \in Buffers
      BY <2>1, <2>2, <3>1 DEF NoCropOf
    <3>2. CASE b \notin Buffers
      BY <2>1, <2>2, <3>2
    <3>3. QED
      BY <3>1, <3>2
  <2>4. QED
    BY <1>2, <2>1, <2>2, <2>3
<1>7. Told(t) /\ NotInTwoBuffers(t)
  <2>1. \A c \in Buffers : t.buf[c].device \in Pointers =>
            c # b /\ t.buf[c] = s.buf[c] /\ t.origin[c] = s.origin[c]
    BY <1>2, <1>3 DEF All
  <2>2. Told(t)
    BY <2>1 DEF Sound, Told, Pointers
  <2>3. NotInTwoBuffers(t)
    BY <2>1 DEF Sound, Owned, NotInTwoBuffers, Pointers
  <2>4. QED
    BY <2>2, <2>3
<1>8. QED
  BY <1>4, <1>5, <1>6, <1>7

\* b, which had no memory, has been given n bytes of the driver's at p.
LEMMA AllocatedSound ==
    ASSUME NEW s, NEW t, NEW b \in Buffers, NEW i \in Interfaces, NEW p \in DeviceMemory, NEW n \in Nat,
           Sound(s), Allocated(s, t, b, i, p, n), s.buf[b].device = Null, s.memory[p] = 0,
           n >= SizeOf[b], Pools(s, i) => n >= Quantize(SizeOf[b])
    PROVE  Sound(t)
<1>1. s \in State /\ t \in State /\ Owned(s) /\ b \in All
  BY DEF Sound, Allocated, All
<1>3. Gets(s, t, b, i, p, "malloc")
  BY DEF Allocated, Gets
<1>4. /\ t.buf[b].device = p /\ t.buf[b].interface = i
      /\ \A c \in All \ {b} : t.buf[c] = s.buf[c] /\ t.origin[c] = s.origin[c]
  BY <1>1, <1>3, GetsFacts DEF Pointers
<1>5. t.memory[p] = n /\ \A q \in DeviceMemory \ {p} : t.memory[q] = s.memory[q]
  BY <1>1, StateHas DEF Allocated
<1>6. t.list = s.list /\ t.reuse = s.reuse
  BY DEF Allocated
<1>7. \A c \in Buffers : s.buf[c].device # p
  <2>1. \A c \in Buffers : s.buf[c].device \in DeviceMemory => s.memory[s.buf[c].device] > 0
    BY <1>1 DEF Owned, Roomy, Large
  <2>2. QED
    BY <2>1
<1>8. \A j \in Interfaces : \A k \in DOMAIN s.list[j] : s.list[j][k].ptr # p /\ s.list[j][k].ptr \in DeviceMemory
  BY <1>1, ListHas, SMTT(30) DEF Owned, Listed, Large
<1>9. p # Null /\ i # None /\ p \notin NativeMemory
  BY DeviceAssumption DEF Null
<1>10. Linked(t) /\ Balanced(t) /\ Cropped(t) /\ Told(t)
  BY <1>1, <1>3, <1>9, GetsKeeps, DeviceAssumption DEF Pointers
<1>14. Roomy(t)
  <2>1. Large(n, SizeOf[b]) /\ (Pools(s, i) => Large(n, Quantize(SizeOf[b])))
    BY DeviceAssumption DEF Large
  <2>2. QED
    BY <1>4, <1>5, <1>6, <1>7, <2>1 DEF Sound, Owned, Roomy, Pools, All
<1>15. Listed(t) /\ NotTwiceInLists(t)
  BY <1>1, <1>5, <1>6, <1>8 DEF Owned, Listed, NotTwiceInLists
<1>16. NotInTwoBuffers(t) /\ NotInListAndBuffer(t)
  BY <1>1, <1>4, <1>6, <1>7, <1>8 DEF Owned, NotInTwoBuffers, NotInListAndBuffer, All
<1>17. NoneLost(t)
  <2> SUFFICES ASSUME NEW q \in DeviceMemory, t.memory[q] > 0, q # p
               PROVE  \/ \E c \in Buffers : t.buf[c].device = q
                      \/ \E j \in Interfaces : \E k \in DOMAIN t.list[j] : t.list[j][k].ptr = q
    BY <1>4 DEF NoneLost
  <2>1. s.memory[q] > 0
    BY <1>5
  <2>2. \/ \E c \in Buffers : s.buf[c].device = q
        \/ \E j \in Interfaces : \E k \in DOMAIN s.list[j] : s.list[j][k].ptr = q
    BY <1>1, <2>1 DEF Owned, NoneLost
  <2>3. \A c \in Buffers : s.buf[c].device = q => c # b /\ c \in All
    BY DeviceAssumption DEF Null, All
  <2>4. QED
    BY <1>4, <1>6, <2>2, <2>3
<1>18. QED
  BY <1>1, <1>10, <1>14, <1>15, <1>16, <1>17 DEF Sound, Owned

\* RemoveAt of a sequence: one item less, and those behind it move up.
LEMMA RemoveAtFacts ==
    ASSUME NEW S, NEW q \in Seq(S), NEW k \in 1 .. Len(q)
    PROVE  /\ RemoveAt(q, k) \in Seq(S)
           /\ Len(RemoveAt(q, k)) = Len(q) - 1
           /\ \A j \in 1 .. Len(q) - 1 : RemoveAt(q, k)[j] = IF j < k THEN q[j] ELSE q[j + 1]
<1> DEFINE head == SubSeq(q, 1, k - 1)
           tail == SubSeq(q, k + 1, Len(q))
<1>1. Len(q) \in Nat /\ \A j \in 1 .. Len(q) : q[j] \in S
  BY ElementOfSeq, LenProperties
<1>2. head \in Seq(S) /\ Len(head) = k - 1 /\ \A j \in 1 .. k - 1 : head[j] = q[j]
  <2>1. \A j \in 1 .. k - 1 : q[j] \in S
    BY <1>1
  <2>2. /\ head \in Seq(S) /\ Len(head) = IF 1 <= k - 1 THEN k - 1 - 1 + 1 ELSE 0
        /\ \A j \in 1 .. k - 1 - 1 + 1 : head[j] = q[1 + j - 1]
    BY <2>1, SubSeqProperties
  <2> HIDE DEF head
  <2>3. QED
    BY <1>1, <2>2
<1>3. tail \in Seq(S) /\ Len(tail) = Len(q) - k /\ \A j \in 1 .. Len(q) - k : tail[j] = q[k + j]
  <2>1. \A j \in k + 1 .. Len(q) : q[j] \in S
    BY <1>1
  <2>2. /\ tail \in Seq(S) /\ Len(tail) = IF k + 1 <= Len(q) THEN Len(q) - (k + 1) + 1 ELSE 0
        /\ \A j \in 1 .. Len(q) - (k + 1) + 1 : tail[j] = q[(k + 1) + j - 1]
    BY <1>1, <2>1, SubSeqProperties
  <2> HIDE DEF tail
  <2>3. QED
    BY <1>1, <2>2
<1>4. RemoveAt(q, k) = head \o tail
  BY DEF RemoveAt
<1> HIDE DEF head, tail
<1>5. /\ head \o tail \in Seq(S) /\ Len(head \o tail) = Len(head) + Len(tail)
      /\ \A j \in 1 .. Len(head) + Len(tail) :
            (head \o tail)[j] = IF j <= Len(head) THEN head[j] ELSE tail[j - Len(head)]
  BY <1>2, <1>3, ConcatProperties
<1>6. ASSUME NEW j \in 1 .. Len(q) - 1
      PROVE  (head \o tail)[j] = IF j < k THEN q[j] ELSE q[j + 1]
  <2>1. (head \o tail)[j] = IF j <= k - 1 THEN head[j] ELSE tail[j - (k - 1)]
    BY <1>1, <1>2, <1>3, <1>5
  <2>2. CASE j < k
    BY <1>1, <1>2, <2>1, <2>2
  <2>3. CASE j >= k
    <3>1. j - (k - 1) \in 1 .. Len(q) - k /\ k + (j - (k - 1)) = j + 1
      BY <1>1, <2>3
    <3>2. (head \o tail)[j] = tail[j - (k - 1)]
      BY <1>1, <2>1, <2>3
    <3>3. tail[j - (k - 1)] = q[j + 1]
      BY <1>3, <3>1
    <3>4. QED
      BY <1>1, <2>3, <3>2, <3>3
  <2>4. j < k \/ j >= k
    BY <1>1
  <2>5. QED
    BY <2>2, <2>3, <2>4
<1>7. QED
  BY <1>1, <1>2, <1>3, <1>4, <1>5, <1>6

\* b takes the k-th item of the list.
Reused(s, t, b, i, k) ==
    /\ Gets(s, t, b, i, s.list[i][k].ptr, "malloc")
    /\ t.content = s.content /\ t.memory = s.memory
    /\ t.list = [s.list EXCEPT ![i] = RemoveAt(s.list[i], k)]

\* The memory leaves the list for the buffer, if it is large enough.
LEMMA ReusedSound ==
    ASSUME NEW s, NEW t, NEW b \in Buffers, NEW i \in Interfaces, NEW k \in DOMAIN s.list[i],
           Sound(s), Reused(s, t, b, i, k), s.buf[b].device = Null,
           s.list[i][k].size >= SizeOf[b], s.list[i][k].size >= Quantize(SizeOf[b])
    PROVE  Sound(t)
<1> DEFINE p == s.list[i][k].ptr
<1>1. s \in State /\ t \in State /\ Owned(s) /\ b \in All
  BY DEF Sound, Reused, Gets, All
<1>2. p \in DeviceMemory /\ p \in Pointers /\ p \notin NativeMemory /\ p # Null
  BY <1>1, ListHas, DeviceAssumption DEF Pointers, Null
<1>3. Gets(s, t, b, i, p, "malloc")
  BY DEF Reused
<1>4. s.memory[p] \in Nat /\ Large(s.memory[p], s.list[i][k].size) /\ s.list[i][k].size \in Nat
  BY <1>1, <1>2, StateHas, ListHas DEF Owned, Listed
<1>5. Quantize(SizeOf[b]) \in Nat /\ SizeOf[b] \in Nat
  BY QuantizeRoundsUp, DeviceAssumption
<1>6. t.list[i] = RemoveAt(s.list[i], k) /\ \A j \in Interfaces \ {i} : t.list[j] = s.list[j]
  BY <1>1, StateHas DEF Reused
<1>21. /\ Len(s.list[i]) \in Nat /\ DOMAIN s.list[i] = 1 .. Len(s.list[i]) /\ k \in 1 .. Len(s.list[i])
       /\ DOMAIN t.list[i] = 1 .. Len(s.list[i]) - 1
       /\ \A x \in 1 .. Len(s.list[i]) - 1 : t.list[i][x] = IF x < k THEN s.list[i][x] ELSE s.list[i][x + 1]
  <2>1. s.list[i] \in Seq(Items) /\ Len(s.list[i]) \in Nat /\ DOMAIN s.list[i] = 1 .. Len(s.list[i])
    BY <1>1, ListHas
  <2>2. DOMAIN t.list[i] = 1 .. Len(t.list[i])
    BY <1>1, ListHas
  <2>3. k \in 1 .. Len(s.list[i])
    BY <2>1
  <2>4. QED
    BY <1>6, <2>1, <2>2, <2>3, RemoveAtFacts, SMTT(30)
<1>7. \A j \in Interfaces : \A l \in DOMAIN t.list[j] :
        \E m \in DOMAIN s.list[j] :
            /\ t.list[j][l] = s.list[j][m]
            /\ m = IF j = i /\ l >= k THEN l + 1 ELSE l
            /\ ~ (j = i /\ m = k)
  <2> SUFFICES ASSUME NEW j \in Interfaces, NEW l \in DOMAIN t.list[j]
               PROVE  \E m \in DOMAIN s.list[j] :
                        /\ t.list[j][l] = s.list[j][m]
                        /\ m = IF j = i /\ l >= k THEN l + 1 ELSE l
                        /\ ~ (j = i /\ m = k)
    OBVIOUS
  <2>1. CASE j # i
    BY <1>6, <2>1
  <2>2. CASE j = i
    <3>4. l \in 1 .. Len(s.list[i]) - 1
      BY <2>2, <1>21
    <3>5. CASE l < k
      BY <2>2, <1>21, <3>4, <3>5
    <3>6. CASE l >= k
      <4>1. l + 1 \in DOMAIN s.list[i] /\ t.list[i][l] = s.list[i][l + 1] /\ l + 1 # k
        BY <1>21, <3>4, <3>6
      <4>2. QED
        BY <2>2, <3>6, <4>1
    <3>7. QED
      BY <1>21, <3>4, <3>5, <3>6
  <2>3. QED
    BY <2>1, <2>2
<1>8. \A j \in Interfaces : \A m \in DOMAIN s.list[j] :
        (j = i /\ m = k) \/ \E l \in DOMAIN t.list[j] : t.list[j][l] = s.list[j][m]
  <2> SUFFICES ASSUME NEW j \in Interfaces, NEW m \in DOMAIN s.list[j], ~ (j = i /\ m = k)
               PROVE  \E l \in DOMAIN t.list[j] : t.list[j][l] = s.list[j][m]
    OBVIOUS
  <2>1. CASE j # i
    BY <1>6, <2>1
  <2>2. CASE j = i
    <3>4. m \in 1 .. Len(s.list[i]) /\ m # k
      BY <1>21, <2>2
    <3>5. CASE m < k
      BY <2>2, <1>21, <3>4, <3>5
    <3>6. CASE m > k
      <4>1. m - 1 \in 1 .. Len(s.list[i]) - 1 /\ ~ (m - 1 < k) /\ (m - 1) + 1 = m
        BY <1>21, <3>4, <3>6
      <4>2. m - 1 \in DOMAIN t.list[i] /\ t.list[i][m - 1] = s.list[i][m]
        BY <1>21, <4>1
      <4>3. QED
        BY <2>2, <4>2
    <3>7. QED
      BY <1>21, <3>4, <3>5, <3>6
  <2>3. QED
    BY <2>1, <2>2
<1>9. /\ t.buf[b].device = p /\ t.buf[b].interface = i
      /\ \A c \in All \ {b} : t.buf[c] = s.buf[c] /\ t.origin[c] = s.origin[c]
  BY <1>1, <1>2, <1>3, GetsFacts
<1>10. Linked(t) /\ Balanced(t) /\ Cropped(t) /\ Told(t)
  <2>1. b \notin Views
    BY DeviceAssumption
  <2>2. QED
    BY <1>1, <1>2, <1>3, <2>1, GetsKeeps
<1>11. t.memory = s.memory /\ t.reuse = s.reuse
  BY DEF Reused, Gets
<1> HIDE DEF p
<1>12. \A c \in Buffers : s.buf[c].device # p
  BY <1>1 DEF Owned, NotInListAndBuffer, p
<1>13. \A j \in Interfaces : \A l \in DOMAIN t.list[j] : t.list[j][l].ptr # p
  BY <1>1, <1>7 DEF Owned, NotTwiceInLists, p
<1>14. Roomy(t)
  <2>1. Large(s.memory[p], SizeOf[b]) /\ Large(s.memory[p], Quantize(SizeOf[b]))
    BY <1>4, <1>5 DEF Large, p
  <2>2. QED
    BY <1>1, <1>2, <1>9, <1>11, <2>1 DEF Owned, Roomy, Pools, All
<1>15. Listed(t)
  BY <1>1, <1>7, <1>11 DEF Owned, Listed
<1>16. NotInTwoBuffers(t)
  BY <1>1, <1>9, <1>12 DEF Owned, NotInTwoBuffers, All
<1>17. NotInListAndBuffer(t)
  <2> SUFFICES ASSUME NEW c \in Buffers, NEW j \in Interfaces, NEW l \in DOMAIN t.list[j]
               PROVE  t.list[j][l].ptr # t.buf[c].device
    BY DEF NotInListAndBuffer
  <2>1. PICK m \in DOMAIN s.list[j] : t.list[j][l] = s.list[j][m]
    BY <1>7
  <2>2. s.list[j][m].ptr # s.buf[c].device
    BY <1>1 DEF Owned, NotInListAndBuffer
  <2>3. QED
    BY <1>9, <1>13, <2>1, <2>2 DEF All
<1>18. NotTwiceInLists(t)
  <2> SUFFICES ASSUME NEW j \in Interfaces, NEW h \in Interfaces,
                      NEW l \in DOMAIN t.list[j], NEW m \in DOMAIN t.list[h], t.list[j][l].ptr = t.list[h][m].ptr
               PROVE  j = h /\ l = m
    BY DEF NotTwiceInLists
  <2>1. PICK x \in DOMAIN s.list[j] :
            t.list[j][l] = s.list[j][x] /\ x = (IF j = i /\ l >= k THEN l + 1 ELSE l) /\ ~ (j = i /\ x = k)
    BY <1>7
  <2>2. PICK y \in DOMAIN s.list[h] :
            t.list[h][m] = s.list[h][y] /\ y = (IF h = i /\ m >= k THEN m + 1 ELSE m) /\ ~ (h = i /\ y = k)
    BY <1>7
  <2>3. j = h /\ x = y
    BY <1>1, <2>1, <2>2 DEF Owned, NotTwiceInLists
  <2>4. l \in Nat /\ m \in Nat /\ k \in Nat
    BY <1>1, ListHas, SMTT(30)
  <2>5. QED
    BY <2>1, <2>2, <2>3, <2>4
<1>19. NoneLost(t)
  <2> SUFFICES ASSUME NEW q \in DeviceMemory, t.memory[q] > 0, q # p
               PROVE  \/ \E c \in Buffers : t.buf[c].device = q
                      \/ \E j \in Interfaces : \E l \in DOMAIN t.list[j] : t.list[j][l].ptr = q
    BY <1>9 DEF NoneLost
  <2>1. \/ \E c \in Buffers : s.buf[c].device = q
        \/ \E j \in Interfaces : \E l \in DOMAIN s.list[j] : s.list[j][l].ptr = q
    BY <1>1, <1>11 DEF Owned, NoneLost
  <2>2. ASSUME NEW c \in Buffers, s.buf[c].device = q PROVE t.buf[c].device = q
    BY <1>9, <2>2, DeviceAssumption DEF All, Null
  <2>3. ASSUME NEW j \in Interfaces, NEW l \in DOMAIN s.list[j], s.list[j][l].ptr = q
        PROVE  \E m \in DOMAIN t.list[j] : t.list[j][m].ptr = q
    <3>1. ~ (j = i /\ l = k)
      BY <2>3 DEF p
    <3>2. QED
      BY <1>8, <2>3, <3>1
  <2>4. QED
    BY <2>1, <2>2, <2>3
<1>20. QED
  BY <1>1, <1>10, <1>14, <1>15, <1>16, <1>17, <1>18, <1>19 DEF Sound, Owned

\* b's memory goes to the front of the list, as n bytes.
PutAside(s, t, b, i, n) ==
    /\ LetsGo(s, t, b, i)
    /\ t.memory = s.memory
    /\ t.list = [s.list EXCEPT ![i] = <<[ptr |-> s.buf[b].device, size |-> n]>> \o s.list[i]]

\* The memory leaves the buffer for the list, under a size it has.
LEMMA PutAsideSound ==
    ASSUME NEW s, NEW t, NEW b \in Buffers, NEW i \in Interfaces, NEW n \in Nat,
           Sound(s), PutAside(s, t, b, i, n), s.buf[b].interface = i, NoCropOf(s, b),
           s.buf[b].device \in DeviceMemory, n > 0, Large(s.memory[s.buf[b].device], n)
    PROVE  Sound(t)
<1> DEFINE p == s.buf[b].device
           item == [ptr |-> p, size |-> n]
<1>1. s \in State /\ t \in State /\ Owned(s) /\ b \in All /\ LetsGo(s, t, b, i)
  BY DEF Sound, PutAside, LetsGo, All
<1>2. Linked(t) /\ Balanced(t) /\ Cropped(t) /\ Told(t) /\ NotInTwoBuffers(t)
  BY <1>1, LetsGoKeeps, DeviceAssumption DEF Null
<1>3. /\ t.buf[b].device = Null
      /\ \A c \in All \ {b} : t.buf[c] = s.buf[c] /\ t.origin[c] = s.origin[c]
  BY <1>1, LetsGoFacts
<1>4. t.memory = s.memory /\ t.reuse = s.reuse /\ Null \notin DeviceMemory
  BY DeviceAssumption DEF PutAside, LetsGo, Null
<1>5. t.list[i] = <<item>> \o s.list[i] /\ \A j \in Interfaces \ {i} : t.list[j] = s.list[j]
  BY <1>1, StateHas DEF PutAside
<1>6. /\ Len(s.list[i]) \in Nat /\ DOMAIN s.list[i] = 1 .. Len(s.list[i])
      /\ DOMAIN t.list[i] = 1 .. Len(s.list[i]) + 1
      /\ t.list[i][1] = item
      /\ \A l \in 2 .. Len(s.list[i]) + 1 : t.list[i][l] = s.list[i][l - 1]
  <2>1. s.list[i] \in Seq(Items) /\ Len(s.list[i]) \in Nat /\ DOMAIN s.list[i] = 1 .. Len(s.list[i])
    BY <1>1, ListHas
  <2>2. item \in Items
    BY DEF Items
  <2> HIDE DEF item
  <2>3. <<item>> \in Seq(Items) /\ Len(<<item>>) = 1 /\ <<item>>[1] = item
    BY <2>2
  <2>4. /\ Len(<<item>> \o s.list[i]) = 1 + Len(s.list[i])
        /\ \A l \in 1 .. 1 + Len(s.list[i]) :
              (<<item>> \o s.list[i])[l] = IF l <= 1 THEN <<item>>[l] ELSE s.list[i][l - 1]
    BY <2>1, <2>3, ConcatProperties
  <2>5. DOMAIN t.list[i] = 1 .. Len(t.list[i])
    BY <1>1, ListHas
  <2>6. QED
    BY <1>5, <2>1, <2>3, <2>4, <2>5
<1>7. item.ptr = p /\ item.size = n
  OBVIOUS
<1> HIDE DEF item, p
<1>8. \A j \in Interfaces : \A l \in DOMAIN t.list[j] :
        \/ j = i /\ l = 1 /\ t.list[j][l] = item
        \/ \E m \in DOMAIN s.list[j] : t.list[j][l] = s.list[j][m] /\ l = IF j = i THEN m + 1 ELSE m
  <2> SUFFICES ASSUME NEW j \in Interfaces, NEW l \in DOMAIN t.list[j], ~ (j = i /\ l = 1)
               PROVE  \E m \in DOMAIN s.list[j] : t.list[j][l] = s.list[j][m] /\ l = IF j = i THEN m + 1 ELSE m
    BY <1>6
  <2>1. CASE j # i
    BY <1>5, <2>1
  <2>2. CASE j = i
    <3>1. l \in 2 .. Len(s.list[i]) + 1
      BY <1>6, <2>2
    <3>2. l - 1 \in DOMAIN s.list[i] /\ t.list[i][l] = s.list[i][l - 1] /\ l = (l - 1) + 1
      BY <1>6, <3>1, SMTT(30)
    <3>3. QED
      BY <2>2, <3>2
  <2>3. QED
    BY <2>1, <2>2
<1>9. \A j \in Interfaces : \A m \in DOMAIN s.list[j] : \E l \in DOMAIN t.list[j] : t.list[j][l] = s.list[j][m]
  <2> SUFFICES ASSUME NEW j \in Interfaces, NEW m \in DOMAIN s.list[j]
               PROVE  \E l \in DOMAIN t.list[j] : t.list[j][l] = s.list[j][m]
    OBVIOUS
  <2>1. CASE j # i
    BY <1>5, <2>1
  <2>2. CASE j = i
    <3>1. m + 1 \in 2 .. Len(s.list[i]) + 1 /\ (m + 1) - 1 = m
      BY <1>6, <2>2
    <3>2. m + 1 \in DOMAIN t.list[i] /\ t.list[i][m + 1] = s.list[i][m]
      BY <1>6, <3>1, SMTT(30)
    <3>3. QED
      BY <2>2, <3>2
  <2>3. QED
    BY <2>1, <2>2
<1>10. p \in DeviceMemory /\ Large(s.memory[p], n) /\ \A c \in Buffers : s.buf[c].device = p => c = b
  BY <1>1 DEF Owned, NotInTwoBuffers, p
<1>11. \A j \in Interfaces : \A m \in DOMAIN s.list[j] : s.list[j][m].ptr # p
  BY <1>1 DEF Owned, NotInListAndBuffer, p
<1>12. Roomy(t)
  <2>1. \A c \in Buffers : t.buf[c].device \in DeviceMemory => c # b /\ t.buf[c] = s.buf[c]
    BY <1>3, <1>4 DEF All
  <2>2. QED
    BY <1>1, <1>4, <2>1 DEF Owned, Roomy, Pools
<1>13. Listed(t)
  <2> SUFFICES ASSUME NEW j \in Interfaces, NEW l \in DOMAIN t.list[j]
               PROVE  t.list[j][l].size > 0 /\ Large(t.memory[t.list[j][l].ptr], t.list[j][l].size)
    BY DEF Listed
  <2>1. CASE t.list[j][l] = item
    BY <1>4, <1>7, <1>10, <2>1
  <2>2. CASE \E m \in DOMAIN s.list[j] : t.list[j][l] = s.list[j][m]
    BY <1>1, <1>4, <2>2 DEF Owned, Listed
  <2>3. QED
    BY <1>8, <2>1, <2>2
<1>14. NotInListAndBuffer(t)
  <2> SUFFICES ASSUME NEW c \in Buffers, NEW j \in Interfaces, NEW l \in DOMAIN t.list[j],
                      t.list[j][l].ptr = t.buf[c].device
               PROVE  FALSE
    BY DEF NotInListAndBuffer
  <2>1. t.list[j][l].ptr \in DeviceMemory
    BY <1>1, ListHas
  <2>2. c # b /\ t.buf[c] = s.buf[c]
    BY <1>3, <1>4, <2>1 DEF All
  <2>3. CASE t.list[j][l] = item
    BY <1>7, <1>10, <2>2, <2>3
  <2>4. CASE \E m \in DOMAIN s.list[j] : t.list[j][l] = s.list[j][m]
    BY <1>1, <2>2, <2>4 DEF Owned, NotInListAndBuffer
  <2>5. QED
    BY <1>8, <2>3, <2>4
<1>15. NotTwiceInLists(t)
  <2> SUFFICES ASSUME NEW j \in Interfaces, NEW h \in Interfaces,
                      NEW l \in DOMAIN t.list[j], NEW m \in DOMAIN t.list[h], t.list[j][l].ptr = t.list[h][m].ptr
               PROVE  j = h /\ l = m
    BY DEF NotTwiceInLists
  <2>1. CASE t.list[j][l].ptr = p
    <3>1. \A f \in Interfaces : \A x \in DOMAIN t.list[f] : t.list[f][x].ptr = p => f = i /\ x = 1
      BY <1>8, <1>11
    <3>2. QED
      BY <2>1, <3>1
  <2>2. CASE t.list[j][l].ptr # p
    <3>1. PICK x \in DOMAIN s.list[j] : t.list[j][l] = s.list[j][x] /\ l = IF j = i THEN x + 1 ELSE x
      BY <1>7, <1>8, <2>2
    <3>2. PICK y \in DOMAIN s.list[h] : t.list[h][m] = s.list[h][y] /\ m = IF h = i THEN y + 1 ELSE y
      BY <1>7, <1>8, <2>2
    <3>3. j = h /\ x = y
      BY <1>1, <3>1, <3>2 DEF Owned, NotTwiceInLists
    <3>4. QED
      BY <3>1, <3>2, <3>3
  <2>3. QED
    BY <2>1, <2>2
<1>16. NoneLost(t)
  <2> SUFFICES ASSUME NEW q \in DeviceMemory, t.memory[q] > 0
               PROVE  \/ \E c \in Buffers : t.buf[c].device = q
                      \/ \E j \in Interfaces : \E l \in DOMAIN t.list[j] : t.list[j][l].ptr = q
    BY DEF NoneLost
  <2>1. CASE q = p
    BY <1>6, <1>7, <2>1
  <2>2. CASE q # p
    <3>1. \/ \E c \in Buffers : s.buf[c].device = q
          \/ \E j \in Interfaces : \E l \in DOMAIN s.list[j] : s.list[j][l].ptr = q
      BY <1>1, <1>4 DEF Owned, NoneLost
    <3>2. ASSUME NEW c \in Buffers, s.buf[c].device = q PROVE t.buf[c].device = q
      BY <1>3, <2>2, <3>2 DEF All, p
    <3>3. QED
      BY <1>9, <3>1, <3>2
  <2>3. QED
    BY <2>1, <2>2
<1>17. QED
  BY <1>1, <1>2, <1>12, <1>13, <1>14, <1>15, <1>16 DEF Sound, Owned

\* b's memory goes back to the driver.
Freed(s, t, b, i) ==
    /\ LetsGo(s, t, b, i)
    /\ t.memory = [s.memory EXCEPT ![s.buf[b].device] = 0]
    /\ t.list = s.list

\* The memory leaves the buffer for the driver.
LEMMA FreedSound ==
    ASSUME NEW s, NEW t, NEW b \in Buffers, NEW i \in Interfaces,
           Sound(s), Freed(s, t, b, i), s.buf[b].interface = i, NoCropOf(s, b),
           s.buf[b].device \in DeviceMemory
    PROVE  Sound(t)
<1> DEFINE p == s.buf[b].device
<1>1. s \in State /\ t \in State /\ Owned(s) /\ b \in All /\ LetsGo(s, t, b, i)
  BY DEF Sound, Freed, LetsGo, All
<1>2. Linked(t) /\ Balanced(t) /\ Cropped(t) /\ Told(t) /\ NotInTwoBuffers(t)
  BY <1>1, LetsGoKeeps, DeviceAssumption DEF Null
<1>3. /\ t.buf[b].device = Null
      /\ \A c \in All \ {b} : t.buf[c] = s.buf[c] /\ t.origin[c] = s.origin[c]
  BY <1>1, LetsGoFacts
<1>4. t.list = s.list /\ t.reuse = s.reuse /\ Null \notin DeviceMemory
  BY DeviceAssumption DEF Freed, LetsGo, Null
<1>5. t.memory[p] = 0 /\ \A q \in DeviceMemory \ {p} : t.memory[q] = s.memory[q]
  BY <1>1, StateHas DEF Freed
<1>6. \A c \in Buffers : t.buf[c].device \in DeviceMemory =>
          c # b /\ t.buf[c] = s.buf[c] /\ t.memory[t.buf[c].device] = s.memory[s.buf[c].device]
  BY <1>1, <1>3, <1>4, <1>5 DEF Owned, NotInTwoBuffers, All
<1>7. \A j \in Interfaces : \A k \in DOMAIN s.list[j] :
          s.list[j][k].ptr \in DeviceMemory /\ t.memory[s.list[j][k].ptr] = s.memory[s.list[j][k].ptr]
  BY <1>1, <1>5, ListHas DEF Owned, NotInListAndBuffer
<1>8. Roomy(t)
  BY <1>1, <1>4, <1>6 DEF Owned, Roomy, Pools
<1>9. Listed(t) /\ NotTwiceInLists(t)
  BY <1>1, <1>4, <1>7 DEF Owned, Listed, NotTwiceInLists
<1>10. NotInListAndBuffer(t)
  BY <1>1, <1>4, <1>6, <1>7 DEF Owned, NotInListAndBuffer
<1>11. NoneLost(t)
  <2> SUFFICES ASSUME NEW q \in DeviceMemory, t.memory[q] > 0
               PROVE  \/ \E c \in Buffers : t.buf[c].device = q
                      \/ \E j \in Interfaces : \E l \in DOMAIN t.list[j] : t.list[j][l].ptr = q
    BY DEF NoneLost
  <2>1. q # p /\ s.memory[q] > 0
    BY <1>5
  <2>2. \/ \E c \in Buffers : s.buf[c].device = q
        \/ \E j \in Interfaces : \E l \in DOMAIN s.list[j] : s.list[j][l].ptr = q
    BY <1>1, <2>1 DEF Owned, NoneLost
  <2>3. QED
    BY <1>3, <1>4, <2>1, <2>2 DEF All
<1>12. QED
  BY <1>1, <1>2, <1>8, <1>9, <1>10, <1>11 DEF Sound, Owned

\* A view, or a buffer with the client's memory, comes and goes without the driver.
LEMMA BorrowedSound ==
    ASSUME NEW s, NEW t, NEW b \in All, NEW i \in Interfaces, NEW p \in Pointers, NEW o,
           Sound(s), Gets(s, t, b, i, p, o), s.buf[b].device = Null,
           t.memory = s.memory, t.list = s.list,
           b \in Buffers => p \in NativeMemory /\ o = "wrap",
           b \in Views => o \in Buffers /\ s.buf[o].device = p
    PROVE  Sound(t)
<1>1. s \in State /\ Owned(s)
  BY DEF Sound
<1>2. b \in Buffers => p \notin DeviceMemory
  BY DeviceAssumption
<1>3. Linked(t) /\ Balanced(t) /\ Cropped(t) /\ Told(t)
  <2>1. b \in Buffers => (p \in DeviceMemory => o = "malloc") /\ (p \in NativeMemory => o = "wrap")
    BY <1>2
  <2>2. QED
    BY <2>1, GetsKeeps
<1>4. t \in State /\ t.buf[b].device = p /\ \A c \in All \ {b} : t.buf[c] = s.buf[c]
  BY <1>1, GetsFacts
<1>5. \A c \in Buffers : c \in All /\ (c = b => t.buf[c].device \notin DeviceMemory)
  BY <1>2, <1>4 DEF All
<1>6. t.reuse = s.reuse
  BY DEF Gets
<1>7. Roomy(t) /\ NotInTwoBuffers(t)
  BY <1>1, <1>4, <1>5, <1>6 DEF Owned, Roomy, Pools, NotInTwoBuffers
<1>8. Listed(t) /\ NotTwiceInLists(t)
  BY <1>1 DEF Owned, Listed, NotTwiceInLists
<1>9. NotInListAndBuffer(t)
  BY <1>1, <1>4, <1>5, ListHas DEF Owned, NotInListAndBuffer
<1>10. NoneLost(t)
  BY <1>1, <1>4, <1>5, DeviceAssumption DEF Owned, NoneLost, Null
<1>11. QED
  BY <1>3, <1>4, <1>7, <1>8, <1>9, <1>10 DEF Sound, Owned

\* The memory of others leaves the buffer without the driver.
LEMMA ReturnedSound ==
    ASSUME NEW s, NEW t, NEW b \in All, NEW i \in Interfaces,
           Sound(s), LetsGo(s, t, b, i), s.buf[b].device # Null, s.buf[b].interface = i,
           t.memory = s.memory, t.list = s.list,
           b \in Buffers => NoCropOf(s, b) /\ s.buf[b].device \notin DeviceMemory
    PROVE  Sound(t)
<1>1. s \in State /\ Owned(s)
  BY DEF Sound
<1>2. Linked(t) /\ Balanced(t) /\ Cropped(t) /\ Told(t) /\ NotInTwoBuffers(t)
  BY LetsGoKeeps
<1>3. t \in State /\ t.buf[b].device = Null /\ \A c \in All \ {b} : t.buf[c] = s.buf[c]
  BY <1>1, LetsGoFacts
<1>4. Null \notin DeviceMemory
  BY DeviceAssumption DEF Null
<1>5. \A c \in Buffers : c \in All /\ (c = b => t.buf[c].device \notin DeviceMemory)
  BY <1>3, <1>4 DEF All
<1>6. t.reuse = s.reuse
  BY DEF LetsGo
<1>7. Roomy(t)
  BY <1>1, <1>3, <1>5, <1>6 DEF Owned, Roomy, Pools
<1>8. Listed(t) /\ NotTwiceInLists(t)
  BY <1>1 DEF Owned, Listed, NotTwiceInLists
<1>9. NotInListAndBuffer(t)
  BY <1>1, <1>3, <1>5, ListHas DEF Owned, NotInListAndBuffer
<1>10. NoneLost(t)
  BY <1>1, <1>3, <1>5 DEF Owned, NoneLost
<1>11. QED
  BY <1>2, <1>3, <1>7, <1>8, <1>9, <1>10 DEF Sound, Owned

-----------------------------------------------------------------------------
(* The free lists *)

\* The free lists may be shorter; the buffers are as they were.
Trims(s, t) ==
    /\ Sound(t)
    /\ t.buf = s.buf /\ t.origin = s.origin /\ t.content = s.content
    /\ t.reuse = s.reuse /\ t.result = s.result

\* Unallocate with the pointers that are cut off, as the operators of the module do it.
LEMMA CutOffTrims ==
    ASSUME NEW s, Sound(s), NEW i \in Interfaces, NEW n \in 0 .. Len(s.list[i]), NEW P,
           \A p \in DeviceMemory : p \in P <=> \E k \in n + 1 .. Len(s.list[i]) : s.list[i][k].ptr = p
    PROVE  Trims(s, [Unallocate(s, P) EXCEPT !.list[i] = SubSeq(s.list[i], 1, n)])
<1> DEFINE M == [p \in DeviceMemory |-> IF p \in P THEN 0 ELSE s.memory[p]]
           L == [s.list EXCEPT ![i] = SubSeq(s.list[i], 1, n)]
           t == [Unallocate(s, P) EXCEPT !.list[i] = SubSeq(s.list[i], 1, n)]
<1>1. s \in State
  BY DEF Sound
<1>2. t = [s EXCEPT !.memory = M, !.list = L]
  BY <1>1 DEF Unallocate, State
<1>3. M \in [DeviceMemory -> Nat]
  BY <1>1, StateHas
<1>4. L \in [Interfaces -> Seq(Items)]
  <2>1. s.list[i] \in Seq(Items) /\ Len(s.list[i]) \in Nat
    BY <1>1, ListHas
  <2>2. \A k \in 1 .. n : s.list[i][k] \in Items
    BY <2>1, ElementOfSeq
  <2>3. SubSeq(s.list[i], 1, n) \in Seq(Items)
    BY <2>2, SubSeqProperties
  <2>4. QED
    BY <1>1, <2>3, StateHas
<1>5. M = [p \in DeviceMemory |->
              IF \E k \in n + 1 .. Len(s.list[i]) : s.list[i][k].ptr = p THEN 0 ELSE s.memory[p]]
  OBVIOUS
<1> HIDE DEF M, L, t
<1>6. /\ t \in State /\ t.memory = M /\ t.list = L /\ t.uses = s.uses
      /\ t.buf = s.buf /\ t.origin = s.origin /\ t.content = s.content
      /\ t.reuse = s.reuse /\ t.result = s.result /\ t.refused = s.refused
  BY <1>1, <1>2, <1>3, <1>4 DEF State
<1>7. CutOff(s, t, i, n)
  BY <1>5, <1>6 DEF CutOff, L
<1>8. Sound(t)
  BY <1>7, CutOffSound
<1>9. QED
  BY <1>6, <1>8 DEF Trims, t

\* halide_cuda_release_unused_device_allocations empties the list.
LEMMA ReleaseUnusedTrims ==
    ASSUME NEW s, Sound(s), NEW i \in Interfaces
    PROVE  Trims(s, ReleaseUnused(s, i))
<1> DEFINE P == {item.ptr : item \in ToSet(s.list[i])}
<1>1. s.list[i] \in Seq(Items) /\ Len(s.list[i]) \in Nat /\ DOMAIN s.list[i] = 1 .. Len(s.list[i])
  BY ListHas DEF Sound
<1>2. \A p \in DeviceMemory : p \in P <=> \E k \in 0 + 1 .. Len(s.list[i]) : s.list[i][k].ptr = p
  BY <1>1 DEF ToSet
<1>3. 0 \in 0 .. Len(s.list[i])
  BY <1>1
<1>4. SubSeq(s.list[i], 1, 0) = << >>
  BY <1>1, SubSeqEmpty
<1>5. ReleaseUnused(s, i) = [Unallocate(s, P) EXCEPT !.list[i] = SubSeq(s.list[i], 1, 0)]
  BY <1>4 DEF ReleaseUnused
<1> HIDE DEF P
<1>6. QED
  BY <1>2, <1>3, <1>5, CutOffTrims

\* What is kept is a prefix of the list.
LEMMA KeptFits ==
    ASSUME NEW items \in Seq(Items), NEW size
    PROVE  Kept(items, size) \in 0 .. Len(items)
<1> DEFINE S == {j \in DOMAIN items : j > MaxDepth + 1 /\ ~Better(items, size, j)}
           T == {Len(items)} \union {k - 1 : k \in S}
<1>1. Len(items) \in Nat /\ DOMAIN items = 1 .. Len(items)
  BY LenProperties
<1>2. \A k \in S : k - 1 \in 0 .. Len(items)
  BY <1>1
<1>3. T \subseteq 0 .. Len(items) /\ T # {}
  BY <1>1, <1>2
<1>4. Kept(items, size) = Min(T)
  BY DEF Kept
<1> HIDE DEF T
<1>5. T \subseteq Nat
  BY <1>3
<1>6. QED
  BY <1>3, <1>4, <1>5, MinIsLeast

\* The search of halide_cuda_device_malloc cuts off the list below its depth.
LEMMA TrimmedTrims ==
    ASSUME NEW s, Sound(s), NEW i \in Interfaces, NEW size
    PROVE  Trims(s, Trimmed(s, i, size))
<1> DEFINE n == Kept(s.list[i], size)
           P == {s.list[i][k].ptr : k \in n + 1 .. Len(s.list[i])}
<1>1. s \in State /\ s.list[i] \in Seq(Items)
  BY ListHas DEF Sound
<1>2. n \in 0 .. Len(s.list[i])
  BY <1>1, KeptFits
<1>3. Trimmed(s, i, size) = [Unallocate(s, P) EXCEPT !.list[i] = SubSeq(s.list[i], 1, n)]
  BY <1>1 DEF Trimmed, Unallocate, State
<1>4. \A p \in DeviceMemory : p \in P <=> \E k \in n + 1 .. Len(s.list[i]) : s.list[i][k].ptr = p
  OBVIOUS
<1> HIDE DEF P, n
<1>5. QED
  BY <1>2, <1>3, <1>4, CutOffTrims

-----------------------------------------------------------------------------
(* device_malloc and device_free of an implementation *)

\* A call that has no effect.
LEMMA SameSound ==
    ASSUME NEW s, NEW t, Sound(s), Same(s, t)
    PROVE  Sound(t)
BY SameIsQuiet, QuietSound

\* What a call that gives b memory of interface i does: all of it or nothing.
Mallocs(s, t, b, i) ==
    /\ Sound(t) /\ t.content = s.content
    /\ \/ t.buf = s.buf /\ (t.result = "ok" => s.buf[b].device # Null)
       \/ /\ t.result = "ok" /\ s.buf[b].device = Null
          /\ \E p \in Pointers : Points(s, t, b, p, i)

\* After steps that leave the buffers and their content alone.
LEMMA MallocsAfter ==
    ASSUME NEW s, NEW t, NEW u, NEW b \in All, NEW i, t.buf = s.buf, t.content = s.content, Mallocs(t, u, b, i)
    PROVE  Mallocs(s, u, b, i)
BY DEF Mallocs, Points

\* Nothing happens.
LEMMA NothingMallocs ==
    ASSUME NEW s, NEW t, NEW b \in All, NEW i, Sound(s), Same(s, t), t.result = "ok" => s.buf[b].device # Null
    PROVE  Mallocs(s, t, b, i)
BY SameSound DEF Mallocs, Same

\* Of the driver, which is asked twice.
LEMMA AllocateMallocs ==
    ASSUME NEW s, Sound(s), NEW b \in Buffers, NEW i \in Interfaces, NEW size \in Nat,
           s.buf[b].device = Null, size >= SizeOf[b], Pools(s, i) => size >= Quantize(SizeOf[b])
    PROVE  Mallocs(s, Allocate(s, b, i, size), b, i)
<1> DEFINE Unused(u) == {p \in DeviceMemory : u.memory[p] = 0}
           t == IF Unused(s) = {} THEN ReleaseUnused(s, i) ELSE s
           p == Min(Unused(t))
           a == [Attach(Burn(t), b, i, p) EXCEPT !.memory[p] = size, !.origin[b] = "malloc"]
<1>1. s \in State /\ b \in All
  BY DEF Sound, All
<1>2. Trims(s, t)
  <2>1. CASE Unused(s) = {}
    BY <2>1, ReleaseUnusedTrims
  <2>2. CASE Unused(s) # {}
    BY <2>2 DEF Trims
  <2>3. QED
    BY <2>1, <2>2
<1>3. Allocate(s, b, i, size) = IF Breaks(s) THEN Error(Burn(s)) ELSE IF Unused(t) = {} THEN Error(t) ELSE Ok(a)
  BY Zenon DEF Allocate
<1> HIDE DEF t, a
<1>4. t \in State /\ Sound(t) /\ t.buf = s.buf /\ t.content = s.content /\ (Pools(t, i) => Pools(s, i))
  BY <1>2 DEF Trims, Sound, Pools
<1>5. CASE Breaks(s)
  <2>1. Same(s, Burn(s)) /\ Burn(s) \in State
    BY <1>1, ResultEffect DEF Same
  <2>2. Same(Burn(s), Error(Burn(s))) /\ Error(Burn(s)).result = "error"
    BY <2>1, ResultEffect
  <2>3. Same(s, Error(Burn(s)))
    BY <2>1, <2>2, SameTransitive
  <2>4. QED
    BY <1>1, <1>3, <1>5, <2>2, <2>3, NothingMallocs
<1>6. CASE ~Breaks(s) /\ Unused(t) = {}
  <2>1. Same(t, Error(t)) /\ Error(t).result = "error"
    BY <1>4, ResultEffect
  <2>2. Mallocs(t, Error(t), b, i)
    BY <1>1, <1>4, <2>1, NothingMallocs
  <2>3. Mallocs(s, Error(t), b, i)
    BY <1>1, <1>4, <2>2, MallocsAfter
  <2>4. Allocate(s, b, i, size) = Error(t)
    BY <1>3, <1>6
  <2>5. QED
    BY <2>3, <2>4
<1>7. CASE ~Breaks(s) /\ Unused(t) # {}
  <2>1. p \in DeviceMemory /\ t.memory[p] = 0
    <3>1. Unused(t) \subseteq Nat
      BY DeviceAssumption
    <3>2. p \in Unused(t)
      BY <1>7, <3>1, MinIsLeast
    <3>3. QED
      BY <3>2
  <2> HIDE DEF p
  <2>2. Same(t, Burn(t)) /\ Burn(t) \in State
    BY <1>4, ResultEffect DEF Same
  <2>3. Sound(Burn(t)) /\ Burn(t).buf = s.buf /\ Burn(t).content = s.content
        /\ Burn(t).memory[p] = 0 /\ (Pools(Burn(t), i) => Pools(s, i))
    BY <1>4, <2>1, <2>2, SameSound DEF Same, Pools
  <2>4. Allocated(Burn(t), a, b, i, p, size)
    BY <1>1, <2>1, <2>2, AllocatedEffect DEF a
  <2>5. Sound(a)
    BY <2>1, <2>3, <2>4, AllocatedSound
  <2>6. p \in Pointers
    BY <2>1 DEF Pointers
  <2>8. Same(a, Ok(a)) /\ Ok(a).result = "ok"
    BY <2>4, ResultEffect DEF Allocated
  <2>9. a.buf = [s.buf EXCEPT ![b] = Repoint(s.buf[b], p, i)] /\ a.content = s.content
    BY <2>3, <2>4 DEF Allocated, Points
  <2>10. Sound(Ok(a)) /\ Ok(a).buf = a.buf /\ Ok(a).content = a.content
    BY <2>5, <2>8, SameSound DEF Same
  <2>11. Mallocs(s, Ok(a), b, i)
    BY <2>6, <2>8, <2>9, <2>10 DEF Mallocs, Points
  <2>12. Allocate(s, b, i, size) = Ok(a)
    BY <1>3, <1>7
  <2>13. QED
    BY <2>11, <2>12
<1>8. QED
  BY <1>5, <1>6, <1>7

\* b takes the k-th item of the list of interface i.
LEMMA ReuseMallocs ==
    ASSUME NEW s, Sound(s), NEW b \in Buffers, NEW i \in Interfaces, NEW k \in DOMAIN s.list[i],
           s.buf[b].device = Null,
           s.list[i][k].size >= SizeOf[b], s.list[i][k].size >= Quantize(SizeOf[b])
    PROVE  Mallocs(s, Ok([Attach(s, b, i, s.list[i][k].ptr) EXCEPT !.list[i] = RemoveAt(@, k),
                                                                  !.origin[b] = "malloc"]), b, i)
<1> DEFINE p == s.list[i][k].ptr
           a == Attach(s, b, i, p)
           L == [s.list EXCEPT ![i] = RemoveAt(s.list[i], k)]
           O == [s.origin EXCEPT ![b] = "malloc"]
           t == [a EXCEPT !.list[i] = RemoveAt(@, k), !.origin[b] = "malloc"]
<1>1. s \in State /\ b \in All
  BY DEF Sound, All
<1>2. p \in DeviceMemory /\ p \in Pointers
  BY <1>1, ListHas DEF Pointers
<1>3. Attached(s, a, b, i, p)
  BY <1>1, <1>2, AttachEffect
<1> HIDE DEF a
<1>4. t = [a EXCEPT !.list = L, !.origin = O]
  BY <1>3 DEF Attached, State
<1>5. L \in [Interfaces -> Seq(Items)]
  <2>1. s.list[i] \in Seq(Items) /\ DOMAIN s.list[i] = 1 .. Len(s.list[i])
    BY <1>1, ListHas
  <2>2. k \in 1 .. Len(s.list[i])
    BY <2>1
  <2>3. RemoveAt(s.list[i], k) \in Seq(Items)
    BY <2>1, <2>2, RemoveAtFacts
  <2>4. QED
    BY <1>1, <2>3, StateHas
<1>6. O \in [All -> Origins]
  BY <1>1, StateHas DEF Origins
<1> HIDE DEF t, L, O, p
<1>7. /\ t \in State /\ t.list = L /\ t.origin = O
      /\ t.buf = a.buf /\ t.uses = a.uses /\ t.refused = a.refused /\ t.reuse = a.reuse /\ t.content = a.content /\ t.memory = a.memory
  BY <1>3, <1>4, <1>5, <1>6 DEF Attached, State
<1>8. Gets(s, t, b, i, p, "malloc")
  BY <1>3, <1>7 DEF Gets, Attached, Points, O
<1>9. Reused(s, t, b, i, k)
  BY <1>3, <1>7, <1>8 DEF Reused, Attached, L, p
<1>10. Sound(t)
  BY <1>9, ReusedSound
<1>11. Same(t, Ok(t)) /\ Ok(t).result = "ok"
  BY <1>7, ResultEffect
<1>12. Sound(Ok(t)) /\ Ok(t).buf = t.buf /\ Ok(t).content = t.content
  BY <1>10, <1>11, SameSound DEF Same
<1>13. t.content = s.content /\ Points(s, t, b, p, i)
  BY <1>3, <1>7 DEF Attached, Points
<1>14. Mallocs(s, Ok(t), b, i)
  BY <1>2, <1>11, <1>12, <1>13 DEF Mallocs, Points
<1>15. QED
  BY <1>14 DEF t, a, p

\* What is asked for is enough for the buffer, and for the size it is listed under.
LEMMA AllocationSizeSuffices ==
    ASSUME NEW s, NEW b \in Buffers, NEW i
    PROVE  /\ AllocationSize(s, b, i) \in Nat /\ AllocationSize(s, b, i) >= SizeOf[b]
           /\ Pools(s, i) => AllocationSize(s, b, i) >= Quantize(SizeOf[b])
<1>1. SizeOf[b] \in Nat
  BY DeviceAssumption
<1>2. Quantize(SizeOf[b]) \in Nat /\ Quantize(SizeOf[b]) >= SizeOf[b]
  BY <1>1, QuantizeRoundsUp
<1>3. QED
  BY <1>1, <1>2 DEF AllocationSize

\* halide_cuda_device_malloc, and halide_opencl_device_malloc.
LEMMA ImplMallocMallocs ==
    ASSUME NEW s, Sound(s), NEW b \in Buffers, NEW i \in Interfaces
    PROVE  Mallocs(s, ImplMalloc(s, b, i), b, i)
<1> DEFINE size == AllocationSize(s, b, i)
           t == IF Pools(s, i) THEN Trimmed(Burn(s), i, size) ELSE Burn(s)
           best == {k \in DOMAIN t.list[i] : Pools(s, i) /\ Better(t.list[i], size, k)}
           reused == Ok([Attach(t, b, i, t.list[i][Max(best)].ptr) EXCEPT !.list[i] = RemoveAt(@, Max(best)),
                                                                        !.origin[b] = "malloc"])
<1>1. s \in State /\ b \in All
  BY DEF Sound, All
<1>2. Same(s, Burn(s)) /\ Sound(Burn(s)) /\ Burn(s) \in State
  BY <1>1, ResultEffect, SameSound DEF Same
<1>3. Sound(t) /\ t.buf = s.buf /\ t.content = s.content /\ (Pools(t, i) <=> Pools(s, i))
  <2>1. Burn(s).buf = s.buf /\ Burn(s).content = s.content /\ (Pools(Burn(s), i) <=> Pools(s, i))
    BY <1>2 DEF Same, Pools
  <2>2. Trims(Burn(s), Trimmed(Burn(s), i, size))
    BY <1>2, TrimmedTrims
  <2>3. QED
    BY <1>2, <2>1, <2>2 DEF Trims, Pools
<1>4. ImplMalloc(s, b, i) = IF s.buf[b].device # Null THEN Ok(s)
                            ELSE IF Breaks(s) THEN Error(Burn(s))
                            ELSE IF best = {} THEN Allocate(t, b, i, size) ELSE reused
  BY Zenon DEF ImplMalloc
<1>5. /\ size \in Nat /\ size >= SizeOf[b] /\ (Pools(s, i) => size >= Quantize(SizeOf[b]))
      /\ Quantize(SizeOf[b]) \in Nat /\ SizeOf[b] \in Nat
  <2>1. SizeOf[b] \in Nat
    BY DeviceAssumption
  <2>2. QED
    BY <2>1, AllocationSizeSuffices, QuantizeRoundsUp
<1> HIDE DEF size, t
<1>6. CASE s.buf[b].device # Null
  <2>1. Same(s, Ok(s))
    BY <1>1, ResultEffect
  <2>2. QED
    BY <1>1, <1>4, <1>6, <2>1, NothingMallocs
<1>7. CASE s.buf[b].device = Null /\ Breaks(s)
  <2>1. Same(Burn(s), Error(Burn(s))) /\ Error(Burn(s)).result = "error"
    BY <1>2, ResultEffect
  <2>2. Same(s, Error(Burn(s)))
    BY <1>2, <2>1, SameTransitive
  <2>3. QED
    BY <1>1, <1>4, <1>7, <2>1, <2>2, NothingMallocs
<1>8. CASE s.buf[b].device = Null /\ ~Breaks(s) /\ best = {}
  <2>1. Mallocs(t, Allocate(t, b, i, size), b, i)
    BY <1>3, <1>5, <1>8, AllocateMallocs
  <2>2. QED
    BY <1>1, <1>3, <1>4, <1>8, <2>1, MallocsAfter
<1>9. CASE s.buf[b].device = Null /\ ~Breaks(s) /\ best # {}
  <2>1. t \in State /\ Len(t.list[i]) \in Nat /\ DOMAIN t.list[i] = 1 .. Len(t.list[i])
    BY <1>3, ListHas DEF Sound
  <2>2. Max(best) \in best
    <3>1. best \subseteq 0 .. Len(t.list[i])
      BY <2>1
    <3>2. QED
      BY <1>9, <2>1, <3>1, MaxIsGreatest
  <2>3. PICK k \in DOMAIN t.list[i] : k = Max(best) /\ Pools(s, i) /\ Better(t.list[i], size, k)
    BY <2>2
  <2> HIDE DEF best
  <2>4. t.list[i][k].size >= size /\ t.list[i][k].size \in Nat
    <3>1. t.list[i][k].size \in Nat
      BY <2>1, ListHas
    <3>2. size <= t.list[i][k].size
      BY <2>3 DEF Better, Fits
    <3>3. QED
      BY <1>5, <3>1, <3>2
  <2>5. t.list[i][k].size >= SizeOf[b] /\ t.list[i][k].size >= Quantize(SizeOf[b])
    BY <1>5, <2>3, <2>4
  <2>6. Mallocs(t, reused, b, i)
    BY <1>3, <1>9, <2>3, <2>5, ReuseMallocs
  <2> HIDE DEF reused
  <2>7. QED
    BY <1>1, <1>3, <1>4, <1>9, <2>6, MallocsAfter DEF best
<1>10. QED
  BY <1>6, <1>7, <1>8, <1>9

\* b has let go of its memory, and of what was newest only there.
Drops(s, t, b) ==
    /\ Sound(t) /\ Points(s, t, b, Null, None)
    /\ t.content = [s.content EXCEPT ![b] =
                       IF s.buf[b].deviceDirty THEN Unknown ELSE [s.content[b] EXCEPT !.device = FALSE]]

\* And then nothing.
LEMMA DropsThen ==
    ASSUME NEW s, NEW t, NEW u, NEW b \in All, Drops(s, t, b), Same(t, u)
    PROVE  Drops(s, u, b)
<1>1. Sound(u)
  BY SameSound DEF Drops
<1>2. QED
  BY <1>1 DEF Drops, Points, Same

\* After steps that leave the buffers and their content alone.
LEMMA DropsAfter ==
    ASSUME NEW s, NEW t, NEW u, NEW b \in All, t.buf = s.buf, t.content = s.content, Drops(t, u, b)
    PROVE  Drops(s, u, b)
BY DEF Drops, Points

\* The forms of Detach the lemmas above ask for.
LEMMA DetachLetsGo ==
    ASSUME NEW s \in State, NEW b \in All, NEW i \in Interfaces, s.buf[b].interface = i
    PROVE  /\ LetsGo(s, Detach(s, b), b, i) /\ Detach(s, b) \in State
           /\ Detach(s, b).memory = s.memory /\ Detach(s, b).list = s.list
           /\ Detached(s, Detach(s, b), b, i)
BY DetachEffect DEF Detached, LetsGo

\* Views, and buffers with the client's memory.
LEMMA DetachDrops ==
    ASSUME NEW s, Sound(s), NEW b \in All, s.buf[b].device # Null,
           b \in Buffers => NoCropOf(s, b) /\ s.buf[b].device \notin DeviceMemory
    PROVE  Drops(s, Detach(s, b), b)
<1>1. s \in State
  BY DEF Sound
<1>2. s.buf[b].interface \in Interfaces
  BY <1>1, StateHas DEF Sound, Linked, BufferStates
<1>3. PICK i \in Interfaces : s.buf[b].interface = i
  BY <1>2
<1>4. /\ LetsGo(s, Detach(s, b), b, i)
      /\ Detach(s, b).memory = s.memory /\ Detach(s, b).list = s.list
      /\ Detached(s, Detach(s, b), b, i)
  BY <1>1, <1>3, DetachLetsGo
<1>5. Sound(Detach(s, b))
  BY <1>3, <1>4, ReturnedSound
<1>6. QED
  BY <1>4, <1>5 DEF Drops, Detached

\* Memory of the driver to the free list.
LEMMA CachedDrops ==
    ASSUME NEW s, Sound(s), NEW b \in Buffers, NoCropOf(s, b), s.buf[b].device \in DeviceMemory,
           NEW i \in Interfaces, s.buf[b].interface = i, Pools(s, i)
    PROVE  Drops(s, Cached(s, b, i), b)
<1> DEFINE n == Quantize(SizeOf[b])
           item == [ptr |-> s.buf[b].device, size |-> n]
           d == Detach(s, b)
           L == [s.list EXCEPT ![i] = <<item>> \o s.list[i]]
           t == Cached(s, b, i)
<1>1. s \in State /\ b \in All /\ Owned(s)
  BY DEF Sound, All
<1>2. /\ LetsGo(s, d, b, i) /\ d \in State /\ d.memory = s.memory /\ d.list = s.list
      /\ Detached(s, d, b, i)
  BY <1>1, DetachLetsGo
<1>3. n \in Nat /\ n > 0 /\ Large(s.memory[s.buf[b].device], n)
  <2>1. SizeOf[b] \in Nat /\ SizeOf[b] > 0
    BY DeviceAssumption
  <2>2. n \in Nat /\ n >= SizeOf[b]
    BY <2>1, QuantizeRoundsUp
  <2>3. Large(s.memory[s.buf[b].device], n)
    BY <1>1 DEF Owned, Roomy
  <2>4. QED
    BY <2>1, <2>2, <2>3
<1> HIDE DEF d, n
<1>4. t = [d EXCEPT !.list = L]
  <2>1. t = [d EXCEPT !.list[i] = <<item>> \o @]
    BY DEF Cached, d, n
  <2>2. QED
    BY <1>2, <2>1 DEF State
<1>5. L \in [Interfaces -> Seq(Items)]
  <2>1. item \in Items
    BY <1>3 DEF Items
  <2>2. s.list[i] \in Seq(Items)
    BY <1>1, ListHas
  <2> HIDE DEF item
  <2>3. <<item>> \o s.list[i] \in Seq(Items)
    BY <2>1, <2>2, ConcatProperties
  <2>4. QED
    BY <1>1, <2>3, StateHas
<1> HIDE DEF t, L
<1>6. /\ t \in State /\ t.list = L
      /\ t.buf = d.buf /\ t.uses = d.uses /\ t.refused = d.refused /\ t.origin = d.origin /\ t.reuse = d.reuse
      /\ t.content = d.content /\ t.memory = d.memory
  BY <1>2, <1>4, <1>5 DEF State
<1>7. LetsGo(s, t, b, i)
  BY <1>2, <1>6 DEF LetsGo, Points
<1>8. PutAside(s, t, b, i, n)
  BY <1>2, <1>6, <1>7 DEF PutAside, L
<1>9. Sound(t)
  BY <1>3, <1>8, PutAsideSound
<1>10. Drops(s, t, b)
  BY <1>2, <1>6, <1>9 DEF Drops, Detached, Points
<1>11. QED
  BY <1>10 DEF t

\* Memory of the driver to the driver.
LEMMA UnallocateDrops ==
    ASSUME NEW s, Sound(s), NEW b \in Buffers, NoCropOf(s, b), s.buf[b].device \in DeviceMemory
    PROVE  Drops(s, Unallocate(Detach(s, b), {s.buf[b].device}), b)
<1> DEFINE d == Detach(s, b)
           p == s.buf[b].device
           M == [s.memory EXCEPT ![p] = 0]
           t == Unallocate(d, {p})
<1>1. s \in State /\ b \in All /\ Linked(s)
  BY DEF Sound, All
<1>2. PICK i \in Interfaces : s.buf[b].interface = i
  <2>1. Null \notin DeviceMemory
    BY DeviceAssumption DEF Null
  <2>2. s.buf[b].interface # None /\ s.buf[b] \in BufferStates
    BY <1>1, <2>1, StateHas DEF Linked
  <2>3. QED
    BY <2>2 DEF BufferStates
<1>3. /\ LetsGo(s, d, b, i) /\ d \in State /\ d.memory = s.memory /\ d.list = s.list
      /\ Detached(s, d, b, i)
  BY <1>1, <1>2, DetachLetsGo
<1>4. s.memory \in [DeviceMemory -> Nat]
  BY <1>1, StateHas
<1> HIDE DEF d, p
<1>5. t = [d EXCEPT !.memory = M]
  <2>1. [q \in DeviceMemory |-> IF q \in {p} THEN 0 ELSE s.memory[q]] = M
    BY <1>4
  <2>2. t = [d EXCEPT !.memory = [q \in DeviceMemory |-> IF q \in {p} THEN 0 ELSE d.memory[q]]]
    BY <1>3 DEF Unallocate, State
  <2>3. QED
    BY <1>3, <2>1, <2>2
<1>6. M \in [DeviceMemory -> Nat]
  BY <1>4
<1> HIDE DEF t, M
<1>7. /\ t \in State /\ t.memory = M
      /\ t.buf = d.buf /\ t.uses = d.uses /\ t.refused = d.refused /\ t.origin = d.origin /\ t.reuse = d.reuse
      /\ t.content = d.content /\ t.list = d.list
  BY <1>3, <1>5, <1>6 DEF State
<1>8. LetsGo(s, t, b, i)
  BY <1>3, <1>7 DEF LetsGo, Points
<1>9. Freed(s, t, b, i)
  BY <1>3, <1>7, <1>8 DEF Freed, M, p
<1>10. Sound(t)
  BY <1>2, <1>9, FreedSound
<1>11. Drops(s, t, b)
  BY <1>3, <1>7, <1>10 DEF Drops, Detached, Points
<1>12. QED
  BY <1>11 DEF t, d, p

\* The buffer gives up its memory, or nothing happens.
Frees(s, t, b) ==
    \/ Drops(s, t, b)
    \/ Same(s, t) /\ Sound(t) /\ (t.result = "ok" => s.buf[b].device = Null)

\* halide_cuda_device_free, and halide_opencl_device_free.
LEMMA ImplFreeFrees ==
    ASSUME NEW s, Sound(s), NEW b \in Buffers, NoCropOf(s, b), s.origin[b] # "wrap"
    PROVE  Frees(s, ImplFree(s, b), b)
<1> DEFINE r == s.buf[b]
           t == Burn(s)
           u == Unallocate(Detach(t, b), {r.device})
<1>1. s \in State /\ b \in All /\ r \in BufferStates
  BY StateHas DEF Sound, All
<1>2. ImplFree(s, b) = IF r.device = Null THEN Ok(s)
                       ELSE IF Breaks(s) THEN Error(t)
                       ELSE IF Pools(s, r.interface) THEN Ok(Cached(t, b, r.interface))
                       ELSE IF Breaks(t) THEN Error(Burn(u)) ELSE Ok(Burn(u))
  BY Zenon DEF ImplFree
<1>3. /\ Same(s, t) /\ Sound(t) /\ t \in State /\ t.buf = s.buf /\ t.content = s.content
      /\ NoCropOf(t, b) /\ (Pools(s, r.interface) => Pools(t, r.interface))
  BY <1>1, ResultEffect, SameSound DEF Same, NoCropOf, Pools
<1>4. CASE r.device = Null
  <2>1. Same(s, Ok(s)) /\ Sound(Ok(s))
    BY <1>1, ResultEffect, SameSound
  <2>2. QED
    BY <1>2, <1>4, <2>1 DEF Frees
<1>5. CASE r.device # Null /\ Breaks(s)
  <2>1. Same(t, Error(t)) /\ Error(t).result = "error"
    BY <1>3, ResultEffect
  <2>2. Same(s, Error(t)) /\ Sound(Error(t))
    BY <1>3, <2>1, SameTransitive, SameSound
  <2>3. QED
    BY <1>2, <1>5, <2>1, <2>2 DEF Frees
<1>6. CASE r.device # Null /\ ~Breaks(s)
  <2>1. t.buf[b].device \in DeviceMemory /\ t.buf[b].interface = r.interface
    <3>1. r.device \in Pointers
      BY <1>1, <1>6 DEF BufferStates
    <3>2. r.device \notin NativeMemory
      BY DEF Sound, Told
    <3>3. QED
      BY <1>3, <3>1, <3>2 DEF Pointers
  <2>2. r.interface # None /\ r.interface \in Interfaces
    BY <1>1, <1>6 DEF Sound, Linked, BufferStates
  <2>3. CASE Pools(s, r.interface)
    <3>1. Drops(t, Cached(t, b, r.interface), b)
      BY <1>3, <2>1, <2>2, <2>3, CachedDrops
    <3>2. Drops(s, Cached(t, b, r.interface), b)
      BY <1>1, <1>3, <3>1, DropsAfter
    <3>3. Same(Cached(t, b, r.interface), Ok(Cached(t, b, r.interface)))
      BY <3>1, ResultEffect DEF Drops, Sound
    <3>4. Drops(s, Ok(Cached(t, b, r.interface)), b)
      BY <1>1, <3>2, <3>3, DropsThen
    <3>5. QED
      BY <1>2, <1>6, <2>3, <3>4 DEF Frees
  <2>4. CASE ~Pools(s, r.interface)
    <3>1. Drops(t, u, b)
      BY <1>3, <2>1, UnallocateDrops
    <3>2. Drops(s, u, b)
      BY <1>1, <1>3, <3>1, DropsAfter
    <3> HIDE DEF u
    <3>3. Same(u, Burn(u)) /\ Burn(u) \in State
      BY <3>1, ResultEffect DEF Drops, Sound, Same
    <3>4. Same(Burn(u), Error(Burn(u))) /\ Same(Burn(u), Ok(Burn(u)))
      BY <3>3, ResultEffect
    <3>5. Drops(s, Burn(u), b)
      BY <1>1, <3>2, <3>3, DropsThen
    <3>6. Drops(s, Error(Burn(u)), b) /\ Drops(s, Ok(Burn(u)), b)
      BY <1>1, <3>4, <3>5, DropsThen
    <3>7. QED
      BY <1>2, <1>6, <2>4, <3>6 DEF Frees
  <2>5. QED
    BY <2>3, <2>4
<1>7. QED
  BY <1>4, <1>5, <1>6

-----------------------------------------------------------------------------
(* What a buffer holds, and what its dirty bits say of it *)

\* What is newest is on the device where the buffer is dirty there, and else on the host.
FineOf(r, c) ==
    /\ ~(r.hostDirty /\ r.deviceDirty)
    /\ c.known /\ r.deviceDirty => r.device # Null
    /\ c.known /\ ~r.deviceDirty => r.host # None /\ c.host
    /\ c.known /\ r.device # Null /\ ~r.hostDirty => c.device

Fine(s, b) == FineOf(s.buf[b], s.content[b])

\* Only b has changed.
Only(s, t, b) == \A c \in All \ {b} : t.buf[c] = s.buf[c] /\ t.content[c] = s.content[c]

\* A call with b that keeps the invariant.
Keeps(s, t, b) == Sound(t) /\ Only(s, t, b) /\ (Fine(s, b) => Fine(t, b))

\* One call, and then another.
LEMMA KeepsTransitive ==
    ASSUME NEW s, NEW t, NEW u, NEW b, Keeps(s, t, b), Keeps(t, u, b)
    PROVE  Keeps(s, u, b)
BY DEF Keeps, Only

\* A call that has no effect.
LEMMA SameKeeps ==
    ASSUME NEW s, NEW t, NEW b, Sound(s), Same(s, t)
    PROVE  Keeps(s, t, b)
<1>1. Sound(t)
  BY SameSound
<1>2. QED
  BY <1>1 DEF Keeps, Only, Same, Fine

\* Whoever gives a buffer memory has marked what it holds on the host.
AnnouncedIn(s, b) == s.content[b].host /\ s.buf[b].device = Null => s.buf[b].hostDirty

\* A buffer that was announced may be given memory.
LEMMA MallocsKeeps ==
    ASSUME NEW s, NEW t, NEW b \in All, NEW i \in Interfaces, Sound(s), Mallocs(s, t, b, i), AnnouncedIn(s, b)
    PROVE  Keeps(s, t, b)
<1>1. s \in State /\ Sound(t) /\ t.content = s.content
  BY DEF Sound, Mallocs
<1>2. CASE t.buf = s.buf
  BY <1>1, <1>2 DEF Keeps, Only, Fine
<1>3. CASE t.result = "ok" /\ s.buf[b].device = Null /\ \E p \in Pointers : Points(s, t, b, p, i)
  <2>1. PICK p \in Pointers : Points(s, t, b, p, i)
    BY <1>3
  <2>2. p \in {Null} \union Pointers /\ i \in Interfaces \union {None}
    BY DEF Pointers
  <2>3. /\ t.buf[b].device = p /\ t.buf[b].interface = i /\ t.buf[b].host = s.buf[b].host
        /\ t.buf[b].hostDirty = s.buf[b].hostDirty /\ t.buf[b].deviceDirty = s.buf[b].deviceDirty
        /\ \A c \in All \ {b} : t.buf[c] = s.buf[c]
    BY <1>1, <2>1, <2>2, Repoints
  <2>4. p # Null
    BY DeviceAssumption DEF Pointers, Null
  <2>5. Only(s, t, b)
    BY <1>1, <2>3 DEF Only
  <2>6. Fine(s, b) => Fine(t, b)
    BY <1>1, <1>3, <2>3, <2>4 DEF Fine, FineOf, AnnouncedIn
  <2>7. QED
    BY <1>1, <2>5, <2>6 DEF Keeps
<1>4. QED
  BY <1>2, <1>3 DEF Mallocs

\* What is left of the content where the memory is given up.
DroppedOf(d, e, dirty) == IF dirty THEN ~e.known ELSE (e.known <=> d.known) /\ (e.host <=> d.host)

\* What becomes of b's content, and what does not change.
LEMMA DropsFacts ==
    ASSUME NEW s, NEW t, NEW b \in All, Sound(s), Drops(s, t, b)
    PROVE  /\ Only(s, t, b)
           /\ t.buf[b].device = Null /\ t.buf[b].interface = None /\ t.buf[b].host = s.buf[b].host
           /\ t.buf[b].hostDirty = s.buf[b].hostDirty /\ t.buf[b].deviceDirty = s.buf[b].deviceDirty
           /\ DroppedOf(s.content[b], t.content[b], s.buf[b].deviceDirty)
<1>1. s \in State /\ s.content \in [All -> Contents] /\ s.content[b] \in Contents
  BY StateHas DEF Sound
<1>2. PICK p \in {Null} \union Pointers, i \in Interfaces \union {None} : p = Null /\ i = None /\ Points(s, t, b, p, i)
  BY DEF Drops
<1>3. /\ t.buf[b].device = Null /\ t.buf[b].interface = None /\ t.buf[b].host = s.buf[b].host
      /\ t.buf[b].hostDirty = s.buf[b].hostDirty /\ t.buf[b].deviceDirty = s.buf[b].deviceDirty
      /\ \A c \in All \ {b} : t.buf[c] = s.buf[c]
  <2>1. /\ t.buf[b].device = p /\ t.buf[b].interface = i /\ t.buf[b].host = s.buf[b].host
        /\ t.buf[b].hostDirty = s.buf[b].hostDirty /\ t.buf[b].deviceDirty = s.buf[b].deviceDirty
        /\ \A c \in All \ {b} : t.buf[c] = s.buf[c]
    BY <1>1, <1>2, Repoints
  <2>2. QED
    BY <1>2, <2>1
<1>4. t.content[b] = IF s.buf[b].deviceDirty THEN Unknown ELSE [s.content[b] EXCEPT !.device = FALSE]
  BY <1>1 DEF Drops
<1>5. \A c \in All \ {b} : t.content[c] = s.content[c]
  BY <1>1 DEF Drops
<1>6. DroppedOf(s.content[b], t.content[b], s.buf[b].deviceDirty)
  <2>1. CASE s.buf[b].deviceDirty
    BY <1>4, <2>1 DEF DroppedOf, Unknown
  <2>2. CASE ~s.buf[b].deviceDirty
    BY <1>1, <1>4, <2>2 DEF DroppedOf, Contents
  <2>3. QED
    BY <2>1, <2>2
<1>7. QED
  BY <1>3, <1>5, <1>6 DEF Only

\* A buffer may let go of its memory at any time.
LEMMA DropsKeeps ==
    ASSUME NEW s, NEW t, NEW b \in All, Sound(s), Drops(s, t, b)
    PROVE  Keeps(s, t, b)
<1>1. /\ Only(s, t, b)
      /\ t.buf[b].device = Null /\ t.buf[b].host = s.buf[b].host
      /\ t.buf[b].hostDirty = s.buf[b].hostDirty /\ t.buf[b].deviceDirty = s.buf[b].deviceDirty
      /\ DroppedOf(s.content[b], t.content[b], s.buf[b].deviceDirty)
  BY DropsFacts
<1>2. Fine(s, b) => Fine(t, b)
  BY <1>1 DEF Fine, FineOf, DroppedOf
<1>3. QED
  BY <1>1, <1>2 DEF Keeps, Drops

-----------------------------------------------------------------------------
(* Copies *)

Sides == {"host", "device"}
On(c, side) == IF side = "host" THEN c.host ELSE c.device

\* The buffers are as they were, and of the content only that of b may not be.
Writes(s, t, b) ==
    /\ Quiet(s, t) /\ t.buf = s.buf
    /\ \A c \in All \ {b} : t.content[c] = s.content[c]

\* A copy that succeeds takes over what was on one side of src.
Lands(s, t, src, from, dst, to) ==
    /\ Writes(s, t, dst)
    /\ t.content[dst].known <=> s.content[src].known
    /\ t.content[dst].known => (On(t.content[dst], to) <=> On(s.content[src], from))
    /\ src = dst => \A side \in Sides \ {to} : On(t.content[dst], side) <=> On(s.content[dst], side)

\* One that fails leaves nothing there.
Tears(s, t, src, from, dst, to) ==
    /\ Writes(s, t, dst)
    /\ src # dst => ~t.content[dst].known
    /\ src = dst => /\ t.content[dst].known <=> s.content[dst].known
                    /\ \A side \in Sides \ {to} : On(t.content[dst], side) <=> On(s.content[dst], side)
                    /\ from = to => (On(t.content[dst], to) <=> On(s.content[dst], to))

Put(c, to, x) == [c EXCEPT ![to] = x]

\* To set one side leaves the other.
LEMMA ContentUpdate ==
    ASSUME NEW c \in Contents, NEW x \in BOOLEAN, NEW to \in Sides
    PROVE  /\ Put(c, to, x) \in Contents
           /\ Put(c, to, x).known <=> c.known
           /\ On(Put(c, to, x), to) <=> x
           /\ \A side \in Sides \ {to} : On(Put(c, to, x), side) <=> On(c, side)
<1>1. CASE to = "host"
  BY <1>1 DEF Put, Contents, Sides, On
<1>2. CASE to = "device"
  BY <1>2 DEF Put, Contents, Sides, On
<1>3. QED
  BY <1>1, <1>2 DEF Sides

\* The content by its side.
LEMMA SideOf ==
    ASSUME NEW c \in Contents, NEW side \in Sides
    PROVE  (c[side] <=> On(c, side)) /\ c[side] \in BOOLEAN
BY DEF Contents, Sides, On

\* d is what b holds in t, and all else is as it was.
Holds(s, t, b, d) == t = [s EXCEPT !.content = [s.content EXCEPT ![b] = d]]

\* What that says of b and of the others.
LEMMA HoldsWrites ==
    ASSUME NEW s \in State, NEW t, NEW b \in All, NEW d \in Contents, Holds(s, t, b, d)
    PROVE  Writes(s, t, b) /\ t.content[b] = d /\ t.result = s.result
<1> DEFINE C == [s.content EXCEPT ![b] = d]
<1>1. C \in [All -> Contents]
  BY StateHas
<1>2. C[b] = d /\ \A c \in All \ {b} : C[c] = s.content[c]
  BY StateHas
<1> HIDE DEF C
<1>3. t = [s EXCEPT !.content = C]
  BY DEF Holds, C
<1>4. /\ t \in State /\ t.content = C /\ t.buf = s.buf /\ t.origin = s.origin /\ t.memory = s.memory
      /\ t.list = s.list /\ t.uses = s.uses /\ t.refused = s.refused /\ t.reuse = s.reuse /\ t.result = s.result
  BY <1>1, <1>3 DEF State
<1>5. Writes(s, t, b)
  BY <1>2, <1>4 DEF Writes, Quiet
<1>6. QED
  BY <1>2, <1>4, <1>5

\* That is what Move does.
LEMMA MoveLands ==
    ASSUME NEW s \in State, NEW src \in Buffers, NEW dst \in Buffers, NEW from \in Sides, NEW to \in Sides
    PROVE  Lands(s, Move(s, src, from, dst, to), src, from, dst, to)
<1> DEFINE x == s.content[src][from]
           known == [Unknown EXCEPT !.known = TRUE]
           d == IF src = dst THEN [s.content[dst] EXCEPT ![to] = x]
                ELSE IF s.content[src].known THEN [known EXCEPT ![to] = x] ELSE Unknown
           t == Move(s, src, from, dst, to)
<1>1. s.content[src] \in Contents /\ s.content[dst] \in Contents /\ src \in All /\ dst \in All
  BY StateHas DEF All
<1>2. x \in BOOLEAN /\ (x <=> On(s.content[src], from))
  BY <1>1, SideOf
<1>3. Unknown \in Contents /\ known \in Contents /\ known.known /\ ~Unknown.known
  BY DEF Unknown, Contents
<1>4. [Unknown EXCEPT !.known = TRUE, ![to] = x] = [known EXCEPT ![to] = x]
  BY DEF Unknown, Sides
<1>5. Holds(s, t, dst, d)
  BY <1>4 DEF Move, State, Holds
<1> HIDE DEF t, x, known
<1>6. CASE src = dst
  <2>1. d = Put(s.content[dst], to, x)
    BY <1>6 DEF Put
  <2> HIDE DEF d
  <2>2. /\ d \in Contents /\ (d.known <=> s.content[dst].known) /\ (On(d, to) <=> x)
        /\ \A side \in Sides \ {to} : On(d, side) <=> On(s.content[dst], side)
    BY <1>1, <1>2, <2>1, ContentUpdate
  <2>3. Writes(s, t, dst) /\ t.content[dst] = d
    BY <1>1, <1>5, <2>2, HoldsWrites
  <2>4. Lands(s, t, src, from, dst, to)
    BY <1>2, <1>6, <2>2, <2>3 DEF Lands
  <2>5. QED
    BY <2>4 DEF t
<1>7. CASE src # dst /\ s.content[src].known
  <2>1. d = Put(known, to, x)
    BY <1>7 DEF Put
  <2> HIDE DEF d
  <2>2. d \in Contents /\ (d.known <=> known.known) /\ (On(d, to) <=> x)
    BY <1>2, <1>3, <2>1, ContentUpdate
  <2>3. Writes(s, t, dst) /\ t.content[dst] = d
    BY <1>1, <1>5, <2>2, HoldsWrites
  <2>4. Lands(s, t, src, from, dst, to)
    BY <1>2, <1>3, <1>7, <2>2, <2>3 DEF Lands
  <2>5. QED
    BY <2>4 DEF t
<1>8. CASE src # dst /\ ~s.content[src].known
  <2>1. d = Unknown
    BY <1>8
  <2>2. Writes(s, t, dst) /\ t.content[dst] = Unknown
    BY <1>1, <1>3, <1>5, <2>1, HoldsWrites
  <2>3. Lands(s, t, src, from, dst, to)
    BY <1>3, <1>8, <2>2 DEF Lands
  <2>4. QED
    BY <2>3 DEF t
<1>9. QED
  BY <1>6, <1>7, <1>8

\* That is what Torn does.
LEMMA TornTears ==
    ASSUME NEW s \in State, NEW src \in Buffers, NEW dst \in Buffers, NEW from \in Sides, NEW to \in Sides
    PROVE  Tears(s, Torn(s, src, from, dst, to), src, from, dst, to)
<1> DEFINE d == IF src # dst THEN Unknown
                ELSE IF from = to THEN s.content[dst] ELSE [s.content[dst] EXCEPT ![to] = FALSE]
           t == Torn(s, src, from, dst, to)
<1>1. s.content[dst] \in Contents /\ src \in All /\ dst \in All
  BY StateHas DEF All
<1>2. Unknown \in Contents /\ ~Unknown.known
  BY DEF Unknown, Contents
<1>3. Holds(s, t, dst, d)
  BY DEF Torn, State, Holds
<1> HIDE DEF t
<1>4. CASE src # dst
  <2>1. Writes(s, t, dst) /\ t.content[dst] = Unknown
    BY <1>1, <1>2, <1>3, <1>4, HoldsWrites
  <2>2. Tears(s, t, src, from, dst, to)
    BY <1>2, <1>4, <2>1 DEF Tears
  <2>3. QED
    BY <2>2 DEF t
<1>5. CASE src = dst /\ from = to
  <2>1. Writes(s, t, dst) /\ t.content[dst] = s.content[dst]
    BY <1>1, <1>3, <1>5, HoldsWrites
  <2>2. Tears(s, t, src, from, dst, to)
    BY <1>5, <2>1 DEF Tears
  <2>3. QED
    BY <2>2 DEF t
<1>6. CASE src = dst /\ from # to
  <2>1. d = Put(s.content[dst], to, FALSE)
    BY <1>6 DEF Put
  <2> HIDE DEF d
  <2>2. /\ d \in Contents /\ (d.known <=> s.content[dst].known)
        /\ \A side \in Sides \ {to} : On(d, side) <=> On(s.content[dst], side)
    BY <1>1, <2>1, ContentUpdate
  <2>3. Writes(s, t, dst) /\ t.content[dst] = d
    BY <1>1, <1>3, <2>2, HoldsWrites
  <2>4. Tears(s, t, src, from, dst, to)
    BY <1>6, <2>2, <2>3 DEF Tears
  <2>5. QED
    BY <2>4 DEF t
<1>7. QED
  BY <1>4, <1>5, <1>6

\* With results and the fuse around it.
LEMMA SameWrites ==
    ASSUME NEW s, NEW t, NEW u, NEW v, NEW b, Same(s, t), Writes(t, u, b), Same(u, v)
    PROVE  Writes(s, v, b)
BY DEF Same, Writes, Quiet

\* With results and the fuse around it.
LEMMA SameLands ==
    ASSUME NEW s, NEW t, NEW u, NEW v, NEW src, NEW from, NEW dst, NEW to,
           Same(s, t), Lands(t, u, src, from, dst, to), Same(u, v)
    PROVE  Lands(s, v, src, from, dst, to)
<1>1. Writes(s, v, dst)
  BY SameWrites DEF Lands
<1>2. t.content = s.content /\ v.content = u.content
  BY DEF Same
<1>3. QED
  BY <1>1, <1>2 DEF Lands

\* With results and the fuse around it.
LEMMA SameTears ==
    ASSUME NEW s, NEW t, NEW u, NEW v, NEW src, NEW from, NEW dst, NEW to,
           Same(s, t), Tears(t, u, src, from, dst, to), Same(u, v)
    PROVE  Tears(s, v, src, from, dst, to)
<1>1. Writes(s, v, dst)
  BY SameWrites DEF Tears
<1>2. t.content = s.content /\ v.content = u.content
  BY DEF Same
<1>3. QED
  BY <1>1, <1>2 DEF Tears

\* The side of src that buffer_copy of interface i reads, where it does not refuse.
From(s, i, src) == IF ReadsHost(s.buf[src], i) THEN "host" ELSE "device"
Refuses(s, i, src) == (s.buf[src].deviceDirty \/ ~HasHost(s.buf[src])) /\ s.buf[src].interface # i

Copies(s, t, i, src, dst, to) ==
    \/ t.result = "incompatible" /\ Same(s, t) /\ Refuses(s, i, src)
    \/ t.result = "error" /\ Tears(s, t, src, From(s, i, src), dst, to) /\ ~Refuses(s, i, src)
    \/ t.result = "ok" /\ Lands(s, t, src, From(s, i, src), dst, to) /\ ~Refuses(s, i, src)

\* halide_cuda_buffer_copy, and halide_opencl_buffer_copy.
LEMMA ImplCopyCopies ==
    ASSUME NEW s \in State, NEW i, NEW src \in Buffers, NEW dst \in Buffers, NEW to \in Sides
    PROVE  Copies(s, ImplCopy(s, i, src, dst, to), i, src, dst, to)
<1> DEFINE from == From(s, i, src)
           torn == Torn(Burn(s), src, from, dst, to)
           moved == Move(Burn(s), src, from, dst, to)
<1>1. from \in Sides
  BY DEF From, Sides
<1>2. ImplCopy(s, i, src, dst, to) = IF Refuses(s, i, src) THEN Incompatible(s)
                                     ELSE IF Breaks(s) THEN Error(torn) ELSE Ok(moved)
  BY Zenon DEF ImplCopy, Refuses, From
<1>3. Same(s, Burn(s)) /\ Burn(s) \in State
  BY ResultEffect DEF Same
<1> HIDE DEF from
<1>4. CASE Refuses(s, i, src)
  <2>1. Same(s, Incompatible(s)) /\ Incompatible(s).result = "incompatible"
    BY ResultEffect
  <2>2. QED
    BY <1>2, <1>4, <2>1 DEF Copies
<1>5. CASE ~Refuses(s, i, src) /\ Breaks(s)
  <2>1. Tears(Burn(s), torn, src, from, dst, to)
    BY <1>1, <1>3, TornTears
  <2>2. torn \in State
    BY <2>1 DEF Tears, Writes, Quiet
  <2> HIDE DEF torn
  <2>3. Same(torn, Error(torn)) /\ Error(torn).result = "error"
    BY <2>2, ResultEffect
  <2>4. Tears(s, Error(torn), src, from, dst, to)
    BY <1>3, <2>1, <2>3, SameTears
  <2>5. QED
    BY <1>2, <1>5, <2>3, <2>4 DEF Copies, from
<1>6. CASE ~Refuses(s, i, src) /\ ~Breaks(s)
  <2>1. Lands(Burn(s), moved, src, from, dst, to)
    BY <1>1, <1>3, MoveLands
  <2>2. moved \in State
    BY <2>1 DEF Lands, Writes, Quiet
  <2> HIDE DEF moved
  <2>3. Same(moved, Ok(moved)) /\ Ok(moved).result = "ok"
    BY <2>2, ResultEffect
  <2>4. Lands(s, Ok(moved), src, from, dst, to)
    BY <1>3, <2>1, <2>3, SameLands
  <2>5. QED
    BY <1>2, <1>6, <2>3, <2>4 DEF Copies, from
<1>7. QED
  BY <1>4, <1>5, <1>6

\* What is read is the newest.
LEMMA CopyReadsNewest ==
    ASSUME NEW s, Sound(s), NEW i \in Interfaces, NEW src \in Buffers,
           Fine(s, src), s.content[src].known, ~Refuses(s, i, src)
    PROVE  On(s.content[src], From(s, i, src))
<1>1. src \in All
  BY DEF All
<1>2. QED
  BY <1>1 DEF Fine, FineOf, Refuses, From, ReadsHost, HasHost, On

-----------------------------------------------------------------------------
(* The host and the dirty bits of a buffer *)

\* Only the host and the dirty bits of b may have changed; they are h, hd and dd.
Marks(s, t, b, h, hd, dd) ==
    /\ Quiet(s, t) /\ t.content = s.content /\ t.result = s.result
    /\ \A c \in All \ {b} : t.buf[c] = s.buf[c]
    /\ t.buf[b].host = h /\ (t.buf[b].hostDirty <=> hd) /\ (t.buf[b].deviceDirty <=> dd)

\* b has become r.
Becomes(s, t, b, r) == t = [s EXCEPT !.buf = [s.buf EXCEPT ![b] = r]]

\* Where its memory is the same.
LEMMA BecomesMarks ==
    ASSUME NEW s \in State, NEW t, NEW b \in All, NEW r \in BufferStates, NEW h, NEW hd, NEW dd,
           Becomes(s, t, b, r), r.device = s.buf[b].device, r.interface = s.buf[b].interface,
           r.host = h, r.hostDirty <=> hd, r.deviceDirty <=> dd
    PROVE  Marks(s, t, b, h, hd, dd)
<1> DEFINE B == [s.buf EXCEPT ![b] = r]
<1>1. s.buf \in [All -> BufferStates]
  BY StateHas
<1>3. B \in [All -> BufferStates] /\ B[b] = r /\ \A c \in All \ {b} : B[c] = s.buf[c]
  BY <1>1
<1>4. t = [s EXCEPT !.buf = B]
  BY DEF Becomes
<1> HIDE DEF B
<1>5. /\ t \in State /\ t.buf = B /\ t.origin = s.origin /\ t.memory = s.memory /\ t.list = s.list
      /\ t.uses = s.uses /\ t.refused = s.refused /\ t.reuse = s.reuse /\ t.content = s.content /\ t.result = s.result
  BY <1>3, <1>4 DEF State
<1>6. \A c \in All : t.buf[c].device = s.buf[c].device /\ t.buf[c].interface = s.buf[c].interface
  BY <1>3, <1>5
<1>7. QED
  BY <1>3, <1>5, <1>6 DEF Marks, Quiet

\* set_host_dirty(false)
LEMMA HostCleanMarks ==
    ASSUME NEW s \in State, NEW b \in All
    PROVE  Marks(s, HostClean(s, b), b, s.buf[b].host, FALSE, s.buf[b].deviceDirty)
<1> DEFINE r == [s.buf[b] EXCEPT !.hostDirty = FALSE]
<1>1. s.buf[b] \in BufferStates
  BY StateHas
<1>2. /\ r \in BufferStates /\ r.device = s.buf[b].device /\ r.interface = s.buf[b].interface
      /\ r.host = s.buf[b].host /\ (r.hostDirty <=> FALSE) /\ (r.deviceDirty <=> s.buf[b].deviceDirty)
  BY <1>1 DEF BufferStates
<1>3. Becomes(s, HostClean(s, b), b, r)
  BY DEF HostClean, State, Becomes
<1> HIDE DEF r
<1>4. QED
  BY <1>2, <1>3, BecomesMarks

\* set_device_dirty(false)
LEMMA DeviceCleanMarks ==
    ASSUME NEW s \in State, NEW b \in All
    PROVE  Marks(s, DeviceClean(s, b), b, s.buf[b].host, s.buf[b].hostDirty, FALSE)
<1> DEFINE r == [s.buf[b] EXCEPT !.deviceDirty = FALSE]
<1>1. s.buf[b] \in BufferStates
  BY StateHas
<1>2. /\ r \in BufferStates /\ r.device = s.buf[b].device /\ r.interface = s.buf[b].interface
      /\ r.host = s.buf[b].host /\ (r.hostDirty <=> s.buf[b].hostDirty) /\ (r.deviceDirty <=> FALSE)
  BY <1>1 DEF BufferStates
<1>3. Becomes(s, DeviceClean(s, b), b, r)
  BY DEF DeviceClean, State, Becomes
<1> HIDE DEF r
<1>4. QED
  BY <1>2, <1>3, BecomesMarks

HostDirty(s, b) == [s EXCEPT !.buf[b].hostDirty = TRUE]
WithHost(s, b, h) == [s EXCEPT !.buf[b].host = h]

\* set_host_dirty()
LEMMA HostDirtyMarks ==
    ASSUME NEW s \in State, NEW b \in All
    PROVE  Marks(s, HostDirty(s, b), b, s.buf[b].host, TRUE, s.buf[b].deviceDirty)
<1> DEFINE r == [s.buf[b] EXCEPT !.hostDirty = TRUE]
<1>1. s.buf[b] \in BufferStates
  BY StateHas
<1>2. /\ r \in BufferStates /\ r.device = s.buf[b].device /\ r.interface = s.buf[b].interface
      /\ r.host = s.buf[b].host /\ (r.hostDirty <=> TRUE) /\ (r.deviceDirty <=> s.buf[b].deviceDirty)
  BY <1>1 DEF BufferStates
<1>3. Becomes(s, HostDirty(s, b), b, r)
  BY DEF HostDirty, State, Becomes
<1> HIDE DEF r
<1>4. QED
  BY <1>2, <1>3, BecomesMarks

\* buf->host = h
LEMMA HostMarks ==
    ASSUME NEW s \in State, NEW b \in All, NEW h \in {None, "client", "halide"}
    PROVE  Marks(s, WithHost(s, b, h), b, h, s.buf[b].hostDirty, s.buf[b].deviceDirty)
<1> DEFINE r == [s.buf[b] EXCEPT !.host = h]
<1>1. s.buf[b] \in BufferStates
  BY StateHas
<1>2. /\ r \in BufferStates /\ r.device = s.buf[b].device /\ r.interface = s.buf[b].interface
      /\ r.host = h /\ (r.hostDirty <=> s.buf[b].hostDirty) /\ (r.deviceDirty <=> s.buf[b].deviceDirty)
  BY <1>1 DEF BufferStates
<1>3. Becomes(s, WithHost(s, b, h), b, r)
  BY DEF WithHost, State, Becomes
<1> HIDE DEF r
<1>4. QED
  BY <1>2, <1>3, BecomesMarks

\* halide_buffer_copy marks the side it has copied to.
LEMMA MarkedMarks ==
    ASSUME NEW s \in State, NEW b \in All, NEW i
    PROVE  Marks(s, Marked(s, i, b), b, s.buf[b].host, i = None, i # None)
<1> DEFINE q == [s.buf[b] EXCEPT !.hostDirty = (i = None)]
           r == [q EXCEPT !.deviceDirty = (i # None)]
<1>1. s.buf[b] \in BufferStates
  BY StateHas
<1>2. /\ q \in BufferStates /\ q.device = s.buf[b].device /\ q.interface = s.buf[b].interface
      /\ q.host = s.buf[b].host /\ (q.hostDirty <=> (i = None))
  BY <1>1 DEF BufferStates
<1>3. Becomes(s, Marked(s, i, b), b, r)
  BY DEF Marked, State, Becomes
<1> HIDE DEF q
<1>4. /\ r \in BufferStates /\ r.device = s.buf[b].device /\ r.interface = s.buf[b].interface
      /\ r.host = s.buf[b].host /\ (r.hostDirty <=> (i = None)) /\ (r.deviceDirty <=> (i # None))
  BY <1>2 DEF BufferStates
<1> HIDE DEF r
<1>5. QED
  BY <1>3, <1>4, BecomesMarks

\* The invariant of the memory does not depend on these.
LEMMA MarksSound ==
    ASSUME NEW s, NEW t, NEW b, NEW h, NEW hd, NEW dd, Sound(s), Marks(s, t, b, h, hd, dd)
    PROVE  Sound(t) /\ Only(s, t, b)
<1>1. Sound(t)
  BY QuietSound DEF Marks
<1>2. QED
  BY <1>1 DEF Marks, Only

-----------------------------------------------------------------------------
(* The entry points *)

\* The content of b is on the host as well.
Brings(s, t, b) ==
    /\ Keeps(s, t, b)
    /\ t.result = "ok" => ~t.buf[b].deviceDirty
    /\ t.content[b].known <=> s.content[b].known
    /\ t.buf[b].host = s.buf[b].host
    /\ ~s.buf[b].deviceDirty => Same(s, t) /\ t.result = "ok"

\* copy_to_host_already_locked
LEMMA CopyToHostLockedBrings ==
    ASSUME NEW s, Sound(s), NEW b \in Buffers, HasHost(s.buf[b]) \/ ~s.buf[b].deviceDirty,
           s.buf[b].deviceDirty /\ s.buf[b].interface # None => s.buf[b].device # Null
    PROVE  Brings(s, CopyToHostLocked(s, b), b)
<1> DEFINE r == s.buf[b]
           c == ImplCopy(s, r.interface, b, b, "host")
           t == CopyToHostLocked(s, b)
<1>1. s \in State /\ b \in All /\ r \in BufferStates
  BY StateHas DEF Sound, All
<1>2. t = IF ~r.deviceDirty THEN Ok(s)
          ELSE IF r.hostDirty \/ r.interface = None THEN Error(s)
          ELSE IF Succeeds(c) THEN DeviceClean(c, b) ELSE Error(c)
  BY Zenon DEF CopyToHostLocked
<1> HIDE DEF t
<1>3. CASE ~r.deviceDirty
  <2>1. Same(s, t) /\ t.result = "ok"
    BY <1>1, <1>2, <1>3, ResultEffect
  <2>2. Keeps(s, t, b)
    BY <2>1, SameKeeps
  <2>3. t.buf = s.buf /\ t.content = s.content
    BY <2>1 DEF Same
  <2>4. QED
    BY <1>3, <2>1, <2>2, <2>3 DEF Brings, t
<1>4. CASE r.deviceDirty /\ (r.hostDirty \/ r.interface = None)
  <2>1. Same(s, t) /\ t.result = "error"
    BY <1>1, <1>2, <1>4, ResultEffect
  <2>2. Keeps(s, t, b)
    BY <2>1, SameKeeps
  <2>3. t.buf = s.buf /\ t.content = s.content
    BY <2>1 DEF Same
  <2>4. QED
    BY <1>4, <2>1, <2>2, <2>3 DEF Brings, t
<1>5. CASE r.deviceDirty /\ ~r.hostDirty /\ r.interface # None
  <2>1. r.device # Null /\ r.host # None
    BY <1>5 DEF HasHost
  <2>2. From(s, r.interface, b) = "device" /\ ~Refuses(s, r.interface, b)
    BY <1>5, <2>1 DEF From, ReadsHost, Refuses
  <2>3. Copies(s, c, r.interface, b, b, "host")
    BY <1>1, ImplCopyCopies DEF Sides
  <2>4. \/ c.result = "error" /\ Tears(s, c, b, "device", b, "host")
        \/ c.result = "ok" /\ Lands(s, c, b, "device", b, "host")
    BY <2>2, <2>3 DEF Copies
  <2>5. Writes(s, c, b) /\ c.buf = s.buf /\ Sound(c) /\ c \in State
    <3>1. Writes(s, c, b)
      BY <2>4 DEF Tears, Lands
    <3>2. QED
      BY <3>1, QuietSound DEF Writes, Sound
  <2>6. Only(s, c, b) /\ (c.content[b].known <=> s.content[b].known)
        /\ (On(c.content[b], "device") <=> On(s.content[b], "device"))
    BY <2>4, <2>5 DEF Only, Writes, Tears, Lands, Sides
  <2> HIDE DEF c
  <2>7. CASE c.result = "error"
    <3>1. t = Error(c)
      BY <1>2, <1>5, <2>7 DEF Succeeds
    <3>2. Same(c, t) /\ t.result = "error"
      BY <2>5, <3>1, ResultEffect
    <3>3. t.buf = s.buf /\ t.content = c.content /\ Sound(t)
      BY <2>5, <3>2, SameSound DEF Same
    <3>4. Only(s, t, b)
      BY <2>6, <3>3, <2>5 DEF Only
    <3>5. Fine(s, b) => Fine(t, b)
      BY <1>5, <2>6, <3>3 DEF Fine, FineOf, On
    <3>6. QED
      BY <1>5, <2>6, <3>2, <3>3, <3>4, <3>5 DEF Brings, Keeps, t
  <2>8. CASE c.result = "ok"
    <3>1. t = DeviceClean(c, b)
      BY <1>2, <1>5, <2>8 DEF Succeeds
    <3>2. Marks(c, t, b, c.buf[b].host, c.buf[b].hostDirty, FALSE)
      BY <1>1, <2>5, <3>1, DeviceCleanMarks
    <3>3. Sound(t) /\ Only(c, t, b)
      BY <2>5, <3>2, MarksSound
    <3>4. Only(s, t, b)
      BY <2>6, <3>3 DEF Only
    <3>5. /\ t.content = c.content /\ t.buf[b].host = r.host /\ t.buf[b].device = r.device
          /\ (t.buf[b].hostDirty <=> r.hostDirty) /\ ~t.buf[b].deviceDirty
      BY <1>1, <2>5, <3>2 DEF Marks, Quiet
    <3>6. c.content[b].known => (On(c.content[b], "host") <=> On(s.content[b], "device"))
      BY <2>4, <2>8 DEF Lands
    <3>7. Fine(s, b) => Fine(t, b)
      BY <1>5, <2>1, <2>6, <3>5, <3>6 DEF Fine, FineOf, On
    <3>8. QED
      BY <1>5, <2>6, <3>3, <3>4, <3>5, <3>7 DEF Brings, Keeps, t
  <2>9. QED
    BY <2>4, <2>7, <2>8
<1>6. QED
  BY <1>3, <1>4, <1>5

\* halide_copy_to_host
LEMMA CopyToHostKeeps ==
    ASSUME NEW s, Sound(s), NEW b \in Buffers, HasHost(s.buf[b])
    PROVE  Keeps(s, CopyToHost(s, b), b)
<1>1. Valid(s, b) => Keeps(s, CopyToHostLocked(s, b), b)
  BY CopyToHostLockedBrings DEF Brings, Valid
<1>2. Keeps(s, Error(s), b)
  BY ResultEffect, SameKeeps DEF Sound
<1>3. QED
  BY <1>1, <1>2 DEF CopyToHost

\* halide_device_malloc
LEMMA DeviceMallocMallocs ==
    ASSUME NEW s, Sound(s), NEW b \in Buffers, NEW i \in Interfaces
    PROVE  Mallocs(s, DeviceMalloc(s, b, i), b, i)
<1>1. s \in State /\ b \in All
  BY DEF Sound, All
<1>2. Mallocs(s, ImplMalloc(s, b, i), b, i)
  BY ImplMallocMallocs
<1>3. Mallocs(s, Error(s), b, i) /\ Mallocs(s, Incompatible(s), b, i)
  <2>1. /\ Same(s, Error(s)) /\ Error(s).result = "error"
        /\ Same(s, Incompatible(s)) /\ Incompatible(s).result = "incompatible"
    BY <1>1, ResultEffect
  <2>2. QED
    BY <1>1, <2>1, NothingMallocs
<1>4. QED
  BY <1>2, <1>3 DEF DeviceMalloc

\* halide_device_free
LEMMA DeviceFreeKeeps ==
    ASSUME NEW s, Sound(s), NEW b \in Buffers, NoCropOf(s, b), s.origin[b] # "wrap"
    PROVE  Keeps(s, DeviceFree(s, b), b)
<1> DEFINE f == ImplFree(s, b)
           t == DeviceFree(s, b)
<1>1. s \in State /\ b \in All
  BY DEF Sound, All
<1>2. Frees(s, f, b)
  BY ImplFreeFrees
<1>3. Keeps(s, f, b) /\ f \in State
  <2>1. CASE Drops(s, f, b)
    BY <1>1, <2>1, DropsKeeps DEF Drops, Sound
  <2>2. CASE Same(s, f)
    BY <1>1, <2>2, SameKeeps DEF Same
  <2>3. QED
    BY <1>2, <2>1, <2>2 DEF Frees
<1>4. t = IF ~Valid(s, b) THEN Error(s) ELSE IF Succeeds(f) THEN DeviceClean(f, b) ELSE f
  BY Zenon DEF DeviceFree
<1>5. CASE Succeeds(f)
  <2>1. f.buf[b].device = Null
    <3>1. CASE Drops(s, f, b)
      BY <1>1, <3>1, DropsFacts
    <3>2. CASE ~Drops(s, f, b)
      BY <1>2, <1>5, <3>2 DEF Frees, Same, Succeeds
    <3>3. QED
      BY <3>1, <3>2
  <2> HIDE DEF f
  <2>2. Marks(f, DeviceClean(f, b), b, f.buf[b].host, f.buf[b].hostDirty, FALSE)
    BY <1>1, <1>3, DeviceCleanMarks
  <2>3. Sound(DeviceClean(f, b)) /\ Only(f, DeviceClean(f, b), b)
    BY <1>3, <2>2, MarksSound DEF Keeps
  <2>4. Fine(f, b) => Fine(DeviceClean(f, b), b)
    BY <1>1, <2>1, <2>2 DEF Fine, FineOf, Marks, Quiet
  <2>5. Keeps(f, DeviceClean(f, b), b)
    BY <2>3, <2>4 DEF Keeps
  <2>6. Keeps(s, DeviceClean(f, b), b)
    BY <1>3, <2>5, KeepsTransitive
  <2>7. Keeps(s, Error(s), b)
    BY <1>1, ResultEffect, SameKeeps
  <2>8. QED
    BY <1>4, <1>5, <2>6, <2>7
<1>6. CASE ~Succeeds(f)
  <2> HIDE DEF f
  <2>7. Keeps(s, Error(s), b)
    BY <1>1, ResultEffect, SameKeeps
  <2>8. QED
    BY <1>3, <1>4, <1>6, <2>7
<1>7. QED
  BY <1>5, <1>6

\* What that says of b and of the others.
LEMMA MallocsFacts ==
    ASSUME NEW s, NEW t, NEW b \in All, NEW i \in Interfaces, Sound(s), Mallocs(s, t, b, i)
    PROVE  /\ Sound(t) /\ Only(s, t, b) /\ t.content = s.content
           /\ t.buf[b].host = s.buf[b].host
           /\ (t.buf[b].hostDirty <=> s.buf[b].hostDirty) /\ (t.buf[b].deviceDirty <=> s.buf[b].deviceDirty)
           /\ t.result = "ok" => t.buf[b].device # Null
           /\ s.buf[b].device # Null => t.buf[b] = s.buf[b]
<1>1. s \in State /\ Sound(t) /\ t.content = s.content
  BY DEF Sound, Mallocs
<1>2. CASE t.buf = s.buf /\ (t.result = "ok" => s.buf[b].device # Null)
  BY <1>1, <1>2 DEF Only
<1>3. CASE t.result = "ok" /\ s.buf[b].device = Null /\ \E p \in Pointers : Points(s, t, b, p, i)
  <2>1. PICK p \in Pointers : Points(s, t, b, p, i)
    BY <1>3
  <2>2. p \in {Null} \union Pointers /\ i \in Interfaces \union {None}
    BY DEF Pointers
  <2>3. /\ t.buf[b].device = p /\ t.buf[b].interface = i /\ t.buf[b].host = s.buf[b].host
        /\ t.buf[b].hostDirty = s.buf[b].hostDirty /\ t.buf[b].deviceDirty = s.buf[b].deviceDirty
        /\ \A c \in All \ {b} : t.buf[c] = s.buf[c]
    BY <1>1, <2>1, <2>2, Repoints
  <2>4. p # Null
    BY DeviceAssumption DEF Pointers, Null
  <2>5. QED
    BY <1>1, <1>3, <2>3, <2>4 DEF Only
<1>4. QED
  BY <1>2, <1>3 DEF Mallocs

\* The memory b is given is of interface i.
LEMMA MallocsGives ==
    ASSUME NEW s, NEW t, NEW b \in All, NEW i \in Interfaces, Sound(s), Mallocs(s, t, b, i),
           s.buf[b].device = Null, t.buf[b].device # Null
    PROVE  t.buf[b].interface = i
<1>1. PICK p \in Pointers : Points(s, t, b, p, i)
  BY DEF Mallocs
<1>2. p \in {Null} \union Pointers /\ i \in Interfaces \union {None} /\ s \in State
  BY DEF Pointers, Sound
<1>3. QED
  BY <1>1, <1>2, Repoints

\* And there is some, where the call succeeds.
LEMMA MallocsHas ==
    ASSUME NEW s, NEW t, NEW b \in All, NEW i \in Interfaces, Sound(s), Mallocs(s, t, b, i), t.result = "ok"
    PROVE  t.buf[b].device # Null
<1>1. CASE t.buf = s.buf /\ s.buf[b].device # Null
  BY <1>1
<1>2. CASE \E p \in Pointers : Points(s, t, b, p, i)
  <2>1. PICK p \in Pointers : Points(s, t, b, p, i)
    BY <1>2
  <2>2. p \in {Null} \union Pointers /\ i \in Interfaces \union {None} /\ s \in State
    BY DEF Pointers, Sound
  <2>3. t.buf[b].device = p
    BY <2>1, <2>2, Repoints
  <2>4. QED
    BY <2>3, DeviceAssumption DEF Pointers, Null
<1>3. QED
  BY <1>1, <1>2 DEF Mallocs

\* The content of b is on the device as well.
Uploads(s, t, b) ==
    /\ Keeps(s, t, b)
    /\ t.content[b].known <=> s.content[b].known
    /\ Fine(s, b) /\ s.buf[b].hostDirty /\ t.result = "ok" =>
            t.buf[b].device # Null /\ (t.content[b].known => t.content[b].device)

\* A call that fails before it has done anything.
LEMMA SameUploads ==
    ASSUME NEW s, NEW t, NEW b, Sound(s), Same(s, t), t.result # "ok"
    PROVE  Uploads(s, t, b)
<1>1. Keeps(s, t, b)
  BY SameKeeps
<1>2. QED
  BY <1>1 DEF Uploads, Same

\* The copy to the memory that b has by now.
LEMMA UploadAfterMalloc ==
    ASSUME NEW m, Sound(m), NEW b \in Buffers, NEW j \in Interfaces,
           m.buf[b].device # Null, m.buf[b].hostDirty, NEW t,
           t = IF Succeeds(ImplCopy(m, j, b, b, "device")) THEN HostClean(ImplCopy(m, j, b, b, "device"), b)
               ELSE Error(ImplCopy(m, j, b, b, "device"))
    PROVE  Uploads(m, t, b)
<1> DEFINE c == ImplCopy(m, j, b, b, "device")
<1>1. m \in State /\ b \in All /\ m.buf[b] \in BufferStates
  BY StateHas DEF Sound, All
<1>2. Copies(m, c, j, b, b, "device")
  BY <1>1, ImplCopyCopies DEF Sides
<1>3. t = IF Succeeds(c) THEN HostClean(c, b) ELSE Error(c)
  OBVIOUS
<1> HIDE DEF c
<1>4. m.buf[b].host # None => From(m, j, b) = "host"
  BY DEF From, ReadsHost, HasHost
<1>5. CASE c.result = "incompatible"
  <2>1. Same(m, c) /\ c \in State
    BY <1>2, <1>5 DEF Copies, Same
  <2>2. t = Error(c)
    BY <1>3, <1>5 DEF Succeeds
  <2>3. Same(c, t) /\ t.result = "error"
    BY <2>1, <2>2, ResultEffect
  <2>4. Same(m, t)
    BY <2>1, <2>3, SameTransitive
  <2>5. QED
    BY <2>3, <2>4, SameUploads
<1>6. CASE c.result = "error"
  <2>1. Tears(m, c, b, From(m, j, b), b, "device")
    BY <1>2, <1>6 DEF Copies
  <2>2. Writes(m, c, b) /\ c.buf = m.buf /\ Sound(c) /\ c \in State
    <3>1. Writes(m, c, b)
      BY <2>1 DEF Tears
    <3>2. QED
      BY <3>1, QuietSound DEF Writes, Sound
  <2>3. (c.content[b].known <=> m.content[b].known) /\ (On(c.content[b], "host") <=> On(m.content[b], "host"))
    BY <2>1 DEF Tears, Sides
  <2>4. Same(c, t) /\ t.result = "error"
    BY <1>3, <1>6, <2>2, ResultEffect DEF Succeeds
  <2>5. Sound(t) /\ t.buf = m.buf /\ t.content = c.content
    BY <2>2, <2>4, SameSound DEF Same
  <2>6. Only(m, t, b)
    BY <2>2, <2>5 DEF Only, Writes
  <2>7. Fine(m, b) => Fine(t, b)
    BY <2>3, <2>5 DEF Fine, FineOf, On
  <2>8. QED
    BY <2>3, <2>4, <2>5, <2>6, <2>7 DEF Uploads, Keeps
<1>7. CASE c.result = "ok"
  <2>1. Lands(m, c, b, From(m, j, b), b, "device")
    BY <1>2, <1>7 DEF Copies
  <2>2. Writes(m, c, b) /\ c.buf = m.buf /\ Sound(c) /\ c \in State
    <3>1. Writes(m, c, b)
      BY <2>1 DEF Lands
    <3>2. QED
      BY <3>1, QuietSound DEF Writes, Sound
  <2>3. (c.content[b].known <=> m.content[b].known) /\ (On(c.content[b], "host") <=> On(m.content[b], "host"))
    BY <2>1 DEF Lands, Sides
  <2>4. c.content[b].known => (On(c.content[b], "device") <=> On(m.content[b], From(m, j, b)))
    BY <2>1 DEF Lands
  <2>5. t = HostClean(c, b)
    BY <1>3, <1>7 DEF Succeeds
  <2>6. Marks(c, t, b, c.buf[b].host, FALSE, c.buf[b].deviceDirty)
    BY <1>1, <2>2, <2>5, HostCleanMarks
  <2>7. Sound(t) /\ Only(c, t, b)
    <3>1. Quiet(c, t) /\ Only(c, t, b)
      BY <2>6 DEF Marks, Only
    <3>2. QED
      BY <2>2, <3>1, QuietSound
  <2>8. Only(m, t, b)
    BY <2>2, <2>7 DEF Only, Writes
  <2>9. /\ t.content = c.content /\ t.buf[b].host = m.buf[b].host /\ t.buf[b].device = m.buf[b].device
        /\ ~t.buf[b].hostDirty /\ (t.buf[b].deviceDirty <=> m.buf[b].deviceDirty)
    BY <1>1, <2>2, <2>6 DEF Marks, Quiet
  <2>10. Fine(m, b) /\ m.content[b].known => m.buf[b].host # None /\ m.content[b].host
    BY DEF Fine, FineOf
  <2>11. Fine(m, b) => (t.content[b].known => t.content[b].device)
    BY <1>4, <2>3, <2>4, <2>9, <2>10 DEF On
  <2>12. Fine(m, b) => Fine(t, b)
    BY <2>3, <2>9, <2>10, <2>11 DEF Fine, FineOf, On
  <2>13. QED
    BY <2>3, <2>7, <2>8, <2>9, <2>11, <2>12 DEF Uploads, Keeps
<1>8. QED
  BY <1>2, <1>5, <1>6, <1>7 DEF Copies

\* copy_to_device_already_locked
LEMMA CopyToDeviceLockedUploads ==
    ASSUME NEW s, Sound(s), NEW b \in Buffers, NEW i \in Interfaces \union {None}, AnnouncedIn(s, b)
    PROVE  Uploads(s, CopyToDeviceLocked(s, b, i), b)
<1> DEFINE r == s.buf[b]
           j == IF i = None THEN r.interface ELSE i
           m == IF r.device = Null THEN DeviceMalloc(s, b, j) ELSE Ok(s)
           u == IF Succeeds(ImplCopy(m, j, b, b, "device")) THEN HostClean(ImplCopy(m, j, b, b, "device"), b)
                ELSE Error(ImplCopy(m, j, b, b, "device"))
           t == CopyToDeviceLocked(s, b, i)
<1>1. s \in State /\ b \in All /\ r \in BufferStates
  BY StateHas DEF Sound, All
<1>2. t = IF ~Valid(s, b) \/ j = None THEN Error(s)
          ELSE IF r.device # Null /\ r.interface # j THEN Incompatible(s)
          ELSE IF ~Succeeds(m) \/ ~r.hostDirty THEN m ELSE u
  BY Zenon DEF CopyToDeviceLocked
<1>3. CASE ~Valid(s, b) \/ j = None
  <2>1. Same(s, Error(s)) /\ Error(s).result = "error"
    BY <1>1, ResultEffect
  <2>2. QED
    BY <1>2, <1>3, <2>1, SameUploads
<1>4. CASE Valid(s, b) /\ j # None /\ r.device # Null /\ r.interface # j
  <2>1. Same(s, Incompatible(s)) /\ Incompatible(s).result = "incompatible"
    BY <1>1, ResultEffect
  <2>2. QED
    BY <1>2, <1>4, <2>1, SameUploads
<1>5. CASE Valid(s, b) /\ j # None /\ ~(r.device # Null /\ r.interface # j)
  <2>1. j \in Interfaces
    BY <1>1, <1>5 DEF BufferStates
  <2> HIDE DEF j
  <2>2. Mallocs(s, m, b, j)
    <3>1. Mallocs(s, DeviceMalloc(s, b, j), b, j)
      BY <2>1, DeviceMallocMallocs
    <3>2. r.device # Null => Mallocs(s, Ok(s), b, j)
      BY <1>1, ResultEffect, NothingMallocs
    <3>3. QED
      BY <3>1, <3>2
  <2> HIDE DEF m
  <2>3. Keeps(s, m, b)
    BY <1>1, <2>1, <2>2, MallocsKeeps
  <2>4. /\ Sound(m) /\ m.content = s.content /\ (m.buf[b].hostDirty <=> r.hostDirty)
        /\ m.result = "ok" => m.buf[b].device # Null
    BY <1>1, <2>1, <2>2, MallocsFacts
  <2>5. CASE ~Succeeds(m) \/ ~r.hostDirty
    <3>1. t = m
      BY <1>2, <1>5, <2>5
    <3>2. Uploads(s, m, b)
      BY <2>3, <2>4, <2>5 DEF Uploads, Succeeds
    <3>3. QED
      BY <3>1, <3>2
  <2>6. CASE Succeeds(m) /\ r.hostDirty
    <3>1. t = u
      BY <1>2, <1>5, <2>6
    <3>2. m.buf[b].device # Null /\ m.buf[b].hostDirty
      BY <2>4, <2>6 DEF Succeeds
    <3>3. Uploads(m, u, b)
      BY <2>1, <2>4, <3>2, UploadAfterMalloc
    <3> HIDE DEF u
    <3>4. Keeps(s, u, b)
      BY <2>3, <3>3, KeepsTransitive DEF Uploads
    <3>5. Fine(s, b) => Fine(m, b)
      BY <2>3 DEF Keeps
    <3>6. Uploads(s, u, b)
      BY <2>4, <3>2, <3>3, <3>4, <3>5 DEF Uploads
    <3>7. QED
      BY <3>1, <3>6
  <2>7. QED
    BY <2>5, <2>6
<1>6. QED
  BY <1>3, <1>4, <1>5

\* halide_device_and_host_malloc
LEMMA DeviceAndHostMallocKeeps ==
    ASSUME NEW s, Sound(s), NEW b \in Buffers, NEW i \in Interfaces, ~HasHost(s.buf[b])
    PROVE  Keeps(s, DeviceAndHostMalloc(s, b, i), b)
<1> DEFINE s1 == WithHost(Burn(s), b, "halide")
           m == DeviceMalloc(s1, b, i)
           t == DeviceAndHostMalloc(s, b, i)
<1>1. s \in State /\ b \in All /\ s.buf[b].host = None
  BY DEF Sound, All, HasHost
<1>2. t = IF ~Valid(s, b) THEN Error(s)
          ELSE IF ~MayUse(s, b, i) THEN Incompatible(s)
          ELSE IF Breaks(s) THEN Error(Burn(s))
          ELSE IF Succeeds(m) THEN m ELSE WithHost(m, b, None)
  BY Zenon DEF DeviceAndHostMalloc, WithHost
<1>3. Same(s, Burn(s)) /\ Burn(s) \in State /\ Sound(Burn(s)) /\ Burn(s).buf = s.buf /\ Burn(s).content = s.content
  BY <1>1, ResultEffect, SameSound DEF Same
<1>4. Same(s, Error(s)) /\ Same(s, Incompatible(s)) /\ Same(s, Error(Burn(s)))
  <2>1. Same(Burn(s), Error(Burn(s)))
    BY <1>3, ResultEffect
  <2>2. QED
    BY <1>1, <1>3, <2>1, ResultEffect, SameTransitive
<1>5. Keeps(s, Error(s), b) /\ Keeps(s, Incompatible(s), b) /\ Keeps(s, Error(Burn(s)), b)
  BY <1>4, SameKeeps
<1>6. Marks(Burn(s), s1, b, "halide", Burn(s).buf[b].hostDirty, Burn(s).buf[b].deviceDirty)
  BY <1>1, <1>3, HostMarks
<1> HIDE DEF s1
<1>7. /\ Quiet(Burn(s), s1) /\ s1.content = s.content /\ \A c \in All \ {b} : s1.buf[c] = s.buf[c]
      /\ (s1.buf[b].hostDirty <=> s.buf[b].hostDirty) /\ (s1.buf[b].deviceDirty <=> s.buf[b].deviceDirty)
      /\ s1.buf[b].device = s.buf[b].device /\ s1.buf[b].host = "halide"
  BY <1>1, <1>3, <1>6 DEF Marks, Quiet
<1>8. Sound(s1)
  BY <1>3, <1>7, QuietSound
<1>9. Mallocs(s1, m, b, i)
  BY <1>8, DeviceMallocMallocs
<1> HIDE DEF m
<1>10. /\ Sound(m) /\ Only(s1, m, b) /\ m.content = s1.content /\ m.buf[b].host = s1.buf[b].host
       /\ (m.buf[b].hostDirty <=> s1.buf[b].hostDirty) /\ (m.buf[b].deviceDirty <=> s1.buf[b].deviceDirty)
       /\ (s1.buf[b].device # Null => m.buf[b] = s1.buf[b])
  BY <1>1, <1>8, <1>9, MallocsFacts
<1>11. Keeps(s, m, b)
  <2>1. Only(s, m, b)
    BY <1>7, <1>10 DEF Only
  <2>2. Fine(s, b) => Fine(m, b)
    BY <1>1, <1>7, <1>10 DEF Fine, FineOf, None
  <2>3. QED
    BY <1>10, <2>1, <2>2 DEF Keeps
<1>12. Keeps(s, WithHost(m, b, None), b)
  <2>1. m \in State
    BY <1>10 DEF Sound
  <2>2. Marks(m, WithHost(m, b, None), b, None, m.buf[b].hostDirty, m.buf[b].deviceDirty)
    BY <1>1, <2>1, HostMarks
  <2>3. /\ Quiet(m, WithHost(m, b, None)) /\ WithHost(m, b, None).content = m.content
        /\ \A c \in All \ {b} : WithHost(m, b, None).buf[c] = m.buf[c]
        /\ (WithHost(m, b, None).buf[b].hostDirty <=> m.buf[b].hostDirty)
        /\ (WithHost(m, b, None).buf[b].deviceDirty <=> m.buf[b].deviceDirty)
        /\ WithHost(m, b, None).buf[b].device = m.buf[b].device
        /\ WithHost(m, b, None).buf[b].host = None
    BY <1>1, <2>2 DEF Marks, Quiet
  <2>4. Sound(WithHost(m, b, None))
    BY <1>10, <2>3, QuietSound
  <2>5. Only(s, WithHost(m, b, None), b)
    BY <1>11, <2>3 DEF Only, Keeps
  <2>6. Fine(s, b) => Fine(WithHost(m, b, None), b)
    BY <1>1, <1>7, <1>10, <2>3 DEF Fine, FineOf
  <2>7. QED
    BY <2>4, <2>5, <2>6 DEF Keeps
<1>13. QED
  BY <1>2, <1>5, <1>11, <1>12

\* The host is gone, and with it what the buffer held.
Empties(s, t, b) ==
    /\ Quiet(s, t) /\ Only(s, t, b) /\ ~t.content[b].known
    /\ t.buf[b].hostDirty <=> s.buf[b].hostDirty
    /\ t.buf[b].deviceDirty <=> s.buf[b].deviceDirty

WithoutHost(s, b) == [s EXCEPT !.buf[b].host = None, !.content[b] = Unknown]

\* halide_free(buf->host), and buf->host = nullptr
LEMMA WithoutHostEmpties ==
    ASSUME NEW s \in State, NEW b \in All
    PROVE  Empties(s, WithoutHost(s, b), b)
<1> DEFINE u == WithHost(s, b, None)
           t == WithoutHost(s, b)
<1>1. Marks(s, u, b, None, s.buf[b].hostDirty, s.buf[b].deviceDirty)
  BY HostMarks
<1>2. u \in State
  BY <1>1 DEF Marks, Quiet
<1>3. Holds(u, t, b, Unknown)
  BY DEF WithHost, WithoutHost, Holds, State
<1> HIDE DEF u, t
<1>4. Unknown \in Contents /\ ~Unknown.known
  BY DEF Unknown, Contents
<1>5. Writes(u, t, b) /\ t.content[b] = Unknown
  BY <1>2, <1>3, <1>4, HoldsWrites
<1>6. Quiet(s, t) /\ Only(s, t, b)
  BY <1>1, <1>5 DEF Marks, Writes, Quiet, Only
<1>7. (t.buf[b].hostDirty <=> s.buf[b].hostDirty) /\ (t.buf[b].deviceDirty <=> s.buf[b].deviceDirty)
  BY <1>1, <1>5 DEF Marks, Writes
<1>8. QED
  BY <1>4, <1>5, <1>6, <1>7 DEF Empties, t

\* Then set_device_dirty(false).
LEMMA CleanedAfterEmptied ==
    ASSUME NEW s, Sound(s), NEW b \in Buffers
    PROVE  Keeps(s, DeviceClean(WithoutHost(s, b), b), b) /\ DeviceClean(WithoutHost(s, b), b) \in State
           /\ ~DeviceClean(WithoutHost(s, b), b).content[b].known /\ ~DeviceClean(WithoutHost(s, b), b).buf[b].deviceDirty
<1> DEFINE u == WithoutHost(s, b)
           t == DeviceClean(u, b)
<1>1. s \in State /\ b \in All
  BY DEF Sound, All
<1>2. Empties(s, u, b) /\ Sound(u) /\ u \in State
  <2>1. Empties(s, u, b)
    BY <1>1, WithoutHostEmpties
  <2>2. QED
    BY <2>1, QuietSound DEF Empties, Sound
<1> HIDE DEF u
<1>3. Marks(u, t, b, u.buf[b].host, u.buf[b].hostDirty, FALSE)
  BY <1>1, <1>2, DeviceCleanMarks
<1> HIDE DEF t
<1>4. Quiet(u, t) /\ t.content = u.content /\ Only(u, t, b) /\ ~t.buf[b].deviceDirty
  BY <1>3 DEF Marks, Only
<1>5. Sound(t) /\ t \in State
  BY <1>2, <1>4, QuietSound DEF Quiet
<1>6. Only(s, t, b) /\ ~t.content[b].known
  BY <1>2, <1>4 DEF Empties, Only
<1>7. Fine(t, b)
  BY <1>4, <1>6 DEF Fine, FineOf
<1>8. QED
  BY <1>4, <1>5, <1>6, <1>7 DEF Keeps, t, u

\* halide_device_and_host_free
LEMMA DeviceAndHostFreeKeeps ==
    ASSUME NEW s, Sound(s), NEW b \in Buffers, NoCropOf(s, b), s.origin[b] # "wrap"
    PROVE  Keeps(s, DeviceAndHostFree(s, b), b)
<1> DEFINE f == DeviceFree(s, b)
           d == DeviceClean(WithoutHost(s, b), b)
           e == DeviceClean(WithoutHost(f, b), b)
<1>1. s \in State /\ b \in All
  BY DEF Sound, All
<1>2. DeviceAndHostFree(s, b) = IF ~Valid(s, b) THEN Error(s)
                                ELSE IF s.buf[b].interface # None THEN HostClean(e, b) ELSE Ok(d)
  BY Zenon DEF DeviceAndHostFree, WithoutHost
<1>3. Keeps(s, Error(s), b)
  BY <1>1, ResultEffect, SameKeeps
<1>4. Keeps(s, Ok(d), b)
  <2>1. Keeps(s, d, b) /\ d \in State
    BY CleanedAfterEmptied
  <2> HIDE DEF d
  <2>2. Keeps(d, Ok(d), b)
    BY <2>1, ResultEffect, SameKeeps DEF Keeps
  <2>3. QED
    BY <2>1, <2>2, KeepsTransitive
<1>5. Keeps(s, HostClean(e, b), b)
  <2>1. Keeps(s, f, b)
    BY DeviceFreeKeeps
  <2> HIDE DEF f
  <2>2. Keeps(f, e, b) /\ e \in State /\ ~e.content[b].known /\ ~e.buf[b].deviceDirty
    BY <2>1, CleanedAfterEmptied DEF Keeps
  <2> HIDE DEF e
  <2>3. Marks(e, HostClean(e, b), b, e.buf[b].host, FALSE, e.buf[b].deviceDirty)
    BY <1>1, <2>2, HostCleanMarks
  <2>4. /\ Quiet(e, HostClean(e, b)) /\ Only(e, HostClean(e, b), b) /\ HostClean(e, b).content = e.content
        /\ ~HostClean(e, b).buf[b].hostDirty
    BY <2>3 DEF Marks, Only
  <2>5. Sound(HostClean(e, b))
    BY <2>2, <2>4, QuietSound DEF Keeps
  <2>6. Fine(HostClean(e, b), b)
    BY <2>2, <2>4 DEF Fine, FineOf
  <2>7. Keeps(e, HostClean(e, b), b)
    BY <2>4, <2>5, <2>6 DEF Keeps
  <2>8. QED
    BY <2>1, <2>2, <2>7, KeepsTransitive
<1>6. QED
  BY <1>2, <1>3, <1>4, <1>5

\* b has got memory of someone else's, with o as its origin.
Borrow(s, b, i, p, o) == [Attach(s, b, i, p) EXCEPT !.origin[b] = o]

\* That is what wrapping and cropping do.
LEMMA BorrowGets ==
    ASSUME NEW s \in State, NEW b \in All, NEW i \in Interfaces, NEW p \in Pointers, NEW o \in Origins
    PROVE  /\ Gets(s, Borrow(s, b, i, p, o), b, i, p, o) /\ Borrow(s, b, i, p, o) \in State
           /\ Borrow(s, b, i, p, o).memory = s.memory /\ Borrow(s, b, i, p, o).list = s.list
           /\ Borrow(s, b, i, p, o).content = s.content /\ Borrow(s, b, i, p, o).result = s.result
<1> DEFINE a == Attach(s, b, i, p)
           t == Borrow(s, b, i, p, o)
           O == [s.origin EXCEPT ![b] = o]
<1>1. Attached(s, a, b, i, p)
  BY AttachEffect
<1> HIDE DEF a
<1>2. t = [a EXCEPT !.origin = O]
  <2>1. t = [a EXCEPT !.origin[b] = o]
    BY DEF a, Borrow
  <2>2. QED
    BY <1>1, <2>1 DEF Attached, State
<1>3. O \in [All -> Origins]
  BY StateHas
<1> HIDE DEF O, t
<1>4. /\ t \in State /\ t.origin = O /\ t.buf = a.buf /\ t.uses = a.uses /\ t.refused = a.refused /\ t.reuse = a.reuse
      /\ t.memory = a.memory /\ t.list = a.list /\ t.content = a.content /\ t.result = a.result
  BY <1>1, <1>2, <1>3 DEF Attached, State
<1>5. Gets(s, t, b, i, p, o)
  BY <1>1, <1>4 DEF Gets, Attached, Points, O
<1>6. QED
  BY <1>1, <1>4, <1>5 DEF Attached, t

\* A wrap or a crop that fails has set the interface: nothing depends on that.
LEMMA StrandedSound ==
    ASSUME NEW s, Sound(s), NEW b \in All, NEW i \in Interfaces, s.buf[b].device = Null
    PROVE  LET t == Stranded(s, b, i)
           IN  /\ Sound(t) /\ t.content = s.content /\ \A c \in All \ {b} : t.buf[c] = s.buf[c]
               /\ t.buf[b].device = Null /\ t.buf[b].host = s.buf[b].host
               /\ t.buf[b].hostDirty = s.buf[b].hostDirty /\ t.buf[b].deviceDirty = s.buf[b].deviceDirty
<1> DEFINE t == Stranded(s, b, i)
           B == [s.buf EXCEPT ![b] = Repoint(s.buf[b], Null, i)]
           O == [s.origin EXCEPT ![b] = "failed"]
<1>1. s \in State /\ s.buf \in [All -> BufferStates] /\ s.buf[b] \in BufferStates /\ s.origin \in [All -> Origins]
  BY StateHas DEF Sound
<1>2. Repoint(s.buf[b], Null, i) = [s.buf[b] EXCEPT !.interface = i]
  BY <1>1 DEF Repoint, BufferStates
<1>3. t = [s EXCEPT !.buf = B, !.origin = O]
  BY <1>1, <1>2 DEF Stranded, State
<1>4. Null \in {Null} \union Pointers /\ i \in Interfaces \union {None}
  OBVIOUS
<1>5. Repoint(s.buf[b], Null, i) \in BufferStates
  BY <1>1, <1>4, Repointed, Zenon
<1>6. B \in [All -> BufferStates] /\ O \in [All -> Origins]
  BY <1>1, <1>5 DEF Origins
<1> HIDE DEF t
<1>7. /\ t.buf = B /\ t.origin = O /\ t \in State /\ t.content = s.content /\ t.memory = s.memory
      /\ t.list = s.list /\ t.uses = s.uses /\ t.refused = s.refused /\ t.reuse = s.reuse
  <2> HIDE DEF B, O
  <2>1. QED
    BY <1>1, <1>3, <1>6 DEF State
<1>8. Points(s, t, b, Null, i)
  BY <1>7 DEF Points
<1> HIDE DEF B
<1>9. /\ t.buf[b].device = Null /\ t.buf[b].interface = i /\ t.buf[b].host = s.buf[b].host
      /\ t.buf[b].hostDirty = s.buf[b].hostDirty /\ t.buf[b].deviceDirty = s.buf[b].deviceDirty
      /\ \A c \in All \ {b} : t.buf[c] = s.buf[c]
  <2>1. PICK p \in {Null} \union Pointers, j \in Interfaces \union {None} :
           p = Null /\ j = i /\ Points(s, t, b, p, j)
    BY <1>4, <1>8
  <2>2. /\ t.buf[b].device = p /\ t.buf[b].interface = j /\ t.buf[b].host = s.buf[b].host
        /\ t.buf[b].hostDirty = s.buf[b].hostDirty /\ t.buf[b].deviceDirty = s.buf[b].deviceDirty
        /\ \A c \in All \ {b} : t.buf[c] = s.buf[c]
    BY <1>1, <2>1, Repoints
  <2>3. QED
    BY <2>1, <2>2
<1>10. t.origin[b] = "failed" /\ \A c \in All \ {b} : t.origin[c] = s.origin[c]
  BY <1>1, <1>7
<1>11. Linked(t)
  BY <1>9, <1>10 DEF Sound, Linked
<1>12. \A c \in All : t.buf[c].device = s.buf[c].device
  BY <1>9
<1>13. \A c \in All : s.buf[c].device # Null => t.buf[c] = s.buf[c] /\ t.origin[c] = s.origin[c]
  BY <1>9, <1>10
<1>14. Balanced(t)
  <2>1. \A j \in Interfaces : UsersOf(t, j) = UsersOf(s, j)
    BY <1>12, <1>13 DEF UsersOf
  <2>2. QED
    BY <1>7, <2>1 DEF Sound, Balanced
<1>15. Cropped(t)
  BY <1>12, <1>13 DEF Sound, Cropped, All
<1>16. Null \notin Pointers /\ \A c \in Buffers : c \in All
  BY DeviceAssumption DEF Null, Pointers, All
<1>17. Told(t)
  BY <1>12, <1>13, <1>16 DEF Sound, Told, Pointers
<1>18. Roomy(t)
  BY <1>7, <1>12, <1>13, <1>16 DEF Sound, Owned, Roomy, Pools, Pointers
<1>19. Listed(t) /\ NotTwiceInLists(t)
  BY <1>7 DEF Sound, Owned, Listed, NotTwiceInLists
<1>20. NotInTwoBuffers(t) /\ NotInListAndBuffer(t) /\ NoneLost(t)
  BY <1>7, <1>12, <1>16 DEF Sound, Owned, NotInTwoBuffers, NotInListAndBuffer, NoneLost
<1>21. Sound(t)
  BY <1>7, <1>11, <1>14, <1>15, <1>17, <1>18, <1>19, <1>20 DEF Sound, Owned
<1>22. QED
  BY <1>7, <1>9, <1>21 DEF t

\* halide_device_wrap_native
LEMMA WrapNativeKeeps ==
    ASSUME NEW s, Sound(s), NEW b \in Buffers, NEW h \in NativeMemory, NEW i \in Interfaces,
           s.buf[b].device = Null, AnnouncedIn(s, b)
    PROVE  Keeps(s, WrapNative(s, b, h, i), b)
<1> DEFINE t == Borrow(s, b, i, h, "wrap")
           f == Stranded(Burn(s), b, i)
<1>1. s \in State /\ b \in All /\ h \in Pointers /\ "wrap" \in Origins /\ b \notin Views
  BY DeviceAssumption DEF Sound, All, Pointers, Origins
<1>2. WrapNative(s, b, h, i) = IF ~Valid(s, b) THEN Error(s)
                               ELSE IF ~MayUse(s, b, i) THEN Incompatible(s)
                               ELSE IF i \in Boxed /\ Breaks(s) THEN Error(f) ELSE Ok(t)
  BY Zenon DEF WrapNative, Borrow
<1>3. /\ Gets(s, t, b, i, h, "wrap") /\ t \in State
      /\ t.memory = s.memory /\ t.list = s.list /\ t.content = s.content
  BY <1>1, BorrowGets
<1> HIDE DEF t
<1>4. Sound(t)
  BY <1>1, <1>3, BorrowedSound
<1>5. Same(t, Ok(t)) /\ Ok(t).result = "ok"
  BY <1>3, ResultEffect
<1>6. Sound(Ok(t)) /\ Ok(t).content = t.content /\ Ok(t).buf = t.buf
  BY <1>4, <1>5, SameSound DEF Same
<1>7. Mallocs(s, Ok(t), b, i)
  BY <1>1, <1>3, <1>5, <1>6 DEF Mallocs, Gets, Points
<1>8. Keeps(s, Ok(t), b)
  BY <1>1, <1>7, MallocsKeeps
<1>9. Keeps(s, Error(s), b) /\ Keeps(s, Incompatible(s), b)
  BY <1>1, ResultEffect, SameKeeps
<1>10. Keeps(s, Error(f), b)
  <2>1. Same(s, Burn(s)) /\ Burn(s).buf[b].device = Null
    BY <1>1, ResultEffect DEF Same
  <2>2. Keeps(s, Burn(s), b) /\ Sound(Burn(s))
    BY <2>1, SameKeeps, SameSound
  <2>3. /\ Sound(f) /\ f.content = Burn(s).content /\ \A c \in All \ {b} : f.buf[c] = Burn(s).buf[c]
        /\ f.buf[b].device = Burn(s).buf[b].device /\ f.buf[b].host = Burn(s).buf[b].host
        /\ f.buf[b].hostDirty = Burn(s).buf[b].hostDirty /\ f.buf[b].deviceDirty = Burn(s).buf[b].deviceDirty
    BY <1>1, <2>1, <2>2, StrandedSound
  <2> HIDE DEF f
  <2>4. Keeps(Burn(s), f, b)
    BY <2>3 DEF Keeps, Only, Fine, FineOf
  <2>5. Keeps(f, Error(f), b)
    BY <2>3, ResultEffect, SameKeeps DEF Sound
  <2>6. QED
    BY <2>2, <2>4, <2>5, KeepsTransitive
<1>11. QED
  BY <1>2, <1>8, <1>9, <1>10

\* halide_device_detach_native
LEMMA DetachNativeKeeps ==
    ASSUME NEW s, Sound(s), NEW b \in Buffers, NoCropOf(s, b), s.origin[b] # "malloc"
    PROVE  Keeps(s, DetachNative(s, b), b)
<1>1. s \in State /\ b \in All
  BY DEF Sound, All
<1>2. Keeps(s, Error(s), b) /\ Keeps(s, Ok(s), b)
  BY <1>1, ResultEffect, SameKeeps
<1>3. CASE s.buf[b].interface # None /\ s.buf[b].device # Null
  <2>1. s.buf[b].device \notin DeviceMemory
    BY DEF Sound, Told
  <2>2. Drops(s, Detach(s, b), b)
    BY <1>1, <1>3, <2>1, DetachDrops
  <2>3. Keeps(s, Detach(s, b), b)
    BY <1>1, <2>2, DropsKeeps
  <2>4. Keeps(Detach(s, b), Ok(Detach(s, b)), b)
    BY <2>3, ResultEffect, SameKeeps DEF Keeps, Sound
  <2>5. Keeps(s, Ok(Detach(s, b)), b)
    BY <2>3, <2>4, KeepsTransitive
  <2>6. QED
    BY <1>2, <1>3, <2>5 DEF DetachNative
<1>4. CASE s.buf[b].interface = None \/ s.buf[b].device = Null
  BY <1>2, <1>4 DEF DetachNative, Valid
<1>5. QED
  BY <1>3, <1>4

-----------------------------------------------------------------------------
(* Views *)

\* A view is never dirty on the host: no call marks it there.
KeepsView(s, t, v) == Sound(t) /\ Only(s, t, v) /\ (~s.buf[v].hostDirty => ~t.buf[v].hostDirty)

\* A call that has no effect.
LEMMA SameKeepsView ==
    ASSUME NEW s, NEW t, NEW v, Sound(s), Same(s, t)
    PROVE  KeepsView(s, t, v)
<1>1. Sound(t)
  BY SameSound
<1>2. QED
  BY <1>1 DEF KeepsView, Only, Same

\* One call, and then another.
LEMMA KeepsViewTransitive ==
    ASSUME NEW s, NEW t, NEW u, NEW v, KeepsView(s, t, v), KeepsView(t, u, v)
    PROVE  KeepsView(s, u, v)
BY DEF KeepsView, Only

\* A crop that fails keeps the module in use: it is counted.
LEMMA RefusedKeepsView ==
    ASSUME NEW s, Sound(s), NEW i \in Interfaces, NEW v
    PROVE  KeepsView(s, Refused(s, i), v) /\ Refused(s, i).buf = s.buf
<1> DEFINE U == [s.uses EXCEPT ![i] = s.uses[i] + 1]
           R == [s.refused EXCEPT ![i] = s.refused[i] + 1]
           t == Refused(s, i)
<1>1. s \in State /\ s.uses \in [Interfaces -> Int] /\ s.refused \in [Interfaces -> Nat]
  BY StateHas DEF Sound
<1>2. U \in [Interfaces -> Int] /\ R \in [Interfaces -> Nat]
  BY <1>1
<1>3. t = [s EXCEPT !.uses = U, !.refused = R]
  BY <1>1 DEF Refused, State
<1> HIDE DEF U, R, t
<1>4. /\ t \in State /\ t.buf = s.buf /\ t.origin = s.origin /\ t.content = s.content
      /\ t.memory = s.memory /\ t.list = s.list /\ t.reuse = s.reuse /\ t.uses = U /\ t.refused = R
  BY <1>1, <1>2, <1>3 DEF State
<1>5. Linked(t) /\ Cropped(t) /\ Told(t)
  BY <1>1, <1>4 DEF Sound, Linked, Cropped, Told
<1>6. Balanced(t)
  <2>1. \A j \in Interfaces : UsersOf(t, j) = UsersOf(s, j)
    BY <1>4 DEF UsersOf
  <2>2. \A j \in Interfaces : Cardinality(UsersOf(s, j)) \in Nat
    <3>1. IsFiniteSet(All)
      BY DeviceAssumption, FS_Union DEF All
    <3>2. QED
      BY <3>1, FS_Subset, FS_CardinalityType DEF UsersOf
  <2>3. QED
    BY <1>1, <1>4, <2>1, <2>2 DEF Sound, Balanced, U, R
<1>7. Roomy(t) /\ Listed(t)
  BY <1>4 DEF Sound, Owned, Roomy, Listed, Pools
<1>8. NotInTwoBuffers(t) /\ NotInListAndBuffer(t) /\ NotTwiceInLists(t) /\ NoneLost(t)
  BY <1>4 DEF Sound, Owned, NotInTwoBuffers, NotInListAndBuffer, NotTwiceInLists, NoneLost
<1>9. Sound(t)
  BY <1>4, <1>5, <1>6, <1>7, <1>8 DEF Sound, Owned
<1>10. QED
  BY <1>4, <1>9 DEF KeepsView, Only, t

WithDeviceDirty(s, b, dd) == [s EXCEPT !.buf[b].deviceDirty = dd]

\* A crop takes over the device_dirty of what it is a crop of.
LEMMA DeviceDirtyMarks ==
    ASSUME NEW s \in State, NEW b \in All, NEW dd \in BOOLEAN
    PROVE  Marks(s, WithDeviceDirty(s, b, dd), b, s.buf[b].host, s.buf[b].hostDirty, dd)
<1> DEFINE r == [s.buf[b] EXCEPT !.deviceDirty = dd]
<1>1. s.buf[b] \in BufferStates
  BY StateHas
<1>2. /\ r \in BufferStates /\ r.device = s.buf[b].device /\ r.interface = s.buf[b].interface
      /\ r.host = s.buf[b].host /\ (r.hostDirty <=> s.buf[b].hostDirty) /\ (r.deviceDirty <=> dd)
  BY <1>1 DEF BufferStates
<1>3. Becomes(s, WithDeviceDirty(s, b, dd), b, r)
  BY DEF WithDeviceDirty, State, Becomes
<1> HIDE DEF r
<1>4. QED
  BY <1>2, <1>3, BecomesMarks

\* halide_device_crop and halide_device_slice, where they fail
LEMMA CropFailsKeepsView ==
    ASSUME NEW s, Sound(s), NEW i \in Interfaces, NEW dst \in Views, s.buf[dst].device = Null
    PROVE  /\ KeepsView(s, Error(Refused(s, i)), dst)
           /\ KeepsView(s, Error(Refused(Burn(s), i)), dst)
           /\ KeepsView(s, Error(Stranded(Refused(Burn(Burn(s)), i), dst, i)), dst)
<1> DEFINE u == Burn(Burn(s))
           f == Stranded(Refused(u, i), dst, i)
<1>1. s \in State /\ dst \in All
  BY DEF Sound, All
<1>2. ASSUME NEW t, Sound(t), KeepsView(s, t, dst)
      PROVE  /\ KeepsView(s, Refused(t, i), dst) /\ KeepsView(s, Error(Refused(t, i)), dst)
             /\ Refused(t, i).buf = t.buf
  <2>1. KeepsView(t, Refused(t, i), dst) /\ Refused(t, i).buf = t.buf
    BY <1>2, RefusedKeepsView
  <2>2. KeepsView(Refused(t, i), Error(Refused(t, i)), dst)
    BY <2>1, ResultEffect, SameKeepsView DEF KeepsView, Sound
  <2>3. QED
    BY <1>2, <2>1, <2>2, KeepsViewTransitive
<1>3. Same(s, s)
  BY <1>1 DEF Same
<1>4. Same(s, Burn(s)) /\ Burn(s) \in State
  BY <1>1, ResultEffect DEF Same
<1>5. Same(Burn(s), u)
  BY <1>4, ResultEffect
<1>6. Same(s, u)
  BY <1>4, <1>5, SameTransitive
<1>7. /\ KeepsView(s, s, dst) /\ KeepsView(s, Burn(s), dst) /\ KeepsView(s, u, dst)
      /\ Sound(Burn(s)) /\ Sound(u) /\ u.buf[dst].device = Null
  BY <1>3, <1>4, <1>6, SameKeepsView, SameSound DEF Same
<1> HIDE DEF u
<1>8. KeepsView(s, Refused(u, i), dst) /\ Sound(Refused(u, i)) /\ Refused(u, i).buf[dst].device = Null
  BY <1>2, <1>7 DEF KeepsView
<1>9. KeepsView(Refused(u, i), f, dst) /\ Sound(f)
  <2> DEFINE w == Refused(u, i)
  <2>1. Sound(w) /\ w.buf[dst].device = Null
    BY <1>8
  <2> HIDE DEF w
  <2>2. LET t == Stranded(w, dst, i)
        IN  /\ Sound(t) /\ t.content = w.content /\ \A c \in All \ {dst} : t.buf[c] = w.buf[c]
            /\ t.buf[dst].hostDirty = w.buf[dst].hostDirty
    BY <1>1, <2>1, StrandedSound
  <2>3. KeepsView(w, Stranded(w, dst, i), dst) /\ Sound(Stranded(w, dst, i))
    BY <2>2 DEF KeepsView, Only
  <2>4. QED
    BY <2>3 DEF w
<1> HIDE DEF f
<1>10. KeepsView(f, Error(f), dst)
  BY <1>9, ResultEffect, SameKeepsView DEF Sound
<1>11. KeepsView(s, Error(f), dst)
  BY <1>8, <1>9, <1>10, KeepsViewTransitive
<1>12. QED
  BY <1>2, <1>7, <1>11, Zenon DEF u, f, Sound

\* halide_device_crop and halide_device_slice
LEMMA DeviceCropKeepsView ==
    ASSUME NEW s, Sound(s), NEW src \in Buffers, NEW dst \in Views
    PROVE  KeepsView(s, DeviceCrop(s, src, dst), dst)
<1> DEFINE r == s.buf[src]
           dirty == IF r.interface \in Boxed THEN s.buf[dst].deviceDirty ELSE r.deviceDirty
           g == Borrow(s, dst, r.interface, r.device, src)
           d == WithDeviceDirty(g, dst, dirty)
           e == Error(Refused(s, r.interface))
           f == Error(Refused(Burn(s), r.interface))
           h == Error(Stranded(Refused(Burn(Burn(s)), r.interface), dst, r.interface))
<1>1. s \in State /\ src \in All /\ dst \in All /\ dst \notin Buffers /\ r \in BufferStates /\ dirty \in BOOLEAN
  <2>1. s \in State /\ src \in All /\ dst \in All /\ dst \notin Buffers
    BY DeviceAssumption DEF Sound, All
  <2>2. r \in BufferStates /\ s.buf[dst] \in BufferStates
    BY <2>1, StateHas
  <2>3. QED
    BY <2>1, <2>2 DEF BufferStates
<1>2. DeviceCrop(s, src, dst) \in {Ok(s), Error(s), Ok(d), e, f, h}
  <2>1. Attach(s, dst, r.interface, r.device) \in State
        => d = [Attach(s, dst, r.interface, r.device) EXCEPT !.buf[dst].deviceDirty = dirty, !.origin[dst] = src]
    <3> HIDE DEF dirty
    <3>1. QED
      BY DEF WithDeviceDirty, Borrow, State
  <2>2. r.device # Null => Attach(s, dst, r.interface, r.device) \in State
    <3>1. r.device # Null => r.device \in Pointers /\ r.interface \in Interfaces
      BY <1>1 DEF Sound, Linked, BufferStates
    <3>2. QED
      BY <1>1, <3>1, AttachEffect DEF Attached
  <2>3. DeviceCrop(s, src, dst) =
            IF r.device = Null THEN Ok(s)
            ELSE IF s.buf[dst].device # Null THEN Error(s)
            ELSE IF r.interface \notin Croppable THEN e
            ELSE IF r.interface \in Boxed /\ Breaks(s) THEN f
            ELSE IF r.interface \in Boxed /\ Breaks(Burn(s)) THEN h
            ELSE Ok([Attach(s, dst, r.interface, r.device) EXCEPT !.buf[dst].deviceDirty = dirty, !.origin[dst] = src])
    BY Zenon DEF DeviceCrop
  <2> HIDE DEF d, dirty, e, f, h
  <2>4. QED
    BY <2>1, <2>2, <2>3
<1>3. KeepsView(s, Ok(s), dst) /\ KeepsView(s, Error(s), dst)
  BY <1>1, ResultEffect, SameKeepsView
<1>4. CASE r.device # Null /\ s.buf[dst].device = Null
  <2>1. r.device \in Pointers /\ r.interface \in Interfaces /\ src \in Origins
    BY <1>1, <1>4 DEF Sound, Linked, BufferStates, Origins
  <2>2. KeepsView(s, e, dst) /\ KeepsView(s, f, dst) /\ KeepsView(s, h, dst)
    <3>1. PICK i \in Interfaces : i = r.interface
      BY <2>1
    <3>2. QED
      BY <1>4, <3>1, CropFailsKeepsView
  <2>3. KeepsView(s, Ok(d), dst)
    <3>1. /\ Gets(s, g, dst, r.interface, r.device, src) /\ g \in State
          /\ g.memory = s.memory /\ g.list = s.list /\ g.content = s.content
      BY <1>1, <2>1, BorrowGets
    <3> HIDE DEF g
    <3>2. Sound(g)
      <4>1. PICK i \in Interfaces, p \in Pointers : i = r.interface /\ p = r.device
        BY <2>1
      <4>2. Gets(s, g, dst, i, p, src)
        BY <3>1, <4>1
      <4>3. s.buf[src].device = p
        BY <4>1
      <4>4. QED
        BY <1>1, <1>4, <3>1, <4>2, <4>3, BorrowedSound
    <3>3. KeepsView(s, g, dst)
      <4>1. PICK i \in Interfaces \union {None}, p \in {Null} \union Pointers : i = r.interface /\ p = r.device
        BY <2>1
      <4>2. Points(s, g, dst, p, i)
        BY <3>1, <4>1 DEF Gets
      <4>3. g.buf[dst].hostDirty = s.buf[dst].hostDirty /\ \A c \in All \ {dst} : g.buf[c] = s.buf[c]
        BY <1>1, <4>2, Repoints
      <4>4. QED
        BY <3>1, <3>2, <4>3 DEF KeepsView, Only
    <3> HIDE DEF dirty
    <3>4. KeepsView(g, d, dst)
      <4>1. Marks(g, d, dst, g.buf[dst].host, g.buf[dst].hostDirty, dirty)
        BY <1>1, <3>1, DeviceDirtyMarks
      <4>2. Quiet(g, d) /\ Only(g, d, dst) /\ (d.buf[dst].hostDirty <=> g.buf[dst].hostDirty)
        BY <4>1 DEF Marks, Only
      <4>3. QED
        BY <3>2, <4>2, QuietSound DEF KeepsView
    <3> HIDE DEF d
    <3>5. KeepsView(d, Ok(d), dst)
      BY <3>4, ResultEffect, SameKeepsView DEF KeepsView, Sound
    <3>6. QED
      BY <3>3, <3>4, <3>5, KeepsViewTransitive
  <2> HIDE DEF d, e, f, h
  <2>4. QED
    BY <1>2, <1>3, <2>2, <2>3
<1>5. CASE r.device = Null \/ s.buf[dst].device # Null
  BY <1>3, <1>5, Zenon DEF DeviceCrop
<1>6. QED
  BY <1>4, <1>5

\* halide_device_release_crop
LEMMA ReleaseCropKeepsView ==
    ASSUME NEW s, Sound(s), NEW v \in Views
    PROVE  KeepsView(s, ReleaseCrop(s, v), v)
<1>1. s \in State /\ v \in All /\ v \notin Buffers
  BY DeviceAssumption DEF Sound, All
<1>2. KeepsView(s, Ok(s), v)
  BY <1>1, ResultEffect, SameKeepsView
<1>3. CASE s.buf[v].device # Null
  <2>2. Drops(s, Detach(s, v), v)
    BY <1>1, <1>3, DetachDrops
  <2>3. KeepsView(s, Detach(s, v), v)
    BY <1>1, <2>2, DropsFacts DEF KeepsView, Drops
  <2>4. KeepsView(Detach(s, v), Ok(Detach(s, v)), v)
    BY <2>3, ResultEffect, SameKeepsView DEF KeepsView, Sound
  <2>5. KeepsView(s, Ok(Detach(s, v)), v)
    BY <2>3, <2>4, KeepsViewTransitive
  <2>6. QED
    BY <1>3, <2>5 DEF ReleaseCrop
<1>4. CASE s.buf[v].device = Null
  BY <1>2, <1>4 DEF ReleaseCrop
<1>5. QED
  BY <1>3, <1>4

-----------------------------------------------------------------------------
(* halide_buffer_copy *)

\* What Transfer finds, b being src or dst: between two buffers, the destination may have
\* been given memory just now, and then it has a host that holds what it held.
Half(s, b) ==
    /\ ~(s.buf[b].hostDirty /\ s.buf[b].deviceDirty)
    /\ Fine(s, b) \/ (s.content[b].known => s.buf[b].host # None)

\* The copy has arrived in dst on the side of i, or dst is as its dirty bits say.
Arrives(s, t, src, i, dst) ==
    /\ Sound(t)
    /\ \A c \in All \ {src, dst} : t.buf[c] = s.buf[c] /\ t.content[c] = s.content[c]
    /\ Fine(t, src)
    /\ t.result # "ok" => Fine(t, dst)
    /\ t.result = "ok" /\ t.content[dst].known =>
            IF i = None THEN t.buf[dst].host # None /\ t.content[dst].host
            ELSE t.buf[dst].device # Null /\ t.content[dst].device

\* A copy of the implementation between two buffers.
LEMMA CopyArrives ==
    ASSUME NEW s, Sound(s), NEW j \in Interfaces, NEW src \in Buffers, NEW dst \in Buffers, src # dst,
           NEW to \in Sides, NEW i,
           Fine(s, src), s.content[src].known, ~Refuses(s, j, src), Half(s, dst),
           i = None => to = "host" /\ s.buf[dst].host # None,
           i # None => to = "device" /\ s.buf[dst].device # Null,
           NEW t, Copies(s, t, j, src, dst, to)
    PROVE  Arrives(s, t, src, i, dst)
<1>1. src \in All /\ dst \in All
  BY DEF All
<1>2. On(s.content[src], From(s, j, src))
  BY CopyReadsNewest
<1>3. \/ t.result = "error" /\ Tears(s, t, src, From(s, j, src), dst, to)
      \/ t.result = "ok" /\ Lands(s, t, src, From(s, j, src), dst, to)
  BY DEF Copies
<1>4. Writes(s, t, dst) /\ Quiet(s, t) /\ t.buf = s.buf
  BY <1>3 DEF Tears, Lands, Writes
<1>5. Sound(t)
  BY <1>4, QuietSound
<1>6. Fine(t, src)
  BY <1>1, <1>4 DEF Writes, Fine
<1>7. CASE t.result = "error" /\ Tears(s, t, src, From(s, j, src), dst, to)
  <2>1. ~t.content[dst].known
    BY <1>7 DEF Tears
  <2>2. Fine(t, dst)
    BY <1>4, <2>1 DEF Half, Fine, FineOf
  <2>3. QED
    BY <1>4, <1>5, <1>6, <1>7, <2>2 DEF Arrives, Writes
<1>8. CASE t.result = "ok" /\ Lands(s, t, src, From(s, j, src), dst, to)
  <2>1. t.content[dst].known => On(t.content[dst], to)
    BY <1>2, <1>8 DEF Lands
  <2>2. QED
    BY <1>4, <1>5, <1>6, <1>8, <2>1 DEF Arrives, Writes, On
<1>9. QED
  BY <1>3, <1>7, <1>8

\* From one host to the other.
LEMMA HostCopyArrives ==
    ASSUME NEW s, Sound(s), NEW src \in Buffers, NEW dst \in Buffers, src # dst,
           Fine(s, src), s.content[src].known, FromHost(s.buf[src]), s.buf[dst].host # None
    PROVE  Arrives(s, Ok(Move(s, src, "host", dst, "host")), src, None, dst)
<1> DEFINE m == Move(s, src, "host", dst, "host")
           t == Ok(m)
<1>1. s \in State /\ src \in All /\ dst \in All
  BY DEF Sound, All
<1>2. s.content[src].host
  BY <1>1 DEF FromHost, HasHost, Fine, FineOf, Sound, Linked
<1>3. Lands(s, m, src, "host", dst, "host")
  BY <1>1, MoveLands DEF Sides
<1>4. m \in State
  BY <1>3 DEF Lands, Writes, Quiet
<1> HIDE DEF m
<1>5. Same(m, t) /\ t.result = "ok"
  BY <1>4, ResultEffect
<1> HIDE DEF t
<1>6. t.buf = s.buf /\ t.content = m.content /\ m.buf = s.buf
  BY <1>3, <1>5 DEF Same, Lands, Writes
<1>7. Sound(t)
  <2>1. Quiet(s, m)
    BY <1>3 DEF Lands, Writes
  <2>2. Sound(m)
    BY <2>1, QuietSound
  <2>3. QED
    BY <1>5, <2>2, SameSound
<1>8. \A c \in All \ {dst} : t.buf[c] = s.buf[c] /\ t.content[c] = s.content[c]
  BY <1>3, <1>6 DEF Lands, Writes
<1>9. Fine(t, src)
  BY <1>1, <1>8 DEF Fine
<1>10. t.content[dst].known => t.content[dst].host
  BY <1>2, <1>3, <1>6 DEF Lands, On
<1>11. QED
  BY <1>5, <1>6, <1>7, <1>8, <1>9, <1>10 DEF Arrives, t, m

\* Through the host memory of the destination, which must not be dirty on its device.
LEMMA CopyViaDestinationArrives ==
    ASSUME NEW s, Sound(s), NEW i \in Interfaces, NEW src \in Buffers, NEW dst \in Buffers, src # dst,
           Fine(s, src), s.content[src].known, FromDevice(s.buf[src]), Half(s, dst),
           s.buf[dst].host # None, ~s.buf[dst].deviceDirty, s.buf[dst].device # Null
    PROVE  Arrives(s, CopyViaDestination(s, src, i, dst), src, i, dst)
<1> DEFINE j == s.buf[src].interface
           c == ImplCopy(s, j, src, dst, "host")
           h == HostDirty(c, dst)
           u == CopyToDeviceLocked(h, dst, i)
           t == CopyViaDestination(s, src, i, dst)
<1>1. s \in State /\ src \in All /\ dst \in All /\ s.buf[src] \in BufferStates /\ i # None
  BY StateHas, DeviceAssumption DEF Sound, All
<1>2. j \in Interfaces /\ ~Refuses(s, j, src)
  BY <1>1 DEF FromDevice, Sound, Linked, BufferStates, Refuses
<1>3. Copies(s, c, j, src, dst, "host")
  BY <1>1, ImplCopyCopies DEF Sides
<1>4. t = IF Succeeds(c) THEN u ELSE c
  BY Zenon DEF CopyViaDestination, HostDirty
<1> HIDE DEF c, t, j
<1>5. Arrives(s, c, src, None, dst)
  <2>1. "host" \in Sides
    BY DEF Sides
  <2>2. QED
    BY <1>2, <1>3, <2>1, CopyArrives
<1>6. c.result \in {"ok", "error"} /\ c.buf = s.buf
  BY <1>2, <1>3 DEF Copies, Tears, Lands, Writes
<1>7. CASE c.result = "error"
  <2>1. t = c
    BY <1>4, <1>7 DEF Succeeds
  <2>2. Arrives(s, c, src, i, dst)
    BY <1>5, <1>7 DEF Arrives
  <2>3. QED
    BY <2>1, <2>2 DEF t
<1>8. CASE c.result = "ok"
  <2>1. t = u
    BY <1>4, <1>8 DEF Succeeds
  <2>2. Sound(c) /\ c \in State /\ (c.content[dst].known => c.content[dst].host)
    BY <1>5, <1>8 DEF Arrives, Sound
  <2>3. Marks(c, h, dst, c.buf[dst].host, TRUE, c.buf[dst].deviceDirty)
    BY <1>1, <2>2, HostDirtyMarks
  <2> HIDE DEF h
  <2>4. /\ Quiet(c, h) /\ h.content = c.content /\ Only(c, h, dst)
        /\ h.buf[dst].host # None /\ h.buf[dst].hostDirty /\ ~h.buf[dst].deviceDirty /\ h.buf[dst].device # Null
    BY <1>1, <1>6, <2>3 DEF Marks, Quiet, Only
  <2>5. Sound(h)
    BY <2>2, <2>4, QuietSound
  <2>6. Fine(h, dst) /\ AnnouncedIn(h, dst)
    BY <2>2, <2>4 DEF Fine, FineOf, AnnouncedIn
  <2>7. Uploads(h, u, dst)
    BY <2>5, <2>6, CopyToDeviceLockedUploads
  <2> HIDE DEF u
  <2>8. Sound(u) /\ Only(h, u, dst) /\ Fine(u, dst)
    BY <2>6, <2>7 DEF Uploads, Keeps
  <2>9. u.result = "ok" => u.buf[dst].device # Null /\ (u.content[dst].known => u.content[dst].device)
    BY <2>4, <2>6, <2>7 DEF Uploads
  <2>10. \A b \in All \ {src, dst} : u.buf[b] = s.buf[b] /\ u.content[b] = s.content[b]
    BY <1>5, <1>6, <2>4, <2>8 DEF Arrives, Only
  <2>11. Fine(u, src)
    BY <1>1, <1>5, <2>4, <2>8 DEF Arrives, Only, Fine
  <2>12. QED
    BY <1>1, <2>1, <2>8, <2>9, <2>10, <2>11 DEF Arrives, t
<1>9. QED
  BY <1>6, <1>7, <1>8

\* Through the host memory of the source.
LEMMA CopyViaSourceArrives ==
    ASSUME NEW s, Sound(s), NEW i \in Interfaces, NEW src \in Buffers, NEW dst \in Buffers, src # dst,
           Fine(s, src), s.content[src].known, Half(s, dst), s.buf[dst].device # Null,
           s.buf[src].host # None \/ s.buf[dst].host # None,
           ~(FromDevice(s.buf[src]) /\ s.buf[dst].host # None)
    PROVE  Arrives(s, CopyViaSource(s, src, i, dst), src, i, dst)
<1> DEFINE c == CopyToHostLocked(s, src)
           u == ImplCopy(c, i, src, dst, "device")
           t == CopyViaSource(s, src, i, dst)
<1>1. s \in State /\ src \in All /\ dst \in All /\ i # None
  BY DeviceAssumption DEF Sound, All
<1>2. s.buf[dst].host # None => ~s.buf[src].deviceDirty
  BY DEF FromDevice, HasHost, Fine, FineOf
<1>3. Brings(s, c, src)
  BY <1>2, CopyToHostLockedBrings DEF HasHost, Fine, FineOf
<1>4. t = IF Succeeds(c) THEN u ELSE c
  BY Zenon DEF CopyViaSource
<1> HIDE DEF c, t
<1>5. Sound(c) /\ c \in State /\ Only(s, c, src) /\ Fine(c, src) /\ c.content[src].known
  BY <1>3 DEF Brings, Keeps, Sound
<1>6. c.buf[dst] = s.buf[dst] /\ c.content[dst] = s.content[dst]
  BY <1>1, <1>5 DEF Only
<1>7. CASE c.result # "ok"
  <2>1. s.buf[dst].host = None
    BY <1>2, <1>3, <1>7 DEF Brings
  <2>2. Fine(c, dst)
    BY <1>6, <2>1 DEF Half, Fine, FineOf
  <2>3. Arrives(s, c, src, i, dst)
    BY <1>5, <1>7, <2>2 DEF Arrives, Only
  <2>4. t = c
    BY <1>4, <1>7 DEF Succeeds
  <2>5. QED
    BY <2>3, <2>4 DEF t
<1>8. CASE c.result = "ok"
  <2>1. t = u
    BY <1>4, <1>8 DEF Succeeds
  <2>2. ~Refuses(c, i, src)
    BY <1>3, <1>5, <1>8 DEF Brings, Refuses, HasHost, Fine, FineOf
  <2>3. Half(c, dst) /\ c.buf[dst].device # Null
    BY <1>6 DEF Half, Fine
  <2>4. Copies(c, u, i, src, dst, "device") /\ "device" \in Sides
    BY <1>5, ImplCopyCopies DEF Sides
  <2> HIDE DEF u
  <2>5. Arrives(c, u, src, i, dst)
    BY <1>1, <1>5, <2>2, <2>3, <2>4, CopyArrives
  <2>6. Arrives(s, u, src, i, dst)
    BY <1>5, <2>5 DEF Arrives, Only
  <2>7. QED
    BY <2>1, <2>6 DEF t
<1>9. QED
  BY <1>7, <1>8

\* Nothing has been copied.
LEMMA NothingArrives ==
    ASSUME NEW s, Sound(s), NEW src \in Buffers, NEW dst \in Buffers, NEW i,
           Fine(s, src), Fine(s, dst), NEW t, Same(s, t), t.result # "ok"
    PROVE  Arrives(s, t, src, i, dst)
<1>1. Sound(t) /\ t.buf = s.buf /\ t.content = s.content
  BY SameSound DEF Same
<1>2. QED
  BY <1>1 DEF Arrives, Fine

\* Whichever way is taken.
LEMMA TransferArrives ==
    ASSUME NEW s, Sound(s), NEW i \in Interfaces \union {None}, NEW src \in Buffers, NEW dst \in Buffers, src # dst,
           Fine(s, src), s.content[src].known, Half(s, dst),
           i = None => Fine(s, dst),
           i # None => s.buf[dst].device # Null,
           i # None /\ i # s.buf[src].interface /\ FromDevice(s.buf[src]) /\ HasHost(s.buf[dst])
                => ~s.buf[dst].deviceDirty
    PROVE  Arrives(s, Transfer(s, src, i, dst), src, i, dst)
<1> DEFINE r == s.buf[src]
           d == s.buf[dst]
           direct == IF FromDevice(r) /\ i # None THEN ImplCopy(s, i, src, dst, "device") ELSE Incompatible(s)
           t == Transfer(s, src, i, dst)
<1>1. s \in State /\ src \in All /\ dst \in All /\ r \in BufferStates
  BY StateHas DEF Sound, All
<1>2. t = IF i = None /\ ~HasHost(d) THEN Error(s)
          ELSE IF direct.result # "incompatible" THEN direct
          ELSE IF ~HasHost(r) /\ ~HasHost(d) THEN Incompatible(s)
          ELSE IF i = None /\ FromHost(r) THEN Ok(Move(s, src, "host", dst, "host"))
          ELSE IF i = None /\ FromDevice(r) THEN ImplCopy(s, r.interface, src, dst, "host")
          ELSE IF FromDevice(r) /\ HasHost(d) THEN CopyViaDestination(s, src, i, dst)
          ELSE IF i # None THEN CopyViaSource(s, src, i, dst)
          ELSE Incompatible(s)
  BY Zenon DEF Transfer
<1>3. /\ Same(s, Error(s)) /\ Error(s).result = "error"
      /\ Same(s, Incompatible(s)) /\ Incompatible(s).result = "incompatible"
  BY <1>1, ResultEffect
<1>4. i # None => i \in Interfaces
  OBVIOUS
<1>5. Fine(s, dst) => Arrives(s, Error(s), src, i, dst) /\ Arrives(s, Incompatible(s), src, i, dst)
  <2>1. SUFFICES ASSUME Fine(s, dst) PROVE Arrives(s, Error(s), src, i, dst) /\ Arrives(s, Incompatible(s), src, i, dst)
    OBVIOUS
  <2>2. Arrives(s, Error(s), src, i, dst)
    BY <1>3, <2>1, NothingArrives
  <2>3. Arrives(s, Incompatible(s), src, i, dst)
    BY <1>3, <2>1, NothingArrives
  <2>4. QED
    BY <2>2, <2>3
<1> HIDE DEF t
<1>6. CASE i = None
  <2>1. direct.result = "incompatible"
    BY <1>3, <1>6
  <2> HIDE DEF direct
  <2>2. CASE ~HasHost(d)
    BY <1>2, <1>5, <1>6, <2>2 DEF t
  <2>3. CASE HasHost(d) /\ FromHost(r)
    <3>1. t = Ok(Move(s, src, "host", dst, "host"))
      BY <1>2, <1>6, <2>1, <2>3
    <3>2. Arrives(s, Ok(Move(s, src, "host", dst, "host")), src, None, dst)
      BY <2>3, HostCopyArrives DEF HasHost
    <3>3. QED
      BY <1>6, <3>1, <3>2 DEF t
  <2>4. CASE HasHost(d) /\ ~FromHost(r) /\ FromDevice(r)
    <3>1. t = ImplCopy(s, r.interface, src, dst, "host")
      BY <1>2, <1>6, <2>1, <2>4
    <3>2. PICK j \in Interfaces : j = r.interface
      BY <1>1, <2>4 DEF FromDevice, Sound, Linked, BufferStates
    <3>3. ~Refuses(s, j, src)
      BY <3>2 DEF Refuses
    <3>4. Copies(s, t, j, src, dst, "host") /\ "host" \in Sides
      BY <1>1, <3>1, <3>2, ImplCopyCopies DEF Sides
    <3>5. Arrives(s, t, src, i, dst)
      BY <1>1, <1>6, <2>4, <3>3, <3>4, CopyArrives DEF HasHost
    <3>6. QED
      BY <3>5 DEF t
  <2>5. CASE HasHost(d) /\ ~FromHost(r) /\ ~FromDevice(r)
    BY <1>2, <1>5, <1>6, <2>1, <2>5 DEF t
  <2>6. QED
    BY <2>2, <2>3, <2>4, <2>5
<1>7. CASE i # None
  <2>1. CASE direct.result # "incompatible"
    <3>1. t = direct /\ FromDevice(r) /\ direct = ImplCopy(s, i, src, dst, "device")
      BY <1>2, <1>3, <1>7, <2>1
    <3>2. Copies(s, t, i, src, dst, "device") /\ "device" \in Sides
      BY <1>1, <3>1, ImplCopyCopies DEF Sides
    <3>3. ~Refuses(s, i, src)
      BY <2>1, <3>1, <3>2 DEF Copies
    <3>4. Arrives(s, t, src, i, dst)
      BY <1>1, <1>4, <1>7, <3>2, <3>3, CopyArrives
    <3>5. QED
      BY <3>4 DEF t
  <2>2. CASE direct.result = "incompatible"
    <3>1. FromDevice(r) => i # r.interface
      <4>1. FromDevice(r) => Copies(s, direct, i, src, dst, "device")
        BY <1>1, <1>7, ImplCopyCopies DEF Sides
      <4>2. QED
        BY <2>2, <4>1 DEF Copies, Refuses
    <3> HIDE DEF direct
    <3>2. CASE ~HasHost(r) /\ ~HasHost(d)
      <4>1. Fine(s, dst)
        BY <3>2 DEF Half, Fine, FineOf, HasHost
      <4>2. QED
        BY <1>2, <1>5, <1>7, <2>2, <3>2, <4>1 DEF t
    <3>3. CASE FromDevice(r) /\ HasHost(d)
      <4>1. t = CopyViaDestination(s, src, i, dst)
        BY <1>2, <1>7, <2>2, <3>3
      <4>2. Arrives(s, CopyViaDestination(s, src, i, dst), src, i, dst)
        BY <1>4, <1>7, <3>1, <3>3, CopyViaDestinationArrives DEF HasHost
      <4>3. QED
        BY <4>1, <4>2 DEF t
    <3>4. CASE ~(~HasHost(r) /\ ~HasHost(d)) /\ ~(FromDevice(r) /\ HasHost(d))
      <4>1. t = CopyViaSource(s, src, i, dst)
        BY <1>2, <1>7, <2>2, <3>4
      <4>2. Arrives(s, CopyViaSource(s, src, i, dst), src, i, dst)
        BY <1>4, <1>7, <3>4, CopyViaSourceArrives DEF HasHost
      <4>3. QED
        BY <4>1, <4>2 DEF t
    <3>5. QED
      BY <3>2, <3>3, <3>4
  <2>3. QED
    BY <2>1, <2>2
<1>8. QED
  BY <1>6, <1>7

\* A copy of the implementation from one side of b to the other.
LEMMA CopyOverKeeps ==
    ASSUME NEW s, Sound(s), NEW j \in Interfaces, NEW b \in Buffers, NEW to \in Sides,
           Fine(s, b), s.content[b].known, ~Refuses(s, j, b),
           From(s, j, b) = "host" /\ to = "device" => s.buf[b].hostDirty,
           From(s, j, b) = "device" /\ to = "host" => s.buf[b].deviceDirty,
           NEW t, Copies(s, t, j, b, b, to)
    PROVE  Keeps(s, t, b)
<1>1. b \in All
  BY DEF All
<1>2. On(s.content[b], From(s, j, b)) /\ From(s, j, b) \in Sides
  BY CopyReadsNewest DEF From, Sides
<1>3. \/ t.result = "error" /\ Tears(s, t, b, From(s, j, b), b, to)
      \/ t.result = "ok" /\ Lands(s, t, b, From(s, j, b), b, to)
  BY DEF Copies
<1>4. Writes(s, t, b) /\ Quiet(s, t) /\ t.buf = s.buf
  BY <1>3 DEF Tears, Lands, Writes
<1>5. Sound(t) /\ Only(s, t, b)
  BY <1>4, QuietSound DEF Writes, Only
<1>6. \A side \in Sides \ {to} : On(t.content[b], side) <=> On(s.content[b], side)
  BY <1>3 DEF Tears, Lands
<1>7. From(s, j, b) = to /\ t.content[b].known => (On(t.content[b], to) <=> On(s.content[b], to))
  BY <1>3 DEF Tears, Lands
<1>8. t.result = "ok" /\ t.content[b].known => On(t.content[b], to)
  BY <1>2, <1>3 DEF Lands
<1>9. t.content[b].known <=> s.content[b].known
  BY <1>3 DEF Tears, Lands
<1>10. Fine(t, b)
  <2>1. CASE From(s, j, b) = to
    <3>1. t.content[b].host /\ s.content[b].known <=> s.content[b].host /\ s.content[b].known
      BY <1>6, <1>7, <1>9, <2>1 DEF Sides, On
    <3>2. t.content[b].device /\ s.content[b].known <=> s.content[b].device /\ s.content[b].known
      BY <1>6, <1>7, <1>9, <2>1 DEF Sides, On
    <3>3. QED
      BY <1>4, <1>9, <3>1, <3>2 DEF Fine, FineOf
  <2>2. CASE to = "device" /\ From(s, j, b) = "host"
    <3>1. t.content[b].host <=> s.content[b].host
      BY <1>6, <2>2 DEF Sides, On
    <3>2. QED
      BY <1>4, <1>9, <2>2, <3>1 DEF Fine, FineOf
  <2>3. CASE to = "host" /\ From(s, j, b) = "device"
    <3>1. t.content[b].device <=> s.content[b].device
      BY <1>6, <2>3 DEF Sides, On
    <3>2. QED
      BY <1>4, <1>9, <2>3, <3>1 DEF Fine, FineOf
  <2>4. QED
    BY <1>2, <2>1, <2>2, <2>3 DEF Sides
<1>11. QED
  BY <1>5, <1>10 DEF Keeps

\* A buffer copied over itself.
LEMMA TransferOverKeeps ==
    ASSUME NEW s, Sound(s), NEW i \in Interfaces \union {None}, NEW b \in Buffers,
           Fine(s, b), s.content[b].known,
           i # None => s.buf[b].interface = i /\ s.buf[b].device # Null
    PROVE  Keeps(s, Transfer(s, b, i, b), b)
<1> DEFINE r == s.buf[b]
           direct == IF FromDevice(r) /\ i # None THEN ImplCopy(s, i, b, b, "device") ELSE Incompatible(s)
           t == Transfer(s, b, i, b)
<1>1. s \in State /\ b \in All /\ r \in BufferStates
  BY StateHas DEF Sound, All
<1>2. t = IF i = None /\ ~HasHost(r) THEN Error(s)
          ELSE IF direct.result # "incompatible" THEN direct
          ELSE IF ~HasHost(r) /\ ~HasHost(r) THEN Incompatible(s)
          ELSE IF i = None /\ FromHost(r) THEN Ok(Move(s, b, "host", b, "host"))
          ELSE IF i = None /\ FromDevice(r) THEN ImplCopy(s, r.interface, b, b, "host")
          ELSE IF FromDevice(r) /\ HasHost(r) THEN CopyViaDestination(s, b, i, b)
          ELSE IF i # None THEN CopyViaSource(s, b, i, b)
          ELSE Incompatible(s)
  BY Zenon DEF Transfer
<1>3. Keeps(s, Error(s), b) /\ Keeps(s, Incompatible(s), b) /\ Incompatible(s).result = "incompatible"
  BY <1>1, ResultEffect, SameKeeps
<1> HIDE DEF t
<1>4. CASE i = None
  <2>1. direct.result = "incompatible"
    BY <1>3, <1>4
  <2> HIDE DEF direct
  <2>2. CASE ~HasHost(r)
    BY <1>2, <1>3, <1>4, <2>2 DEF t
  <2>3. CASE HasHost(r) /\ FromHost(r)
    <3> DEFINE m == Move(s, b, "host", b, "host")
    <3>1. t = Ok(m)
      BY <1>2, <1>4, <2>1, <2>3
    <3>2. Lands(s, m, b, "host", b, "host")
      BY <1>1, MoveLands DEF Sides
    <3> HIDE DEF m
    <3>3. Quiet(s, m) /\ m.buf = s.buf /\ m \in State /\ Only(s, m, b)
      BY <3>2 DEF Lands, Writes, Quiet, Only
    <3>4. Sound(m)
      BY <3>3, QuietSound
    <3>5. /\ m.content[b].known <=> s.content[b].known
          /\ m.content[b].known => (m.content[b].host <=> s.content[b].host)
          /\ m.content[b].device <=> s.content[b].device
      BY <3>2 DEF Lands, Sides, On
    <3>6. Fine(m, b)
      BY <3>3, <3>5 DEF Fine, FineOf
    <3>7. Keeps(s, m, b)
      BY <3>3, <3>4, <3>6 DEF Keeps
    <3>8. Keeps(m, Ok(m), b)
      BY <3>3, <3>4, ResultEffect, SameKeeps
    <3>9. Keeps(s, t, b)
      BY <3>1, <3>7, <3>8, KeepsTransitive
    <3>10. QED
      BY <3>9 DEF t
  <2>4. CASE HasHost(r) /\ ~FromHost(r) /\ FromDevice(r)
    <3>1. t = ImplCopy(s, r.interface, b, b, "host")
      BY <1>2, <1>4, <2>1, <2>4
    <3>2. PICK j \in Interfaces : j = r.interface
      BY <1>1, <2>4 DEF FromDevice, Sound, Linked, BufferStates
    <3>3. ~Refuses(s, j, b) /\ s.buf[b].deviceDirty
      BY <2>4, <3>2 DEF Refuses, FromHost
    <3>4. Copies(s, t, j, b, b, "host") /\ "host" \in Sides
      BY <1>1, <3>1, <3>2, ImplCopyCopies DEF Sides
    <3>5. Keeps(s, t, b)
      BY <3>3, <3>4, CopyOverKeeps
    <3>6. QED
      BY <3>5 DEF t
  <2>5. CASE HasHost(r) /\ ~FromHost(r) /\ ~FromDevice(r)
    BY <1>2, <1>3, <1>4, <2>1, <2>5 DEF t
  <2>6. QED
    BY <2>2, <2>3, <2>4, <2>5
<1>5. CASE i # None /\ FromDevice(r)
  <2>1. i \in Interfaces /\ ~Refuses(s, i, b)
    BY <1>5 DEF Refuses
  <2>2. direct = ImplCopy(s, i, b, b, "device")
    BY <1>5
  <2>3. Copies(s, direct, i, b, b, "device") /\ "device" \in Sides
    BY <1>1, <2>2, ImplCopyCopies DEF Sides
  <2> HIDE DEF direct
  <2>4. t = direct
    BY <1>2, <1>5, <2>1, <2>3 DEF Copies
  <2>5. From(s, i, b) = "host" => s.buf[b].hostDirty
    BY <1>5 DEF From, ReadsHost
  <2>6. Keeps(s, t, b)
    BY <2>1, <2>3, <2>4, <2>5, CopyOverKeeps
  <2>7. QED
    BY <2>6 DEF t
<1>6. CASE i # None /\ ~FromDevice(r)
  <2>1. i \in Interfaces /\ HasHost(r) /\ r.hostDirty /\ ~r.deviceDirty
    BY <1>6 DEF FromDevice, Fine, FineOf
  <2> DEFINE c == CopyToHostLocked(s, b)
             u == ImplCopy(c, i, b, b, "device")
  <2>2. t = CopyViaSource(s, b, i, b)
    BY <1>2, <1>3, <1>6, <2>1
  <2>3. CopyViaSource(s, b, i, b) = IF Succeeds(c) THEN u ELSE c
    BY Zenon DEF CopyViaSource
  <2>4. Brings(s, c, b)
    BY <2>1, CopyToHostLockedBrings
  <2> HIDE DEF c
  <2>5. Same(s, c) /\ c.result = "ok"
    BY <2>1, <2>4 DEF Brings
  <2>6. Sound(c) /\ c \in State /\ c.buf = s.buf /\ c.content = s.content /\ Fine(c, b) /\ Keeps(s, c, b)
    BY <2>4, <2>5 DEF Brings, Keeps, Same, Sound
  <2>7. Copies(c, u, i, b, b, "device") /\ "device" \in Sides
    BY <2>6, ImplCopyCopies DEF Sides
  <2> HIDE DEF u
  <2>8. ~Refuses(c, i, b) /\ c.buf[b].hostDirty /\ c.content[b].known
    BY <1>6, <2>1, <2>6 DEF Refuses
  <2>9. Keeps(c, u, b)
    BY <2>1, <2>6, <2>7, <2>8, CopyOverKeeps
  <2>10. Keeps(s, u, b)
    BY <2>6, <2>9, KeepsTransitive
  <2>11. t = u
    BY <2>2, <2>3, <2>5 DEF Succeeds
  <2>12. QED
    BY <2>10, <2>11 DEF t
<1>7. QED
  BY <1>4, <1>5, <1>6

\* All buffers are as their dirty bits say, and no view is dirty on the host.
Seen(s) == (\A b \in Buffers : Fine(s, b)) /\ (\A v \in Views : ~s.buf[v].hostDirty)

\* One call with one buffer.
LEMMA KeepsSeen ==
    ASSUME NEW s, NEW t, NEW b \in Buffers, Seen(s), Keeps(s, t, b)
    PROVE  Seen(t)
<1>1. \A c \in Buffers : c # b => Fine(t, c)
  BY DEF Seen, Keeps, Only, Fine, All
<1>2. Fine(t, b)
  BY DEF Seen, Keeps
<1>3. \A v \in Views : v # b /\ ~t.buf[v].hostDirty
  BY DeviceAssumption DEF Seen, Keeps, Only, All
<1>4. QED
  BY <1>1, <1>2, <1>3 DEF Seen

\* One call with one view.
LEMMA KeepsViewSeen ==
    ASSUME NEW s, NEW t, NEW v \in Views, Seen(s), KeepsView(s, t, v)
    PROVE  Seen(t)
<1>1. \A c \in Buffers : c # v /\ Fine(t, c)
  BY DeviceAssumption DEF Seen, KeepsView, Only, Fine, All
<1>2. \A w \in Views : ~t.buf[w].hostDirty
  BY DEF Seen, KeepsView, Only, All
<1>3. QED
  BY <1>1, <1>2 DEF Seen

\* A copy over a destination that is dirty, on the way to another interface.
Overwrites(s, src, i, dst) ==
    /\ i \notin {None, s.buf[src].interface} /\ FromDevice(s.buf[src])
    /\ HasHost(s.buf[dst]) /\ s.buf[dst].deviceDirty

\* Between two buffers: what has arrived is marked.
LEMMA ArrivesMarked ==
    ASSUME NEW s, NEW i \in Interfaces \union {None}, NEW src \in Buffers, NEW dst \in Buffers, src # dst,
           Seen(s), NEW m, Only(s, m, dst), NEW c, Arrives(m, c, src, i, dst),
           NEW t, t = IF Succeeds(c) THEN Marked(c, i, dst) ELSE c
    PROVE  Sound(t) /\ Seen(t)
<1>1. /\ Sound(c) /\ c \in State /\ Fine(c, src) /\ src \in All /\ dst \in All
      /\ src \notin Views /\ dst \notin Views
  BY DeviceAssumption DEF Arrives, Sound, All
<1>2. \A b \in All \ {src, dst} : c.buf[b] = s.buf[b] /\ c.content[b] = s.content[b]
  BY DEF Arrives, Only
<1>3. ASSUME Fine(c, dst) PROVE Seen(c)
  <2>1. \A b \in Buffers : Fine(c, b)
    BY <1>1, <1>2, <1>3 DEF Seen, Fine, All
  <2>2. \A v \in Views : ~c.buf[v].hostDirty
    BY <1>1, <1>2 DEF Seen, All
  <2>3. QED
    BY <2>1, <2>2 DEF Seen
<1>4. CASE c.result # "ok"
  <2>1. t = c
    BY <1>4 DEF Succeeds
  <2>2. Fine(c, dst)
    BY <1>4 DEF Arrives
  <2>3. QED
    BY <1>1, <1>3, <2>1, <2>2
<1>5. CASE c.result = "ok"
  <2> DEFINE u == Marked(c, i, dst)
  <2>1. t = u
    BY <1>5 DEF Succeeds
  <2>2. Marks(c, u, dst, c.buf[dst].host, i = None, i # None)
    BY <1>1, MarkedMarks
  <2> HIDE DEF u
  <2>3. /\ Quiet(c, u) /\ u.content = c.content /\ Only(c, u, dst)
        /\ u.buf[dst].host = c.buf[dst].host /\ u.buf[dst].device = c.buf[dst].device
        /\ (u.buf[dst].hostDirty <=> i = None) /\ (u.buf[dst].deviceDirty <=> i # None)
    BY <1>1, <2>2 DEF Marks, Quiet, Only
  <2>4. Sound(u)
    BY <1>1, <2>3, QuietSound
  <2>5. Fine(u, dst)
    BY <1>5, <2>3 DEF Arrives, Fine, FineOf
  <2>6. \A b \in Buffers : Fine(u, b)
    <3>1. \A b \in Buffers : b \notin {src, dst} => Fine(u, b)
      BY <1>2, <2>3 DEF Seen, Fine, Only, All
    <3>2. Fine(u, src)
      BY <1>1, <2>3 DEF Fine, Only
    <3>3. QED
      BY <2>5, <3>1, <3>2
  <2>7. \A v \in Views : ~u.buf[v].hostDirty
    BY <1>1, <1>2, <2>3 DEF Seen, Only, All
  <2>8. QED
    BY <2>1, <2>4, <2>6, <2>7 DEF Seen
<1>6. QED
  BY <1>4, <1>5

\* halide_buffer_copy_already_locked
LEMMA BufferCopyLockedSeen ==
    ASSUME NEW s, Sound(s), Seen(s), NEW i \in Interfaces \union {None}, NEW src \in Buffers, NEW dst \in Buffers,
           s.content[src].known, src = dst => AnnouncedIn(s, dst), ~Overwrites(s, src, i, dst)
    PROVE  Sound(BufferCopyLocked(s, src, i, dst)) /\ Seen(BufferCopyLocked(s, src, i, dst))
<1> DEFINE m == IF i # None /\ s.buf[dst].device = Null THEN DeviceMalloc(s, dst, i) ELSE Ok(s)
           c == Transfer(m, src, i, dst)
           t == BufferCopyLocked(s, src, i, dst)
<1>1. s \in State /\ src \in All /\ dst \in All /\ Fine(s, src) /\ Fine(s, dst)
  BY DEF Sound, All, Seen
<1>2. t = IF i # None /\ ~MayUse(s, dst, i) THEN Incompatible(s)
          ELSE IF ~Succeeds(m) THEN m
          ELSE IF Succeeds(c) /\ dst # src THEN Marked(c, i, dst) ELSE c
  BY Zenon DEF BufferCopyLocked
<1>3. Keeps(s, Incompatible(s), dst) /\ Keeps(s, Ok(s), dst)
  BY <1>1, ResultEffect, SameKeeps
<1>4. CASE i # None /\ ~MayUse(s, dst, i)
  BY <1>2, <1>3, <1>4, KeepsSeen DEF Keeps
<1> HIDE DEF t
<1>5. CASE ~(i # None /\ ~MayUse(s, dst, i))
  <2>1. s.buf[dst].device # Null /\ i # None => s.buf[dst].interface = i
    BY <1>1, <1>5 DEF MayUse, Sound, Linked
  <2>2. /\ Sound(m) /\ Only(s, m, dst) /\ m.content = s.content
        /\ m.buf[dst].host = s.buf[dst].host
        /\ (m.buf[dst].hostDirty <=> s.buf[dst].hostDirty) /\ (m.buf[dst].deviceDirty <=> s.buf[dst].deviceDirty)
    <3>1. CASE i # None /\ s.buf[dst].device = Null
      <4>1. i \in Interfaces /\ m = DeviceMalloc(s, dst, i)
        BY <3>1
      <4> HIDE DEF m
      <4>2. Mallocs(s, m, dst, i)
        BY <4>1, DeviceMallocMallocs
      <4>3. QED
        BY <1>1, <4>1, <4>2, MallocsFacts
    <3>2. CASE ~(i # None /\ s.buf[dst].device = Null)
      <4>1. m = Ok(s)
        BY <3>2
      <4>2. Same(s, m) /\ Sound(m)
        BY <1>1, <4>1, ResultEffect, SameSound
      <4>3. QED
        BY <4>2 DEF Same, Only
    <3>3. QED
      BY <3>1, <3>2
  <2>3. /\ i # None /\ m.result = "ok" => m.buf[dst].device # Null /\ m.buf[dst].interface = i
        /\ m.result # "ok" \/ i = None => m.buf = s.buf
        /\ s.buf[dst].device # Null => m.buf = s.buf
    <3>1. CASE i # None /\ s.buf[dst].device = Null
      <4>1. i \in Interfaces /\ m = DeviceMalloc(s, dst, i)
        BY <3>1
      <4> HIDE DEF m
      <4>2. Mallocs(s, m, dst, i)
        BY <4>1, DeviceMallocMallocs
      <4>3. m.result # "ok" => m.buf = s.buf
        BY <4>2 DEF Mallocs
      <4>4. m.result = "ok" => m.buf[dst].device # Null
        BY <1>1, <4>1, <4>2, MallocsHas
      <4>5. m.buf[dst].device # Null => m.buf[dst].interface = i
        BY <1>1, <3>1, <4>1, <4>2, MallocsGives
      <4>6. QED
        BY <3>1, <4>3, <4>4, <4>5
    <3>2. CASE ~(i # None /\ s.buf[dst].device = Null)
      <4>1. m = Ok(s)
        BY <3>2
      <4>2. Same(s, m)
        BY <1>1, <4>1, ResultEffect
      <4>3. QED
        BY <2>1, <3>2, <4>2 DEF Same
    <3>3. QED
      BY <3>1, <3>2
  <2> HIDE DEF m
  <2>4. CASE m.result # "ok"
    <3>1. t = m
      BY <1>2, <1>5, <2>4 DEF Succeeds
    <3>2. Keeps(s, m, dst)
      BY <2>2, <2>3, <2>4 DEF Keeps, Fine
    <3>3. QED
      BY <3>1, <3>2, KeepsSeen DEF Keeps, t
  <2>5. CASE m.result = "ok" /\ src = dst
    <3>1. Keeps(s, m, dst)
      <4>1. Fine(m, dst)
        BY <1>1, <2>2, <2>3, <2>5 DEF Fine, FineOf, AnnouncedIn
      <4>2. QED
        BY <2>2, <4>1 DEF Keeps
    <3>2. Fine(m, dst) /\ m.content[dst].known
      BY <1>1, <2>2, <2>5, <3>1 DEF Keeps
    <3>3. Keeps(m, c, dst)
      BY <2>2, <2>3, <2>5, <3>2, TransferOverKeeps
    <3> HIDE DEF c
    <3>4. Keeps(s, c, dst)
      BY <3>1, <3>3, KeepsTransitive
    <3>5. t = c
      BY <1>2, <1>5, <2>5 DEF Succeeds
    <3>6. QED
      BY <3>4, <3>5, KeepsSeen DEF Keeps, t
  <2>6. CASE m.result = "ok" /\ src # dst
    <3>1. m.buf[src] = s.buf[src] /\ Fine(m, src) /\ m.content[src].known
      BY <1>1, <2>2, <2>6 DEF Only, Fine
    <3>2. Half(m, dst)
      BY <1>1, <2>2, <2>3 DEF Half, Fine, FineOf
    <3>3. i = None => Fine(m, dst)
      BY <1>1, <2>2, <2>3 DEF Fine
    <3>4. i # None => m.buf[dst].device # Null
      BY <2>3, <2>6
    <3>5. i # None /\ i # m.buf[src].interface /\ FromDevice(m.buf[src]) /\ HasHost(m.buf[dst])
             => ~m.buf[dst].deviceDirty
      BY <2>2, <3>1 DEF Overwrites, HasHost
    <3>6. Arrives(m, c, src, i, dst)
      BY <2>2, <2>6, <3>1, <3>2, <3>3, <3>4, <3>5, TransferArrives
    <3> HIDE DEF c
    <3>7. t = IF Succeeds(c) THEN Marked(c, i, dst) ELSE c
      BY <1>2, <1>5, <2>6 DEF Succeeds
    <3>8. Sound(t) /\ Seen(t)
      BY <2>2, <2>6, <3>6, <3>7, ArrivesMarked
    <3>9. QED
      BY <3>8 DEF t
  <2>7. QED
    BY <2>4, <2>5, <2>6
<1>6. QED
  BY <1>4, <1>5

\* The memory is sound whatever is copied where.
LEMMA CopySound ==
    ASSUME NEW s, Sound(s), NEW i, NEW src \in Buffers, NEW dst \in Buffers, NEW to \in Sides
    PROVE  Sound(ImplCopy(s, i, src, dst, to))
<1> DEFINE t == ImplCopy(s, i, src, dst, to)
<1>1. Copies(s, t, i, src, dst, to)
  BY ImplCopyCopies DEF Sound
<1> HIDE DEF t
<1>2. Same(s, t) \/ Quiet(s, t)
  BY <1>1 DEF Copies, Tears, Lands, Writes
<1>3. Sound(t)
  BY <1>2, SameSound, QuietSound
<1>4. QED
  BY <1>3 DEF t

\* The same for the operators that set dirty bits and results.
LEMMA MarksBySound ==
    ASSUME NEW s, Sound(s), NEW b \in All, NEW i
    PROVE  /\ Sound(DeviceClean(s, b)) /\ Sound(HostDirty(s, b)) /\ HostDirty(s, b).buf[b].hostDirty
           /\ Sound(Marked(s, i, b))
           /\ Sound(Error(s)) /\ Sound(Incompatible(s)) /\ Sound(Ok(s))
<1>1. s \in State
  BY DEF Sound
<1>2. Quiet(s, DeviceClean(s, b))
  BY <1>1, DeviceCleanMarks DEF Marks
<1>3. Quiet(s, HostDirty(s, b)) /\ HostDirty(s, b).buf[b].hostDirty
  BY <1>1, HostDirtyMarks DEF Marks
<1>4. Quiet(s, Marked(s, i, b))
  BY <1>1, MarkedMarks DEF Marks
<1>5. Same(s, Error(s)) /\ Same(s, Incompatible(s)) /\ Same(s, Ok(s))
  BY <1>1, ResultEffect
<1>6. QED
  BY <1>2, <1>3, <1>4, <1>5, QuietSound, SameSound

\* The memory is sound whichever way is taken.
LEMMA TransferSound ==
    ASSUME NEW s, Sound(s), NEW i \in Interfaces \union {None}, NEW src \in Buffers, NEW dst \in Buffers
    PROVE  Sound(Transfer(s, src, i, dst))
<1>1. src \in All /\ dst \in All /\ "host" \in Sides /\ "device" \in Sides
  BY DEF All, Sides
<1>2. Sound(CopyToHostLocked(s, src))
  <2> DEFINE c == ImplCopy(s, s.buf[src].interface, src, src, "host")
  <2>1. Sound(c)
    BY <1>1, CopySound
  <2>2. CopyToHostLocked(s, src) \in {Ok(s), Error(s), DeviceClean(c, src), Error(c)}
    BY DEF CopyToHostLocked
  <2> HIDE DEF c
  <2>3. QED
    BY <1>1, <2>1, <2>2, MarksBySound
<1>3. Sound(CopyViaSource(s, src, i, dst))
  <2> DEFINE c == CopyToHostLocked(s, src)
  <2>1. Sound(ImplCopy(c, i, src, dst, "device"))
    BY <1>1, <1>2, CopySound
  <2>2. CopyViaSource(s, src, i, dst) \in {c, ImplCopy(c, i, src, dst, "device")}
    BY DEF CopyViaSource
  <2> HIDE DEF c
  <2>3. QED
    BY <1>2, <2>1, <2>2 DEF c
<1>4. Sound(CopyViaDestination(s, src, i, dst))
  <2> DEFINE c == ImplCopy(s, s.buf[src].interface, src, dst, "host")
             u == CopyToDeviceLocked(HostDirty(c, dst), dst, i)
  <2>1. Sound(c)
    BY <1>1, CopySound
  <2>2. CopyViaDestination(s, src, i, dst) \in {c, u}
    BY DEF CopyViaDestination, HostDirty
  <2> HIDE DEF c
  <2>3. Sound(HostDirty(c, dst)) /\ AnnouncedIn(HostDirty(c, dst), dst)
    BY <1>1, <2>1, MarksBySound DEF AnnouncedIn
  <2>4. Sound(u)
    BY <2>3, CopyToDeviceLockedUploads DEF Uploads, Keeps
  <2> HIDE DEF u
  <2>5. QED
    BY <2>1, <2>2, <2>4
<1>5. Sound(Ok(Move(s, src, "host", dst, "host")))
  <2>1. Lands(s, Move(s, src, "host", dst, "host"), src, "host", dst, "host")
    BY <1>1, MoveLands DEF Sound
  <2>2. Sound(Move(s, src, "host", dst, "host"))
    BY <2>1, QuietSound DEF Lands, Writes
  <2>3. QED
    BY <1>1, <2>2, MarksBySound
<1>6. Sound(ImplCopy(s, i, src, dst, "device")) /\ Sound(ImplCopy(s, s.buf[src].interface, src, dst, "host"))
  BY <1>1, CopySound
<1>7. Sound(Error(s)) /\ Sound(Incompatible(s))
  BY <1>1, MarksBySound
<1>8. Transfer(s, src, i, dst) \in
        {Error(s), Incompatible(s), ImplCopy(s, i, src, dst, "device"), Ok(Move(s, src, "host", dst, "host")),
         ImplCopy(s, s.buf[src].interface, src, dst, "host"),
         CopyViaDestination(s, src, i, dst), CopyViaSource(s, src, i, dst)}
  BY DEF Transfer
<1>9. QED
  BY <1>3, <1>4, <1>5, <1>6, <1>7, <1>8

\* The memory is sound, over whatever destination.
LEMMA BufferCopyLockedSound ==
    ASSUME NEW s, Sound(s), NEW i \in Interfaces \union {None}, NEW src \in Buffers, NEW dst \in Buffers
    PROVE  Sound(BufferCopyLocked(s, src, i, dst))
<1> DEFINE m == IF i # None /\ s.buf[dst].device = Null THEN DeviceMalloc(s, dst, i) ELSE Ok(s)
           c == Transfer(m, src, i, dst)
<1>1. dst \in All
  BY DEF All
<1>2. Sound(m)
  <2>1. i # None => Sound(DeviceMalloc(s, dst, i))
    BY DeviceMallocMallocs DEF Mallocs
  <2>2. Sound(Ok(s))
    BY <1>1, MarksBySound
  <2>3. QED
    BY <2>1, <2>2
<1>3. BufferCopyLocked(s, src, i, dst) \in {Incompatible(s), m, Marked(c, i, dst), c}
  BY DEF BufferCopyLocked
<1> HIDE DEF m
<1>4. Sound(c)
  BY <1>2, TransferSound
<1> HIDE DEF c
<1>5. Sound(Incompatible(s)) /\ Sound(Marked(c, i, dst))
  BY <1>1, <1>4, MarksBySound
<1>6. QED
  BY <1>2, <1>3, <1>4, <1>5

-----------------------------------------------------------------------------
(* The steps of the module *)

\* The lists of the interfaces of I are emptied, and their memory goes back to the driver.
Emptied(s, t, I) ==
    /\ t \in State
    /\ t.buf = s.buf /\ t.origin = s.origin /\ t.content = s.content
    /\ t.uses = s.uses /\ t.refused = s.refused
    /\ t.list = [i \in Interfaces |-> IF i \in I THEN <<>> ELSE s.list[i]]
    /\ t.memory = [p \in DeviceMemory |->
                      IF \E i \in I : \E k \in DOMAIN s.list[i] : s.list[i][k].ptr = p THEN 0 ELSE s.memory[p]]

\* The memory is sound, and large enough where reuse is not turned on for memory of the
\* exact size.
LEMMA EmptiedSound ==
    ASSUME NEW s, NEW t, NEW I \in SUBSET Interfaces, Sound(s), Emptied(s, t, I),
           \/ MayMixSizes
           \/ \A b \in Buffers : s.buf[b].device # Null /\ Pools(t, s.buf[b].interface) => Pools(s, s.buf[b].interface)
    PROVE  Sound(t)
<1>1. s \in State /\ t \in State /\ Owned(s)
  BY DEF Sound, Emptied
<1>2. \A j \in Interfaces : \A k \in DOMAIN t.list[j] :
        j \notin I /\ k \in DOMAIN s.list[j] /\ t.list[j][k] = s.list[j][k]
  <2>1. DOMAIN <<>> = {}
    OBVIOUS
  <2>2. QED
    BY <2>1 DEF Emptied
<1>3. \A j \in Interfaces : j \notin I => t.list[j] = s.list[j]
  BY DEF Emptied
<1>4. \A p \in DeviceMemory :
        \/ t.memory[p] = s.memory[p] /\ ~ \E j \in I : \E k \in DOMAIN s.list[j] : s.list[j][k].ptr = p
        \/ t.memory[p] = 0 /\ \E j \in I : \E k \in DOMAIN s.list[j] : s.list[j][k].ptr = p
  BY DEF Emptied
<1>5. \A b \in Buffers : s.buf[b].device \in DeviceMemory => t.memory[s.buf[b].device] = s.memory[s.buf[b].device]
  BY <1>1, <1>4 DEF Owned, NotInListAndBuffer
<1>6. \A j \in Interfaces : \A k \in DOMAIN t.list[j] :
        s.list[j][k].ptr \in DeviceMemory /\ t.memory[s.list[j][k].ptr] = s.memory[s.list[j][k].ptr]
  <2> SUFFICES ASSUME NEW j \in Interfaces, NEW k \in DOMAIN t.list[j]
               PROVE  s.list[j][k].ptr \in DeviceMemory /\ t.memory[s.list[j][k].ptr] = s.memory[s.list[j][k].ptr]
    OBVIOUS
  <2>1. j \notin I /\ k \in DOMAIN s.list[j] /\ s.list[j][k].ptr \in DeviceMemory
    BY <1>1, <1>2, ListHas
  <2>2. \A i \in I : \A l \in DOMAIN s.list[i] : s.list[i][l].ptr # s.list[j][k].ptr
    BY <1>1, <2>1 DEF Owned, NotTwiceInLists
  <2>3. QED
    BY <1>4, <2>1, <2>2
<1>7. Linked(t) /\ Balanced(t) /\ Cropped(t) /\ Told(t) /\ NotInTwoBuffers(t)
  <2>1. \A j \in Interfaces : UsersOf(t, j) = UsersOf(s, j)
    BY DEF Emptied, UsersOf
  <2>2. QED
    BY <2>1 DEF Emptied, Sound, Linked, Balanced, Cropped, Told, Owned, NotInTwoBuffers
<1>8. Roomy(t)
  <2>1. Null \notin DeviceMemory
    BY DeviceAssumption DEF Null
  <2>2. t.buf = s.buf
    BY DEF Emptied
  <2>3. CASE MayMixSizes
    BY <1>1, <1>5, <2>2, <2>3 DEF Owned, Roomy, Large
  <2>4. CASE ~MayMixSizes
    BY <1>1, <1>5, <2>1, <2>2, <2>4 DEF Owned, Roomy
  <2>5. QED
    BY <2>3, <2>4
<1>9. Listed(t)
  BY <1>1, <1>2, <1>6 DEF Owned, Listed
<1>10. NotInListAndBuffer(t) /\ NotTwiceInLists(t)
  BY <1>1, <1>2 DEF Emptied, Owned, NotInListAndBuffer, NotTwiceInLists
<1>11. NoneLost(t)
  <2> SUFFICES ASSUME NEW p \in DeviceMemory, t.memory[p] > 0
               PROVE  \/ \E b \in Buffers : t.buf[b].device = p
                      \/ \E j \in Interfaces : \E k \in DOMAIN t.list[j] : t.list[j][k].ptr = p
    BY DEF NoneLost
  <2>1. s.memory[p] > 0 /\ ~ \E j \in I : \E k \in DOMAIN s.list[j] : s.list[j][k].ptr = p
    BY <1>4
  <2>2. CASE \E b \in Buffers : s.buf[b].device = p
    BY <2>2 DEF Emptied
  <2>3. CASE \E j \in Interfaces : \E k \in DOMAIN s.list[j] : s.list[j][k].ptr = p
    BY <1>3, <2>1, <2>3
  <2>4. QED
    BY <1>1, <2>1, <2>2, <2>3 DEF Owned, NoneLost
<1>12. QED
  BY <1>1, <1>7, <1>8, <1>9, <1>10, <1>11 DEF Sound, Owned

\* What the variables say, with the driver to fail in its n-th call.
Here(n) ==
    [buf |-> buf, origin |-> origin, content |-> content, memory |-> memory, list |-> list,
     uses |-> uses, refused |-> refused, reuse |-> reuse, fuse |-> n, result |-> "ok"]

\* The variables become what a call has made of them.
Becoming(s) ==
    /\ buf' = s.buf /\ origin' = s.origin /\ content' = s.content
    /\ memory' = s.memory /\ list' = s.list /\ uses' = s.uses /\ refused' = s.refused
    /\ reuse' = s.reuse

\* The inductive invariants.
MemoryInv == Sound(Here(0))
ContentInv == Seen(Here(0))

\* The fuse makes no difference.
LEMMA AnyFuse ==
    ASSUME NEW n \in Nat, MemoryInv
    PROVE  Sound(Here(n)) /\ (ContentInv => Seen(Here(n)))
<1>1. Sound(Here(0)) /\ Here(0) \in State
  BY DEF MemoryInv, Sound
<1>2. Same(Here(0), Here(n))
  BY <1>1 DEF Same, Here, State
<1>3. Sound(Here(n))
  BY <1>1, <1>2, SameSound
<1>4. ContentInv => Seen(Here(n))
  BY DEF ContentInv, Seen, Fine, Here
<1>5. QED
  BY <1>3, <1>4

\* A call keeps the invariants, as it does of the state it is given.
LEMMA BecomingInv ==
    ASSUME NEW s, Sound(s), Becoming(s)
    PROVE  MemoryInv' /\ (Seen(s) => ContentInv')
<1> DEFINE t == [buf |-> s.buf, origin |-> s.origin, content |-> s.content, memory |-> s.memory, list |-> s.list,
                 uses |-> s.uses, refused |-> s.refused, reuse |-> s.reuse, fuse |-> 0, result |-> "ok"]
<1>1. s \in State
  BY DEF Sound
<1>2. t \in State
  BY <1>1 DEF State, Results
<1>3. Same(s, t)
  BY <1>2 DEF Same
<1>4. Sound(t) /\ (Seen(s) => Seen(t))
  <2>1. Sound(t)
    BY <1>3, SameSound
  <2>2. Seen(s) => Seen(t)
    BY DEF Seen, Fine
  <2>3. QED
    BY <2>1, <2>2
<1>5. Here(0)' = t
  BY DEF Here, Becoming
<1> HIDE DEF t
<1>6. QED
  BY <1>4, <1>5 DEF MemoryInv, ContentInv

\* A call with b that keeps its content to its dirty bits.
LEMMA CallKeeps ==
    ASSUME NEW n \in Nat, MemoryInv, NEW b \in Buffers, NEW s, Keeps(Here(n), s, b), Becoming(s)
    PROVE  MemoryInv' /\ (ContentInv => ContentInv')
<1>1. Sound(s)
  BY DEF Keeps
<1>2. ContentInv => Seen(s)
  BY AnyFuse, KeepsSeen
<1>3. QED
  BY <1>1, <1>2, BecomingInv

\* The same for a call with a view.
LEMMA CallKeepsView ==
    ASSUME NEW n \in Nat, MemoryInv, NEW v \in Views, NEW s, KeepsView(Here(n), s, v), Becoming(s)
    PROVE  MemoryInv' /\ (ContentInv => ContentInv')
<1>1. Sound(s)
  BY DEF KeepsView
<1>2. ContentInv => Seen(s)
  BY AnyFuse, KeepsViewSeen
<1>3. QED
  BY <1>1, <1>2, BecomingInv

\* The calls with one buffer.
LEMMA BufferSteps ==
    ASSUME MemoryInv, NEW b \in Buffers,
           \/ HalideCopyToHost(b) \/ HalideDeviceFree(b) \/ HalideDeviceAndHostFree(b) \/ HalideDeviceDetachNative(b)
    PROVE  MemoryInv' /\ (ContentInv => ContentInv')
<1>1. \A n \in 0 .. MaxFuse : n \in Nat /\ Sound(Here(n))
  BY DeviceAssumption, AnyFuse
<1>2. NotCropped(b) => \A n \in Nat : NoCropOf(Here(n), b)
  BY DEF NotCropped, NoCropOf, Here
<1>3. \A n \in Nat : Here(n).buf = buf /\ Here(n).origin = origin
  BY DEF Here
<1>4. CASE HalideCopyToHost(b)
  <2>1. \E n \in 0 .. MaxFuse : Becoming(CopyToHost(Here(n), b))
    BY <1>4, Zenon DEF HalideCopyToHost, Call, Here, Becoming
  <2>2. PICK n \in 0 .. MaxFuse : Becoming(CopyToHost(Here(n), b))
    BY <2>1
  <2>3. Keeps(Here(n), CopyToHost(Here(n), b), b)
    BY <1>1, <1>3, <1>4, CopyToHostKeeps DEF HalideCopyToHost
  <2>4. QED
    BY <1>1, <2>2, <2>3, CallKeeps
<1>5. CASE HalideDeviceFree(b)
  <2>1. \E n \in 0 .. MaxFuse : Becoming(DeviceFree(Here(n), b))
    BY <1>5, Zenon DEF HalideDeviceFree, Call, Here, Becoming
  <2>2. PICK n \in 0 .. MaxFuse : Becoming(DeviceFree(Here(n), b))
    BY <2>1
  <2>3. Keeps(Here(n), DeviceFree(Here(n), b), b)
    BY <1>1, <1>2, <1>3, <1>5, DeviceFreeKeeps DEF HalideDeviceFree
  <2>4. QED
    BY <1>1, <2>2, <2>3, CallKeeps
<1>6. CASE HalideDeviceAndHostFree(b)
  <2>1. \E n \in 0 .. MaxFuse : Becoming(DeviceAndHostFree(Here(n), b))
    BY <1>6, Zenon DEF HalideDeviceAndHostFree, Call, Here, Becoming
  <2>2. PICK n \in 0 .. MaxFuse : Becoming(DeviceAndHostFree(Here(n), b))
    BY <2>1
  <2>3. Keeps(Here(n), DeviceAndHostFree(Here(n), b), b)
    BY <1>1, <1>2, <1>3, <1>6, DeviceAndHostFreeKeeps DEF HalideDeviceAndHostFree
  <2>4. QED
    BY <1>1, <2>2, <2>3, CallKeeps
<1>7. CASE HalideDeviceDetachNative(b)
  <2>1. \E n \in 0 .. MaxFuse : Becoming(DetachNative(Here(n), b))
    BY <1>7, Zenon DEF HalideDeviceDetachNative, Call, Here, Becoming
  <2>2. PICK n \in 0 .. MaxFuse : Becoming(DetachNative(Here(n), b))
    BY <2>1
  <2>3. Keeps(Here(n), DetachNative(Here(n), b), b)
    BY <1>1, <1>2, <1>3, <1>7, DetachNativeKeeps DEF HalideDeviceDetachNative
  <2>4. QED
    BY <1>1, <2>2, <2>3, CallKeeps
<1>8. QED
  BY <1>4, <1>5, <1>6, <1>7

\* The calls that give a buffer memory.
LEMMA MallocSteps ==
    ASSUME MemoryInv, NEW b \in Buffers, NEW i \in Interfaces,
           HalideDeviceMalloc(b, i) \/ HalideDeviceAndHostMalloc(b, i)
    PROVE  MemoryInv' /\ (ContentInv => ContentInv')
<1>1. \A n \in 0 .. MaxFuse : n \in Nat /\ Sound(Here(n))
  BY DeviceAssumption, AnyFuse
<1>2. \A n \in Nat : Here(n).buf = buf
  BY DEF Here
<1>3. CASE HalideDeviceMalloc(b, i)
  <2>1. \E n \in 0 .. MaxFuse : Becoming(DeviceMalloc(Here(n), b, i))
    BY <1>3, Zenon DEF HalideDeviceMalloc, Call, Here, Becoming
  <2>2. PICK n \in 0 .. MaxFuse : Becoming(DeviceMalloc(Here(n), b, i))
    BY <2>1
  <2>3. AnnouncedIn(Here(n), b)
    BY <1>3 DEF HalideDeviceMalloc, Announced, AnnouncedIn, Here
  <2>4. Mallocs(Here(n), DeviceMalloc(Here(n), b, i), b, i) /\ b \in All
    BY <1>1, DeviceMallocMallocs DEF All
  <2>5. Keeps(Here(n), DeviceMalloc(Here(n), b, i), b)
    BY <1>1, <2>3, <2>4, MallocsKeeps
  <2>6. QED
    BY <1>1, <2>2, <2>5, CallKeeps
<1>4. CASE HalideDeviceAndHostMalloc(b, i)
  <2>1. \E n \in 0 .. MaxFuse : Becoming(DeviceAndHostMalloc(Here(n), b, i))
    BY <1>4, Zenon DEF HalideDeviceAndHostMalloc, Call, Here, Becoming
  <2>2. PICK n \in 0 .. MaxFuse : Becoming(DeviceAndHostMalloc(Here(n), b, i))
    BY <2>1
  <2>3. Keeps(Here(n), DeviceAndHostMalloc(Here(n), b, i), b)
    BY <1>1, <1>2, <1>4, DeviceAndHostMallocKeeps DEF HalideDeviceAndHostMalloc
  <2>4. QED
    BY <1>1, <2>2, <2>3, CallKeeps
<1>5. QED
  BY <1>3, <1>4

\* halide_copy_to_device
LEMMA CopyToDeviceStep ==
    ASSUME MemoryInv, NEW b \in Buffers, NEW i \in Interfaces \union {None}, HalideCopyToDevice(b, i)
    PROVE  MemoryInv' /\ (ContentInv => ContentInv')
<1>1. \A n \in 0 .. MaxFuse : n \in Nat /\ Sound(Here(n))
  BY DeviceAssumption, AnyFuse
<1>2. \E n \in 0 .. MaxFuse : Becoming(CopyToDeviceLocked(Here(n), b, i))
  BY Zenon DEF HalideCopyToDevice, Call, Here, Becoming
<1>3. PICK n \in 0 .. MaxFuse : Becoming(CopyToDeviceLocked(Here(n), b, i))
  BY <1>2
<1>4. AnnouncedIn(Here(n), b)
  BY DEF HalideCopyToDevice, Announced, AnnouncedIn, Here
<1>5. Keeps(Here(n), CopyToDeviceLocked(Here(n), b, i), b)
  BY <1>1, <1>4, CopyToDeviceLockedUploads DEF Uploads
<1>6. QED
  BY <1>1, <1>3, <1>5, CallKeeps

\* halide_device_wrap_native
LEMMA WrapNativeStep ==
    ASSUME MemoryInv, NEW b \in Buffers, NEW h \in NativeMemory, NEW i \in Interfaces, HalideDeviceWrapNative(b, h, i)
    PROVE  MemoryInv' /\ (ContentInv => ContentInv')
<1>1. \A n \in 0 .. MaxFuse : n \in Nat /\ Sound(Here(n))
  BY DeviceAssumption, AnyFuse
<1>2. \E n \in 0 .. MaxFuse : Becoming(WrapNative(Here(n), b, h, i))
  BY Zenon DEF HalideDeviceWrapNative, Call, Here, Becoming
<1>3. PICK n \in 0 .. MaxFuse : Becoming(WrapNative(Here(n), b, h, i))
  BY <1>2
<1>4. AnnouncedIn(Here(n), b) /\ Here(n).buf[b].device = Null
  BY DEF HalideDeviceWrapNative, Announced, AnnouncedIn, Here
<1>5. Keeps(Here(n), WrapNative(Here(n), b, h, i), b)
  BY <1>1, <1>4, WrapNativeKeeps
<1>6. QED
  BY <1>1, <1>3, <1>5, CallKeeps

\* The calls that make and release a crop.
LEMMA ViewSteps ==
    ASSUME MemoryInv, NEW v \in Views,
           HalideDeviceReleaseCrop(v) \/ \E b \in Buffers : HalideDeviceCrop(b, v)
    PROVE  MemoryInv' /\ (ContentInv => ContentInv')
<1>1. \A n \in 0 .. MaxFuse : n \in Nat /\ Sound(Here(n))
  BY DeviceAssumption, AnyFuse
<1>2. CASE HalideDeviceReleaseCrop(v)
  <2>1. \E n \in 0 .. MaxFuse : Becoming(ReleaseCrop(Here(n), v))
    BY <1>2, Zenon DEF HalideDeviceReleaseCrop, Call, Here, Becoming
  <2>2. PICK n \in 0 .. MaxFuse : Becoming(ReleaseCrop(Here(n), v))
    BY <2>1
  <2>3. KeepsView(Here(n), ReleaseCrop(Here(n), v), v)
    BY <1>1, ReleaseCropKeepsView
  <2>4. QED
    BY <1>1, <2>2, <2>3, CallKeepsView
<1>3. ASSUME NEW b \in Buffers, HalideDeviceCrop(b, v)
      PROVE  MemoryInv' /\ (ContentInv => ContentInv')
  <2>1. \E n \in 0 .. MaxFuse : Becoming(DeviceCrop(Here(n), b, v))
    BY <1>3, Zenon DEF HalideDeviceCrop, Call, Here, Becoming
  <2>2. PICK n \in 0 .. MaxFuse : Becoming(DeviceCrop(Here(n), b, v))
    BY <2>1
  <2>3. KeepsView(Here(n), DeviceCrop(Here(n), b, v), v)
    BY <1>1, DeviceCropKeepsView
  <2>4. QED
    BY <1>1, <2>2, <2>3, CallKeepsView
<1>4. QED
  BY <1>2, <1>3

\* A copy over a dirty destination keeps the memory, but not the content.
LEMMA BufferCopyStep ==
    ASSUME MemoryInv, NEW i \in Interfaces \union {None}, NEW src \in Buffers, NEW dst \in Buffers,
           HalideBufferCopy(src, i, dst)
    PROVE  MemoryInv' /\ (ContentInv /\ ~MayOverwriteDirty => ContentInv')
<1>1. \A n \in 0 .. MaxFuse : n \in Nat /\ Sound(Here(n)) /\ (ContentInv => Seen(Here(n)))
  BY DeviceAssumption, AnyFuse
<1>2. \E n \in 0 .. MaxFuse : Becoming(BufferCopyLocked(Here(n), src, i, dst))
  BY Zenon DEF HalideBufferCopy, Call, Here, Becoming
<1>3. PICK n \in 0 .. MaxFuse : Becoming(BufferCopyLocked(Here(n), src, i, dst))
  BY <1>2
<1>4. Sound(BufferCopyLocked(Here(n), src, i, dst))
  BY <1>1, BufferCopyLockedSound
<1>5. /\ Here(n).content[src].known /\ (src = dst => AnnouncedIn(Here(n), dst))
      /\ ~MayOverwriteDirty => ~Overwrites(Here(n), src, i, dst)
  BY DEF HalideBufferCopy, OverwritesDirty, Overwrites, Announced, AnnouncedIn, Here
<1>6. ContentInv /\ ~MayOverwriteDirty => Seen(BufferCopyLocked(Here(n), src, i, dst))
  BY <1>1, <1>5, BufferCopyLockedSeen
<1>7. QED
  BY <1>3, <1>4, <1>6, BecomingInv

\* halide_cuda_device_release
LEMMA ReleaseStep ==
    ASSUME MemoryInv, NEW i \in Interfaces, HalideDeviceRelease(i)
    PROVE  MemoryInv' /\ (ContentInv => ContentInv')
<1>1. \A n \in 0 .. MaxFuse : n \in Nat /\ Sound(Here(n)) /\ (ContentInv => Seen(Here(n)))
  BY DeviceAssumption, AnyFuse
<1>2. \E n \in 0 .. MaxFuse : Becoming(ReleaseUnused(Here(n), i))
  BY Zenon DEF HalideDeviceRelease, Call, Here, Becoming
<1>3. PICK n \in 0 .. MaxFuse : Becoming(ReleaseUnused(Here(n), i))
  BY <1>2
<1>4. Trims(Here(n), ReleaseUnused(Here(n), i))
  BY <1>1, ReleaseUnusedTrims
<1>5. Sound(ReleaseUnused(Here(n), i)) /\ (ContentInv => Seen(ReleaseUnused(Here(n), i)))
  BY <1>1, <1>4 DEF Trims, Seen, Fine
<1>6. QED
  BY <1>3, <1>5, BecomingInv

\* halide_reuse_device_allocations
LEMMA ReuseStep ==
    ASSUME MemoryInv, NEW flag \in BOOLEAN, HalideReuseDeviceAllocations(flag)
    PROVE  MemoryInv' /\ (ContentInv => ContentInv')
<1> DEFINE I == {i \in Pooled : ~flag}
           L == [i \in Interfaces |-> IF i \in I THEN <<>> ELSE list[i]]
           M == [p \in DeviceMemory |->
                    IF \E i \in I : \E k \in DOMAIN list[i] : list[i][k].ptr = p THEN 0 ELSE memory[p]]
           t == [buf |-> buf, origin |-> origin, content |-> content, memory |-> M, list |-> L,
                 uses |-> uses, refused |-> refused, reuse |-> flag, fuse |-> 0, result |-> "ok"]
<1>1. Sound(Here(0)) /\ Here(0) \in State /\ I \in SUBSET Interfaces
  BY DeviceAssumption DEF MemoryInv, Sound
<1>2. list' = L /\ memory' = M /\ reuse' = flag
  BY Zenon DEF HalideReuseDeviceAllocations
<1>3. Becoming(t)
  BY <1>2 DEF HalideReuseDeviceAllocations, Becoming
<1>4. t \in State
  <2>1. L \in [Interfaces -> Seq(Items)]
    <3>1. <<>> \in Seq(Items)
      OBVIOUS
    <3>2. list \in [Interfaces -> Seq(Items)]
      BY <1>1 DEF State, Here
    <3>3. QED
      BY <3>1, <3>2
  <2>2. M \in [DeviceMemory -> Nat]
    <3>1. memory \in [DeviceMemory -> Nat]
      BY <1>1 DEF State, Here
    <3>2. QED
      BY <3>1
  <2> HIDE DEF L, M
  <2>3. QED
    BY <1>1, <2>1, <2>2 DEF State, Here
<1>5. Emptied(Here(0), t, I)
  BY <1>4 DEF Emptied, Here
<1>6. \/ MayMixSizes
      \/ \A b \in Buffers : Here(0).buf[b].device # Null /\ Pools(t, Here(0).buf[b].interface)
                              => Pools(Here(0), Here(0).buf[b].interface)
  BY DEF HalideReuseDeviceAllocations, MixesSizes, InUse, Pools, Here
<1>7. ContentInv => Seen(t)
  BY DEF ContentInv, Seen, Fine, Here
<1> HIDE DEF t, I
<1>8. Sound(t)
  BY <1>1, <1>5, <1>6, EmptiedSound
<1>9. QED
  BY <1>3, <1>7, <1>8, BecomingInv

\* The client's own steps: the side that is written is the newest and is marked.
Written(b, r, c) ==
    /\ buf' = [buf EXCEPT ![b] = r] /\ content' = [content EXCEPT ![b] = c]
    /\ UNCHANGED <<origin, memory, list, uses, refused, reuse>>

\* Where the buffer's memory is the same, and the bits are right.
LEMMA WrittenInv ==
    ASSUME MemoryInv, NEW b \in Buffers, NEW r \in BufferStates, NEW c \in Contents, Written(b, r, c),
           r.device = buf[b].device, r.interface = buf[b].interface, FineOf(r, c)
    PROVE  MemoryInv' /\ (ContentInv => ContentInv')
<1> DEFINE B == [buf EXCEPT ![b] = r]
           C == [content EXCEPT ![b] = c]
           t == [buf |-> B, origin |-> origin, content |-> C, memory |-> memory, list |-> list,
                 uses |-> uses, refused |-> refused, reuse |-> reuse, fuse |-> 0, result |-> "ok"]
<1>1. Sound(Here(0)) /\ Here(0) \in State /\ b \in All
  BY DEF MemoryInv, Sound, All
<1>2. buf \in [All -> BufferStates] /\ content \in [All -> Contents]
  BY <1>1 DEF State, Here
<1>3. B \in [All -> BufferStates] /\ C \in [All -> Contents]
  BY <1>2
<1>4. /\ B[b] = r /\ C[b] = c
      /\ \A d \in All \ {b} : B[d] = buf[d] /\ C[d] = content[d]
  BY <1>1, <1>2
<1> HIDE DEF B, C
<1>5. t \in State
  BY <1>1, <1>3 DEF State, Here
<1>6. Quiet(Here(0), t)
  BY <1>4, <1>5 DEF Quiet, Here
<1>7. Only(Here(0), t, b) /\ Fine(t, b)
  BY <1>4 DEF Only, Here, Fine
<1>8. Becoming(t)
  BY DEF Becoming, Written, B, C
<1> HIDE DEF t
<1>9. Sound(t)
  BY <1>1, <1>6, QuietSound
<1>10. Keeps(Here(0), t, b)
  BY <1>7, <1>9 DEF Keeps
<1>11. QED
  BY <1>8, <1>10, CallKeeps

\* The client writes to the host, or a kernel to the device.
LEMMA WriteSteps ==
    ASSUME MemoryInv, NEW b \in Buffers, WriteHost(b) \/ RunKernel(b)
    PROVE  MemoryInv' /\ (ContentInv => ContentInv')
<1>1. buf[b] \in BufferStates
  <2>1. buf \in [All -> BufferStates] /\ b \in All
    BY DEF MemoryInv, Sound, State, Here, All
  <2>2. QED
    BY <2>1
<1>2. CASE WriteHost(b)
  <2> DEFINE r == [buf[b] EXCEPT !.hostDirty = TRUE]
             c == [known |-> TRUE, host |-> TRUE, device |-> FALSE]
  <2>1. /\ r \in BufferStates /\ r.device = buf[b].device /\ r.interface = buf[b].interface
        /\ r.host = buf[b].host /\ r.hostDirty /\ (r.deviceDirty <=> buf[b].deviceDirty)
    BY <1>1 DEF BufferStates
  <2>2. c \in Contents
    BY DEF Contents
  <2>3. Written(b, r, c)
    BY <1>2 DEF WriteHost, Written
  <2>4. FineOf(r, c)
    BY <1>2, <2>1 DEF WriteHost, FineOf, HasHost
  <2> HIDE DEF r, c
  <2>5. QED
    BY <2>1, <2>2, <2>3, <2>4, WrittenInv
<1>3. CASE RunKernel(b)
  <2> DEFINE r == [buf[b] EXCEPT !.deviceDirty = TRUE]
             c == [known |-> TRUE, host |-> FALSE, device |-> TRUE]
  <2>1. /\ r \in BufferStates /\ r.device = buf[b].device /\ r.interface = buf[b].interface
        /\ r.deviceDirty /\ (r.hostDirty <=> buf[b].hostDirty)
    BY <1>1 DEF BufferStates
  <2>2. c \in Contents
    BY DEF Contents
  <2>3. Written(b, r, c)
    BY <1>3 DEF RunKernel, Written
  <2>4. FineOf(r, c)
    BY <1>3, <2>1 DEF RunKernel, FineOf
  <2> HIDE DEF r, c
  <2>5. QED
    BY <2>1, <2>2, <2>3, <2>4, WrittenInv
<1>4. QED
  BY <1>2, <1>3

\* Every step keeps the invariants, that of the content where no copy goes to a dirty
\* destination on another interface.
LEMMA StepInv ==
    ASSUME MemoryInv, [Next]_vars
    PROVE  MemoryInv' /\ (ContentInv /\ ~MayOverwriteDirty => ContentInv')
<1>1. CASE UNCHANGED vars
  <2>1. Becoming(Here(0))
    BY <1>1 DEF vars, Becoming, Here
  <2>2. QED
    BY <2>1, BecomingInv DEF MemoryInv, ContentInv
<1>2. ASSUME NEW b \in Buffers,
             \/ HalideCopyToHost(b) \/ HalideDeviceFree(b) \/ HalideDeviceAndHostFree(b)
             \/ HalideDeviceDetachNative(b) \/ WriteHost(b) \/ RunKernel(b)
      PROVE  MemoryInv' /\ (ContentInv => ContentInv')
  BY <1>2, BufferSteps, WriteSteps
<1>3. ASSUME NEW src \in Buffers, NEW dst \in Buffers, NEW i \in Interfaces \union {None}, HalideBufferCopy(src, i, dst)
      PROVE  MemoryInv' /\ (ContentInv /\ ~MayOverwriteDirty => ContentInv')
  BY <1>3, BufferCopyStep
<1>4. CASE Next
  BY <1>2, <1>3, <1>4, MallocSteps, CopyToDeviceStep, WrapNativeStep, ViewSteps, ReleaseStep, ReuseStep DEF Next
<1>5. QED
  BY <1>1, <1>4

\* At first no buffer has memory.
LEMMA InitInv ==
    ASSUME Init
    PROVE  MemoryInv /\ ContentInv
<1> DEFINE s == Here(0)
<1>1. /\ s.buf = [b \in All |-> [host |-> IF b \in ClientHost THEN "client" ELSE None, device |-> Null,
                                 interface |-> None, hostDirty |-> FALSE, deviceDirty |-> FALSE]]
      /\ s.origin = [b \in All |-> None] /\ s.content = [b \in All |-> Unknown]
      /\ s.memory = [p \in DeviceMemory |-> 0] /\ s.list = [i \in Interfaces |-> <<>>]
      /\ s.uses = [i \in Interfaces |-> 0] /\ s.refused = [i \in Interfaces |-> 0] /\ s.reuse = TRUE
  BY DEF Init, Here
<1>2. s \in State
  <2>1. /\ s = [buf |-> s.buf, origin |-> s.origin, content |-> s.content, memory |-> s.memory, list |-> s.list,
                uses |-> s.uses, refused |-> s.refused, reuse |-> s.reuse, fuse |-> 0, result |-> "ok"]
    BY DEF Here
  <2>2. s.buf \in [All -> BufferStates]
    <3>1. ASSUME NEW b \in All
          PROVE  [host |-> IF b \in ClientHost THEN "client" ELSE None, device |-> Null, interface |-> None,
                  hostDirty |-> FALSE, deviceDirty |-> FALSE] \in BufferStates
      BY DEF BufferStates
    <3>2. QED
      BY <1>1, <3>1
  <2>3. s.list \in [Interfaces -> Seq(Items)]
    <3>1. <<>> \in Seq(Items)
      OBVIOUS
    <3>2. QED
      BY <1>1, <3>1
  <2>4. s.memory \in [DeviceMemory -> Nat] /\ s.uses \in [Interfaces -> Int] /\ s.refused \in [Interfaces -> Nat]
    BY <1>1
  <2>5. s.origin \in [All -> Origins]
    BY <1>1 DEF Origins
  <2>6. s.content \in [All -> Contents]
    <3>1. Unknown \in Contents
      BY DEF Unknown, Contents
    <3>2. QED
      BY <1>1, <3>1
  <2>7. s.reuse \in BOOLEAN
    BY <1>1
  <2> HIDE DEF s
  <2>8. QED
    BY <2>1, <2>2, <2>3, <2>4, <2>5, <2>6, <2>7 DEF State, Results
<1> HIDE DEF s
<1>3. \A b \in All : /\ s.buf[b].device = Null /\ s.buf[b].interface = None
                     /\ ~s.buf[b].hostDirty /\ ~s.buf[b].deviceDirty /\ ~s.content[b].known
  BY <1>1 DEF Unknown
<1>4. Null \notin Pointers /\ None \notin Interfaces
  BY DeviceAssumption DEF Pointers, Null
<1>5. \A i \in Interfaces : DOMAIN s.list[i] = {}
  <2>1. DOMAIN <<>> = {}
    OBVIOUS
  <2>2. QED
    BY <1>1, <2>1
<1>6. Balanced(s)
  <2>1. \A i \in Interfaces : UsersOf(s, i) = {} /\ s.uses[i] = 0 /\ s.refused[i] = 0
    BY <1>1, <1>3, <1>4 DEF UsersOf
  <2>2. QED
    BY <2>1, FS_EmptySet DEF Balanced
<1>7. Linked(s) /\ Cropped(s) /\ Told(s)
  BY <1>3, <1>4 DEF Linked, Cropped, Told, All, Pointers
<1>8. Owned(s)
  <2>1. \A b \in Buffers : s.buf[b].device \notin DeviceMemory
    BY <1>3, <1>4 DEF All, Pointers
  <2>2. \A p \in DeviceMemory : ~(s.memory[p] > 0)
    BY <1>1
  <2>3. QED
    BY <1>5, <2>1, <2>2
       DEF Owned, Roomy, Listed, NotInTwoBuffers, NotInListAndBuffer, NotTwiceInLists, NoneLost
<1>9. Seen(s)
  BY <1>3 DEF Seen, Fine, FineOf, All
<1>10. QED
  BY <1>2, <1>6, <1>7, <1>8, <1>9 DEF MemoryInv, ContentInv, Sound, s

-----------------------------------------------------------------------------
(* What follows from the invariants *)

\* The state of the interface is well-typed: no call leaves a buffer with device memory
\* that is neither the driver's nor the client's, or a size that is not a number.
THEOREM TypeCorrect == Spec => []TypeOK
<1>1. MemoryInv => TypeOK
  <2>1. MemoryInv => Here(0) \in State
    BY DEF MemoryInv, Sound
  <2>2. QED
    BY <2>1 DEF State, Here, TypeOK, BufferStates, Contents, Pointers
<1>2. Init => MemoryInv
  BY InitInv
<1>3. MemoryInv /\ [Next]_vars => MemoryInv'
  BY StepInv
<1>4. QED
  BY <1>1, <1>2, <1>3, PTL DEF Spec

\* Allocated memory has one holder, and memory that is not allocated none.
LEMMA OneHolder ==
    ASSUME MemoryInv, NEW p \in DeviceMemory
    PROVE  Cardinality(Holders(p)) = IF memory[p] = 0 THEN 0 ELSE 1
<1>1. memory[p] \in Nat
  BY DEF MemoryInv, Sound, State, Here
<1>2. /\ \A b \in Buffers : buf[b].device = p => memory[p] > 0
      /\ \A i \in Interfaces : \A k \in DOMAIN list[i] : list[i][k].ptr = p => memory[p] > 0
  BY DEF MemoryInv, Sound, Here, Owned, Roomy, Listed, Large
<1>3. /\ \A b, c \in Buffers : buf[b].device = p /\ buf[c].device = p => b = c
      /\ \A b \in Buffers, i \in Interfaces : \A k \in DOMAIN list[i] :
            ~(buf[b].device = p /\ list[i][k].ptr = p)
      /\ \A i, j \in Interfaces : \A k \in DOMAIN list[i], l \in DOMAIN list[j] :
            list[i][k].ptr = p /\ list[j][l].ptr = p => i = j /\ k = l
  BY DEF MemoryInv, Sound, Here, Owned, NotInTwoBuffers, NotInListAndBuffer, NotTwiceInLists
<1>4. memory[p] > 0 => \/ \E b \in Buffers : buf[b].device = p
                       \/ \E i \in Interfaces : \E k \in DOMAIN list[i] : list[i][k].ptr = p
  BY DEF MemoryInv, Sound, Here, Owned, NoneLost
<1>5. \A h : h \in Holders(p) <=> \/ \E b \in Buffers : buf[b].device = p /\ h = <<b, 0>>
                                  \/ \E i \in Interfaces : \E k \in DOMAIN list[i] : list[i][k].ptr = p /\ h = <<i, k>>
  BY DEF Holders
<1>6. CASE memory[p] = 0
  <2>1. \A b \in Buffers : buf[b].device # p
    BY <1>1, <1>2, <1>6
  <2>2. \A i \in Interfaces : \A k \in DOMAIN list[i] : list[i][k].ptr # p
    BY <1>1, <1>2, <1>6
  <2>3. Holders(p) = {}
    BY <1>5, <2>1, <2>2
  <2>4. QED
    BY <1>6, <2>3, FS_EmptySet
<1>7. CASE memory[p] # 0
  <2>1. \E h : Holders(p) = {h}
    <3>1. CASE \E b \in Buffers : buf[b].device = p
      <4>1. PICK b \in Buffers : buf[b].device = p
        BY <3>1
      <4>2. \A h : h \in Holders(p) <=> h = <<b, 0>>
        BY <1>3, <1>5, <4>1
      <4>3. Holders(p) = {<<b, 0>>}
        BY <4>2
      <4>4. QED
        BY <4>3
    <3>2. CASE \E i \in Interfaces : \E k \in DOMAIN list[i] : list[i][k].ptr = p
      <4>1. PICK i \in Interfaces : \E k \in DOMAIN list[i] : list[i][k].ptr = p
        BY <3>2
      <4>2. PICK k \in DOMAIN list[i] : list[i][k].ptr = p
        BY <4>1
      <4>3. \A h : h \in Holders(p) <=> h = <<i, k>>
        BY <1>3, <1>5, <4>1, <4>2
      <4>4. Holders(p) = {<<i, k>>}
        BY <4>3
      <4>5. QED
        BY <4>4
    <3>3. memory[p] > 0
      BY <1>1, <1>7
    <3>4. QED
      BY <1>4, <3>1, <3>2, <3>3
  <2>2. QED
    BY <1>7, <2>1, FS_Singleton
<1>8. QED
  BY <1>6, <1>7

\* Memory the driver has allocated is in one place, in one buffer or once in a free
\* list, and large enough there: whatever the calls, their order and the driver's
\* failures, cuda.cpp's free list loses no memory and gives none away twice.  It is as
\* large as the list says where reuse is not turned on for memory that is in use.
THEOREM MemoryIsOwnedAlways ==
    ASSUME ~MayMixSizes
    PROVE  Spec => []MemoryIsOwned
<1>1. MemoryInv => MemoryIsOwned
  <2>1. MemoryInv => \A p \in DeviceMemory : Cardinality(Holders(p)) = IF memory[p] = 0 THEN 0 ELSE 1
    BY OneHolder
  <2>2. MemoryInv => /\ \A b \in Buffers : buf[b].device \in DeviceMemory => memory[buf[b].device] >= SizeOf[b]
                     /\ \A i \in Interfaces : \A k \in DOMAIN list[i] : memory[list[i][k].ptr] >= list[i][k].size
    BY DEF MemoryInv, Sound, Here, Owned, Roomy, Listed, Large
  <2>3. QED
    BY <2>1, <2>2 DEF MemoryIsOwned
<1>2. Init => MemoryInv
  BY InitInv
<1>3. MemoryInv /\ [Next]_vars => MemoryInv'
  BY StepInv
<1>4. QED
  BY <1>1, <1>2, <1>3, PTL DEF Spec

\* An interface's module is in use once for every buffer and every view that has memory
\* of it, and once for every crop that failed after use_module; a view has the memory of
\* what it is a crop of; and only a crop or a wrap that failed leaves an interface without
\* memory.  That is so for interfaces that cannot crop, and where the handle is allocated
\* and that fails, as in opencl.cpp.
THEOREM UsesBalanceAlways == Spec => []UsesBalance
<1>1. MemoryInv => UsesBalance
  <2>1. MemoryInv => TypeOK
    <3>1. MemoryInv => Here(0) \in State
      BY DEF MemoryInv, Sound
    <3>2. QED
      BY <3>1 DEF State, Here, TypeOK, BufferStates, Contents, Pointers
  <2>2. MemoryInv => \A i \in Interfaces : uses[i] = Cardinality({b \in All : InUse(b, i)}) + refused[i]
    BY DEF MemoryInv, Sound, Here, Balanced, UsersOf, InUse
  <2>3. MemoryInv => /\ \A b \in All : IF buf[b].device = Null THEN buf[b].interface # None => origin[b] = "failed"
                                       ELSE buf[b].interface # None
                     /\ \A v \in Views : buf[v].device # Null => buf[origin[v]].device = buf[v].device
    BY DEF MemoryInv, Sound, Here, Linked, Cropped
  <2>4. QED
    BY <2>1, <2>2, <2>3 DEF UsesBalance
<1>2. Init => MemoryInv
  BY InitInv
<1>3. MemoryInv /\ [Next]_vars => MemoryInv'
  BY StepInv
<1>4. QED
  BY <1>1, <1>2, <1>3, PTL DEF Spec

\* The dirty bits tell where the newest content is, through every sequence of calls and
\* failures of the driver, as long as no copy to another interface goes over a
\* destination that is dirty on its device: the one sequence in which they do not, which
\* TLC shows with MayOverwriteDirty.
THEOREM CoherentAlways ==
    ASSUME ~MayOverwriteDirty
    PROVE  Spec => []Coherent
<1>1. ContentInv => Coherent
  <2>1. ContentInv => \A b \in Buffers : FineOf(buf[b], content[b])
    BY DEF ContentInv, Seen, Fine, Here
  <2>2. ContentInv => \A v \in Views : ~buf[v].hostDirty
    BY DEF ContentInv, Seen, Here
  <2>3. QED
    BY <2>1, <2>2 DEF Coherent, NeverBothDirty, FineOf, HasHost, All
<1>2. Init => MemoryInv /\ ContentInv
  BY InitInv
<1>3. MemoryInv /\ ContentInv /\ [Next]_vars => MemoryInv' /\ ContentInv'
  BY StepInv
<1>4. QED
  BY <1>1, <1>2, <1>3, PTL DEF Spec
-----------------------------------------------------------------------------
(* The compilation cache: its inductive invariant *)

SameKey(a, b) == a.context = b.context /\ a.id = b.id
Apart(a, b) == ~SameKey(a, b) /\ a.module # b.module

\* No slot that was never used is tried before the slot of an entry.
Reachable ==
    \A s \in Live : \A r \in Before(compilations[s].context, compilations[s].id, s) :
        compilations[r].id # InvalidId

\* The entries differ in their keys and in their modules, wherever they are.
Distinct ==
    /\ \A r, s \in Live : r # s => Apart(compilations[r], compilations[s])
    /\ \A m, n \in moving : m # n => Apart(m.entry, n.entry)
    /\ \A s \in Live, m \in moving : Apart(compilations[s], m.entry)

\* There is a table while something is moved, and one new entry at most.
IsNew(m) == m.from = 0
MovingInv ==
    /\ moving # {} => bits # 0
    /\ IsFiniteSet(moving)
    /\ \A m \in moving : IsNew(m) => m.slot = 0
    /\ \A m, n \in moving : IsNew(m) /\ IsNew(n) => m = n

\* Once the table has grown, what is left has room in it.
HasRoom ==
    \/ \A m \in moving : IsNew(m) /\ ~m.grown
    \/ Cardinality(Live) + Cardinality(moving) <= Size(bits)

\* The client t runs with this entry.
Runs(t, entry) ==
    /\ running[t].context = entry.context /\ running[t].module = entry.module
    /\ id[running[t].pipeline] = entry.id

\* Every client that runs has an entry, and every entry counts its holders, but for the
\* keys that were lost.
Held ==
    \A t \in Clients : running[t] # Idle /\ KeyFor(t) \notin lost =>
        (\E s \in Live : Runs(t, compilations[s])) \/ (\E m \in moving : Runs(t, m.entry))
CountsHolders(entry) == KeyOf(entry) \notin lost => entry.uses = Cardinality(HoldersOf(entry.module))
Counts ==
    /\ \A s \in Live : CountsHolders(compilations[s])
    /\ \A m \in moving : CountsHolders(m.entry)

\* Lost or not, who runs with the module of an entry runs with its key: what a client
\* gives back to the entry of its key never counts for another one.
HasOwners(entry) == \A t \in HoldersOf(entry.module) : Runs(t, entry)
Owners ==
    /\ \A s \in Live : HasOwners(compilations[s])
    /\ \A m \in moving : HasOwners(m.entry)

\* The ids that were given out are as many as the pipelines that have one.
Taken == {p \in Pipelines : id[p] # InvalidId}
IdInv == unique_id = FirstId + Cardinality(Taken)

CacheInv == CacheTypeOK /\ Reachable /\ Distinct /\ MovingInv /\ HasRoom /\ Held /\ Counts /\ Owners /\ IdInv

-----------------------------------------------------------------------------
(* Slots and searches *)

\* A table has a power of two of slots.
LEMMA SizeFacts ==
  ASSUME NEW b \in Nat
  PROVE  Size(b) \in Nat /\ Size(b) > 0 /\ Size(b + 1) = 2 * Size(b)
<1>1. Size(b) \in Nat
  BY PowerSets DEF Size
<1>2. Size(b + 1) = 2 * Size(b)
  BY PowerDoubles DEF Size
<1>3. Size(b) > 0
  <2>1. IsFiniteSet(SUBSET (1 .. b)) /\ Size(b) = Cardinality(SUBSET (1 .. b)) /\ {} \in SUBSET (1 .. b)
    BY PowerSets DEF Size
  <2>2. Cardinality(SUBSET (1 .. b)) # 0
    BY <2>1, FS_EmptySet
  <2>3. QED
    BY <1>1, <2>1, <2>2
<1>4. QED
  BY <1>1, <1>2, <1>3

\* What the slots of a table are.
LEMMA SlotFacts ==
  /\ Nil \notin Modules
  /\ \A e \in Entry : e \in Slot /\ ~Free(e) /\ e.context \in Contexts /\ e.module \in Modules
                      /\ e.id \in Ids /\ e.id \in Nat /\ e.id > DeletedId /\ e.uses \in Int
  /\ \A slot \in Slot : /\ Free(slot) => slot.module = Nil /\ slot.uses = 0
                        /\ ~Free(slot) => slot \in Entry
                        /\ slot.id \in Nat
  /\ Zero \in Slot /\ Free(Zero)
<1>1. Cardinality(Pipelines) \in Nat /\ Cardinality(Clients) \in Nat
  BY GPUCacheAssumption, FS_CardinalityType
<1>2. Nil \notin Modules
  BY GPUCacheAssumption
<1>3. ASSUME NEW e \in Entry
      PROVE  e \in Slot /\ ~Free(e) /\ e.context \in Contexts /\ e.module \in Modules
             /\ e.id \in Ids /\ e.id \in Nat /\ e.id > DeletedId /\ e.uses \in Int
  BY <1>1 DEF Entry, Slot, Free, Ids, FirstId, DeletedId
<1>4. ASSUME NEW slot \in Slot
      PROVE  /\ Free(slot) => slot.module = Nil /\ slot.uses = 0
             /\ ~Free(slot) => slot \in Entry
             /\ slot.id \in Nat
  BY <1>3 DEF Slot, Free, Zero, InvalidId, DeletedId
<1>5. Zero \in Slot /\ Free(Zero)
  BY DEF Slot, Free, Zero, InvalidId, DeletedId
<1>6. QED
  BY <1>2, <1>3, <1>4, <1>5

\* The size of the table is a number.
LEMMA BitsType ==
  ASSUME CacheTypeOK
  PROVE  bits \in Nat /\ Size(bits) \in Nat /\ (bits # 0 => bits \in InitialBits .. MaxBits)
<1>1. bits \in Nat /\ (bits # 0 => bits \in InitialBits .. MaxBits)
  BY GPUCacheAssumption DEF CacheTypeOK
<1>2. QED
  BY <1>1, SizeFacts

\* The entries in the table and the ones that are moved.
LEMMA EntryFacts ==
  ASSUME CacheTypeOK
  PROVE  /\ \A s \in Live : s \in DOMAIN compilations /\ compilations[s] \in Entry
         /\ \A s \in DOMAIN compilations : compilations[s] \in Slot
         /\ \A m \in moving : m.entry \in Entry
         /\ IsFiniteSet(Live) /\ IsFiniteSet(DOMAIN compilations)
         /\ bits # 0 => Cardinality(DOMAIN compilations) = Size(bits)
<1>1. bits \in Nat
  BY BitsType
<1>2. Size(bits) \in Nat
  BY BitsType
<1>3. \A s \in DOMAIN compilations : compilations[s] \in Slot
  BY DEF CacheTypeOK
<1>4. \A s \in Live : s \in DOMAIN compilations /\ compilations[s] \in Entry
  BY <1>3, SlotFacts DEF Live
<1>5. \A m \in moving : m.entry \in Entry
  BY DEF CacheTypeOK
<1>6. IsFiniteSet(DOMAIN compilations) /\ (bits # 0 => Cardinality(DOMAIN compilations) = Size(bits))
  <2>1. CASE bits = 0
    BY <2>1, FS_EmptySet DEF CacheTypeOK
  <2>2. CASE bits # 0
    <3>1. DOMAIN compilations = 0 .. Size(bits) - 1
      BY <2>2 DEF CacheTypeOK
    <3>2. 0 \in Int /\ Size(bits) - 1 \in Int
      BY <1>2
    <3>3. QED
      BY <1>2, <2>2, <3>1, <3>2, FS_Interval, SizeFacts, <1>1
  <2>3. QED
    BY <2>1, <2>2
<1>7. IsFiniteSet(Live)
  BY <1>6, FS_Subset DEF Live
<1>8. QED
  BY <1>3, <1>4, <1>5, <1>6, <1>7

\* The place of a slot in the order of a search is a number.
LEMMA TriesType ==
  ASSUME CacheTypeOK, NEW context \in Contexts, NEW i \in Ids, NEW s \in DOMAIN compilations
  PROVE  Tries(context, i, s) \in Nat
<1>1. bits \in 1 .. MaxBits /\ s \in 0 .. Size(bits) - 1
  BY GPUCacheAssumption DEF CacheTypeOK
<1>2. KernelHash[<<context, i, bits>>] \in 0 .. Size(bits) - 1
  BY <1>1, GPUCacheAssumption
<1>3. Size(bits) \in Nat
  BY <1>1, SizeFacts
<1>4. QED
  BY <1>1, <1>2, <1>3 DEF Tries

\* The search for the key of an entry ends at its slot.
LEMMA FindsEntry ==
  ASSUME CacheTypeOK, Reachable, Distinct, NEW s \in Live
  PROVE  Find(compilations[s].context, compilations[s].id) = {s}
<1> DEFINE context == compilations[s].context
           i == compilations[s].id
<1>1. s \in DOMAIN compilations /\ compilations[s] \in Entry
  BY EntryFacts
<1>2. ASSUME NEW r \in DOMAIN compilations, Matches(compilations[r], context, i)
      PROVE  r = s
  <2>1. r \in Live
    BY <1>1, <1>2, SlotFacts DEF Live, Matches, Free
  <2>2. QED
    BY <1>2, <2>1 DEF Distinct, Apart, SameKey, Matches
<1>3. context \in Contexts /\ i \in Ids
  BY <1>1, SlotFacts
<1>4. s \notin Before(context, i, s)
  BY <1>1, <1>3, TriesType DEF Before
<1>5. s \in Find(context, i)
  <2>1. ASSUME NEW r \in Before(context, i, s)
        PROVE  compilations[r].id # InvalidId /\ ~Matches(compilations[r], context, i)
    <3>1. r \in DOMAIN compilations /\ r # s
      BY <1>4 DEF Before
    <3>2. QED
      BY <1>2, <3>1 DEF Reachable
  <2>2. QED
    BY <1>1, <2>1 DEF Find, Matches
<1>6. \A r \in Find(context, i) : r = s
  BY <1>2 DEF Find
<1>7. QED
  BY <1>5, <1>6

\* What a search finds is an entry, and it finds the one there is.
LEMMA FindFacts ==
  ASSUME CacheTypeOK, Reachable, Distinct, NEW context, NEW i \in Ids
  PROVE  /\ \A s \in Find(context, i) :
               s \in Live /\ compilations[s].context = context /\ compilations[s].id = i
         /\ \A s \in Live : compilations[s].context = context /\ compilations[s].id = i =>
               Find(context, i) = {s}
<1>1. i > DeletedId /\ i \in Nat
  BY FS_CardinalityType, GPUCacheAssumption DEF Ids, FirstId, DeletedId
<1>2. \A s \in Find(context, i) :
          s \in Live /\ compilations[s].context = context /\ compilations[s].id = i
  BY <1>1 DEF Find, Matches, Live, Free, DeletedId
<1>3. QED
  BY <1>2, FindsEntry

\* A table that is not full has a first free slot for an entry.
LEMMA FreeExists ==
  ASSUME CacheTypeOK, bits # 0, NEW e \in Entry, Cardinality(Live) < Size(bits)
  PROVE  FirstFree(e) # {}
<1> DEFINE F == DOMAIN compilations \ Live
           T == {Tries(e.context, e.id, s) : s \in F}
<1>1. F # {}
  <2>1. CASE F = {}
    <3>1. Live = DOMAIN compilations
      BY <2>1 DEF Live
    <3>2. Cardinality(Live) = Size(bits)
      BY <3>1, EntryFacts
    <3>3. Size(bits) \in Nat
      BY BitsType
    <3>4. QED
      BY <3>2, <3>3
  <2>2. QED
    BY <2>1
<1>2. e.context \in Contexts /\ e.id \in Ids
  BY SlotFacts
<1>3. T \subseteq Nat /\ T # {}
  <2>1. \A s \in F : Tries(e.context, e.id, s) \in Nat
    BY <1>2, TriesType
  <2>2. QED
    BY <1>1, <2>1
<1>4. PICK n \in T : \A k \in T : n <= k
  BY <1>3, LeastExists
<1>5. PICK s \in F : n = Tries(e.context, e.id, s)
  BY <1>4
<1>6. ASSUME NEW r \in Before(e.context, e.id, s), Free(compilations[r])
      PROVE  FALSE
  <2>1. r \in F /\ Tries(e.context, e.id, r) < n
    BY <1>5, <1>6 DEF Before, Live
  <2>2. Tries(e.context, e.id, r) \in Nat /\ n \in Nat /\ n <= Tries(e.context, e.id, r)
    BY <1>3, <1>4, <2>1
  <2>3. QED
    BY <2>1, <2>2
<1>7. s \in FirstFree(e)
  BY <1>5, <1>6 DEF FirstFree, Live
<1>8. QED
  BY <1>7

-----------------------------------------------------------------------------
(* Holders and ids *)

\* The holders of a module are clients.
LEMMA HoldersFacts ==
  ASSUME NEW module
  PROVE  IsFiniteSet(HoldersOf(module)) /\ Cardinality(HoldersOf(module)) \in Nat
<1>1. IsFiniteSet(Clients) /\ HoldersOf(module) \subseteq Clients
  BY GPUCacheAssumption DEF HoldersOf
<1>2. QED
  BY <1>1, FS_Subset, FS_CardinalityType

\* One more.
LEMMA HolderAdded ==
  ASSUME NEW module, NEW t \in Clients, t \notin HoldersOf(module)
  PROVE  Cardinality(HoldersOf(module) \union {t}) = Cardinality(HoldersOf(module)) + 1
  BY HoldersFacts, FS_AddElement

\* One less.
LEMMA HolderRemoved ==
  ASSUME NEW module, NEW t \in HoldersOf(module)
  PROVE  /\ Cardinality(HoldersOf(module) \ {t}) = Cardinality(HoldersOf(module)) - 1
         /\ Cardinality(HoldersOf(module)) >= 1
<1>1. IsFiniteSet(HoldersOf(module)) /\ Cardinality(HoldersOf(module)) \in Nat
  BY HoldersFacts
<1>2. Cardinality(HoldersOf(module) \ {t}) = Cardinality(HoldersOf(module)) - 1
  BY <1>1, FS_RemoveElement
<1>3. Cardinality(HoldersOf(module) \ {t}) \in Nat
  BY <1>1, FS_RemoveElement, FS_CardinalityType
<1>4. QED
  BY <1>1, <1>2, <1>3

\* The ids do not run out, and a pipeline keeps its own.
LEMMA TakeIdFacts ==
  ASSUME CacheInv, NEW p \in Pipelines, TakeId(p)
  PROVE  /\ id' \in [Pipelines -> {InvalidId} \union Ids] /\ unique_id' \in Nat /\ IdInv'
         /\ id'[p] \in Ids
         /\ \A q \in Pipelines : id[q] \in Ids => id'[q] = id[q]
<1>1. /\ id \in [Pipelines -> {InvalidId} \union Ids] /\ unique_id \in Nat
      /\ unique_id = FirstId + Cardinality(Taken)
  BY DEF CacheInv, CacheTypeOK, IdInv
<1>2. Cardinality(Pipelines) \in Nat /\ IsFiniteSet(Pipelines)
  BY GPUCacheAssumption, FS_CardinalityType
<1>3. InvalidId \notin Ids
  BY <1>2 DEF Ids, InvalidId, FirstId
<1>4. CASE id[p] = InvalidId
  <2>1. id' = [id EXCEPT ![p] = unique_id] /\ unique_id' = unique_id + 1
    BY <1>4 DEF TakeId
  <2>2. IsFiniteSet(Taken) /\ Cardinality(Taken) \in Nat /\ Taken \union {p} \subseteq Pipelines /\ p \notin Taken
    BY <1>2, <1>4, FS_Subset, FS_CardinalityType DEF Taken
  <2>3. Cardinality(Taken \union {p}) = Cardinality(Taken) + 1
    BY <2>2, FS_AddElement
  <2>4. Cardinality(Taken \union {p}) <= Cardinality(Pipelines)
    BY <1>2, <2>2, FS_Subset
  <2>5. unique_id \in Ids
    BY <1>1, <1>2, <2>2, <2>3, <2>4 DEF Ids, FirstId
  <2>6. Taken' = Taken \union {p}
    BY <1>1, <1>3, <2>1, <2>5 DEF Taken
  <2>7. IdInv'
    BY <1>1, <2>1, <2>2, <2>3, <2>6 DEF IdInv, FirstId
  <2>8. QED
    BY <1>1, <1>3, <1>4, <2>1, <2>5, <2>7
<1>5. CASE id[p] # InvalidId
  <2>1. id' = id /\ unique_id' = unique_id
    BY <1>5 DEF TakeId
  <2>2. IdInv'
    BY <1>1, <2>1 DEF IdInv, Taken
  <2>3. QED
    BY <1>1, <1>5, <2>1, <2>2
<1>6. QED
  BY <1>4, <1>5

\* A client that runs with an entry has a pipeline that keeps the id of the entry.
LEMMA RunsKept ==
  ASSUME CacheInv, NEW p \in Pipelines, TakeId(p), NEW t \in Clients, NEW e \in Entry,
         running[t] # Idle, Runs(t, e)
  PROVE  id'[running[t].pipeline] = e.id
<1>1. running[t].pipeline \in Pipelines
  BY DEF CacheInv, CacheTypeOK
<1>2. e.id \in Ids
  BY SlotFacts
<1>3. QED
  BY <1>1, <1>2, TakeIdFacts DEF Runs

\* What a client runs with has an id, which its pipeline keeps.
LEMMA KeyKept ==
  ASSUME CacheInv, NEW p \in Pipelines, TakeId(p), NEW t \in Clients, running[t] # Idle
  PROVE  id'[running[t].pipeline] = id[running[t].pipeline]
<1>1. running[t].pipeline \in Pipelines /\ lost \subseteq Keys /\ Held /\ CacheTypeOK
  BY DEF CacheInv, CacheTypeOK
<1>2. id[running[t].pipeline] \in Ids
  <2>1. CASE KeyFor(t) \in lost
    BY <1>1, <2>1 DEF KeyFor, Keys
  <2>2. CASE KeyFor(t) \notin lost
    <3>1. PICK e \in Entry : Runs(t, e)
      BY <1>1, <2>2, EntryFacts DEF Held
    <3>2. QED
      BY <3>1, SlotFacts DEF Runs
  <2>3. QED
    BY <2>1, <2>2
<1>3. QED
  BY <1>1, <1>2, TakeIdFacts

\* A step that changes at most the uses in the table leaves the searches as they are.
LEMMA KeysKept ==
  ASSUME CacheInv, bits' = bits, moving' = moving, DOMAIN compilations' = DOMAIN compilations,
         \A s \in DOMAIN compilations :
             /\ compilations'[s].context = compilations[s].context
             /\ compilations'[s].id = compilations[s].id
             /\ compilations'[s].module = compilations[s].module
  PROVE  Live' = Live /\ Reachable' /\ Distinct' /\ MovingInv' /\ HasRoom'
<1>1. Live' = Live /\ Live \subseteq DOMAIN compilations
  BY DEF Live, Free
<1>2. \A context, i, s : Before(context, i, s)' = Before(context, i, s)
  BY DEF Before, Tries
<1>3. Reachable'
  <2>1. ASSUME NEW s \in Live, NEW r \in Before(compilations[s].context, compilations[s].id, s)
        PROVE  compilations'[r].id # InvalidId
    BY <2>1 DEF CacheInv, Reachable, Before
  <2>2. QED
    BY <1>1, <1>2, <2>1 DEF Reachable
<1>4. Distinct'
  BY <1>1 DEF CacheInv, Distinct, Apart, SameKey
<1>5. MovingInv' /\ HasRoom'
  BY <1>1 DEF CacheInv, MovingInv, HasRoom
<1>6. QED
  BY <1>1, <1>3, <1>4, <1>5

-----------------------------------------------------------------------------
(* Every step preserves the invariant: the calls that find an entry *)

\* At the start there is no table and nobody runs.
LEMMA CacheInitInv == CacheInit => CacheInv
<1> SUFFICES ASSUME CacheInit PROVE CacheInv
  OBVIOUS
<1>1. compilations = NoTable /\ bits = 0 /\ count = 0 /\ moving = {} /\ unique_id = FirstId /\ lost = {}
      /\ id = [p \in Pipelines |-> InvalidId] /\ running = [t \in Clients |-> Idle]
  BY DEF CacheInit
<1>2. DOMAIN compilations = {} /\ Live = {}
  BY <1>1 DEF NoTable, Live
<1>3. CacheTypeOK
  BY <1>1 DEF CacheTypeOK, NoTable, FirstId
<1>4. Reachable /\ Distinct /\ MovingInv /\ HasRoom
  BY <1>1, <1>2, FS_EmptySet DEF Reachable, Distinct, MovingInv, HasRoom
<1>5. Held /\ Counts /\ Owners
  BY <1>1, <1>2 DEF Held, Counts, Owners
<1>6. IdInv
  <2>1. Taken = {}
    BY <1>1 DEF Taken
  <2>2. QED
    BY <1>1, <2>1, FS_EmptySet DEF IdInv, FirstId
<1>7. QED
  BY <1>3, <1>4, <1>5, <1>6 DEF CacheInv

\* An entry is found for a client: it has a use and a holder more.
LEMMA SetupFindsInv ==
  ASSUME CacheInv, NEW t \in Clients, NEW context \in Contexts, NEW p \in Pipelines,
         SetupFinds(t, context, p)
  PROVE  CacheInv'
<1>1. /\ moving = {} /\ running[t] = Idle /\ TakeId(p)
      /\ bits' = bits /\ count' = count /\ moving' = moving /\ lost' = lost
  BY DEF SetupFinds, MutexFree
<1>2. PICK s \in Find(context, id'[p]) :
          compilations' = Hold(s) /\ Starts(t, context, p, compilations[s].module)
  BY DEF SetupFinds
<1> DEFINE e == compilations[s]
<1>3. /\ CacheTypeOK /\ Reachable /\ Distinct /\ Held /\ Counts /\ Owners
      /\ id' \in [Pipelines -> {InvalidId} \union Ids] /\ unique_id' \in Nat /\ IdInv' /\ id'[p] \in Ids
  BY <1>1, TakeIdFacts DEF CacheInv
<1>4. s \in Live /\ e.context = context /\ e.id = id'[p]
  BY <1>3, FindFacts
<1>5. s \in DOMAIN compilations /\ e \in Entry /\ e.module \in Modules /\ e.uses \in Int
  BY <1>3, <1>4, EntryFacts, SlotFacts
<1>6. running' = [running EXCEPT ![t] = [context |-> context, pipeline |-> p, module |-> e.module]]
  BY <1>2 DEF Starts
<1>7. compilations' = [compilations EXCEPT ![s].uses = @ + 1]
  BY <1>2 DEF Hold
<1>8. running \in [Clients -> {Idle} \union [context : Contexts, pipeline : Pipelines, module : Modules]]
      /\ running'[t] # Idle /\ running'[t].module = e.module
  <2>1. e.module # Idle.module
    BY <1>5, SlotFacts DEF Idle
  <2>2. QED
    BY <1>3, <1>6, <2>1 DEF CacheTypeOK
<1>mod. PICK module : module = e.module
  OBVIOUS
<1>9. HoldersOf(module)' = HoldersOf(module) \union {t} /\ t \notin HoldersOf(module)
  BY <1>1, <1>6, <1>8, <1>mod DEF HoldersOf
<1>10. \A other : other # module => HoldersOf(other)' = HoldersOf(other)
  BY <1>1, <1>6, <1>8, <1>mod DEF HoldersOf
<1>11. KeyOf(e) \notin lost => Cardinality(HoldersOf(module)') = e.uses + 1
  BY <1>3, <1>4, <1>mod, <1>9, HolderAdded DEF Counts, CountsHolders
<1>12. [e EXCEPT !.uses = @ + 1] \in Entry
  BY <1>5 DEF Entry
<1>13. CacheTypeOK'
  <2>1. compilations' \in [IF bits = 0 THEN {} ELSE 0 .. Size(bits) - 1 -> Slot]
    BY <1>3, <1>5, <1>7, <1>12, SlotFacts DEF CacheTypeOK
  <2>2. running' \in [Clients -> {Idle} \union [context : Contexts, pipeline : Pipelines, module : Modules]]
    BY <1>5, <1>6, <1>8
  <2>3. QED
    BY <1>1, <1>3, <2>1, <2>2 DEF CacheTypeOK
<1>14. Live' = Live /\ Reachable' /\ Distinct' /\ MovingInv' /\ HasRoom'
  <2>1. DOMAIN compilations' = DOMAIN compilations
    BY <1>7
  <2>2. \A r \in DOMAIN compilations : /\ compilations'[r].context = compilations[r].context
                                       /\ compilations'[r].id = compilations[r].id
                                       /\ compilations'[r].module = compilations[r].module
    BY <1>5, <1>7 DEF Entry
  <2>3. QED
    BY <1>1, <2>1, <2>2, KeysKept
<1>15. Held'
  <2>1. Runs(t, compilations[s])'
    BY <1>4, <1>5, <1>6, <1>7, <1>8 DEF Runs, Entry
  <2>2. ASSUME NEW u \in Clients, u # t, running'[u] # Idle, KeyFor(u)' \notin lost
        PROVE  \E r \in Live : Runs(u, compilations[r])'
    <3>1. running'[u] = running[u] /\ running[u] # Idle
      BY <1>6, <2>2
    <3>0. KeyFor(u)' = KeyFor(u)
      BY <1>1, <3>1, KeyKept DEF KeyFor
    <3>2. PICK r \in Live : Runs(u, compilations[r])
      BY <1>1, <1>3, <2>2, <3>0, <3>1 DEF Held
    <3>3. compilations[r] \in Entry /\ r \in DOMAIN compilations
      BY <1>3, EntryFacts
    <3>4. id'[running[u].pipeline] = compilations[r].id
      BY <1>1, <3>1, <3>2, <3>3, RunsKept
    <3>5. compilations'[r].context = compilations[r].context /\ compilations'[r].id = compilations[r].id
          /\ compilations'[r].module = compilations[r].module
      BY <1>5, <1>7, <3>3 DEF Entry
    <3>6. QED
      BY <3>1, <3>2, <3>4, <3>5 DEF Runs
  <2>3. QED
    BY <1>1, <1>4, <1>14, <2>1, <2>2 DEF Held
<1>16. Counts'
  <2>1. CountsHolders(compilations[s])'
    <3>1. /\ compilations'[s].uses = e.uses + 1 /\ compilations'[s].module = module
          /\ compilations'[s].context = e.context /\ compilations'[s].id = e.id
      BY <1>4, <1>5, <1>7, <1>mod DEF Entry
    <3>2. QED
      BY <1>1, <1>11, <3>1 DEF CountsHolders, KeyOf
  <2>2. ASSUME NEW r \in Live, r # s
        PROVE  CountsHolders(compilations[r])'
    <3>1. PICK other : other = compilations[r].module
      OBVIOUS
    <3>2. other # module
      BY <1>3, <1>4, <2>2, <3>1, <1>mod DEF Distinct, Apart
    <3>3. compilations'[r] = compilations[r]
      BY <1>3, <1>7, <2>2, EntryFacts
    <3>4. CountsHolders(compilations[r]) /\ HoldersOf(other)' = HoldersOf(other)
      BY <1>3, <1>10, <2>2, <3>1, <3>2 DEF Counts
    <3>5. QED
      BY <1>1, <3>1, <3>3, <3>4 DEF CountsHolders, KeyOf
  <2>3. ASSUME NEW r \in Live
        PROVE  CountsHolders(compilations[r])'
    <3>1. CASE r = s
      BY <2>1, <3>1
    <3>2. CASE r # s
      BY <2>2, <3>2
    <3>3. QED
      BY <3>1, <3>2
  <2>5. QED
    BY <1>1, <1>14, <2>3 DEF Counts
<1>17. Owners'
  <2>1. ASSUME NEW r \in Live, NEW u \in HoldersOf(compilations[r].module)'
        PROVE  Runs(u, compilations[r])'
    <3>1. /\ compilations'[r].context = compilations[r].context /\ compilations'[r].id = compilations[r].id
          /\ compilations'[r].module = compilations[r].module /\ compilations[r] \in Entry
      BY <1>3, <1>5, <1>7, EntryFacts DEF Entry
    <3>2. u \in Clients /\ running'[u] # Idle /\ running'[u].module = compilations[r].module
      BY <3>1 DEF HoldersOf
    <3>3. CASE u = t
      <4>1. r = s
        BY <1>3, <1>4, <1>8, <3>2, <3>3 DEF Distinct, Apart
      <4>2. QED
        BY <1>4, <1>5, <1>6, <1>8, <3>1, <3>3, <4>1 DEF Runs
    <3>4. CASE u # t
      <4>1. running'[u] = running[u]
        BY <1>6, <3>4
      <4>2. Runs(u, compilations[r])
        BY <1>3, <3>2, <4>1 DEF Owners, HasOwners, HoldersOf
      <4>3. id'[running[u].pipeline] = compilations[r].id
        BY <1>1, <3>1, <3>2, <4>1, <4>2, RunsKept
      <4>4. QED
        BY <3>1, <4>1, <4>2, <4>3 DEF Runs
    <3>5. QED
      BY <3>3, <3>4
  <2>2. QED
    BY <1>1, <1>14, <2>1 DEF Owners, HasOwners
<1>18. QED
  BY <1>3, <1>13, <1>14, <1>15, <1>16, <1>17 DEF CacheInv

\* A failure leaves the pipeline its id.
LEMMA SetupFailsInv ==
  ASSUME CacheInv, NEW t \in Clients, NEW context \in Contexts, NEW p \in Pipelines,
         SetupFails(t, context, p)
  PROVE  CacheInv'
<1>1. /\ moving = {} /\ TakeId(p) /\ compilations' = compilations
      /\ bits' = bits /\ count' = count /\ moving' = moving /\ running' = running /\ lost' = lost
  BY DEF SetupFails, MutexFree
<1>2. /\ CacheTypeOK /\ Held /\ Counts /\ Owners
      /\ id' \in [Pipelines -> {InvalidId} \union Ids] /\ unique_id' \in Nat /\ IdInv'
  BY <1>1, TakeIdFacts DEF CacheInv
<1>3. CacheTypeOK'
  BY <1>1, <1>2 DEF CacheTypeOK
<1>4. Live' = Live /\ Reachable' /\ Distinct' /\ MovingInv' /\ HasRoom'
  BY <1>1, KeysKept
<1>5. Held'
  <2>1. ASSUME NEW u \in Clients, running[u] # Idle, KeyFor(u)' \notin lost
        PROVE  \E r \in Live : Runs(u, compilations[r])'
    <3>0. KeyFor(u)' = KeyFor(u)
      BY <1>1, <2>1, KeyKept DEF KeyFor
    <3>1. PICK r \in Live : Runs(u, compilations[r])
      BY <1>1, <1>2, <2>1, <3>0 DEF Held
    <3>2. compilations[r] \in Entry
      BY <1>2, EntryFacts
    <3>3. id'[running[u].pipeline] = compilations[r].id
      BY <1>1, <2>1, <3>1, <3>2, RunsKept
    <3>4. QED
      BY <1>1, <3>1, <3>3 DEF Runs
  <2>2. QED
    BY <1>1, <1>4, <2>1 DEF Held
<1>6. Counts'
  BY <1>1, <1>2, <1>4 DEF Counts, CountsHolders, HoldersOf
<1>7. Owners'
  <2>1. ASSUME NEW r \in Live, NEW u \in HoldersOf(compilations[r].module)
        PROVE  Runs(u, compilations[r])'
    <3>1. Runs(u, compilations[r]) /\ compilations[r] \in Entry /\ u \in Clients /\ running[u] # Idle
      BY <1>2, EntryFacts DEF Owners, HasOwners, HoldersOf
    <3>2. id'[running[u].pipeline] = compilations[r].id
      BY <1>1, <3>1, RunsKept
    <3>3. QED
      BY <1>1, <3>1, <3>2 DEF Runs
  <2>2. QED
    BY <1>1, <1>4, <2>1 DEF Owners, HasOwners, HoldersOf
<1>8. QED
  BY <1>2, <1>3, <1>4, <1>5, <1>6, <1>7 DEF CacheInv

\* A hold is given back: the entry that is found has a use less, and the module of the
\* client a holder less.  These are one entry where the key was not lost.
LEMMA ReleaseHoldInv ==
  ASSUME CacheInv, NEW t \in Clients, ReleaseHold(t)
  PROVE  CacheInv'
<1>1. /\ moving = {} /\ running[t] # Idle /\ lost' = lost
      /\ bits' = bits /\ count' = count /\ moving' = moving /\ id' = id /\ unique_id' = unique_id
      /\ running' = [running EXCEPT ![t] = Idle]
  BY DEF ReleaseHold, MutexFree
<1>2. CacheTypeOK /\ Reachable /\ Distinct /\ Held /\ Counts /\ Owners /\ IdInv
  BY DEF CacheInv
<1>3. PICK at : at = Find(running[t].context, id[running[t].pipeline])
  OBVIOUS
<1>4. compilations' = [r \in DOMAIN compilations |->
          IF r \in at THEN [compilations[r] EXCEPT !.uses = @ - 1] ELSE compilations[r]]
  BY <1>3 DEF ReleaseHold
<1>5. running \in [Clients -> {Idle} \union [context : Contexts, pipeline : Pipelines, module : Modules]]
  BY <1>2 DEF CacheTypeOK
<1>6. \A module : HoldersOf(module)' = HoldersOf(module) \ {t}
  BY <1>1, <1>5 DEF HoldersOf
<1>7. \A r \in at : r \in Live
  <2>1. id[running[t].pipeline] \in {InvalidId} \union Ids
    BY <1>1, <1>2, <1>5 DEF CacheTypeOK
  <2>2. CASE id[running[t].pipeline] \in Ids
    BY <1>2, <1>3, <2>2, FindFacts
  <2>3. CASE id[running[t].pipeline] = InvalidId
    <3>1. \A r \in at : compilations[r].id = InvalidId /\ compilations[r].context \in Contexts
                        /\ r \in DOMAIN compilations
      BY <1>1, <1>3, <1>5, <2>3 DEF Find, Matches
    <3>2. \A slot \in Slot : slot.id = InvalidId => slot.context = Nil
      BY SlotFacts DEF Slot, Zero, Entry, InvalidId, DeletedId
    <3>3. Nil \notin Contexts
      BY GPUCacheAssumption
    <3>4. QED
      BY <1>2, <3>1, <3>2, <3>3, EntryFacts
  <2>4. QED
    BY <2>1, <2>2, <2>3
<1>8. \A r \in DOMAIN compilations : /\ compilations'[r].context = compilations[r].context
                                     /\ compilations'[r].id = compilations[r].id
                                     /\ compilations'[r].module = compilations[r].module
                                     /\ compilations'[r] \in Slot
  <2>1. ASSUME NEW r \in at
        PROVE  /\ [compilations[r] EXCEPT !.uses = @ - 1] \in Entry
               /\ [compilations[r] EXCEPT !.uses = @ - 1].context = compilations[r].context
               /\ [compilations[r] EXCEPT !.uses = @ - 1].id = compilations[r].id
               /\ [compilations[r] EXCEPT !.uses = @ - 1].module = compilations[r].module
    BY <1>2, <1>7, EntryFacts DEF Entry
  <2>2. QED
    BY <1>2, <1>4, <2>1, EntryFacts, SlotFacts
<1>9. CacheTypeOK'
  <2>1. compilations' \in [IF bits = 0 THEN {} ELSE 0 .. Size(bits) - 1 -> Slot]
    BY <1>2, <1>4, <1>8 DEF CacheTypeOK
  <2>2. running' \in [Clients -> {Idle} \union [context : Contexts, pipeline : Pipelines, module : Modules]]
    BY <1>1, <1>5
  <2>3. QED
    BY <1>1, <1>2, <2>1, <2>2 DEF CacheTypeOK
<1>10. Live' = Live /\ Reachable' /\ Distinct' /\ MovingInv' /\ HasRoom'
  <2>1. DOMAIN compilations' = DOMAIN compilations
    BY <1>4
  <2>2. QED
    BY <1>1, <1>8, <2>1, KeysKept
<1>11. Held'
  <2>1. ASSUME NEW u \in Clients, running'[u] # Idle, KeyFor(u)' \notin lost
        PROVE  \E r \in Live : Runs(u, compilations[r])'
    <3>1. running'[u] = running[u] /\ running[u] # Idle
      BY <1>1, <1>5, <2>1
    <3>2. KeyFor(u) \notin lost
      BY <1>1, <2>1, <3>1 DEF KeyFor
    <3>3. PICK r \in Live : Runs(u, compilations[r])
      BY <1>1, <1>2, <3>1, <3>2 DEF Held
    <3>4. QED
      BY <1>1, <1>2, <1>8, <3>1, <3>3, EntryFacts DEF Runs
  <2>2. QED
    BY <1>1, <1>10, <2>1 DEF Held
<1>12. Counts'
  <2>1. ASSUME NEW r \in Live, KeyOf(compilations[r]) \notin lost
        PROVE  (compilations[r].uses = Cardinality(HoldersOf(compilations[r].module)))'
    <3>1. PICK module : module = compilations[r].module
      OBVIOUS
    <3>2. r \in DOMAIN compilations /\ compilations[r] \in Entry /\ compilations'[r].module = module
          /\ compilations[r].uses = Cardinality(HoldersOf(module))
      BY <1>2, <1>8, <2>1, <3>1, EntryFacts DEF Counts, CountsHolders
    <3>3. CASE t \in HoldersOf(module)
      <4>1. Runs(t, compilations[r])
        BY <1>2, <3>1, <3>3 DEF Owners, HasOwners
      <4>2. r \in at
        BY <1>2, <1>3, <4>1, FindsEntry DEF Runs
      <4>3. compilations'[r].uses = compilations[r].uses - 1
        BY <1>4, <3>2, <4>2 DEF Entry
      <4>4. Cardinality(HoldersOf(module) \ {t}) = Cardinality(HoldersOf(module)) - 1
        BY <3>3, HolderRemoved
      <4>5. QED
        BY <1>6, <3>2, <4>3, <4>4
    <3>4. CASE t \notin HoldersOf(module)
      <4>1. r \notin at
        <5>1. SUFFICES ASSUME r \in at PROVE FALSE
          OBVIOUS
        <5>2. KeyOf(compilations[r]) = KeyFor(t)
          BY <1>3, <5>1 DEF Find, Matches, KeyOf, KeyFor
        <5>3. PICK s \in Live : Runs(t, compilations[s])
          BY <1>1, <1>2, <2>1, <5>2 DEF Held
        <5>4. r = s
          BY <1>2, <1>3, <5>1, <5>3, FindsEntry DEF Runs
        <5>5. QED
          BY <1>1, <3>1, <3>4, <5>3, <5>4 DEF Runs, HoldersOf
      <4>2. compilations'[r] = compilations[r]
        BY <1>4, <3>2, <4>1
      <4>3. HoldersOf(module)' = HoldersOf(module)
        BY <1>6, <3>4
      <4>4. QED
        BY <3>2, <4>2, <4>3
    <3>5. QED
      BY <3>3, <3>4
  <2>2. \A r \in Live : KeyOf(compilations[r])' = KeyOf(compilations[r])
    BY <1>2, <1>8, EntryFacts DEF KeyOf
  <2>3. QED
    BY <1>1, <1>10, <2>1, <2>2 DEF Counts, CountsHolders
<1>13. Owners'
  <2>1. ASSUME NEW r \in Live, NEW u \in HoldersOf(compilations[r].module)'
        PROVE  Runs(u, compilations[r])'
    <3>1. r \in DOMAIN compilations
      BY DEF Live
    <3>2. u \in HoldersOf(compilations[r].module) /\ u # t
      BY <1>6, <1>8, <3>1
    <3>3. Runs(u, compilations[r])
      BY <1>2, <3>2 DEF Owners, HasOwners
    <3>4. QED
      BY <1>1, <1>8, <3>1, <3>2, <3>3 DEF Runs
  <2>2. QED
    BY <1>1, <1>10, <2>1 DEF Owners, HasOwners
<1>14. IdInv'
  BY <1>1, <1>2 DEF IdInv, Taken
<1>15. QED
  BY <1>9, <1>10, <1>11, <1>12, <1>13, <1>14 DEF CacheInv

-----------------------------------------------------------------------------
(* Every step preserves the invariant: the device is released *)

\* What is unloaded has no user; the slots keep their place in every search.
LEMMA KeptInv ==
  ASSUME CacheInv, moving = {}, NEW contexts, compilations' = Remaining(contexts), count' \in Int,
         bits' = bits, moving' = moving, running' = running, id' = id, unique_id' = unique_id, lost' = lost
  PROVE  CacheInv'
<1>1. CacheTypeOK /\ Reachable /\ Distinct /\ Held /\ Counts /\ Owners /\ IdInv
  BY DEF CacheInv
<1>2. DOMAIN compilations' = DOMAIN compilations
  BY DEF Remaining
<1>3. ASSUME NEW s \in DOMAIN compilations, s \notin Gone(contexts)
      PROVE  compilations'[s] = compilations[s]
  BY <1>3 DEF Remaining
<1>4. ASSUME NEW s \in Gone(contexts)
      PROVE  /\ s \in DOMAIN compilations /\ compilations[s].uses = 0 /\ compilations[s].id > InvalidId
             /\ compilations'[s] = Deleted(compilations[s])
             /\ compilations'[s] \in Slot /\ compilations'[s].id = DeletedId
  <2>1. s \in DOMAIN compilations /\ compilations[s].uses = 0 /\ compilations[s].id > InvalidId
    BY DEF Gone, Unloads
  <2>2. compilations'[s] = Deleted(compilations[s])
    BY <2>1 DEF Remaining
  <2>3. compilations[s] # Zero /\ compilations[s] \in Slot
    BY <1>1, <2>1, EntryFacts DEF Zero, InvalidId
  <2>4. PICK slot : slot = compilations[s]
    OBVIOUS
  <2>5. slot.context \in Contexts
        /\ Deleted(slot) = [context |-> slot.context, module |-> Nil, id |-> DeletedId, uses |-> 0]
    <3>1. CASE slot \in Entry
      BY <2>1, <2>4, <3>1 DEF Entry, Deleted
    <3>2. CASE slot \notin Entry
      <4>1. PICK c \in Contexts : slot = [context |-> c, module |-> Nil, id |-> DeletedId, uses |-> 0]
        BY <2>3, <2>4, <3>2 DEF Slot
      <4>2. QED
        BY <4>1 DEF Deleted
    <3>3. QED
      BY <3>1, <3>2
  <2>6. Deleted(slot) \in Slot /\ Deleted(slot).id = DeletedId
    BY <2>5 DEF Slot
  <2>7. QED
    BY <2>1, <2>2, <2>4, <2>6
<1>5. \A s \in Live' : s \in Live /\ compilations'[s] = compilations[s]
  <2>1. ASSUME NEW s \in Live' PROVE s \in DOMAIN compilations /\ s \notin Gone(contexts)
    <3>1. s \in DOMAIN compilations /\ ~(compilations'[s].id <= DeletedId)
      BY <1>2 DEF Live, Free
    <3>2. QED
      BY <1>4, <3>1 DEF DeletedId
  <2>2. QED
    BY <1>2, <1>3, <2>1 DEF Live
<1>6. \A context, i, s : Before(context, i, s)' = Before(context, i, s)
  BY <1>2 DEF Before, Tries
<1>7. CacheTypeOK'
  <2>1. \A s \in DOMAIN compilations : compilations'[s] \in Slot
    BY <1>1, <1>3, <1>4, EntryFacts
  <2>2. compilations' \in [IF bits = 0 THEN {} ELSE 0 .. Size(bits) - 1 -> Slot]
    BY <1>1, <2>1 DEF CacheTypeOK, Remaining
  <2>3. QED
    BY <1>1, <2>2 DEF CacheTypeOK
<1>8. Reachable'
  <2>1. ASSUME NEW s \in Live', NEW r \in Before(compilations[s].context, compilations[s].id, s)
        PROVE  compilations'[r].id # InvalidId
    <3>1. r \in DOMAIN compilations /\ compilations[r].id # InvalidId
      BY <1>1, <1>5 DEF Reachable, Before
    <3>2. QED
      BY <1>3, <1>4, <3>1 DEF InvalidId, DeletedId
  <2>2. QED
    BY <1>5, <1>6, <2>1 DEF Reachable
<1>9. Distinct'
  BY <1>1, <1>5 DEF Distinct, Apart, SameKey
<1>10. MovingInv' /\ HasRoom'
  BY DEF CacheInv, MovingInv, HasRoom
<1>11. Held'
  <2>1. ASSUME NEW t \in Clients, running[t] # Idle, KeyFor(t) \notin lost
        PROVE  \E s \in Live' : Runs(t, compilations[s])'
    <3>1. PICK s \in Live : Runs(t, compilations[s])
      BY <1>1, <2>1 DEF Held
    <3>0. KeyOf(compilations[s]) \notin lost
      BY <2>1, <3>1 DEF Runs, KeyOf, KeyFor
    <3>2. t \in HoldersOf(compilations[s].module)
      BY <2>1, <3>1 DEF HoldersOf, Runs
    <3>3. compilations[s].uses >= 1 /\ s \in DOMAIN compilations
      BY <1>1, <3>0, <3>2, HolderRemoved, EntryFacts DEF Counts, CountsHolders
    <3>4. compilations'[s] = compilations[s]
      BY <1>3, <1>4, <3>3
    <3>5. s \in Live'
      BY <1>2, <3>1, <3>4 DEF Live
    <3>6. QED
      BY <3>1, <3>4, <3>5 DEF Runs
  <2>2. QED
    BY <2>1 DEF Held, KeyFor
<1>12. Counts' /\ Owners'
  <2>1. ASSUME NEW s \in Live'
        PROVE  CountsHolders(compilations[s])' /\ HasOwners(compilations[s])'
    <3>1. CountsHolders(compilations[s]) /\ HasOwners(compilations[s]) /\ compilations'[s] = compilations[s]
      BY <1>1, <1>5 DEF Counts, Owners
    <3>2. QED
      BY <3>1 DEF CountsHolders, HasOwners, HoldersOf, KeyOf, Runs
  <2>2. QED
    BY <2>1 DEF Counts, Owners
<1>13. IdInv'
  BY <1>1 DEF IdInv, Taken
<1>14. QED
  BY <1>7, <1>8, <1>9, <1>10, <1>11, <1>12, <1>13 DEF CacheInv

\* The count stays a number.
LEMMA CountedType ==
  ASSUME CacheInv, NEW contexts
  PROVE  Counted(contexts) \in Int
<1>1. IsFiniteSet(Gone(contexts)) /\ count \in Int
  BY EntryFacts, FS_Subset DEF Gone, CacheInv, CacheTypeOK
<1>2. QED
  BY <1>1, FS_CardinalityType DEF Counted

\* A device is released while others run.
LEMMA DeleteContextInv ==
  ASSUME CacheInv, NEW context \in Contexts, DeleteContext(context)
  PROVE  CacheInv'
<1>1. moving = {} /\ compilations' = Remaining({context}) /\ count' \in Int
      /\ bits' = bits /\ moving' = moving /\ running' = running /\ id' = id /\ unique_id' = unique_id
      /\ lost' = lost
  BY CountedType DEF DeleteContext, MutexFree
<1>2. QED
  BY <1>1, KeptInv

\* Everything is released when nobody runs, and the table too if the count says so.
LEMMA ReleaseAllInv ==
  ASSUME CacheInv, ReleaseAll
  PROVE  CacheInv'
<1>1. moving = {} /\ count' \in Int /\ (\A t \in Clients : running[t] = Idle)
      /\ moving' = moving /\ running' = running /\ id' = id /\ unique_id' = unique_id
  BY CountedType DEF ReleaseAll, MutexFree
<1>2. CASE count' # 0
  <2>1. compilations' = Remaining(Contexts) /\ bits' = bits /\ lost' = lost
    BY <1>2 DEF ReleaseAll
  <2>2. QED
    BY <1>1, <2>1, KeptInv
<1>3. CASE count' = 0
  <2>1. compilations' = NoTable /\ bits' = 0 /\ lost' = {}
    BY <1>3 DEF ReleaseAll
  <2>2. DOMAIN compilations' = {} /\ Live' = {}
    BY <2>1 DEF NoTable, Live
  <2>3. CacheTypeOK'
    BY <1>1, <2>1 DEF CacheInv, CacheTypeOK, NoTable
  <2>4. Reachable' /\ Distinct' /\ MovingInv' /\ HasRoom' /\ Held' /\ Counts' /\ Owners'
    BY <1>1, <2>2 DEF CacheInv, Reachable, Distinct, MovingInv, HasRoom, Held, Counts, Owners
  <2>5. IdInv'
    BY <1>1 DEF CacheInv, IdInv, Taken
  <2>6. QED
    BY <2>3, <2>4, <2>5 DEF CacheInv
<1>4. QED
  BY <1>2, <1>3

-----------------------------------------------------------------------------
(* Every step preserves the invariant: an insertion *)

\* A new table has only free slots.
LEMMA EmptyTable ==
  ASSUME NEW b \in Nat
  PROVE  /\ Empty(b) \in [0 .. Size(b) - 1 -> Slot]
         /\ \A s \in DOMAIN Empty(b) : Free(Empty(b)[s])
  BY SlotFacts DEF Empty

\* The new entry has a module and a key of its own.
LEMMA SetupCompilesInv ==
  ASSUME CacheInv, NEW t \in Clients, NEW context \in Contexts, NEW p \in Pipelines,
         SetupCompiles(t, context, p)
  PROVE  CacheInv'
<1>1. /\ moving = {} /\ running[t] = Idle /\ TakeId(p) /\ Find(context, id'[p]) = {} /\ count' = count /\ lost' = lost
  BY DEF SetupCompiles, MutexFree
<1>2. /\ CacheTypeOK /\ Reachable /\ Distinct /\ Held /\ Counts /\ Owners
      /\ id' \in [Pipelines -> {InvalidId} \union Ids] /\ unique_id' \in Nat /\ IdInv' /\ id'[p] \in Ids
  BY <1>1, TakeIdFacts DEF CacheInv
<1>id. PICK i \in Ids : i = id'[p]
  BY <1>2
<1>3. PICK module \in Modules \ Loaded :
          /\ moving' = {Pending(0, 0, [context |-> context, module |-> module, id |-> id'[p], uses |-> 1])}
          /\ Starts(t, context, p, module)
  BY DEF SetupCompiles
<1>e. PICK e : e = [context |-> context, module |-> module, id |-> i, uses |-> 1]
  OBVIOUS
<1>m. PICK m : m = Pending(0, 0, e)
  OBVIOUS
<1>4. running' = [running EXCEPT ![t] = [context |-> context, pipeline |-> p, module |-> module]]
      /\ running \in [Clients -> {Idle} \union [context : Contexts, pipeline : Pipelines, module : Modules]]
  BY <1>2, <1>3 DEF Starts, CacheTypeOK
<1>5. module # Nil /\ module \in Modules
      /\ (\A s \in DOMAIN compilations : compilations[s].module # module)
      /\ (\A u \in Clients : running[u].module # module)
  BY <1>3, SlotFacts DEF Loaded
<1>6. HoldersOf(module) = {} /\ HoldersOf(module)' = {t}
      /\ \A other : other # module => HoldersOf(other)' = HoldersOf(other)
  BY <1>1, <1>4, <1>5 DEF HoldersOf, Idle
<1>7. Cardinality({t}) = 1
  BY FS_Singleton
<1>8. e \in Entry
  BY <1>e, <1>5 DEF Entry
<1>9. m.from = 0 /\ m.slot = 0 /\ m.entry = e /\ ~m.grown /\ moving' = {m}
      /\ e.context = context /\ e.module = module /\ e.id = i /\ e.uses = 1
      /\ m \in [from : 0 .. MaxBits, slot : Nat, entry : Entry, grown : BOOLEAN]
  BY <1>id, <1>e, <1>m, <1>3, <1>8, GPUCacheAssumption DEF Pending
<1>10. /\ bits' \in InitialBits .. MaxBits /\ bits' # 0
       /\ compilations' \in [0 .. Size(bits') - 1 -> Slot]
       /\ Live' = Live /\ (\A s \in Live : compilations'[s] = compilations[s])
       /\ Reachable'
  <2>1. CASE bits = 0
    <3>1. compilations' = Empty(InitialBits) /\ bits' = InitialBits
      BY <2>1 DEF SetupCompiles
    <3>2. InitialBits \in Nat /\ InitialBits # 0 /\ InitialBits \in InitialBits .. MaxBits
      BY GPUCacheAssumption
    <3>3. Live = {}
      BY <1>2, <2>1 DEF Live, CacheTypeOK
    <3>4. Live' = {}
      BY <3>1, <3>2, EmptyTable DEF Live
    <3>5. Reachable'
      BY <3>4 DEF Reachable
    <3>6. QED
      BY <3>1, <3>2, <3>3, <3>4, <3>5, EmptyTable
  <2>2. CASE bits # 0
    <3>1. compilations' = compilations /\ bits' = bits
      BY <2>2 DEF SetupCompiles
    <3>2. Live' = Live
      BY <3>1 DEF Live
    <3>3. Reachable'
      BY <1>2, <3>1 DEF Reachable, Live, Before, Tries
    <3>4. QED
      BY <1>2, <2>2, <3>1, <3>2, <3>3 DEF CacheTypeOK
  <2>3. QED
    BY <2>1, <2>2
<1>11. CacheTypeOK'
  <2>1. moving' \subseteq [from : 0 .. MaxBits, slot : Nat, entry : Entry, grown : BOOLEAN]
    BY <1>9
  <2>2. running' \in [Clients -> {Idle} \union [context : Contexts, pipeline : Pipelines, module : Modules]]
    BY <1>4, <1>5
  <2>3. bits' \in {0} \union InitialBits .. MaxBits /\ count' \in Int
        /\ compilations' \in [IF bits' = 0 THEN {} ELSE 0 .. Size(bits') - 1 -> Slot]
    BY <1>1, <1>2, <1>10 DEF CacheTypeOK
  <2>4. QED
    BY <1>1, <1>2, <2>1, <2>2, <2>3 DEF CacheTypeOK
<1>12. Distinct'
  <2>1. ASSUME NEW s \in Live PROVE Apart(compilations[s], e)
    <3>1. s \in DOMAIN compilations
      BY DEF Live
    <3>2. ~SameKey(compilations[s], e)
      BY <1>1, <1>2, <1>id, <1>9, FindFacts DEF SameKey
    <3>3. QED
      BY <1>5, <1>9, <3>1, <3>2 DEF Apart
  <2>2. \A r, s \in Live : r # s => Apart(compilations[r], compilations[s])
    BY <1>2 DEF Distinct
  <2>3. \A n \in moving' : n = m /\ n.entry = e
    BY <1>9
  <2>4. QED
    BY <1>10, <2>1, <2>2, <2>3 DEF Distinct
<1>13. MovingInv' /\ HasRoom'
  BY <1>9, <1>10, FS_Singleton DEF MovingInv, HasRoom, IsNew
<1>14. Held'
  <2>1. Runs(t, m.entry)'
    BY <1>id, <1>4, <1>9 DEF Runs
  <2>2. ASSUME NEW u \in Clients, u # t, running'[u] # Idle, KeyFor(u)' \notin lost
        PROVE  \E r \in Live : Runs(u, compilations[r])'
    <3>1. running'[u] = running[u] /\ running[u] # Idle
      BY <1>4, <2>2
    <3>0. KeyFor(u)' = KeyFor(u)
      BY <1>1, <3>1, KeyKept DEF KeyFor
    <3>2. PICK r \in Live : Runs(u, compilations[r])
      BY <1>1, <1>2, <2>2, <3>0, <3>1 DEF Held
    <3>3. compilations[r] \in Entry /\ compilations'[r] = compilations[r]
      BY <1>2, <1>10, EntryFacts
    <3>4. id'[running[u].pipeline] = compilations[r].id
      BY <1>1, <3>1, <3>2, <3>3, RunsKept
    <3>5. QED
      BY <3>1, <3>2, <3>3, <3>4 DEF Runs
  <2>3. QED
    BY <1>1, <1>9, <1>10, <2>1, <2>2 DEF Held
<1>15. Counts' /\ Owners'
  <2>1. CountsHolders(m.entry)' /\ HasOwners(m.entry)'
    BY <1>id, <1>4, <1>6, <1>7, <1>9 DEF CountsHolders, HasOwners, Runs
  <2>2. ASSUME NEW s \in Live
        PROVE  CountsHolders(compilations[s])' /\ HasOwners(compilations[s])'
    <3>1. PICK other : other = compilations[s].module
      OBVIOUS
    <3>2. other # module
      BY <1>2, <1>5, <3>1, EntryFacts
    <3>3. CountsHolders(compilations[s]) /\ HoldersOf(other)' = HoldersOf(other) /\ compilations'[s] = compilations[s]
      BY <1>2, <1>6, <1>10, <3>1, <3>2 DEF Counts
    <3>4. CountsHolders(compilations[s])'
      BY <1>1, <3>1, <3>3 DEF CountsHolders, KeyOf
    <3>5. ASSUME NEW u \in HoldersOf(other)
          PROVE  Runs(u, compilations[s])'
      <4>1. u \in Clients /\ running[u] # Idle /\ u # t /\ Runs(u, compilations[s]) /\ compilations[s] \in Entry
        BY <1>1, <1>2, <3>1, EntryFacts DEF Owners, HasOwners, HoldersOf
      <4>2. id'[running[u].pipeline] = compilations[s].id
        BY <1>1, <4>1, RunsKept
      <4>3. QED
        BY <1>4, <3>3, <4>1, <4>2 DEF Runs
    <3>6. QED
      BY <3>1, <3>3, <3>4, <3>5 DEF HasOwners
  <2>3. QED
    BY <1>9, <1>10, <2>1, <2>2 DEF Counts, Owners
<1>16. QED
  BY <1>2, <1>10, <1>11, <1>12, <1>13, <1>14, <1>15 DEF CacheInv

\* The new entry comes last.
LEMMA NewIsLast ==
  ASSUME MovingInv, NEW m, Turn(m), IsNew(m), CacheTypeOK
  PROVE  moving = {m}
<1>1. m \in moving /\ m.from = 0 /\ m.slot = 0
  BY DEF Turn, MovingInv, IsNew
<1>2. ASSUME NEW n \in moving, n # m PROVE FALSE
  <2>1. n.from \in Nat /\ (m.from > n.from \/ m.from = n.from)
    BY <1>2, GPUCacheAssumption DEF Turn, CacheTypeOK
  <2>2. n.from = 0
    BY <1>1, <2>1
  <2>3. QED
    BY <1>1, <1>2, <2>2 DEF MovingInv, IsNew
<1>3. QED
  BY <1>1, <1>2

\* What is there to move is no more than there are entries.
LEMMA MovesAreEntries ==
  ASSUME CacheTypeOK, NEW b
  PROVE  /\ IsFiniteSet({Pending(b, s, compilations[s]) : s \in Live})
         /\ Cardinality({Pending(b, s, compilations[s]) : s \in Live}) <= Cardinality(Live)
<1> DEFINE K == {Pending(b, s, compilations[s]) : s \in Live}
           f == [s \in Live |-> Pending(b, s, compilations[s])]
<1>1. IsFiniteSet(Live)
  BY EntryFacts
<1>2. f \in Surjection(Live, K)
  BY DEF Surjection
<1>3. QED
  BY <1>1, <1>2, FS_Surjection

\* The table grows: all entries are on the move, and there is room for them.
LEMMA GrowInv ==
  ASSUME CacheInv, NEW m \in moving, Grow(m)
  PROVE  CacheInv'
<1>1. /\ Turn(m) /\ Overloaded /\ bits < MaxBits
      /\ compilations' = Empty(bits + 1) /\ bits' = bits + 1
      /\ count' = count /\ id' = id /\ unique_id' = unique_id /\ running' = running /\ lost' = lost
  BY DEF Grow
<1>2. CacheTypeOK /\ Distinct /\ MovingInv /\ HasRoom /\ Held /\ Counts /\ Owners /\ IdInv
  BY DEF CacheInv
<1>3. bits \in InitialBits .. MaxBits /\ bits \in Nat /\ bits # 0 /\ bits + 1 \in InitialBits .. MaxBits
      /\ bits + 1 \in Nat /\ bits - 1 \in Nat /\ count \in Int
  BY <1>1, <1>2, GPUCacheAssumption DEF CacheTypeOK, MovingInv
<1>4. Size(bits) \in Nat /\ Size(bits) >= 2 /\ Size(bits + 1) = 2 * Size(bits)
  <2>1. Size(bits - 1) \in Nat /\ Size(bits - 1) > 0 /\ Size((bits - 1) + 1) = 2 * Size(bits - 1)
    BY <1>3, SizeFacts
  <2>2. (bits - 1) + 1 = bits
    BY <1>3
  <2>3. QED
    BY <1>3, <2>1, <2>2, SizeFacts
<1>5. count > 0
  BY <1>1, <1>3, <1>4 DEF Overloaded
<1> DEFINE K == {Pending(bits, s, compilations[s]) : s \in Live}
<1>6. PICK g : g = [m EXCEPT !.grown = TRUE]
  OBVIOUS
<1>7. moving' = (moving \ {m}) \union {g} \union K
  BY <1>5, <1>6 DEF Grow
<1>8. m \in [from : 0 .. MaxBits, slot : Nat, entry : Entry, grown : BOOLEAN]
  BY <1>2 DEF CacheTypeOK
<1>9. /\ g \in [from : 0 .. MaxBits, slot : Nat, entry : Entry, grown : BOOLEAN]
      /\ g.from = m.from /\ g.slot = m.slot /\ g.entry = m.entry /\ g.grown
  BY <1>6, <1>8
<1>10. ASSUME NEW n \in K
       PROVE  /\ n \in [from : 0 .. MaxBits, slot : Nat, entry : Entry, grown : BOOLEAN]
              /\ \E s \in Live : n = Pending(bits, s, compilations[s])
              /\ \A s \in Live : n = Pending(bits, s, compilations[s]) => n.entry = compilations[s]
              /\ n.from = bits
  <2>1. PICK s \in Live : n = Pending(bits, s, compilations[s])
    OBVIOUS
  <2>2. s \in Nat /\ compilations[s] \in Entry
    BY <1>2, <1>4, EntryFacts DEF CacheTypeOK
  <2>3. PICK e : e = compilations[s]
    OBVIOUS
  <2>4. n = [from |-> bits, slot |-> s, entry |-> e, grown |-> FALSE] /\ bits \in 0 .. MaxBits
    BY <1>3, <2>1, <2>3, GPUCacheAssumption DEF Pending
  <2>5. QED
    BY <2>1, <2>2, <2>3, <2>4 DEF Pending
<1>11. Live' = {} /\ compilations' \in [0 .. Size(bits + 1) - 1 -> Slot]
  BY <1>1, <1>3, EmptyTable DEF Live
<1>12. CacheTypeOK'
  <2>1. moving' \subseteq [from : 0 .. MaxBits, slot : Nat, entry : Entry, grown : BOOLEAN]
    <3>1. \A n \in K : n \in [from : 0 .. MaxBits, slot : Nat, entry : Entry, grown : BOOLEAN]
      BY <1>10
    <3> HIDE DEF K
    <3>2. QED
      BY <1>2, <1>7, <1>9, <3>1 DEF CacheTypeOK
  <2>2. bits' \in {0} \union InitialBits .. MaxBits /\ bits' # 0
    BY <1>1, <1>3
  <2>3. compilations' \in [IF bits' = 0 THEN {} ELSE 0 .. Size(bits') - 1 -> Slot]
    BY <1>1, <1>11, <2>2
  <2>4. QED
    BY <1>1, <1>2, <2>1, <2>2, <2>3 DEF CacheTypeOK
<1>13. \A n \in moving' : \/ n \in moving \ {m}
                          \/ n = g
                          \/ n \in K
  BY <1>7
<1>14. Distinct'
  <2>1. \A a, b : Apart(a, b) <=> Apart(b, a)
    BY DEF Apart, SameKey
  <2>2. \A n \in K : \E s \in Live : n = Pending(bits, s, compilations[s]) /\ n.entry = compilations[s]
    BY <1>10
  <2>3. ASSUME NEW n \in K, NEW o \in K, n # o PROVE Apart(n.entry, o.entry)
    <3>1. PICK s \in Live : n = Pending(bits, s, compilations[s]) /\ n.entry = compilations[s]
      BY <2>2
    <3>2. PICK r \in Live : o = Pending(bits, r, compilations[r]) /\ o.entry = compilations[r]
      BY <2>2
    <3>3. s # r
      BY <2>3, <3>1, <3>2
    <3>4. QED
      BY <1>2, <3>1, <3>2, <3>3 DEF Distinct
  <2>4. ASSUME NEW n \in K, NEW o \in moving PROVE Apart(n.entry, o.entry)
    BY <1>2, <2>2 DEF Distinct
  <2>5. ASSUME NEW n \in moving, NEW o \in moving, n # o PROVE Apart(n.entry, o.entry)
    BY <1>2, <2>5 DEF Distinct
  <2> HIDE DEF K
  <2>6. ASSUME NEW n \in moving', NEW o \in moving', n # o PROVE Apart(n.entry, o.entry)
    <3>1. CASE n \in K /\ o \in K
      BY <2>3, <2>6, <3>1
    <3>2. CASE n \in K /\ o \notin K
      <4>1. \E q \in moving : q.entry = o.entry
        BY <1>9, <1>13, <3>2
      <4>2. QED
        BY <2>4, <3>2, <4>1
    <3>3. CASE n \notin K /\ o \in K
      <4>1. \E q \in moving : q.entry = n.entry
        BY <1>9, <1>13, <3>3
      <4>2. QED
        BY <2>1, <2>4, <3>3, <4>1
    <3>4. CASE n \notin K /\ o \notin K
      <4>1. \E q, r \in moving : q # r /\ q.entry = n.entry /\ r.entry = o.entry
        BY <1>9, <1>13, <2>6, <3>4
      <4>2. QED
        BY <2>5, <4>1
    <3>5. QED
      BY <3>1, <3>2, <3>3, <3>4
  <2>7. QED
    BY <1>11, <2>6 DEF Distinct
<1>15. IsFiniteSet(K) /\ Cardinality(K) <= Cardinality(Live) /\ Cardinality(K) \in Nat
       /\ Cardinality(Live) \in Nat /\ Cardinality(Live) <= Size(bits)
  <2>1. IsFiniteSet(Live) /\ Live \subseteq DOMAIN compilations /\ IsFiniteSet(DOMAIN compilations)
        /\ Cardinality(DOMAIN compilations) = Size(bits)
    BY <1>2, <1>3, EntryFacts DEF Live
  <2>2. Cardinality(Live) <= Size(bits)
    BY <2>1, FS_Subset
  <2>3. QED
    BY <1>2, <2>1, <2>2, MovesAreEntries, FS_CardinalityType
<1> HIDE DEF K
<1>16. IsFiniteSet(moving') /\ Cardinality(moving') \in Nat
       /\ Cardinality(moving') <= Cardinality(moving) + Cardinality(Live)
       /\ Cardinality(moving) \in Nat
  <2>1. IsFiniteSet(moving) /\ Cardinality(moving) \in Nat
    BY <1>2, FS_CardinalityType DEF MovingInv
  <2>2. IsFiniteSet(moving \ {m}) /\ Cardinality(moving \ {m}) = Cardinality(moving) - 1
    BY <2>1, FS_RemoveElement
  <2>3. PICK R : R = moving \ {m}
    OBVIOUS
  <2>4. PICK M : M = R \union {g} /\ IsFiniteSet(M) /\ Cardinality(M) \in Nat /\ Cardinality(M) <= Cardinality(moving)
    <3>1. IsFiniteSet(R \union {g}) /\ Cardinality(R \union {g}) \in {Cardinality(R), Cardinality(R) + 1}
      BY <2>2, <2>3, FS_AddElement
    <3>2. Cardinality(R \union {g}) \in Nat
      BY <3>1, FS_CardinalityType
    <3>3. QED
      BY <2>1, <2>2, <2>3, <3>1, <3>2
  <2>5. IsFiniteSet(M \union K) /\ Cardinality(M \union K) = Cardinality(M) + Cardinality(K) - Cardinality(M \cap K)
    BY <1>15, <2>4, FS_Union
  <2>6. Cardinality(M \cap K) \in Nat /\ Cardinality(M \union K) \in Nat
    BY <1>15, <2>5, FS_Subset, FS_CardinalityType
  <2>7. QED
    BY <1>7, <1>15, <2>1, <2>3, <2>4, <2>5, <2>6
<1>17. HasRoom'
  <2>1. Cardinality(Live') = 0
    BY <1>11, FS_EmptySet
  <2>2. CASE \A n \in moving : IsNew(n) /\ ~n.grown
    <3>1. moving = {m}
      BY <1>1, <1>2, <2>2, NewIsLast
    <3>2. Cardinality(moving) = 1
      BY <3>1, FS_Singleton
    <3>3. QED
      BY <1>1, <1>4, <1>15, <1>16, <2>1, <3>2 DEF HasRoom
  <2>3. CASE Cardinality(Live) + Cardinality(moving) <= Size(bits)
    BY <1>1, <1>4, <1>15, <1>16, <2>1, <2>3 DEF HasRoom
  <2>4. QED
    BY <1>2, <2>2, <2>3 DEF HasRoom
<1>18. MovingInv'
  <2>1. \A n \in K : ~IsNew(n)
    BY <1>3, <1>10 DEF IsNew
  <2>2. bits' # 0
    BY <1>1, <1>3
  <2>3. \A n \in moving' : IsNew(n) => n = g \/ n \in moving \ {m}
    BY <1>13, <2>1
  <2>4. IsNew(g) <=> IsNew(m)
    BY <1>9 DEF IsNew
  <2>5. QED
    BY <1>2, <1>9, <1>16, <2>2, <2>3, <2>4 DEF MovingInv
<1>19. Held'
  <2>1. ASSUME NEW t \in Clients, running[t] # Idle, KeyFor(t) \notin lost
        PROVE  \E n \in moving' : Runs(t, n.entry)
    <3>1. CASE \E s \in Live : Runs(t, compilations[s])
      <4>1. PICK s \in Live : Runs(t, compilations[s])
        BY <3>1
      <4>2. PICK n : n = Pending(bits, s, compilations[s])
        OBVIOUS
      <4>3. n \in K
        BY <4>2 DEF K
      <4>4. n.entry = compilations[s]
        BY <1>10, <4>2, <4>3
      <4>5. QED
        BY <1>7, <4>1, <4>3, <4>4
    <3>2. CASE \E n \in moving : Runs(t, n.entry)
      BY <1>7, <1>9, <3>2
    <3>3. QED
      BY <1>2, <2>1, <3>1, <3>2 DEF Held
  <2>2. QED
    BY <1>1, <2>1 DEF Held, Runs, KeyFor
<1>20. Counts' /\ Owners'
  <2>1. ASSUME NEW n \in moving'
        PROVE  CountsHolders(n.entry) /\ HasOwners(n.entry)
    <3>1. CASE n \in K
      BY <1>2, <1>10, <3>1 DEF Counts, Owners
    <3>2. CASE n \notin K
      BY <1>2, <1>9, <1>13, <3>2 DEF Counts, Owners
    <3>3. QED
      BY <3>1, <3>2
  <2>2. \A entry : /\ CountsHolders(entry)' <=> CountsHolders(entry)
                   /\ HasOwners(entry)' <=> HasOwners(entry)
    BY <1>1 DEF CountsHolders, HasOwners, HoldersOf, Runs
  <2>3. QED
    BY <1>11, <2>1, <2>2 DEF Counts, Owners
<1>21. IdInv' /\ Reachable'
  BY <1>1, <1>2, <1>11 DEF IdInv, Taken, Reachable
<1>22. QED
  BY <1>12, <1>14, <1>17, <1>18, <1>19, <1>20, <1>21 DEF CacheInv

\* The entry whose turn it is gets the first free slot.
LEMMA PlaceInv ==
  ASSUME CacheInv, NEW m \in moving, Place(m)
  PROVE  CacheInv'
<1>1. /\ Turn(m) /\ moving' = moving \ {m} /\ count' = count + 1
      /\ bits' = bits /\ id' = id /\ unique_id' = unique_id /\ running' = running /\ lost' = lost
  BY DEF Place, Placeable
<1>2. CacheTypeOK /\ Reachable /\ Distinct /\ MovingInv /\ HasRoom /\ Held /\ Counts /\ Owners /\ IdInv
  BY DEF CacheInv
<1>3. PICK s \in FirstFree(m.entry) : compilations' = [compilations EXCEPT ![s] = m.entry]
  BY DEF Place
<1>4. PICK e \in Entry : e = m.entry
  BY <1>2, EntryFacts
<1>5. s \in DOMAIN compilations /\ s \notin Live
      /\ \A r \in Before(e.context, e.id, s) : r \in DOMAIN compilations /\ ~Free(compilations[r])
  BY <1>3, <1>4 DEF FirstFree, Live, Before
<1>6. /\ DOMAIN compilations' = DOMAIN compilations /\ compilations'[s] = e
      /\ \A r \in DOMAIN compilations : r # s => compilations'[r] = compilations[r]
  BY <1>3, <1>4, <1>5
<1>7. Live' = Live \union {s} /\ \A r \in Live : r # s /\ compilations'[r] = compilations[r]
  BY <1>5, <1>6, SlotFacts DEF Live
<1>8. \A context, i, r : Before(context, i, r)' = Before(context, i, r)
  BY <1>1, <1>6 DEF Before, Tries
<1>9. CacheTypeOK'
  <2>1. compilations' \in [IF bits = 0 THEN {} ELSE 0 .. Size(bits) - 1 -> Slot]
    BY <1>2, <1>3, <1>4, SlotFacts DEF CacheTypeOK
  <2>2. QED
    BY <1>1, <1>2, <2>1 DEF CacheTypeOK
<1>10. \A r \in DOMAIN compilations : compilations[r].id # InvalidId => compilations'[r].id # InvalidId
  BY <1>6, SlotFacts DEF InvalidId, DeletedId
<1>11. Reachable'
  <2>1. ASSUME NEW q \in Live, NEW r \in Before(compilations[q].context, compilations[q].id, q)
        PROVE  compilations'[r].id # InvalidId
    BY <1>2, <1>10 DEF Reachable, Before
  <2>2. ASSUME NEW r \in Before(e.context, e.id, s)
        PROVE  compilations'[r].id # InvalidId
    <3>1. r \in DOMAIN compilations /\ compilations[r].id # InvalidId
      BY <1>5 DEF Free, InvalidId, DeletedId
    <3>2. QED
      BY <1>10, <3>1
  <2>3. QED
    BY <1>6, <1>7, <1>8, <2>1, <2>2 DEF Reachable
<1>12. Distinct'
  <2>1. \A a, b : Apart(a, b) <=> Apart(b, a)
    BY DEF Apart, SameKey
  <2>2. \A n \in moving' : n \in moving /\ Apart(n.entry, e)
    BY <1>1, <1>2, <1>4 DEF Distinct
  <2>3. \A r \in Live : Apart(compilations[r], e)
    BY <1>2, <1>4 DEF Distinct
  <2>4. \A r, q \in Live' : r # q => Apart(compilations'[r], compilations'[q])
    BY <1>2, <1>6, <1>7, <2>1, <2>3 DEF Distinct
  <2>5. \A r \in Live', n \in moving' : Apart(compilations'[r], n.entry)
    BY <1>2, <1>6, <1>7, <2>1, <2>2 DEF Distinct
  <2>6. QED
    BY <1>2, <2>2, <2>4, <2>5 DEF Distinct
<1>13. IsFiniteSet(moving') /\ Cardinality(moving') = Cardinality(moving) - 1 /\ Cardinality(moving) \in Nat
  BY <1>1, <1>2, FS_RemoveElement, FS_CardinalityType DEF MovingInv
<1>14. MovingInv'
  BY <1>1, <1>2, <1>13 DEF MovingInv
<1>15. HasRoom'
  <2>1. CASE IsNew(m)
    <3>1. moving' = {}
      BY <1>1, <1>2, <2>1, NewIsLast
    <3>2. QED
      BY <3>1 DEF HasRoom
  <2>2. CASE ~IsNew(m)
    <3>1. Cardinality(Live) + Cardinality(moving) <= Size(bits)
      BY <1>2, <2>2 DEF HasRoom
    <3>2. Cardinality(Live') = Cardinality(Live) + 1 /\ Cardinality(Live) \in Nat
      <4>1. IsFiniteSet(Live) /\ Cardinality(Live) \in Nat
        BY <1>2, EntryFacts, FS_CardinalityType
      <4>2. Cardinality(Live \union {s}) = Cardinality(Live) + 1
        BY <1>5, <4>1, FS_AddElement
      <4>3. QED
        BY <1>7, <4>1, <4>2
    <3>3. Size(bits) \in Nat
      BY <1>2, BitsType
    <3>4. QED
      BY <1>1, <1>13, <3>1, <3>2, <3>3 DEF HasRoom
  <2>3. QED
    BY <2>1, <2>2
<1>16. Held'
  <2>1. ASSUME NEW t \in Clients, running[t] # Idle, KeyFor(t) \notin lost
        PROVE  \/ \E r \in Live' : Runs(t, compilations'[r])
               \/ \E n \in moving' : Runs(t, n.entry)
    <3>1. CASE \E r \in Live : Runs(t, compilations[r])
      BY <1>7, <3>1
    <3>2. CASE \E n \in moving : Runs(t, n.entry)
      BY <1>1, <1>4, <1>6, <1>7, <3>2
    <3>3. QED
      BY <1>2, <2>1, <3>1, <3>2 DEF Held
  <2>2. QED
    BY <1>1, <2>1 DEF Held, Runs, KeyFor
<1>17. Counts' /\ Owners'
  <2>1. \A r \in Live' : CountsHolders(compilations'[r]) /\ HasOwners(compilations'[r])
    BY <1>2, <1>4, <1>6, <1>7 DEF Counts, Owners
  <2>2. \A n \in moving' : CountsHolders(n.entry) /\ HasOwners(n.entry)
    BY <1>1, <1>2 DEF Counts, Owners
  <2>3. QED
    BY <1>1, <2>1, <2>2 DEF Counts, Owners, CountsHolders, HasOwners, HoldersOf, Runs, KeyOf
<1>18. IdInv'
  BY <1>1, <1>2 DEF IdInv, Taken
<1>19. QED
  BY <1>9, <1>11, <1>12, <1>14, <1>15, <1>16, <1>17, <1>18 DEF CacheInv

\* The new entry is not inserted: its client does not run.
LEMMA NotInsertedInv ==
  ASSUME CacheInv, NEW m \in moving, Turn(m), IsNew(m), count' \in Int,
         moving' = moving \ {m}, running' = Served(m), lost' = lost,
         compilations' = compilations, bits' = bits, id' = id, unique_id' = unique_id
  PROVE  CacheInv'
<1>1. CacheTypeOK /\ Reachable /\ Distinct /\ MovingInv /\ HasRoom /\ Held /\ Counts /\ Owners /\ IdInv
  BY DEF CacheInv
<1>2. moving = {m} /\ moving' = {}
  BY <1>1, NewIsLast
<1>3. PICK module : module = m.entry.module
  OBVIOUS
<1>4. running' = [t \in Clients |-> IF running[t].module = module THEN Idle ELSE running[t]]
  BY <1>3 DEF Served, IsNew
<1>5. \A r \in Live : compilations[r].module # module
  BY <1>1, <1>2, <1>3 DEF Distinct, Apart
<1>6. \A other : other # module => HoldersOf(other)' = HoldersOf(other)
  BY <1>4 DEF HoldersOf
<1>7. CacheTypeOK'
  <2>1. running' \in [Clients -> {Idle} \union [context : Contexts, pipeline : Pipelines, module : Modules]]
    BY <1>1, <1>4 DEF CacheTypeOK
  <2>2. QED
    BY <1>1, <1>2, <2>1 DEF CacheTypeOK
<1>8. Live' = Live /\ Reachable' /\ Distinct' /\ MovingInv' /\ HasRoom'
  <2>1. Live' = Live
    BY DEF Live
  <2>2. Reachable'
    BY <1>1, <2>1 DEF Reachable, Before, Tries
  <2>3. Distinct'
    BY <1>1, <1>2, <2>1 DEF Distinct
  <2>4. MovingInv' /\ HasRoom'
    BY <1>2, FS_EmptySet DEF MovingInv, HasRoom
  <2>5. QED
    BY <2>1, <2>2, <2>3, <2>4
<1>9. Held'
  <2>1. ASSUME NEW t \in Clients, running'[t] # Idle, KeyFor(t)' \notin lost
        PROVE  \E r \in Live : Runs(t, compilations[r])'
    <3>1. running'[t] = running[t] /\ running[t] # Idle /\ running[t].module # module
      BY <1>4, <2>1
    <3>2. KeyFor(t) \notin lost
      BY <2>1, <3>1 DEF KeyFor
    <3>3. PICK r \in Live : Runs(t, compilations[r])
      BY <1>1, <1>2, <1>3, <3>1, <3>2 DEF Held, Runs
    <3>4. QED
      BY <3>1, <3>3 DEF Runs
  <2>2. QED
    BY <1>8, <2>1 DEF Held
<1>10. Counts' /\ Owners'
  <2>1. ASSUME NEW r \in Live
        PROVE  CountsHolders(compilations[r])' /\ HasOwners(compilations[r])'
    <3>1. PICK other : other = compilations[r].module
      OBVIOUS
    <3>2. CountsHolders(compilations[r]) /\ HasOwners(compilations[r]) /\ HoldersOf(other)' = HoldersOf(other)
      BY <1>1, <1>5, <1>6, <3>1 DEF Counts, Owners
    <3>3. CountsHolders(compilations[r])'
      BY <3>1, <3>2 DEF CountsHolders, KeyOf
    <3>4. ASSUME NEW u \in HoldersOf(other)
          PROVE  Runs(u, compilations[r])'
      <4>1. Runs(u, compilations[r]) /\ u \in Clients /\ running[u].module # module
        BY <1>5, <3>1, <3>2 DEF HasOwners, HoldersOf
      <4>2. QED
        BY <1>4, <4>1 DEF Runs
    <3>5. QED
      BY <3>1, <3>2, <3>3, <3>4 DEF HasOwners
  <2>2. QED
    BY <1>2, <1>8, <2>1 DEF Counts, Owners
<1>11. IdInv'
  BY <1>1 DEF IdInv, Taken
<1>12. QED
  BY <1>7, <1>8, <1>9, <1>10, <1>11 DEF CacheInv

\* Only the new entry may find no place.
LEMMA PlaceFailsInv ==
  ASSUME CacheInv, NEW m \in moving, PlaceFails(m)
  PROVE  CacheInv'
<1>1. /\ Turn(m) /\ FirstFree(m.entry) = {} /\ moving' = moving \ {m} /\ count' \in Int
      /\ running' = Served(m) /\ lost' = lost
      /\ compilations' = compilations /\ bits' = bits /\ id' = id /\ unique_id' = unique_id
  BY DEF PlaceFails, Placeable, CacheInv, CacheTypeOK
<1>2. CacheTypeOK /\ MovingInv /\ HasRoom
  BY DEF CacheInv
<1>3. m.entry \in Entry
  BY <1>2, EntryFacts
<1>4. IsNew(m)
  <2>1. SUFFICES ASSUME ~IsNew(m) PROVE FALSE
    OBVIOUS
  <2>2. Cardinality(Live) + Cardinality(moving) <= Size(bits)
    BY <1>2, <2>1 DEF HasRoom
  <2>3. Cardinality(moving) \in Nat /\ Cardinality(moving) # 0 /\ Cardinality(Live) \in Nat
    <3>1. IsFiniteSet(moving) /\ IsFiniteSet(Live) /\ moving # {}
      BY <1>2, EntryFacts DEF MovingInv
    <3>2. QED
      BY <3>1, FS_CardinalityType, FS_EmptySet
  <2>4. Size(bits) \in Nat /\ bits # 0
    BY <1>2, BitsType DEF MovingInv
  <2>5. Cardinality(Live) < Size(bits)
    BY <2>2, <2>3, <2>4
  <2>6. QED
    BY <1>1, <1>2, <1>3, <2>4, <2>5, FreeExists
<1>5. QED
  BY <1>1, <1>4, NotInsertedInv

\* There is no memory for a larger table: the new entry is not inserted, and another one
\* is lost, with its key where it is in use.
LEMMA GrowFailsInv ==
  ASSUME CacheInv, NEW m \in moving, GrowFails(m)
  PROVE  CacheInv'
<1>1. /\ Turn(m) /\ moving' = moving \ {m} /\ count' = count /\ running' = Served(m)
      /\ lost' = lost \union {KeyOf(m.entry) : t \in {u \in HoldersOf(m.entry.module) : m.from # 0}}
      /\ compilations' = compilations /\ bits' = bits /\ id' = id /\ unique_id' = unique_id
  BY DEF GrowFails
<1>2. CacheTypeOK /\ Reachable /\ Distinct /\ MovingInv /\ HasRoom /\ Held /\ Counts /\ Owners /\ IdInv
  BY DEF CacheInv
<1>3. CASE IsNew(m)
  <2>1. lost' = lost /\ count' \in Int
    BY <1>1, <1>2, <1>3 DEF IsNew, CacheTypeOK
  <2>2. QED
    BY <1>1, <1>3, <2>1, NotInsertedInv
<1>4. CASE ~IsNew(m)
  <2>1. running' = running
    BY <1>1, <1>2, <1>4 DEF Served, IsNew, CacheTypeOK
  <2>2. m.entry \in Entry /\ KeyOf(m.entry) \in Keys
    <3>1. PICK e \in Entry : e = m.entry
      BY <1>2, EntryFacts
    <3>2. QED
      BY <3>1, SlotFacts DEF KeyOf, Keys
  <2>3. lost' \subseteq Keys /\ lost \subseteq lost' /\ (HoldersOf(m.entry.module) # {} => KeyOf(m.entry) \in lost')
    BY <1>1, <1>2, <1>4, <2>2 DEF CacheTypeOK, IsNew
  <2>4. CacheTypeOK'
    BY <1>1, <1>2, <2>1, <2>3 DEF CacheTypeOK
  <2>5. Live' = Live
    BY <1>1 DEF Live
  <2>6. Reachable' /\ Distinct'
    BY <1>1, <1>2, <2>5 DEF Reachable, Distinct, Before, Tries
  <2>7. IsFiniteSet(moving') /\ Cardinality(moving') = Cardinality(moving) - 1 /\ Cardinality(moving) \in Nat
    BY <1>1, <1>2, FS_RemoveElement, FS_CardinalityType DEF MovingInv
  <2>8. MovingInv'
    BY <1>1, <1>2, <2>7 DEF MovingInv
  <2>9. HasRoom'
    <3>1. Cardinality(Live) + Cardinality(moving) <= Size(bits)
      BY <1>2, <1>4 DEF HasRoom
    <3>2. Cardinality(Live) \in Nat /\ Size(bits) \in Nat
      BY <1>2, EntryFacts, FS_CardinalityType, BitsType
    <3>3. QED
      BY <1>1, <2>5, <2>7, <3>1, <3>2 DEF HasRoom
  <2>10. Held'
    <3>1. ASSUME NEW t \in Clients, running[t] # Idle, KeyFor(t) \notin lost'
          PROVE  (\E s \in Live : Runs(t, compilations[s])) \/ (\E n \in moving' : Runs(t, n.entry))
      <4>1. ~Runs(t, m.entry)
        <5>1. SUFFICES ASSUME Runs(t, m.entry) PROVE FALSE
          OBVIOUS
        <5>2. t \in HoldersOf(m.entry.module) /\ KeyOf(m.entry) = KeyFor(t)
          BY <3>1, <5>1 DEF Runs, HoldersOf, KeyOf, KeyFor
        <5>3. QED
          BY <2>3, <3>1, <5>2
      <4>2. QED
        BY <1>1, <1>2, <2>3, <3>1, <4>1 DEF Held
    <3>2. QED
      BY <1>1, <2>1, <2>5, <3>1 DEF Held, Runs, KeyFor
  <2>11. Counts' /\ Owners'
    <3>1. \A entry : /\ CountsHolders(entry) => CountsHolders(entry)'
                     /\ HasOwners(entry)' <=> HasOwners(entry)
      BY <1>1, <2>1, <2>3 DEF CountsHolders, HasOwners, HoldersOf, Runs
    <3>2. QED
      BY <1>1, <1>2, <2>5, <3>1 DEF Counts, Owners
  <2>12. IdInv'
    BY <1>1, <1>2 DEF IdInv, Taken
  <2>13. QED
    BY <2>4, <2>6, <2>8, <2>9, <2>10, <2>11, <2>12 DEF CacheInv
<1>5. QED
  BY <1>3, <1>4

-----------------------------------------------------------------------------
(* The theorems about the compilation cache *)

\* Every step preserves the invariant.
LEMMA CacheNextInv == CacheInv /\ [CacheNext]_cacheVars => CacheInv'
<1> SUFFICES ASSUME CacheInv, [CacheNext]_cacheVars PROVE CacheInv'
  OBVIOUS
<1>1. CASE UNCHANGED cacheVars
  BY <1>1 DEF cacheVars, CacheInv, CacheTypeOK, Reachable, Distinct, MovingInv, HasRoom, Held, Counts, Owners,
              IdInv, CountsHolders, HasOwners, Live, Before, Tries, HoldersOf, Runs, KeyFor, KeyOf, Taken
<1>2. ASSUME NEW t \in Clients, Client(t) PROVE CacheInv'
  BY <1>2, SetupFindsInv, SetupCompilesInv, SetupFailsInv, ReleaseHoldInv DEF Client
<1>3. ASSUME NEW m \in moving, Grow(m) \/ GrowFails(m) \/ Place(m) \/ PlaceFails(m) PROVE CacheInv'
  BY <1>3, GrowInv, GrowFailsInv, PlaceInv, PlaceFailsInv
<1>4. ASSUME NEW context \in Contexts, DeleteContext(context) PROVE CacheInv'
  BY <1>4, DeleteContextInv
<1>5. CASE ReleaseAll
  BY <1>5, ReleaseAllInv
<1>6. QED
  BY <1>1, <1>2, <1>3, <1>4, <1>5 DEF CacheNext

\* The invariant holds of every reachable state.
LEMMA CacheInvariant == CacheSpec => []CacheInv
  BY CacheInitInv, CacheNextInv, PTL DEF CacheSpec

\* The search for the context and id of an entry ends at its slot, whatever the hash,
\* however often the table was doubled or could not be, even while it was being doubled.
THEOREM EntriesAreFound == CacheSpec => []ProbesFindEntries
<1>1. CacheInv => ProbesFindEntries
  BY FindsEntry DEF CacheInv, ProbesFindEntries
<1>2. QED
  BY <1>1, CacheInvariant, PTL

\* What a client runs with stays in the cache, counted, until the client gives it back,
\* whatever count has come to and wherever memory ran out, but for the keys of the
\* entries in use that a nested resize had no memory for: only they are lost, and what
\* their clients and their new entries do to each other does not touch another key.
THEOREM ModulesInUseStay == CacheSpec => []HeldModulesStay
<1>1. CacheInv => HeldModulesStay
  <2> SUFFICES ASSUME CacheInv, moving = {} PROVE HeldModulesStay
    BY DEF HeldModulesStay, MutexFree
  <2>1. CacheTypeOK /\ Reachable /\ Distinct /\ Held /\ Counts
    BY DEF CacheInv
  <2>2. ASSUME NEW t \in Clients, running[t] # Idle, KeyFor(t) \notin lost
        PROVE  \E s \in Find(running[t].context, id[running[t].pipeline]) :
                   compilations[s].module = running[t].module
    <3>1. PICK s \in Live : Runs(t, compilations[s])
      BY <2>1, <2>2 DEF Held
    <3>2. Find(running[t].context, id[running[t].pipeline]) = {s}
      BY <2>1, <3>1, FindsEntry DEF Runs
    <3>3. QED
      BY <3>1, <3>2 DEF Runs
  <2>3. ASSUME NEW s \in DOMAIN compilations, KeyOf(compilations[s]) \notin lost
        PROVE  compilations[s].uses = Cardinality(HoldersOf(compilations[s].module))
    <3>1. CASE s \in Live
      BY <2>1, <2>3, <3>1 DEF Counts, CountsHolders
    <3>2. CASE s \notin Live
      <4>1. compilations[s].module = Nil /\ compilations[s].uses = 0 /\ Nil \notin Modules
        BY <2>1, <3>2, EntryFacts, SlotFacts DEF Live
      <4>2. HoldersOf(Nil) = {}
        BY <2>1, <4>1 DEF HoldersOf, CacheTypeOK
      <4>3. QED
        BY <4>1, <4>2, FS_EmptySet
    <3>3. QED
      BY <3>1, <3>2
  <2>4. QED
    BY <2>2, <2>3 DEF HeldModulesStay
<1>2. QED
  BY <1>1, CacheInvariant, PTL
=============================================================================
