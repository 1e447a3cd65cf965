------------------------- MODULE HalideBufferProofs -------------------------
(***************************************************************************)
(* That memory shared by objects of the class Buffer is counted exactly    *)
(* and released once, for any number of objects, allocations and handles.  *)
(*                                                                         *)
(* Methods are chains of counting operators, and between two of them an    *)
(* object is held by nobody yet, or still.  So the invariant is one of a   *)
(* state and of who holds what: the client's objects and three temporary   *)
(* ones.  Each operator preserves it, given what it does to the holders,   *)
(* and a method is a chain of such steps, at the end of which the          *)
(* temporary objects are empty again.                                      *)
(***************************************************************************)
EXTENDS HalideBuffer, FiniteSetTheorems, TLAPS

-----------------------------------------------------------------------------
(* The inductive invariant *)

\* The temporary objects
Temp == CHOOSE t : t \notin Vars
Other == CHOOSE t : t \notin Vars \union {Temp}
Third == CHOOSE t : t \notin Vars \union {Temp, Other}
Slots == Vars \union {Temp, Other, Third}

Object == [alloc : {0} \union Allocs, device : {0} \union Handles, counted : BOOLEAN]
Ownership == {"none", "Allocated", "WrappedNative", "Unmanaged", "AllocatedDeviceAndHost", "Cropped"}
Count == [count : Nat, ownership : Ownership, from : Object]
Kind == {"none", "allocated", "native", "failed", "client", "both", "crop"}
Device == [kind : Kind, of : {0} \union Handles]
State == [obj : [Vars -> Object], allocs : [Allocs -> Nat], counts : [Handles -> Count],
          devices : [Handles -> Device], misused : BOOLEAN]

\* Who holds an allocation, and who a count: objects, and the counts of crops.
AllocHolders(f, a) == {w \in Slots : f[w].alloc = a}
AllocCounts(c, a) == {k \in Handles : c[k].from.alloc = a}
DevHolders(f, h) == {w \in Slots : f[w].device = h /\ f[w].counted}
DevCounts(c, h) == {k \in Handles : c[k].from.device = h}

Types(f, s) == f \in [Slots -> Object] /\ s \in State /\ s.misused = FALSE

AllocsExact(f, s) ==
    \A a \in Allocs : s.allocs[a] = Cardinality(AllocHolders(f, a)) + Cardinality(AllocCounts(s.counts, a))

CountsExact(f, s) ==
    \A h \in Handles : s.counts[h].count = Cardinality(DevHolders(f, h)) + Cardinality(DevCounts(s.counts, h))

\* The object is the one that has memory that is not counted.
Owns(o, h) == o.device = h /\ ~o.counted

\* A count that is there tells how the memory was obtained.
CountFits(c, d) ==
    /\ c.count = 0 <=> c.ownership = "none"
    /\ c.ownership # "AllocatedDeviceAndHost"
    /\ c.ownership = "Allocated" => d.kind = "allocated"
    /\ c.ownership = "WrappedNative" => d.kind \in {"native", "failed"}
    /\ c.ownership = "Unmanaged" => d.kind = "client"
    /\ c.ownership = "Cropped" => d.kind = "crop" /\ d.of = c.from.device
    /\ c.ownership = "none" => d.kind \in {"none", "allocated", "both"}
    /\ c.ownership # "Cropped" => c.from = Empty /\ d.of = 0

\* What is cropped is counted, and is no crop.
CropFits(counts_, h) ==
    LET from == counts_[h].from
    IN  counts_[h].ownership = "Cropped" =>
            /\ from.device # 0 /\ from.counted
            /\ counts_[from.device].ownership # "Cropped"

\* Memory that is not counted has one object.
OwnerFits(f, s, h) ==
    /\ s.counts[h].ownership # "none" => \A w \in Slots : ~Owns(f[w], h)
    /\ s.counts[h].ownership = "none" =>
           (s.devices[h].kind # "none" <=> \E w \in Slots : Owns(f[w], h))
    /\ \A w, x \in Slots : Owns(f[w], h) /\ Owns(f[x], h) => w = x

Fits(f, s) ==
    /\ \A w \in Slots : f[w].device = 0 => ~f[w].counted
    /\ \A h \in Handles : CountFits(s.counts[h], s.devices[h])
    /\ \A h \in Handles : CropFits(s.counts, h)
    /\ \A h \in Handles : OwnerFits(f, s, h)

Good(f, s) == Types(f, s) /\ AllocsExact(f, s) /\ CountsExact(f, s) /\ Fits(f, s)

\* What the client's objects hold: the temporary ones are empty.
Held(objects) == [w \in Slots |-> IF w \in Vars THEN objects[w] ELSE Empty]

IInv == Good(Held(obj), Here)

-----------------------------------------------------------------------------
(* Counting the holders *)

One(b) == IF b THEN 1 ELSE 0

\* What an object, and the cropped_from of a count, adds to the number of the holders.
OfAlloc(o, a) == IF o.alloc = a THEN 1 ELSE 0
OfDevice(o, h) == IF o.device = h /\ o.counted THEN 1 ELSE 0
OfFrom(o, h) == IF o.device = h THEN 1 ELSE 0

\* The function, when it is o at x.
With(f, x, o) == [f EXCEPT ![x] = o]

\* The number n becomes m when i goes and j comes.
Shift(n, m, i, j) == n \in Nat /\ m \in Nat /\ m + i = n + j

LEMMA SlotsFinite == IsFiniteSet(Slots) /\ IsFiniteSet(Handles)
<1>1. IsFiniteSet(Vars) /\ IsFiniteSet(Handles)
  BY HalideBufferAssumption
<1>2. IsFiniteSet(Vars \union {Temp})
  BY <1>1, FS_AddElement
<1>3. IsFiniteSet((Vars \union {Temp}) \union {Other})
  BY <1>2, FS_AddElement
<1>4. IsFiniteSet(((Vars \union {Temp}) \union {Other}) \union {Third})
  BY <1>3, FS_AddElement
<1>5. Slots = ((Vars \union {Temp}) \union {Other}) \union {Third}
  BY DEF Slots
<1> QED BY <1>1, <1>4, <1>5

\* The temporary objects are not the client's, and not the same.
LEMMA Temporary ==
    /\ Temp \notin Vars /\ Other \notin Vars /\ Third \notin Vars
    /\ Temp # Other /\ Temp # Third /\ Other # Third
    /\ Temp \in Slots /\ Other \in Slots /\ Third \in Slots /\ Vars \subseteq Slots
<1>1. Temp \notin Vars
  BY NoSetContainsEverything DEF Temp
<1>2. Other \notin Vars \union {Temp}
  BY NoSetContainsEverything DEF Other
<1>3. Third \notin Vars \union {Temp, Other}
  BY NoSetContainsEverything DEF Third
<1> QED BY <1>1, <1>2, <1>3 DEF Slots

LEMMA OneChanges ==
    ASSUME NEW S, NEW T, NEW x, IsFiniteSet(S),
           \A y : y # x => (y \in S <=> y \in T)
    PROVE  /\ Cardinality(S) \in Nat /\ Cardinality(T) \in Nat
           /\ Cardinality(T) + One(x \in S) = Cardinality(S) + One(x \in T)
<1>1. Cardinality(S) \in Nat
  BY FS_CardinalityType
<1>2. CASE x \in T
  <2>1. T = S \union {x}
    BY <1>2
  <2>2. Cardinality(T) = IF x \in S THEN Cardinality(S) ELSE Cardinality(S) + 1
    BY <2>1, FS_AddElement
  <2> QED BY <1>1, <1>2, <2>2 DEF One
<1>3. CASE x \notin T
  <2>1. T = S \ {x}
    BY <1>3
  <2>2. Cardinality(T) = IF x \in S THEN Cardinality(S) - 1 ELSE Cardinality(S)
    BY <2>1, FS_RemoveElement
  <2>3. Cardinality(T) \in Nat
    BY <2>1, FS_RemoveElement, FS_CardinalityType
  <2> QED BY <1>1, <1>3, <2>2, <2>3 DEF One
<1> QED BY <1>2, <1>3

\* How many hold an allocation and a count, when an object changes.
LEMMA HoldersChange ==
    ASSUME NEW f \in [Slots -> Object], NEW x \in Slots, NEW o \in Object,
           NEW g, g = With(f, x, o)
    PROVE  /\ g \in [Slots -> Object] /\ g[x] = o /\ \A y \in Slots : y # x => g[y] = f[y]
           /\ \A a : Shift(Cardinality(AllocHolders(f, a)), Cardinality(AllocHolders(g, a)),
                          OfAlloc(f[x], a), OfAlloc(o, a))
           /\ \A h : Shift(Cardinality(DevHolders(f, h)), Cardinality(DevHolders(g, h)),
                          OfDevice(f[x], h), OfDevice(o, h))
<1>1. g \in [Slots -> Object] /\ g[x] = o /\ \A y \in Slots : y # x => g[y] = f[y]
  BY DEF With
<1>2. ASSUME NEW a
      PROVE  Shift(Cardinality(AllocHolders(f, a)), Cardinality(AllocHolders(g, a)),
                   OfAlloc(f[x], a), OfAlloc(o, a))
  <2>1. IsFiniteSet(AllocHolders(f, a))
    <3>1. AllocHolders(f, a) \in SUBSET Slots
      BY DEF AllocHolders
    <3> QED BY <3>1, SlotsFinite, FS_Subset
  <2>2. \A y : y # x => (y \in AllocHolders(f, a) <=> y \in AllocHolders(g, a))
    BY <1>1 DEF AllocHolders
  <2>3. /\ One(x \in AllocHolders(f, a)) = OfAlloc(f[x], a)
        /\ One(x \in AllocHolders(g, a)) = OfAlloc(o, a)
    BY <1>1 DEF AllocHolders, One, OfAlloc
  <2>4. /\ Cardinality(AllocHolders(f, a)) \in Nat /\ Cardinality(AllocHolders(g, a)) \in Nat
        /\ Cardinality(AllocHolders(g, a)) + One(x \in AllocHolders(f, a))
           = Cardinality(AllocHolders(f, a)) + One(x \in AllocHolders(g, a))
    BY <2>1, <2>2, OneChanges
  <2> QED BY <2>3, <2>4 DEF Shift
<1>3. ASSUME NEW h
      PROVE  Shift(Cardinality(DevHolders(f, h)), Cardinality(DevHolders(g, h)),
                   OfDevice(f[x], h), OfDevice(o, h))
  <2>1. IsFiniteSet(DevHolders(f, h))
    <3>1. DevHolders(f, h) \in SUBSET Slots
      BY DEF DevHolders
    <3> QED BY <3>1, SlotsFinite, FS_Subset
  <2>2. \A y : y # x => (y \in DevHolders(f, h) <=> y \in DevHolders(g, h))
    BY <1>1 DEF DevHolders
  <2>3. /\ One(x \in DevHolders(f, h)) = OfDevice(f[x], h)
        /\ One(x \in DevHolders(g, h)) = OfDevice(o, h)
    BY <1>1 DEF DevHolders, One, OfDevice
  <2>4. /\ Cardinality(DevHolders(f, h)) \in Nat /\ Cardinality(DevHolders(g, h)) \in Nat
        /\ Cardinality(DevHolders(g, h)) + One(x \in DevHolders(f, h))
           = Cardinality(DevHolders(f, h)) + One(x \in DevHolders(g, h))
    BY <2>1, <2>2, OneChanges
  <2> QED BY <2>3, <2>4 DEF Shift
<1> QED BY <1>1, <1>2, <1>3

\* The same, when a count changes.
LEMMA CountChanges ==
    ASSUME NEW c \in [Handles -> Count], NEW k \in Handles, NEW e \in Count,
           NEW d, d = With(c, k, e)
    PROVE  /\ d \in [Handles -> Count] /\ d[k] = e /\ \A y \in Handles : y # k => d[y] = c[y]
           /\ \A a : Shift(Cardinality(AllocCounts(c, a)), Cardinality(AllocCounts(d, a)),
                          OfAlloc(c[k].from, a), OfAlloc(e.from, a))
           /\ \A h : Shift(Cardinality(DevCounts(c, h)), Cardinality(DevCounts(d, h)),
                          OfFrom(c[k].from, h), OfFrom(e.from, h))
<1>1. d \in [Handles -> Count] /\ d[k] = e /\ \A y \in Handles : y # k => d[y] = c[y]
  BY DEF With
<1>2. ASSUME NEW a
      PROVE  Shift(Cardinality(AllocCounts(c, a)), Cardinality(AllocCounts(d, a)),
                   OfAlloc(c[k].from, a), OfAlloc(e.from, a))
  <2>1. IsFiniteSet(AllocCounts(c, a))
    <3>1. AllocCounts(c, a) \in SUBSET Handles
      BY DEF AllocCounts
    <3> QED BY <3>1, SlotsFinite, FS_Subset
  <2>2. \A y : y # k => (y \in AllocCounts(c, a) <=> y \in AllocCounts(d, a))
    BY <1>1 DEF AllocCounts
  <2>3. /\ One(k \in AllocCounts(c, a)) = OfAlloc(c[k].from, a)
        /\ One(k \in AllocCounts(d, a)) = OfAlloc(e.from, a)
    BY <1>1 DEF AllocCounts, One, OfAlloc
  <2>4. /\ Cardinality(AllocCounts(c, a)) \in Nat /\ Cardinality(AllocCounts(d, a)) \in Nat
        /\ Cardinality(AllocCounts(d, a)) + One(k \in AllocCounts(c, a))
           = Cardinality(AllocCounts(c, a)) + One(k \in AllocCounts(d, a))
    BY <2>1, <2>2, OneChanges
  <2> QED BY <2>3, <2>4 DEF Shift
<1>3. ASSUME NEW h
      PROVE  Shift(Cardinality(DevCounts(c, h)), Cardinality(DevCounts(d, h)),
                   OfFrom(c[k].from, h), OfFrom(e.from, h))
  <2>1. IsFiniteSet(DevCounts(c, h))
    <3>1. DevCounts(c, h) \in SUBSET Handles
      BY DEF DevCounts
    <3> QED BY <3>1, SlotsFinite, FS_Subset
  <2>2. \A y : y # k => (y \in DevCounts(c, h) <=> y \in DevCounts(d, h))
    BY <1>1 DEF DevCounts
  <2>3. /\ One(k \in DevCounts(c, h)) = OfFrom(c[k].from, h)
        /\ One(k \in DevCounts(d, h)) = OfFrom(e.from, h)
    BY <1>1 DEF DevCounts, One, OfFrom
  <2>4. /\ Cardinality(DevCounts(c, h)) \in Nat /\ Cardinality(DevCounts(d, h)) \in Nat
        /\ Cardinality(DevCounts(d, h)) + One(k \in DevCounts(c, h))
           = Cardinality(DevCounts(c, h)) + One(k \in DevCounts(d, h))
    BY <2>1, <2>2, OneChanges
  <2> QED BY <2>3, <2>4 DEF Shift
<1> QED BY <1>1, <1>2, <1>3

\* A count counts whoever holds it: it is there, and one of two is not all.
LEMMA CountsItsHolders ==
    ASSUME NEW f, NEW s, Types(f, s), CountsExact(f, s), NEW h \in Handles
    PROVE  /\ \A w \in Slots : f[w].device = h /\ f[w].counted => s.counts[h].count > 0
           /\ \A k \in Handles : s.counts[k].from.device = h => s.counts[h].count > 0
           /\ s.counts[h].count <= 1 =>
                  /\ \A w, x \in Slots : w \in DevHolders(f, h) /\ x \in DevHolders(f, h) => w = x
                  /\ \A w \in Slots, k \in Handles :
                         ~(w \in DevHolders(f, h) /\ s.counts[k].from.device = h)
<1> DEFINE D == DevHolders(f, h)
           C == DevCounts(s.counts, h)
<1>1. IsFiniteSet(D) /\ IsFiniteSet(C)
  <2>1. D \in SUBSET Slots /\ C \in SUBSET Handles
    BY DEF DevHolders, DevCounts
  <2> QED BY <2>1, SlotsFinite, FS_Subset
<1>2. Cardinality(D) \in Nat /\ Cardinality(C) \in Nat /\ s.counts[h].count = Cardinality(D) + Cardinality(C)
  BY <1>1, FS_CardinalityType DEF CountsExact
<1>3. \A w \in D : Cardinality(D) > 0
  BY <1>1, <1>2, FS_EmptySet
<1>4. \A k \in C : Cardinality(C) > 0
  BY <1>1, <1>2, FS_EmptySet
<1>5. Cardinality(D) = 1 => \A w, x \in D : w = x
  BY <1>1, FS_Singleton
<1>6. \A w \in Slots : f[w].device = h /\ f[w].counted => w \in D
  BY DEF DevHolders
<1>7. \A k \in Handles : s.counts[k].from.device = h => k \in C
  BY DEF DevCounts
<1> HIDE DEF D, C
<1>8. (\E w : w \in D) => s.counts[h].count > 0
  BY <1>2, <1>3
<1>9. (\E k : k \in C) => s.counts[h].count > 0
  BY <1>2, <1>4
<1>10. s.counts[h].count <= 1 /\ (\E w : w \in D) => Cardinality(D) = 1 /\ ~\E k : k \in C
  BY <1>2, <1>3, <1>4
<1>11. DevHolders(f, h) = D
  BY DEF D
<1> QED BY <1>5, <1>6, <1>7, <1>8, <1>9, <1>10, <1>11

-----------------------------------------------------------------------------
(* Letting go of memory *)

Bare(o) == [alloc |-> o.alloc, device |-> 0, counted |-> FALSE]

\* Nobody else has the device memory of an object.
Alone(f, s, x) == ~f[x].counted \/ s.counts[f[x].device].count <= 1

LEMMA Constants ==
    /\ Empty \in Object /\ NoCount \in Count /\ NoDevice \in Device
    /\ Empty = [alloc |-> 0, device |-> 0, counted |-> FALSE]
    /\ NoCount.count = 0 /\ NoCount.ownership = "none" /\ NoCount.from = Empty
    /\ NoDevice.kind = "none" /\ NoDevice.of = 0
    /\ 0 \notin Allocs /\ 0 \notin Handles
    /\ \A o \in Object : /\ Bare(o) \in Object
                         /\ Bare(o) = [alloc |-> o.alloc, device |-> 0, counted |-> FALSE]
<1>1. 0 \notin Allocs /\ 0 \notin Handles
  BY HalideBufferAssumption
<1>2. Empty \in Object
  BY DEF Empty, Object
<1>3. NoCount \in Count
  BY <1>2 DEF NoCount, Count, Ownership
<1>4. NoDevice \in Device
  BY DEF NoDevice, Device, Kind
<1>5. ASSUME NEW o \in Object
      PROVE  /\ Bare(o) = [alloc |-> o.alloc, device |-> 0, counted |-> FALSE]
             /\ Bare(o) \in Object
  BY DEF Bare, Object
<1> QED BY <1>1, <1>2, <1>3, <1>4, <1>5 DEF Empty, NoCount, NoDevice

\* The device memory of an object is there, and without a count its owner is alone.
LEMMA DeviceIsThere ==
    ASSUME NEW f, NEW s, Good(f, s), NEW x \in Slots, f[x].device # 0
    PROVE  LET h == f[x].device IN
           /\ h \in Handles /\ s.devices[h].kind # "none"
           /\ f[x].counted => s.counts[h].count > 0 /\ s.counts[h].ownership # "none"
           /\ ~f[x].counted => /\ s.counts[h] = NoCount
                               /\ s.devices[h].kind \in {"allocated", "both"}
<1> DEFINE h == f[x].device
<1>1. h \in Handles /\ f[x] \in Object /\ s.counts[h] \in Count /\ s.devices[h] \in Device
  BY DEF Good, Types, Object, State
<1>2. CountFits(s.counts[h], s.devices[h]) /\ OwnerFits(f, s, h)
  BY <1>1 DEF Good, Fits
<1>3. CASE f[x].counted
  <2>1. s.counts[h].count > 0
    BY <1>1, <1>3, CountsItsHolders DEF Good
  <2> QED BY <1>1, <1>2, <1>3, <2>1 DEF CountFits, Count, Ownership
<1>4. CASE ~f[x].counted
  <2>1. Owns(f[x], h)
    BY <1>4 DEF Owns
  <2>2. s.counts[h].ownership = "none" /\ s.devices[h].kind # "none"
    BY <1>1, <1>2, <2>1 DEF OwnerFits
  <2>3. s.counts[h].count = 0 /\ s.counts[h].from = Empty
    BY <1>2, <2>2 DEF CountFits
  <2>4. s.counts[h] = NoCount
    BY <1>1, <2>2, <2>3 DEF Count, NoCount
  <2> QED BY <1>1, <1>2, <1>4, <2>2, <2>4 DEF CountFits
<1> QED BY <1>1, <1>3, <1>4

\* When one object alone has the memory, no crop is of it.
LEMMA NoCropOfIt ==
    ASSUME NEW f, NEW s, Good(f, s), NEW x \in Slots, f[x].device # 0,
           Alone(f, s, x)
    PROVE  /\ LiveCrops(s, f[x].device) = {}
           /\ \A k \in Handles : s.counts[k].from.device # f[x].device
<1> DEFINE h == f[x].device
<1>1. /\ h \in Handles
      /\ ~f[x].counted => s.counts[h].count = 0
  BY DeviceIsThere, Constants
<1>2. ASSUME NEW k \in Handles, s.counts[k].from.device = h
      PROVE  FALSE
  <2>1. s.counts[h].count > 0 /\ f[x].counted
    BY <1>1, <1>2, CountsItsHolders DEF Good
  <2>2. x \in DevHolders(f, h)
    BY <2>1 DEF DevHolders
  <2> QED BY <1>1, <1>2, <2>1, <2>2, CountsItsHolders DEF Good, Alone
<1>3. ASSUME NEW k \in Handles, s.devices[k].kind = "crop", s.devices[k].of = h
      PROVE  FALSE
  <2>1. CountFits(s.counts[k], s.devices[k]) /\ s.counts[k] \in Count
    BY DEF Good, Fits, Types, State
  <2>2. s.counts[k].ownership = "Cropped"
    BY <1>3, <2>1 DEF CountFits, Count, Ownership
  <2> QED BY <1>2, <1>3, <2>1, <2>2 DEF CountFits
<1> QED BY <1>2, <1>3 DEF LiveCrops

\* The one object that has the memory lets go of it: what was beneath gets loose.
LEMMA Gone ==
    ASSUME NEW f, NEW s, Good(f, s), NEW x \in Slots, NEW y \in Slots, x # y, f[y] = Empty,
           f[x].device # 0, Alone(f, s, x),
           NEW t \in State, t.misused = FALSE, t.allocs = s.allocs,
           t.counts = With(s.counts, f[x].device, NoCount),
           t.devices = With(s.devices, f[x].device, NoDevice)
    PROVE  Good(With(With(f, x, Bare(f[x])), y, s.counts[f[x].device].from), t)
<1> DEFINE h == f[x].device
           from == s.counts[h].from
           f1 == With(f, x, Bare(f[x]))
           g == With(f1, y, from)
<1>1. /\ f \in [Slots -> Object] /\ f[x] \in Object /\ h \in Handles
      /\ s.counts \in [Handles -> Count] /\ s.devices \in [Handles -> Device]
      /\ s.counts[h] \in Count /\ s.devices[h] \in Device /\ from \in Object
      /\ s.allocs \in [Allocs -> Nat]
  BY DEF Good, Types, State, Object, Count
<1>2. /\ ~f[x].counted => s.counts[h] = NoCount
      /\ f[x].counted => s.counts[h].count > 0
      /\ LiveCrops(s, h) = {} /\ \A k \in Handles : s.counts[k].from.device # h
  <2> HIDE DEF f1, g, from
  <2>1. LiveCrops(s, h) = {}
    BY NoCropOfIt
  <2>2. \A k \in Handles : s.counts[k].from.device # h
    BY NoCropOfIt
  <2> QED BY <2>1, <2>2, DeviceIsThere
<1>3. /\ Bare(f[x]) \in Object /\ Bare(f[x]).alloc = f[x].alloc /\ Bare(f[x]).device = 0
      /\ Bare(f[x]).counted = FALSE
  BY <1>1, Constants
<1>4. f1 \in [Slots -> Object] /\ f1[x] = Bare(f[x]) /\ f1[y] = Empty /\ g = With(f1, y, from)
  BY <1>1, <1>3 DEF With
<1>5. g \in [Slots -> Object] /\ g[x] = Bare(f[x]) /\ g[y] = from
      /\ \A w \in Slots : w # x /\ w # y => g[w] = f[w]
  BY <1>1, <1>4 DEF With
<1>6. /\ from.device # 0 => from.counted
      /\ from.device = 0 => ~from.counted
      /\ from.device # h /\ (from.device # 0 => s.counts[h].ownership = "Cropped")
  <2>1. CountFits(s.counts[h], s.devices[h]) /\ CropFits(s.counts, h)
    BY <1>1 DEF Good, Fits
  <2>2. CASE s.counts[h].ownership = "Cropped"
    BY <1>2, <1>1, <2>1, <2>2 DEF CropFits
  <2>3. CASE s.counts[h].ownership # "Cropped"
    BY <1>1, <2>1, <2>3, Constants DEF CountFits
  <2> QED BY <2>2, <2>3
<1>7. /\ t.counts[h] = NoCount /\ t.devices[h] = NoDevice
      /\ \A k \in Handles : k # h => t.counts[k] = s.counts[k] /\ t.devices[k] = s.devices[k]
  BY <1>1 DEF With
<1>8. Types(g, t)
  BY <1>5 DEF Types
<1>9. AllocsExact(g, t)
  <2> SUFFICES ASSUME NEW a \in Allocs
               PROVE  t.allocs[a] = Cardinality(AllocHolders(g, a)) + Cardinality(AllocCounts(t.counts, a))
    BY DEF AllocsExact
  <2>1. Shift(Cardinality(AllocHolders(f, a)), Cardinality(AllocHolders(f1, a)),
              OfAlloc(f[x], a), OfAlloc(Bare(f[x]), a))
    BY <1>1, <1>3, HoldersChange
  <2>2. Shift(Cardinality(AllocHolders(f1, a)), Cardinality(AllocHolders(g, a)),
              OfAlloc(f1[y], a), OfAlloc(from, a))
    <3> HIDE DEF f1, g, from, h
    <3> QED BY <1>1, <1>4, HoldersChange
  <2>3. Shift(Cardinality(AllocCounts(s.counts, a)), Cardinality(AllocCounts(t.counts, a)),
              OfAlloc(from, a), OfAlloc(NoCount.from, a))
    BY <1>1, CountChanges, Constants
  <2>4. f1[y].alloc # a /\ NoCount.from.alloc # a
    BY <1>4, Constants
  <2>5. s.allocs[a] = Cardinality(AllocHolders(f, a)) + Cardinality(AllocCounts(s.counts, a))
    BY DEF Good, AllocsExact
  <2> HIDE DEF f1, g, from
  <2> QED BY <1>3, <2>1, <2>2, <2>3, <2>4, <2>5 DEF OfAlloc, Shift
<1>10. CountsExact(g, t)
  <2> SUFFICES ASSUME NEW k \in Handles
               PROVE  t.counts[k].count = Cardinality(DevHolders(g, k)) + Cardinality(DevCounts(t.counts, k))
    BY DEF CountsExact
  <2>1. Shift(Cardinality(DevHolders(f, k)), Cardinality(DevHolders(f1, k)),
              OfDevice(f[x], k), OfDevice(Bare(f[x]), k))
    BY <1>1, <1>3, HoldersChange
  <2>2. Shift(Cardinality(DevHolders(f1, k)), Cardinality(DevHolders(g, k)),
              OfDevice(f1[y], k), OfDevice(from, k))
    <3> HIDE DEF f1, g, from, h
    <3> QED BY <1>1, <1>4, HoldersChange
  <2>3. Shift(Cardinality(DevCounts(s.counts, k)), Cardinality(DevCounts(t.counts, k)),
              OfFrom(from, k), OfFrom(NoCount.from, k))
    BY <1>1, CountChanges, Constants
  <2>4. f1[y].device # k /\ NoCount.from.device # k /\ k # 0
    BY <1>4, Constants
  <2>5. s.counts[k].count = Cardinality(DevHolders(f, k)) + Cardinality(DevCounts(s.counts, k))
    BY DEF Good, CountsExact
  <2>6. /\ OfDevice(Bare(f[x]), k) = 0 /\ OfDevice(f1[y], k) = 0 /\ OfFrom(NoCount.from, k) = 0
        /\ OfDevice(from, k) = OfFrom(from, k) /\ OfFrom(from, k) \in {0, 1}
        /\ t.counts[k].count = s.counts[k].count - OfDevice(f[x], k) /\ OfDevice(f[x], k) \in {0, 1}
    <3>1. OfDevice(from, k) = OfFrom(from, k) /\ OfFrom(from, k) \in {0, 1}
      BY <1>6, <2>4 DEF OfDevice, OfFrom
    <3>2. OfDevice(Bare(f[x]), k) = 0 /\ OfDevice(f1[y], k) = 0 /\ OfFrom(NoCount.from, k) = 0
      BY <1>3, <2>4 DEF OfDevice, OfFrom
    <3>3. t.counts[k].count = s.counts[k].count - OfDevice(f[x], k) /\ OfDevice(f[x], k) \in {0, 1}
      <4>1. CASE k # h
        BY <1>1, <1>7, <4>1 DEF OfDevice, Count
      <4>2. CASE k = h /\ f[x].counted
        BY <1>1, <1>2, <1>7, <4>2, Constants DEF OfDevice, Alone, Count
      <4>3. CASE k = h /\ ~f[x].counted
        BY <1>2, <1>7, <4>3, Constants DEF OfDevice
      <4> QED BY <4>1, <4>2, <4>3
    <3> QED BY <3>1, <3>2, <3>3
  <2> HIDE DEF f1, g, from, h
  <2> QED BY <2>1, <2>2, <2>3, <2>5, <2>6 DEF Shift
<1>11. Fits(g, t)
  <2>1. \A w \in Slots : g[w].device = 0 => ~g[w].counted
    BY <1>3, <1>5, <1>6 DEF Good, Fits
  <2>2. ASSUME NEW k \in Handles PROVE CountFits(t.counts[k], t.devices[k])
    <3>1. CASE k = h
      BY <1>7, <3>1, Constants DEF CountFits
    <3>2. CASE k # h
      BY <1>7, <3>2 DEF Good, Fits
    <3> QED BY <3>1, <3>2
  <2>3. ASSUME NEW k \in Handles PROVE CropFits(t.counts, k)
    <3>1. CASE k = h
      BY <1>7, <3>1, Constants DEF CropFits
    <3>2. CASE k # h
      <4>1. CropFits(s.counts, k) /\ t.counts[k] = s.counts[k] /\ s.counts[k] \in Count
        BY <1>1, <1>7, <3>2 DEF Good, Fits
      <4>2. s.counts[k].from.device # h /\ s.counts[k].from.device \in {0} \union Handles
        BY <1>2, <4>1 DEF Count, Object
      <4>3. s.counts[k].from.device # 0 => t.counts[s.counts[k].from.device] = s.counts[s.counts[k].from.device]
        BY <1>7, <4>2
      <4> QED BY <4>1, <4>3 DEF CropFits
    <3> QED BY <3>1, <3>2
  <2>4. ASSUME NEW k \in Handles PROVE OwnerFits(g, t, k)
    <3>1. OwnerFits(f, s, k) /\ k # 0
      BY Constants DEF Good, Fits
    <3>2. ~Owns(g[x], k) /\ ~Owns(g[y], k) /\ ~Owns(f[y], k)
      <4>1. g[x].device # k
        BY <1>3, <1>5, <3>1
      <4>2. g[y].device = 0 \/ g[y].counted
        BY <1>5, <1>6
      <4>3. f[y].device = 0
        BY Constants
      <4> QED BY <3>1, <4>1, <4>2, <4>3 DEF Owns
    <3>3. CASE k = h
      <4>1. ASSUME NEW w \in Slots, Owns(g[w], h)
            PROVE  FALSE
        <5>1. w # x /\ w # y /\ Owns(f[w], h)
          BY <1>5, <3>2, <3>3, <4>1
        <5>2. CASE f[x].counted
          <6>1. s.counts[h].ownership # "none"
            BY <5>2, DeviceIsThere
          <6> QED BY <3>1, <3>3, <5>1, <6>1 DEF OwnerFits
        <5>3. CASE ~f[x].counted
          BY <3>1, <3>3, <5>1, <5>3 DEF OwnerFits, Owns
        <5> QED BY <5>2, <5>3
      <4> QED BY <1>7, <3>3, <4>1, Constants DEF OwnerFits
    <3>4. CASE k # h
      <4>1. \A w \in Slots : Owns(g[w], k) <=> Owns(f[w], k)
        BY <1>5, <3>2, <3>4 DEF Owns
      <4>2. t.counts[k] = s.counts[k] /\ t.devices[k] = s.devices[k]
        BY <1>7, <3>4
      <4> HIDE DEF g, h
      <4> QED BY <3>1, <4>1, <4>2 DEF OwnerFits
    <3> QED BY <3>3, <3>4
  <2> QED BY <2>1, <2>2, <2>3, <2>4 DEF Fits
<1> QED BY <1>8, <1>9, <1>10, <1>11 DEF Good

-----------------------------------------------------------------------------
(* Holders that change one at a time *)

\* The host memory of one object changes.
LEMMA HostStep ==
    ASSUME NEW f, NEW s, Good(f, s), NEW x \in Slots, NEW o \in Object,
           o.device = f[x].device, o.counted = f[x].counted,
           NEW t \in State, t.misused = FALSE, t.counts = s.counts, t.devices = s.devices,
           \A a \in Allocs : Shift(s.allocs[a], t.allocs[a], OfAlloc(f[x], a), OfAlloc(o, a))
    PROVE  Good(With(f, x, o), t)
<1> DEFINE g == With(f, x, o)
<1>1. /\ f \in [Slots -> Object] /\ f[x] \in Object /\ s.counts \in [Handles -> Count]
      /\ s.allocs \in [Allocs -> Nat] /\ t.allocs \in [Allocs -> Nat]
      /\ g = With(f, x, o)
  BY DEF Good, Types, State
<1> HIDE DEF g
<1>2. /\ g \in [Slots -> Object] /\ g[x] = o /\ \A y \in Slots : y # x => g[y] = f[y]
      /\ \A a : Shift(Cardinality(AllocHolders(f, a)), Cardinality(AllocHolders(g, a)),
                      OfAlloc(f[x], a), OfAlloc(o, a))
  BY <1>1, HoldersChange
<1>3. Types(g, t)
  BY <1>2 DEF Types
<1>4. AllocsExact(g, t)
  <2> SUFFICES ASSUME NEW a \in Allocs
               PROVE  t.allocs[a] = Cardinality(AllocHolders(g, a)) + Cardinality(AllocCounts(s.counts, a))
    BY DEF AllocsExact
  <2>1. s.allocs[a] = Cardinality(AllocHolders(f, a)) + Cardinality(AllocCounts(s.counts, a))
    BY DEF Good, AllocsExact
  <2>2. Cardinality(AllocCounts(s.counts, a)) \in Nat
    <3>1. AllocCounts(s.counts, a) \in SUBSET Handles
      BY DEF AllocCounts
    <3> QED BY <3>1, SlotsFinite, FS_Subset, FS_CardinalityType
  <2>3. OfAlloc(f[x], a) \in {0, 1} /\ OfAlloc(o, a) \in {0, 1}
    BY DEF OfAlloc
  <2>4. Shift(s.allocs[a], t.allocs[a], OfAlloc(f[x], a), OfAlloc(o, a))
    OBVIOUS
  <2>5. Shift(Cardinality(AllocHolders(f, a)), Cardinality(AllocHolders(g, a)),
              OfAlloc(f[x], a), OfAlloc(o, a))
    BY <1>2
  <2> QED BY <2>1, <2>2, <2>3, <2>4, <2>5 DEF Shift
<1>5. ASSUME NEW w \in Slots
      PROVE  g[w].device = f[w].device /\ g[w].counted = f[w].counted
  BY <1>2
<1>6. CountsExact(g, t)
  <2>1. \A h : DevHolders(g, h) = DevHolders(f, h)
    BY <1>5 DEF DevHolders
  <2> QED BY <2>1 DEF Good, CountsExact
<1>7. Fits(g, t)
  <2>1. \A w \in Slots, h \in Handles : Owns(g[w], h) <=> Owns(f[w], h)
    BY <1>5 DEF Owns
  <2>2. \A h \in Handles : OwnerFits(g, t, h)
    BY <2>1 DEF Good, Fits, OwnerFits
  <2> QED BY <1>5, <2>2 DEF Good, Fits
<1> QED BY <1>3, <1>4, <1>6, <1>7 DEF Good, g

\* The device memory of one object changes, and with it one count.
LEMMA DeviceStep ==
    ASSUME NEW f, NEW s, Types(f, s), AllocsExact(f, s), CountsExact(f, s),
           NEW x \in Slots, NEW o \in Object, o.alloc = f[x].alloc,
           NEW k \in Handles, NEW e \in Count, e.from = s.counts[k].from,
           NEW t \in State, t.misused = FALSE, t.allocs = s.allocs,
           t.counts = With(s.counts, k, e),
           Shift(s.counts[k].count, e.count, OfDevice(f[x], k), OfDevice(o, k)),
           \A h \in Handles : h # k => OfDevice(f[x], h) = OfDevice(o, h),
           NEW g, g = With(f, x, o)
    PROVE  Types(g, t) /\ AllocsExact(g, t) /\ CountsExact(g, t)
<1>1. /\ f \in [Slots -> Object] /\ s.counts \in [Handles -> Count] /\ s.allocs \in [Allocs -> Nat]
      /\ g = With(f, x, o)
  BY DEF Types, State
<1>2. /\ g \in [Slots -> Object]
      /\ \A a : Shift(Cardinality(AllocHolders(f, a)), Cardinality(AllocHolders(g, a)),
                      OfAlloc(f[x], a), OfAlloc(o, a))
      /\ \A h : Shift(Cardinality(DevHolders(f, h)), Cardinality(DevHolders(g, h)),
                      OfDevice(f[x], h), OfDevice(o, h))
  BY <1>1, HoldersChange
<1>3. /\ t.counts[k] = e /\ \A h \in Handles : h # k => t.counts[h] = s.counts[h]
      /\ \A h \in Handles : t.counts[h].from = s.counts[h].from /\ s.counts[h].count \in Nat
      /\ e.count \in Nat
  BY <1>1 DEF Count, With
<1>4. /\ \A a : AllocCounts(t.counts, a) = AllocCounts(s.counts, a)
      /\ \A h : DevCounts(t.counts, h) = DevCounts(s.counts, h)
  BY <1>3 DEF AllocCounts, DevCounts
<1>5. Types(g, t)
  BY <1>2 DEF Types
<1>6. AllocsExact(g, t)
  <2> SUFFICES ASSUME NEW a \in Allocs
               PROVE  t.allocs[a] = Cardinality(AllocHolders(g, a)) + Cardinality(AllocCounts(t.counts, a))
    BY DEF AllocsExact
  <2>1. OfAlloc(f[x], a) = OfAlloc(o, a) /\ OfAlloc(o, a) \in {0, 1}
    BY DEF OfAlloc
  <2>2. Cardinality(AllocHolders(g, a)) = Cardinality(AllocHolders(f, a))
    BY <1>2, <2>1 DEF Shift
  <2> QED BY <1>4, <2>2 DEF AllocsExact
<1>7. CountsExact(g, t)
  <2> SUFFICES ASSUME NEW h \in Handles
               PROVE  t.counts[h].count = Cardinality(DevHolders(g, h)) + Cardinality(DevCounts(t.counts, h))
    BY DEF CountsExact
  <2>1. s.counts[h].count = Cardinality(DevHolders(f, h)) + Cardinality(DevCounts(s.counts, h))
    BY DEF CountsExact
  <2>2. Cardinality(DevCounts(s.counts, h)) \in Nat
    <3>1. DevCounts(s.counts, h) \in SUBSET Handles
      BY DEF DevCounts
    <3> QED BY <3>1, SlotsFinite, FS_Subset, FS_CardinalityType
  <2>3. OfDevice(f[x], h) \in {0, 1} /\ OfDevice(o, h) \in {0, 1}
    BY DEF OfDevice
  <2>4. t.counts[h].count + OfDevice(f[x], h) = s.counts[h].count + OfDevice(o, h)
    BY <1>3 DEF Shift
  <2>5. t.counts[h].count \in Nat
    BY <1>3
  <2> QED BY <1>2, <1>4, <2>1, <2>2, <2>3, <2>4, <2>5 DEF Shift
<1> QED BY <1>5, <1>6, <1>7

\* A counted object, one of several, lets go of its device memory.
LEMMA OneOfSeveral ==
    ASSUME NEW f, NEW s, Good(f, s), NEW x \in Slots, NEW h \in Handles,
           f[x].device = h, f[x].counted, s.counts[h].count > 1
    PROVE  Good(With(f, x, Bare(f[x])), [s EXCEPT !.counts[h].count = @ - 1])
<1> DEFINE o == Bare(f[x])
           g == With(f, x, o)
           e == [s.counts[h] EXCEPT !.count = @ - 1]
           t == [s EXCEPT !.counts[h].count = @ - 1]
<1>1. /\ f \in [Slots -> Object] /\ f[x] \in Object /\ s \in State
      /\ s.counts \in [Handles -> Count] /\ s.counts[h] \in Count /\ h # 0
  BY Constants DEF Good, Types, State
<1>2. o \in Object /\ o.alloc = f[x].alloc /\ o.device = 0 /\ ~o.counted
  BY <1>1, Constants
<1>3. e \in Count /\ e.count = s.counts[h].count - 1 /\ e.from = s.counts[h].from /\ e.ownership = s.counts[h].ownership
  BY <1>1 DEF Count
<1>4. /\ t \in State /\ t.misused = FALSE /\ t.allocs = s.allocs /\ t.devices = s.devices
      /\ t.counts = With(s.counts, h, e)
  <2>1. t = [s EXCEPT !.counts = With(s.counts, h, e)]
    BY <1>1 DEF State, With
  <2> QED BY <1>1, <1>3, <2>1 DEF Good, Types, State, With
<1> HIDE DEF o, t, e
<1>5. \A w \in Slots : w # x => g[w] = f[w]
  BY <1>1 DEF With
<1>6. g[x] = o
  BY <1>1 DEF With
<1>7. Types(g, t) /\ AllocsExact(g, t) /\ CountsExact(g, t)
  <2>1. OfDevice(f[x], h) = 1 /\ OfDevice(o, h) = 0
    BY <1>1, <1>2 DEF OfDevice
  <2>2. Shift(s.counts[h].count, e.count, OfDevice(f[x], h), OfDevice(o, h))
    BY <1>1, <1>3, <2>1 DEF Count, Shift
  <2>3. \A k \in Handles : k # h => OfDevice(f[x], k) = OfDevice(o, k)
    BY <1>2, Constants DEF OfDevice
  <2>4. Types(f, s) /\ AllocsExact(f, s) /\ CountsExact(f, s) /\ g = With(f, x, o)
    BY DEF Good
  <2> HIDE DEF g
  <2> QED BY <1>2, <1>3, <1>4, <2>2, <2>3, <2>4, DeviceStep
<1>8. Fits(g, t)
  <2>1. \A w \in Slots : g[w].device = 0 => ~g[w].counted
    BY <1>2, <1>5, <1>6 DEF Good, Fits
  <2>2. ASSUME NEW k \in Handles
        PROVE  /\ t.counts[k].from = s.counts[k].from /\ t.counts[k].ownership = s.counts[k].ownership
               /\ t.counts[k].count = 0 <=> s.counts[k].count = 0
               /\ t.devices[k] = s.devices[k]
    BY <1>1, <1>3, <1>4 DEF Count, With
  <2>3. \A k \in Handles : CountFits(t.counts[k], t.devices[k])
    BY <2>2 DEF Good, Fits, CountFits
  <2>4. ASSUME NEW k \in Handles PROVE CropFits(t.counts, k)
    <3>1. CropFits(s.counts, k) /\ s.counts[k].from.device \in {0} \union Handles
      BY <1>1 DEF Good, Fits, Count, Object
    <3> QED BY <2>2, <3>1 DEF CropFits
  <2>5. ASSUME NEW k \in Handles PROVE OwnerFits(g, t, k)
    <3>1. OwnerFits(f, s, k) /\ k # 0
      BY Constants DEF Good, Fits
    <3>2. \A w \in Slots : Owns(g[w], k) <=> Owns(f[w], k)
      BY <1>2, <1>5, <1>6, <3>1 DEF Owns
    <3> HIDE DEF g
    <3> QED BY <2>2, <3>1, <3>2 DEF OwnerFits
  <2> QED BY <2>1, <2>3, <2>4, <2>5 DEF Fits
<1> QED BY <1>7, <1>8 DEF Good, g, t, o

-----------------------------------------------------------------------------
(* decref *)

NoHost(o) == [alloc |-> 0, device |-> o.device, counted |-> o.counted]

\* What decref may free: not what device_and_host_free alone can.
MayGo(s, o) == o.device # 0 => s.devices[o.device].kind # "both"

LEMMA WithSame ==
    ASSUME NEW f, NEW s, Good(f, s), NEW x \in Slots
    PROVE  With(f, x, f[x]) = f
BY DEF With, Good, Types

LEMMA CountedMayGo ==
    ASSUME NEW f, NEW s, Good(f, s), NEW x \in Slots, NEW o,
           o.device = f[x].device, f[x].counted
    PROVE  MayGo(s, o)
<1> SUFFICES ASSUME o.device # 0
             PROVE  s.devices[o.device].kind # "both"
  BY DEF MayGo
<1>1. /\ o.device \in Handles /\ s.counts[o.device].ownership # "none"
      /\ s.counts[o.device] \in Count
  <2>1. f[x].device # 0
    OBVIOUS
  <2>2. f[x].device \in Handles /\ s.counts[f[x].device].ownership # "none"
    BY <2>1, DeviceIsThere
  <2> QED BY <2>2 DEF Good, Types, State
<1>2. CountFits(s.counts[o.device], s.devices[o.device])
  BY <1>1 DEF Good, Fits
<1> QED BY <1>1, <1>2 DEF CountFits, Count, Ownership

LEMMA DropHostGood ==
    ASSUME NEW f, NEW s, Good(f, s), NEW x \in Slots, NEW o \in Object, o.alloc = f[x].alloc
    PROVE  /\ Good(With(f, x, NoHost(f[x])), DropHost(s, o))
           /\ DropHost(s, o).obj = s.obj /\ DropHost(s, o).counts = s.counts
           /\ DropHost(s, o).devices = s.devices
<1> DEFINE t == DropHost(s, o)
           n == NoHost(f[x])
<1>1. /\ f \in [Slots -> Object] /\ f[x] \in Object /\ s \in State /\ s.misused = FALSE
      /\ s.allocs \in [Allocs -> Nat]
  BY DEF Good, Types, State
<1>2. n \in Object /\ n.alloc = 0 /\ n.device = f[x].device /\ n.counted = f[x].counted
  BY <1>1 DEF NoHost, Object
<1>3. CASE o.alloc = 0
  <2>1. t = s
    BY <1>3 DEF DropHost
  <2>2. \A a \in Allocs : Shift(s.allocs[a], s.allocs[a], OfAlloc(f[x], a), OfAlloc(n, a))
    BY <1>1, <1>2, <1>3, Constants DEF OfAlloc, Shift
  <2> HIDE DEF n
  <2>3. Good(With(f, x, n), s)
    BY <1>1, <1>2, <2>2, HostStep
  <2> QED BY <2>1, <2>3 DEF n
<1>4. CASE o.alloc # 0
  <2> DEFINE b == o.alloc
  <2>1. b \in Allocs
    BY <1>4 DEF Object
  <2>2. t = [s EXCEPT !.allocs = [s.allocs EXCEPT ![b] = s.allocs[b] - 1]]
    BY <1>1, <1>4 DEF DropHost, State
  <2>3. s.allocs[b] > 0
    <3>1. IsFiniteSet(AllocHolders(f, b)) /\ IsFiniteSet(AllocCounts(s.counts, b))
      <4>1. AllocHolders(f, b) \in SUBSET Slots /\ AllocCounts(s.counts, b) \in SUBSET Handles
        BY DEF AllocHolders, AllocCounts
      <4> QED BY <4>1, SlotsFinite, FS_Subset
    <3>2. x \in AllocHolders(f, b)
      BY DEF AllocHolders
    <3>3. Cardinality(AllocHolders(f, b)) \in Nat /\ Cardinality(AllocHolders(f, b)) # 0
          /\ Cardinality(AllocCounts(s.counts, b)) \in Nat
      BY <3>1, <3>2, FS_CardinalityType, FS_EmptySet
    <3>4. s.allocs[b] = Cardinality(AllocHolders(f, b)) + Cardinality(AllocCounts(s.counts, b))
      BY <2>1 DEF Good, AllocsExact
    <3> QED BY <3>3, <3>4
  <2>4. [s.allocs EXCEPT ![b] = s.allocs[b] - 1] \in [Allocs -> Nat]
    <3>1. s.allocs[b] \in Nat /\ s.allocs[b] - 1 \in Nat
      BY <1>1, <2>1, <2>3
    <3> QED BY <1>1, <2>1, <3>1
  <2>5. /\ t \in State /\ t.misused = FALSE /\ t.obj = s.obj /\ t.counts = s.counts
        /\ t.devices = s.devices /\ t.allocs = [s.allocs EXCEPT ![b] = s.allocs[b] - 1]
    <3> HIDE DEF b, t
    <3> QED BY <1>1, <2>2, <2>4 DEF State
  <2>6. ASSUME NEW a \in Allocs
        PROVE  Shift(s.allocs[a], t.allocs[a], OfAlloc(f[x], a), OfAlloc(n, a))
    <3>1. OfAlloc(n, a) = 0
      BY <1>2, Constants DEF OfAlloc
    <3>2. CASE a = b
      <4>1. OfAlloc(f[x], a) = 1
        BY <3>2 DEF OfAlloc
      <4>2. t.allocs[a] = s.allocs[a] - 1 /\ s.allocs[a] \in Nat /\ s.allocs[a] > 0
        <5> HIDE DEF t, b
        <5> QED BY <1>1, <2>3, <2>5, <3>2
      <4> HIDE DEF t, n
      <4> QED BY <3>1, <4>1, <4>2 DEF Shift
    <3>3. CASE a # b
      <4>1. OfAlloc(f[x], a) = 0
        BY <3>3 DEF OfAlloc
      <4>2. t.allocs[a] = s.allocs[a] /\ s.allocs[a] \in Nat
        <5> HIDE DEF t, b
        <5> QED BY <1>1, <2>5, <3>3
      <4> HIDE DEF t, n
      <4> QED BY <3>1, <4>1, <4>2 DEF Shift
    <3> QED BY <3>2, <3>3
  <2> HIDE DEF t, n
  <2>7. Good(With(f, x, n), t)
    BY <1>2, <2>5, <2>6, HostStep
  <2> QED BY <2>5, <2>7 DEF t, n
<1> QED BY <1>3, <1>4

LEMMA KindOfOwnership ==
    /\ KindOf("Allocated") = "allocated" /\ KindOf("WrappedNative") = "native"
    /\ KindOf("Cropped") = "crop"
BY DEF KindOf

LEMMA CountOfObject ==
    ASSUME NEW s, NEW o
    PROVE  /\ o.counted => CountOf(s, o) = s.counts[o.device]
           /\ ~o.counted => /\ CountOf(s, o).count = 1 /\ CountOf(s, o).ownership = "Allocated"
                            /\ CountOf(s, o).from = Empty
BY DEF CountOf, NoCount

\* An object lets go of its device memory: what is beneath it, if anything, gets loose, and
\* has nothing beneath.
LEMMA LetGoGood ==
    ASSUME NEW f, NEW s, Good(f, s), NEW x \in Slots, NEW y \in Slots, x # y, f[y] = Empty,
           NEW o \in Object, o.device = f[x].device, o.counted = f[x].counted, MayGo(s, o)
    PROVE  /\ Good(With(With(f, x, Bare(f[x])), y, Beneath(s, o)), LetGo(s, o))
           /\ LetGo(s, o).obj = s.obj
           /\ Beneath(s, o) # Empty =>
                  /\ Beneath(s, o).device # 0 /\ Beneath(s, o).counted
                  /\ LetGo(s, o).counts[Beneath(s, o).device].ownership # "Cropped"
<1> DEFINE h == o.device
           c == CountOf(s, o)
<1>1. /\ f \in [Slots -> Object] /\ f[x] \in Object /\ s \in State /\ s.misused = FALSE
      /\ s.counts \in [Handles -> Count] /\ s.devices \in [Handles -> Device]
  BY DEF Good, Types, State
<1>2. Bare(f[x]) \in Object /\ Empty \in Object /\ Bare(f[x]) = [alloc |-> f[x].alloc, device |-> 0, counted |-> FALSE]
  BY <1>1, Constants
<1>3. With(With(f, x, Bare(f[x])), y, Empty) = With(f, x, Bare(f[x]))
  BY <1>1, <1>2 DEF With
<1>4. CASE h = 0
  <2>1. LetGo(s, o) = s /\ Beneath(s, o) = Empty
    BY <1>4 DEF LetGo, Beneath
  <2>2. f[x].device = 0 /\ ~f[x].counted
    BY <1>4 DEF Good, Fits
  <2>3. Bare(f[x]) = f[x]
    BY <1>1, <1>2, <2>2 DEF Object
  <2>4. Good(With(f, x, Bare(f[x])), s)
    BY <2>3, WithSame
  <2> QED BY <1>3, <2>1, <2>4
<1>5. ASSUME h # 0
      PROVE  /\ h \in Handles /\ s.counts[h] \in Count /\ s.devices[h] \in Device
             /\ f[x].device = h /\ f[x].device # 0
             /\ CountFits(s.counts[h], s.devices[h]) /\ CropFits(s.counts, h)
  BY <1>1, <1>5 DEF Object, Good, Fits
<1>6. CASE h # 0 /\ c.count > 1
  <2>1. f[x].counted /\ o.counted /\ c = s.counts[h]
    BY <1>6 DEF CountOf
  <2>2. LetGo(s, o) = [s EXCEPT !.counts[h].count = @ - 1]
    BY <1>6 DEF LetGo
  <2>3. Beneath(s, o) = Empty
    <3>1. ~(c.count <= 1)
      BY <1>5, <1>6, <2>1 DEF Count
    <3> QED BY <3>1 DEF Beneath
  <2>4. Good(With(f, x, Bare(f[x])), [s EXCEPT !.counts[h].count = @ - 1])
    BY <1>5, <1>6, <2>1, OneOfSeveral
  <2>5. [s EXCEPT !.counts[h].count = @ - 1].obj = s.obj
    BY <1>1 DEF State
  <2>6. With(With(f, x, Bare(f[x])), y, Empty) = With(f, x, Bare(f[x]))
    BY <1>3
  <2> HIDE DEF c
  <2> QED BY <2>2, <2>3, <2>4, <2>5, <2>6
<1>7. CASE h # 0 /\ ~(c.count > 1)
  <2> DEFINE u == [s EXCEPT !.devices = With(s.devices, h, NoDevice)]
             t == [s EXCEPT !.devices = With(s.devices, h, NoDevice), !.counts = With(s.counts, h, NoCount)]
  <2>1. /\ f[x].counted => c = s.counts[h] /\ s.counts[h].ownership # "none" /\ s.counts[h].count <= 1
                           /\ c.count <= 1
        /\ ~f[x].counted => /\ s.counts[h] = NoCount /\ s.devices[h].kind = "allocated"
                            /\ c.count = 1 /\ c.ownership = "Allocated" /\ c.from = Empty
    <3>1. CASE f[x].counted
      <4>1. c = s.counts[h]
        BY <3>1 DEF CountOf
      <4>2. s.counts[f[x].device].ownership # "none"
        BY <1>5, <1>7, <3>1, DeviceIsThere
      <4> QED BY <1>5, <1>7, <3>1, <4>1, <4>2 DEF Count
    <3>2. CASE ~f[x].counted
      <4>1. s.counts[h] = NoCount /\ s.devices[h].kind \in {"allocated", "both"}
        BY <1>5, <1>7, <3>2, DeviceIsThere
      <4>2. s.devices[h].kind # "both"
        BY <1>7 DEF MayGo
      <4> QED BY <3>2, <4>1, <4>2, CountOfObject
    <3> QED BY <3>1, <3>2
  <2>2. Alone(f, s, x) /\ f[x].device # 0
    BY <1>5, <1>7, <2>1 DEF Alone
  <2>3. LiveCrops(s, h) = {}
    BY <1>5, <1>7, <2>2, NoCropOfIt
  <2>4. Beneath(s, o) = s.counts[h].from
    <3>1. CASE f[x].counted
      BY <1>5, <1>7, <2>1, <3>1 DEF Beneath, CountFits
    <3>2. CASE ~f[x].counted
      BY <1>5, <1>7, <2>1, <3>2, Constants DEF Beneath
    <3> QED BY <3>1, <3>2
  <2>5. [s EXCEPT !.devices[h] = NoDevice] = u
    BY <1>1 DEF State, With
  <2>6. ASSUME c.ownership # "Unmanaged", s.devices[h].kind # "failed"
        PROVE  s.devices[h].kind = KindOf(c.ownership)
    <3>1. CASE f[x].counted
      BY <1>5, <1>7, <2>1, <2>6, <3>1, KindOfOwnership DEF CountFits, Count, Ownership
    <3>2. CASE ~f[x].counted
      BY <2>1, <3>2, KindOfOwnership
    <3> QED BY <3>1, <3>2
  <2>7. LetGo(s, o) = [u EXCEPT !.counts[h] = NoCount]
    <3>1. CASE c.ownership = "Unmanaged" \/ s.devices[h].kind = "failed"
      BY <1>7, <2>5, <3>1 DEF LetGo, Failed
    <3>2. CASE c.ownership # "Unmanaged" /\ s.devices[h].kind # "failed"
      <4>1. Release(s, h, KindOf(c.ownership)) = u
        BY <2>3, <2>5, <2>6, <3>2 DEF Release
      <4> QED BY <1>7, <3>2, <4>1 DEF LetGo, Failed
    <3> QED BY <3>1, <3>2
  <2>8. [u EXCEPT !.counts[h] = NoCount] = t
    BY <1>1 DEF State, With
  <2>9. /\ With(s.devices, h, NoDevice) \in [Handles -> Device]
        /\ With(s.counts, h, NoCount) \in [Handles -> Count]
    BY <1>1, <1>5, <1>7, Constants DEF With
  <2>10. /\ t \in State /\ t.misused = FALSE /\ t.obj = s.obj /\ t.allocs = s.allocs
         /\ t.counts = With(s.counts, h, NoCount) /\ t.devices = With(s.devices, h, NoDevice)
    BY <1>1, <2>9 DEF State
  <2> HIDE DEF t, u
  <2>11. Good(With(With(f, x, Bare(f[x])), y, s.counts[f[x].device].from), t)
    BY <1>5, <1>7, <2>2, <2>10, Gone
  <2>12. ASSUME Beneath(s, o) # Empty
         PROVE  /\ Beneath(s, o).device # 0 /\ Beneath(s, o).counted
                /\ t.counts[Beneath(s, o).device].ownership # "Cropped"
    <3>1. s.counts[h].ownership = "Cropped"
      BY <1>5, <1>7, <2>4, <2>12 DEF CountFits
    <3>2. /\ s.counts[h].from.device # 0 /\ s.counts[h].from.counted
          /\ s.counts[s.counts[h].from.device].ownership # "Cropped"
      BY <1>5, <1>7, <3>1 DEF CropFits
    <3>3. s.counts[h].from.device \in Handles
      BY <1>5, <1>7, <3>2 DEF Count, Object
    <3>4. t.counts[s.counts[h].from.device].ownership # "Cropped"
      BY <1>1, <2>10, <3>2, <3>3, Constants DEF With
    <3> QED BY <2>4, <3>2, <3>4
  <2> QED BY <1>5, <1>7, <2>4, <2>7, <2>8, <2>10, <2>11, <2>12
<1> QED BY <1>4, <1>6, <1>7

LEMMA DropDeviceGood ==
    ASSUME NEW f, NEW s, Good(f, s), NEW x \in Slots, NEW y \in Slots, NEW z \in Slots,
           x # y, x # z, y # z, f[y] = Empty, f[z] = Empty,
           NEW o \in Object, o.device = f[x].device, o.counted = f[x].counted, MayGo(s, o)
    PROVE  /\ Good(With(f, x, Bare(f[x])), DropDevice(s, o))
           /\ DropDevice(s, o).obj = s.obj
<1> DEFINE from == Beneath(s, o)
           s1 == LetGo(s, o)
           f1 == With(With(f, x, Bare(f[x])), y, from)
           t == DropHost(s1, from)
           f2 == With(f1, y, NoHost(from))
           u == LetGo(t, from)
<1>1. /\ Good(f1, s1) /\ s1.obj = s.obj
      /\ from # Empty => /\ from.device # 0 /\ from.counted
                         /\ s1.counts[from.device].ownership # "Cropped"
  BY LetGoGood
<1>2. /\ f \in [Slots -> Object] /\ f[x] \in Object /\ f1 \in [Slots -> Object]
      /\ Bare(f[x]) \in Object /\ Bare(f[x]).alloc = f[x].alloc
  <2>1. f \in [Slots -> Object] /\ f1 \in [Slots -> Object]
    BY <1>1 DEF Good, Types
  <2> QED BY <2>1, Constants
<1>3. f1[y] = from /\ from \in Object /\ f1[z] = Empty
  <2>1. f1[y] = from
    BY <1>2 DEF With
  <2>2. f1[z] = Empty
    BY <1>2 DEF With
  <2> QED BY <1>2, <2>1, <2>2
<1>4. /\ Good(f2, t) /\ t.obj = s1.obj /\ t.counts = s1.counts /\ t.devices = s1.devices
  <2> HIDE DEF f1, s1, from
  <2> QED BY <1>1, <1>3, DropHostGood
<1>5. /\ f2[y] = NoHost(from) /\ f2[z] = Empty
      /\ NoHost(from) = [alloc |-> 0, device |-> from.device, counted |-> from.counted]
  BY <1>2, <1>3 DEF With, NoHost
<1>6. MayGo(t, from)
  <2>1. CASE from = Empty
    BY <2>1, Constants DEF MayGo
  <2>2. CASE from # Empty
    <3> HIDE DEF f2, t, from
    <3>1. from.device = f2[y].device /\ f2[y].counted
      BY <1>1, <1>5, <2>2
    <3> QED BY <1>4, <3>1, CountedMayGo
  <2> QED BY <2>1, <2>2
<1>7. Beneath(t, from) = Empty
  <2>1. CASE from = Empty
    BY <2>1, Constants DEF Beneath
  <2>2. CASE from # Empty
    <3>1. CountOf(t, from) = t.counts[from.device] /\ t.counts[from.device].ownership # "Cropped"
      <4> HIDE DEF t, from
      <4> QED BY <1>1, <1>4, <2>2, CountOfObject
    <3> HIDE DEF t, from
    <3> QED BY <3>1 DEF Beneath
  <2> QED BY <2>1, <2>2
<1>8. Good(With(With(f2, y, Bare(f2[y])), z, Beneath(t, from)), u) /\ u.obj = t.obj
  <2>1. f2[y].device = from.device /\ f2[y].counted = from.counted
    <3> HIDE DEF f2, from
    <3> QED BY <1>5
  <2> HIDE DEF f2, t, from
  <2> QED BY <1>3, <1>4, <1>5, <1>6, <2>1, LetGoGood
<1>9. With(With(f2, y, Bare(f2[y])), z, Beneath(t, from)) = With(f, x, Bare(f[x]))
  <2>1. Bare(f2[y]) = Empty
    <3> HIDE DEF f2, from
    <3> QED BY <1>5, Constants DEF Bare
  <2>2. f2 \in [Slots -> Object] /\ \A w \in Slots : w # x /\ w # y => f2[w] = f[w]
    <3>1. \A w \in Slots : w # x /\ w # y => f1[w] = f[w]
      BY <1>2 DEF With
    <3>2. \A w \in Slots : w # y => f2[w] = f1[w]
      <4> HIDE DEF f1, from
      <4> QED BY <1>2 DEF With
    <3>3. f2 \in [Slots -> Object]
      BY <1>4 DEF Good, Types
    <3> HIDE DEF f1, f2, from
    <3> QED BY <3>1, <3>2, <3>3
  <2>3. f2[x] = Bare(f[x])
    <3>1. f1[x] = Bare(f[x])
      BY <1>2 DEF With
    <3> HIDE DEF f1, from
    <3> QED BY <1>2, <3>1 DEF With
  <2> HIDE DEF f1, f2, from, t
  <2> QED BY <1>2, <1>7, <2>1, <2>2, <2>3, Constants DEF With
<1>10. DropDevice(s, o) = u
  <2>1. u \in State /\ u.misused = FALSE
    BY <1>8 DEF Good, Types
  <2>2. DropDevice(s, o) = [u EXCEPT !.misused = @ \/ Beneath(t, from) # Empty]
    BY DEF DropDevice
  <2>3. (u.misused \/ Beneath(t, from) # Empty) = FALSE
    BY <1>7, <2>1
  <2> HIDE DEF u, t, from
  <2>4. DropDevice(s, o) = [u EXCEPT !.misused = FALSE]
    BY <2>2, <2>3
  <2> QED BY <2>1, <2>4 DEF State
<1> HIDE DEF u, t, s1, f1, f2, from
<1> QED BY <1>1, <1>4, <1>8, <1>9, <1>10

LEMMA DecrefGood ==
    ASSUME NEW f, NEW s, Good(f, s), NEW x \in Slots, NEW y \in Slots, NEW z \in Slots,
           x # y, x # z, y # z, f[y] = Empty, f[z] = Empty,
           NEW o, o = f[x], MayGo(s, o)
    PROVE  /\ Good(With(f, x, Empty), Decref(s, o))
           /\ Decref(s, o).obj = s.obj
<1> DEFINE t == DropHost(s, o)
           g == With(f, x, NoHost(o))
<1>1. f \in [Slots -> Object] /\ o \in Object
  BY DEF Good, Types
<1>2. Good(g, t) /\ t.obj = s.obj /\ t.devices = s.devices
  BY <1>1, DropHostGood
<1>3. /\ g[x] = NoHost(o) /\ g[y] = Empty /\ g[z] = Empty
      /\ NoHost(o) = [alloc |-> 0, device |-> o.device, counted |-> o.counted]
  BY <1>1 DEF With, NoHost
<1>4. MayGo(t, o)
  BY <1>2 DEF MayGo
<1>5. o.device = g[x].device /\ o.counted = g[x].counted
  BY <1>3
<1>6. With(g, x, Bare(g[x])) = With(f, x, Empty)
  <2>1. Bare(g[x]) = Empty
    BY <1>3, Constants DEF Bare
  <2> QED BY <1>1, <2>1 DEF With
<1>7. Decref(s, o) = DropDevice(t, o)
  BY DEF Decref
<1> HIDE DEF g, t
<1>8. Good(With(g, x, Bare(g[x])), DropDevice(t, o)) /\ DropDevice(t, o).obj = t.obj
  <2>1. g[y] = Empty /\ g[z] = Empty
    BY <1>3
  <2> QED BY <1>1, <1>2, <1>4, <1>5, <2>1, DropDeviceGood
<1> QED BY <1>2, <1>6, <1>7, <1>8

-----------------------------------------------------------------------------
(* incref, and counts that are made *)

\* The object gets an allocation: it shares it, or it is new.
LEMMA ShareHost ==
    ASSUME NEW f, NEW s, Good(f, s), NEW x \in Slots, f[x].alloc = 0,
           NEW o \in Object, o.device = f[x].device, o.counted = f[x].counted, o.alloc \in Allocs,
           NEW t, t = [s EXCEPT !.allocs[o.alloc] = @ + 1]
    PROVE  Good(With(f, x, o), t) /\ t.obj = s.obj /\ t.counts = s.counts /\ t.devices = s.devices
<1> DEFINE b == o.alloc
           new == [s.allocs EXCEPT ![b] = s.allocs[b] + 1]
<1>1. s \in State /\ s.misused = FALSE /\ s.allocs \in [Allocs -> Nat]
  BY DEF Good, Types, State
<1>2. t = [s EXCEPT !.allocs = new]
  BY <1>1 DEF State
<1>3. s.allocs[b] \in Nat /\ s.allocs[b] + 1 \in Nat
  BY <1>1
<1>4. /\ new \in [Allocs -> Nat] /\ new[b] = s.allocs[b] + 1
      /\ \A a \in Allocs : a # b => new[a] = s.allocs[a]
  BY <1>1, <1>3
<1> HIDE DEF new
<1>5. /\ t \in State /\ t.misused = FALSE /\ t.obj = s.obj /\ t.counts = s.counts
      /\ t.devices = s.devices /\ t.allocs = new
  BY <1>1, <1>2, <1>4 DEF State
<1>6. ASSUME NEW a \in Allocs
      PROVE  Shift(s.allocs[a], t.allocs[a], OfAlloc(f[x], a), OfAlloc(o, a))
  <2>1. OfAlloc(f[x], a) = 0
    BY Constants DEF OfAlloc
  <2>2. CASE a = b
    <3>1. OfAlloc(o, a) = 1
      BY <2>2 DEF OfAlloc
    <3>2. t.allocs[a] = s.allocs[a] + 1 /\ s.allocs[a] \in Nat
      BY <1>3, <1>4, <1>5, <2>2
    <3> QED BY <2>1, <3>1, <3>2 DEF Shift
  <2>3. CASE a # b
    <3>1. OfAlloc(o, a) = 0
      BY <2>3 DEF OfAlloc
    <3>2. t.allocs[a] = s.allocs[a] /\ s.allocs[a] \in Nat
      BY <1>1, <1>4, <1>5, <2>3
    <3> QED BY <2>1, <3>1, <3>2 DEF Shift
  <2> QED BY <2>2, <2>3
<1>7. Good(With(f, x, o), t)
  BY <1>5, <1>6, HostStep
<1> QED BY <1>5, <1>7

\* The object gets device memory that others have and count.
LEMMA ShareDevice ==
    ASSUME NEW f, NEW s, Good(f, s), NEW x \in Slots, f[x].device = 0,
           NEW o \in Object, o.alloc = f[x].alloc, o.counted, NEW h \in Handles, o.device = h,
           s.counts[h].count # 0,
           NEW t, t = [s EXCEPT !.counts[h].count = @ + 1]
    PROVE  Good(With(f, x, o), t) /\ t.obj = s.obj
<1> DEFINE g == With(f, x, o)
           e == [s.counts[h] EXCEPT !.count = s.counts[h].count + 1]
<1>1. /\ f \in [Slots -> Object] /\ f[x] \in Object /\ s \in State /\ s.misused = FALSE
      /\ s.counts \in [Handles -> Count] /\ s.counts[h] \in Count /\ h # 0
  BY Constants DEF Good, Types, State
<1>2. s.counts[h].count \in Nat /\ s.counts[h].count + 1 \in Nat
  BY <1>1 DEF Count
<1>3. /\ e \in Count /\ e.count = s.counts[h].count + 1 /\ e.from = s.counts[h].from
      /\ e.ownership = s.counts[h].ownership
  BY <1>1, <1>2 DEF Count
<1>4. /\ t \in State /\ t.misused = FALSE /\ t.allocs = s.allocs /\ t.devices = s.devices
      /\ t.obj = s.obj /\ t.counts = With(s.counts, h, e)
  <2>1. t = [s EXCEPT !.counts = With(s.counts, h, e)]
    BY <1>1 DEF State, With
  <2>2. With(s.counts, h, e) \in [Handles -> Count]
    BY <1>1, <1>3 DEF With
  <2> HIDE DEF e
  <2> QED BY <1>1, <2>1, <2>2 DEF State
<1> HIDE DEF e
<1>5. g[x] = o /\ \A w \in Slots : w # x => g[w] = f[w]
  BY <1>1 DEF With
<1>6. Types(g, t) /\ AllocsExact(g, t) /\ CountsExact(g, t)
  <2>1. OfDevice(f[x], h) = 0 /\ OfDevice(o, h) = 1
    BY <1>1 DEF OfDevice
  <2>2. Shift(s.counts[h].count, e.count, OfDevice(f[x], h), OfDevice(o, h))
    BY <1>2, <1>3, <2>1 DEF Shift
  <2>3. \A k \in Handles : k # h => OfDevice(f[x], k) = OfDevice(o, k)
    BY Constants DEF OfDevice
  <2>4. Types(f, s) /\ AllocsExact(f, s) /\ CountsExact(f, s) /\ g = With(f, x, o)
    BY DEF Good
  <2> HIDE DEF g
  <2>5. t \in State /\ t.misused = FALSE
    BY <1>4
  <2>6. t.allocs = s.allocs /\ t.counts = With(s.counts, h, e)
    BY <1>4
  <2>7. e \in Count /\ e.from = s.counts[h].from
    BY <1>3
  <2>8. Types(f, s) /\ AllocsExact(f, s) /\ CountsExact(f, s)
    BY <2>4
  <2>9. g = With(f, x, o)
    BY <2>4
  <2> QED BY <2>2, <2>3, <2>5, <2>6, <2>7, <2>8, <2>9, DeviceStep
<1>7. Fits(g, t)
  <2>1. \A w \in Slots : g[w].device = 0 => ~g[w].counted
    BY <1>1, <1>5 DEF Good, Fits
  <2>2. ASSUME NEW k \in Handles
        PROVE  /\ t.counts[k].from = s.counts[k].from /\ t.counts[k].ownership = s.counts[k].ownership
               /\ t.counts[k].count = 0 <=> s.counts[k].count = 0
               /\ t.devices[k] = s.devices[k]
    <3>1. CASE k = h
      <4>1. t.counts[k] = e
        BY <1>1, <1>4, <3>1 DEF With
      <4> QED BY <1>2, <1>3, <1>4, <3>1, <4>1
    <3>2. CASE k # h
      <4>1. t.counts[k] = s.counts[k]
        BY <1>1, <1>4, <3>2 DEF With
      <4> QED BY <1>4, <4>1
    <3> QED BY <3>1, <3>2
  <2>3. \A k \in Handles : CountFits(t.counts[k], t.devices[k])
    BY <2>2 DEF Good, Fits, CountFits
  <2>4. ASSUME NEW k \in Handles PROVE CropFits(t.counts, k)
    <3>1. CropFits(s.counts, k) /\ s.counts[k].from.device \in {0} \union Handles
      BY <1>1 DEF Good, Fits, Count, Object
    <3> QED BY <2>2, <3>1 DEF CropFits
  <2>5. ASSUME NEW k \in Handles PROVE OwnerFits(g, t, k)
    <3>1. OwnerFits(f, s, k) /\ k # 0
      BY Constants DEF Good, Fits
    <3>2. \A w \in Slots : Owns(g[w], k) <=> Owns(f[w], k)
      BY <1>5, <3>1 DEF Owns
    <3> HIDE DEF g
    <3> QED BY <2>2, <3>1, <3>2 DEF OwnerFits
  <2> QED BY <2>1, <2>3, <2>4, <2>5 DEF Fits
<1> QED BY <1>4, <1>6, <1>7 DEF Good

\* A count is made for the device memory the object alone has, or has just got.
LEMMA NewCountGood ==
    ASSUME NEW f, NEW s, Good(f, s), NEW x \in Slots,
           NEW h \in Handles, f[x].device = 0 \/ Owns(f[x], h),
           s.counts[h].ownership = "none", s.devices[h].kind # "none" => Owns(f[x], h),
           NEW o \in Object, o.alloc = f[x].alloc, o.device = h, o.counted,
           NEW e \in Count, e.from = Empty, e.count = 1, e.ownership # "Cropped",
           NEW d \in Device, CountFits(e, d),
           NEW t \in State, t.misused = FALSE, t.allocs = s.allocs,
           t.counts = With(s.counts, h, e), t.devices = With(s.devices, h, d)
    PROVE  Good(With(f, x, o), t)
<1> DEFINE g == With(f, x, o)
<1>1. /\ f \in [Slots -> Object] /\ f[x] \in Object /\ h # 0
      /\ s.counts \in [Handles -> Count] /\ s.devices \in [Handles -> Device]
  BY Constants DEF Good, Types, State
<1>2. g[x] = o /\ \A w \in Slots : w # x => g[w] = f[w]
  BY <1>1 DEF With
<1>3. /\ t.counts[h] = e /\ t.devices[h] = d
      /\ \A k \in Handles : k # h => t.counts[k] = s.counts[k] /\ t.devices[k] = s.devices[k]
  BY <1>1 DEF With
<1>4. s.counts[h].count = 0 /\ s.counts[h].from = Empty
  BY DEF Good, Fits, CountFits
<1>5. ~f[x].counted /\ \A k \in Handles : k # h => f[x].device # k
  BY <1>1, Constants DEF Owns, Good, Fits
<1>6. Types(g, t) /\ AllocsExact(g, t) /\ CountsExact(g, t)
  <2>1. OfDevice(f[x], h) = 0 /\ OfDevice(o, h) = 1
    BY <1>5 DEF OfDevice
  <2>2. Shift(s.counts[h].count, e.count, OfDevice(f[x], h), OfDevice(o, h))
    BY <1>4, <2>1 DEF Shift
  <2>3. \A k \in Handles : k # h => OfDevice(f[x], k) = OfDevice(o, k)
    BY <1>5 DEF OfDevice
  <2>4. Types(f, s) /\ AllocsExact(f, s) /\ CountsExact(f, s) /\ g = With(f, x, o)
    BY DEF Good
  <2>5. e.from = s.counts[h].from
    BY <1>4
  <2> HIDE DEF g
  <2> QED BY <2>2, <2>3, <2>4, <2>5, DeviceStep
<1>7. Fits(g, t)
  <2>1. \A w \in Slots : g[w].device = 0 => ~g[w].counted
    BY <1>1, <1>2 DEF Good, Fits
  <2>2. ASSUME NEW k \in Handles PROVE CountFits(t.counts[k], t.devices[k])
    BY <1>3 DEF Good, Fits
  <2>3. ASSUME NEW k \in Handles PROVE CropFits(t.counts, k)
    <3>1. CASE k = h
      BY <1>3, <3>1 DEF CropFits
    <3>2. CASE k # h
      <4>1. CropFits(s.counts, k) /\ t.counts[k] = s.counts[k] /\ s.counts[k].from.device \in {0} \union Handles
        BY <1>1, <1>3, <3>2 DEF Good, Fits, Count, Object
      <4> QED BY <1>3, <4>1 DEF CropFits
    <3> QED BY <3>1, <3>2
  <2>4. ASSUME NEW k \in Handles PROVE OwnerFits(g, t, k)
    <3>1. OwnerFits(f, s, k) /\ ~Owns(g[x], k)
      BY <1>2 DEF Good, Fits, Owns
    <3>2. CASE k = h
      <4>1. ASSUME NEW w \in Slots, Owns(g[w], h)
            PROVE  FALSE
        <5>1. w # x /\ Owns(f[w], h)
          BY <1>2, <3>1, <3>2, <4>1
        <5>2. Owns(f[x], h)
          BY <3>1, <3>2, <5>1 DEF OwnerFits
        <5> QED BY <3>1, <3>2, <5>1, <5>2 DEF OwnerFits
      <4>2. t.counts[k].ownership # "none"
        BY <1>3, <3>2 DEF CountFits
      <4> QED BY <3>2, <4>1, <4>2 DEF OwnerFits
    <3>3. CASE k # h
      <4>1. \A w \in Slots : Owns(g[w], k) <=> Owns(f[w], k)
        BY <1>2, <1>5, <3>1, <3>3 DEF Owns
      <4>2. t.counts[k] = s.counts[k] /\ t.devices[k] = s.devices[k]
        BY <1>3, <3>3
      <4> HIDE DEF g
      <4> QED BY <3>1, <4>1, <4>2 DEF OwnerFits
    <3> QED BY <3>2, <3>3
  <2> QED BY <2>1, <2>2, <2>3, <2>4 DEF Fits
<1> QED BY <1>6, <1>7 DEF Good

\* The object gets device memory without a count.
LEMMA GivenGood ==
    ASSUME NEW f, NEW s, Good(f, s), NEW x \in Slots, f[x].device = 0,
           NEW h \in Handles, s.devices[h].kind = "none",
           NEW o \in Object, o.alloc = f[x].alloc, o.device = h, ~o.counted,
           NEW d \in Device, d.kind \in {"allocated", "both"}, d.of = 0,
           NEW t \in State, t.misused = FALSE, t.allocs = s.allocs, t.counts = s.counts,
           t.devices = With(s.devices, h, d)
    PROVE  Good(With(f, x, o), t)
<1> DEFINE g == With(f, x, o)
<1>1. /\ f \in [Slots -> Object] /\ f[x] \in Object /\ h # 0
      /\ s.counts \in [Handles -> Count] /\ s.devices \in [Handles -> Device]
  BY Constants DEF Good, Types, State
<1>2. g[x] = o /\ \A w \in Slots : w # x => g[w] = f[w]
  BY <1>1 DEF With
<1>3. t.devices[h] = d /\ \A k \in Handles : k # h => t.devices[k] = s.devices[k]
  BY <1>1 DEF With
<1>4. ~f[x].counted
  BY DEF Good, Fits
<1>5. s.counts[h] \in Count /\ s.counts[h].ownership = "none"
  BY <1>1 DEF Good, Fits, CountFits, Count, Ownership
<1>6. Types(g, t) /\ AllocsExact(g, t) /\ CountsExact(g, t)
  <2>1. \A k \in Handles : OfDevice(f[x], k) = 0 /\ OfDevice(o, k) = 0
    BY <1>4 DEF OfDevice
  <2>2. Shift(s.counts[h].count, s.counts[h].count, OfDevice(f[x], h), OfDevice(o, h))
    BY <1>5, <2>1 DEF Shift, Count
  <2>3. \A k \in Handles : k # h => OfDevice(f[x], k) = OfDevice(o, k)
    BY <2>1
  <2>4. Types(f, s) /\ AllocsExact(f, s) /\ CountsExact(f, s) /\ g = With(f, x, o)
    BY DEF Good
  <2>5. t.counts = With(s.counts, h, s.counts[h])
    BY <1>1 DEF With
  <2> HIDE DEF g
  <2>6. s.counts[h] \in Count
    BY <1>5
  <2>7. Types(f, s) /\ AllocsExact(f, s) /\ CountsExact(f, s)
    BY <2>4
  <2>8. g = With(f, x, o)
    BY <2>4
  <2> QED BY <2>2, <2>3, <2>5, <2>6, <2>7, <2>8, DeviceStep
<1>7. Fits(g, t)
  <2>1. \A w \in Slots : g[w].device = 0 => ~g[w].counted
    BY <1>1, <1>2 DEF Good, Fits
  <2>2. ASSUME NEW k \in Handles PROVE CountFits(t.counts[k], t.devices[k])
    <3>1. CASE k = h
      <4>1. CountFits(s.counts[h], s.devices[h])
        BY DEF Good, Fits
      <4> QED BY <1>3, <1>5, <3>1, <4>1 DEF CountFits
    <3>2. CASE k # h
      BY <1>3, <3>2 DEF Good, Fits
    <3> QED BY <3>1, <3>2
  <2>3. \A k \in Handles : CropFits(t.counts, k)
    BY DEF Good, Fits
  <2>4. ASSUME NEW k \in Handles PROVE OwnerFits(g, t, k)
    <3>1. OwnerFits(f, s, k) /\ OwnerFits(f, s, h) /\ k # 0
      BY Constants DEF Good, Fits
    <3>2. CASE k = h
      <4>1. \A w \in Slots : ~Owns(f[w], h)
        BY <1>5, <3>1 DEF OwnerFits
      <4>2. \A w \in Slots : Owns(g[w], h) <=> w = x
        BY <1>2, <4>1 DEF Owns
      <4> HIDE DEF g
      <4> QED BY <1>3, <1>5, <3>2, <4>2 DEF OwnerFits
    <3>3. CASE k # h
      <4>1. \A w \in Slots : Owns(g[w], k) <=> Owns(f[w], k)
        BY <1>2, <3>1, <3>3 DEF Owns
      <4>2. t.devices[k] = s.devices[k]
        BY <1>3, <3>3
      <4> HIDE DEF g
      <4> QED BY <3>1, <4>1, <4>2 DEF OwnerFits
    <3> QED BY <3>2, <3>3
  <2> QED BY <2>1, <2>2, <2>3, <2>4 DEF Fits
<1> QED BY <1>6, <1>7 DEF Good

\* Whoever has the device memory counts it.
Shared(s, o) ==
    /\ o.device = 0 => ~o.counted
    /\ o.device # 0 => o.counted /\ s.counts[o.device].count # 0

\* The empty object becomes a copy of one that counts its device memory.
LEMMA IncrefShared ==
    ASSUME NEW f, NEW s, Good(f, s), NEW y \in Slots, f[y] = Empty, NEW o \in Object, Shared(s, o)
    PROVE  /\ Good(With(f, y, o), Incref(s, o))
           /\ Incref(s, o).obj = s.obj /\ Incref(s, o).devices = s.devices
           /\ \A k \in Handles : Incref(s, o).counts[k].ownership = s.counts[k].ownership
<1> DEFINE t == IF o.alloc # 0 THEN [s EXCEPT !.allocs[o.alloc] = @ + 1] ELSE s
           f1 == With(f, y, Bare(o))
<1>1. f \in [Slots -> Object] /\ s \in State
  BY DEF Good, Types
<1>2. Bare(o) \in Object /\ Bare(o).alloc = o.alloc /\ Bare(o).device = 0 /\ Bare(o).counted = FALSE
  BY Constants
<1>3. Good(f1, t) /\ t.obj = s.obj /\ t.devices = s.devices /\ t.counts = s.counts
  <2>1. CASE o.alloc = 0
    <3>1. Bare(o) = f[y]
      BY <2>1, Constants
    <3>2. f1 = f
      BY <3>1, WithSame
    <3> QED BY <2>1, <3>2
  <2>2. CASE o.alloc # 0
    <3>1. Bare(o).alloc \in Allocs /\ f[y].alloc = 0 /\ f[y].device = 0 /\ f[y].counted = FALSE
      BY <1>2, <2>2, Constants DEF Object
    <3>2. t = [s EXCEPT !.allocs[Bare(o).alloc] = @ + 1]
      BY <1>2, <2>2
    <3>3. Bare(o).device = f[y].device /\ Bare(o).counted = f[y].counted
      BY <1>2, <3>1
    <3> HIDE DEF t
    <3>4. Good(With(f, y, Bare(o)), t) /\ t.obj = s.obj /\ t.counts = s.counts /\ t.devices = s.devices
      BY <1>2, <3>1, <3>2, <3>3, ShareHost
    <3> QED BY <3>4
  <2> QED BY <2>1, <2>2
<1>4. CASE o.device = 0
  <2>1. Incref(s, o) = t
    BY <1>4 DEF Incref
  <2>2. Bare(o) = o
    <3>1. o.counted = FALSE
      BY <1>4 DEF Shared, Object
    <3> QED BY <1>4, <3>1 DEF Bare, Object
  <2> HIDE DEF t
  <2> QED BY <1>3, <2>1, <2>2
<1>5. CASE o.device # 0
  <2> DEFINE h == o.device
             u == [t EXCEPT !.counts[h].count = @ + 1]
  <2>1. h \in Handles /\ o.counted /\ t.counts[h].count # 0
    BY <1>3, <1>5 DEF Object, Shared
  <2>2. Incref(s, o) = u
    BY <1>5, <2>1 DEF Incref
  <2>3. f1[y] = Bare(o)
    BY <1>1 DEF With
  <2>4. /\ t \in State
        /\ u = [t EXCEPT !.counts = [t.counts EXCEPT ![h] = [t.counts[h] EXCEPT !.count = t.counts[h].count + 1]]]
    BY <1>3 DEF Good, Types, State
  <2>5. u.devices = t.devices /\ \A k \in Handles : u.counts[k].ownership = t.counts[k].ownership
    <3> HIDE DEF t, u, h
    <3>1. u.devices = t.devices /\ t.counts \in [Handles -> Count]
          /\ u.counts = [t.counts EXCEPT ![h] = [t.counts[h] EXCEPT !.count = t.counts[h].count + 1]]
      BY <2>4 DEF State
    <3> QED BY <2>1, <3>1 DEF Count
  <2>6. Good(With(f1, y, o), u) /\ u.obj = t.obj
    <3>1. f1[y].device = 0 /\ o.alloc = f1[y].alloc
      BY <1>2, <2>3
    <3>2. u = [t EXCEPT !.counts[h].count = @ + 1] /\ o.device = h
      OBVIOUS
    <3> HIDE DEF f1, t, u, h
    <3> QED BY <1>3, <2>1, <3>1, <3>2, ShareDevice
  <2>7. With(f1, y, o) = With(f, y, o)
    BY <1>1, <1>2 DEF With
  <2> HIDE DEF f1, t, u
  <2> QED BY <1>3, <2>2, <2>5, <2>6, <2>7
<1> QED BY <1>4, <1>5

LEMMA CountsDeviceIs ==
    ASSUME NEW o \in Object
    PROVE  /\ CountsDevice(o) \in Object
           /\ CountsDevice(o).alloc = o.alloc /\ CountsDevice(o).device = o.device
           /\ CountsDevice(o).counted <=> o.device # 0
           /\ (o.counted <=> o.device # 0) => CountsDevice(o) = o
<1>1. CountsDevice(o) \in Object
  BY DEF CountsDevice, Object
<1>2. CountsDevice(o).alloc = o.alloc /\ CountsDevice(o).device = o.device
  BY DEF CountsDevice, Object
<1>3. CountsDevice(o).counted <=> o.device # 0
  BY DEF CountsDevice, Object
<1>4. ASSUME o.counted <=> o.device # 0 PROVE CountsDevice(o) = o
  <2>1. o.counted = CountsDevice(o).counted
    BY <1>1, <1>3, <1>4 DEF Object
  <2> QED BY <1>1, <1>2, <2>1 DEF Object
<1> QED BY <1>1, <1>2, <1>3, <1>4

\* Memory a pipeline has put into an object gets its count.
LEMMA AdoptedGood ==
    ASSUME NEW f, NEW s, Good(f, s), NEW x \in Slots, f[x].device # 0, ~f[x].counted, MayGo(s, f[x])
    PROVE  /\ Good(With(f, x, CountsDevice(f[x])), Adopted(s, f[x].device))
           /\ Adopted(s, f[x].device).obj = s.obj /\ Adopted(s, f[x].device).devices = s.devices
           /\ Adopted(s, f[x].device).allocs = s.allocs
<1> DEFINE h == f[x].device
           e == [count |-> 1, ownership |-> "Allocated", from |-> Empty]
           t == Adopted(s, h)
<1>1. /\ f[x] \in Object /\ s \in State /\ s.misused = FALSE
      /\ s.counts \in [Handles -> Count] /\ s.devices \in [Handles -> Device]
  BY DEF Good, Types, State
<1>2. h \in Handles /\ s.counts[h] = NoCount /\ s.devices[h].kind \in {"allocated", "both"}
  BY DeviceIsThere
<1>3. s.devices[h].kind = "allocated"
  BY <1>2 DEF MayGo
<1>4. e \in Count
  BY Constants DEF Count, Ownership
<1>5. /\ t \in State /\ t.misused = FALSE /\ t.allocs = s.allocs /\ t.obj = s.obj
      /\ t.counts = With(s.counts, h, e) /\ t.devices = s.devices
  <2>1. t = [s EXCEPT !.counts = With(s.counts, h, e)]
    BY <1>1 DEF Adopted, NewCount, With, State
  <2>2. With(s.counts, h, e) \in [Handles -> Count]
    BY <1>1, <1>4 DEF With
  <2> HIDE DEF t, e, h
  <2> QED BY <1>1, <2>1, <2>2 DEF State
<1>6. CountFits(e, s.devices[h]) /\ s.devices[h] \in Device
  <2>1. CountFits(s.counts[h], s.devices[h])
    BY <1>2 DEF Good, Fits
  <2>2. s.devices[h].of = 0
    BY <1>2, <2>1, Constants DEF CountFits
  <2> QED BY <1>1, <1>2, <1>3, <2>2 DEF CountFits
<1>7. s.devices = With(s.devices, h, s.devices[h])
  BY <1>1 DEF With
<1>8. /\ Owns(f[x], h) /\ s.counts[h].ownership = "none"
      /\ e.from = Empty /\ e.count = 1 /\ e.ownership # "Cropped"
  BY <1>2, Constants DEF Owns
<1>9. /\ CountsDevice(f[x]) \in Object /\ CountsDevice(f[x]).alloc = f[x].alloc
      /\ CountsDevice(f[x]).device = h /\ CountsDevice(f[x]).counted
  BY <1>1, CountsDeviceIs
<1>10. t.devices = With(s.devices, h, s.devices[h])
  BY <1>5, <1>7
<1> HIDE DEF t, e, h
<1>11. Good(With(f, x, CountsDevice(f[x])), t)
  <2>1. h \in Handles /\ Owns(f[x], h)
    BY <1>2, <1>8
  <2>2. s.counts[h].ownership = "none"
    BY <1>8
  <2>3. CountsDevice(f[x]) \in Object /\ CountsDevice(f[x]).alloc = f[x].alloc
    BY <1>9
  <2>4. CountsDevice(f[x]).device = h /\ CountsDevice(f[x]).counted
    BY <1>9
  <2>5. e \in Count
    BY <1>4
  <2>6. e.from = Empty /\ e.count = 1 /\ e.ownership # "Cropped"
    BY <1>8
  <2>7. CountFits(e, s.devices[h]) /\ s.devices[h] \in Device
    BY <1>6
  <2>8. t \in State /\ t.misused = FALSE
    BY <1>5
  <2>9. t.allocs = s.allocs /\ t.counts = With(s.counts, h, e)
    BY <1>5
  <2> QED BY <1>10, <2>1, <2>2, <2>3, <2>4, <2>5, <2>6, <2>7, <2>8, <2>9, NewCountGood
<1> QED BY <1>5, <1>11 DEF t, h

\* Copying an object: both count the device memory now.
LEMMA IncrefGood ==
    ASSUME NEW f, NEW s, Good(f, s), NEW x \in Slots, NEW y \in Slots, x # y, f[y] = Empty,
           NEW o, o = f[x], MayGo(s, o)
    PROVE  /\ Good(With(With(f, x, CountsDevice(o)), y, CountsDevice(o)), Incref(s, o))
           /\ Incref(s, o).obj = s.obj /\ Incref(s, o).devices = s.devices
<1> DEFINE p == CountsDevice(o)
<1>1. f \in [Slots -> Object] /\ o \in Object /\ s \in State
  BY DEF Good, Types
<1>2. /\ p \in Object /\ p.alloc = o.alloc /\ p.device = o.device
      /\ p.counted <=> o.device # 0
  BY <1>1, CountsDeviceIs
<1>3. CASE o.device = 0 \/ o.counted
  <2>1. o.counted <=> o.device # 0
    <3>1. o.device = 0 => ~o.counted
      BY DEF Good, Fits
    <3> QED BY <1>1, <1>3, <3>1 DEF Object
  <2>2. p = o
    BY <1>1, <2>1, CountsDeviceIs
  <2>3. Shared(s, o)
    <3>1. o.device # 0 => s.counts[f[x].device].count > 0 /\ f[x].device \in Handles
      BY <2>1, DeviceIsThere
    <3>2. o.device # 0 => s.counts[o.device].count # 0
      BY <3>1
    <3> QED BY <2>1, <3>2 DEF Shared
  <2>4. With(f, x, p) = f
    BY <2>2, WithSame
  <2>5. Good(With(f, y, o), Incref(s, o)) /\ Incref(s, o).obj = s.obj /\ Incref(s, o).devices = s.devices
    BY <1>1, <2>3, IncrefShared
  <2> QED BY <2>2, <2>4, <2>5
<1>4. CASE o.device # 0 /\ ~o.counted
  <2> DEFINE s1 == Adopted(s, o.device)
             f1 == With(f, x, p)
  <2>1. Good(f1, s1) /\ s1.obj = s.obj /\ s1.devices = s.devices
    BY <1>4, AdoptedGood
  <2>2. f1[x] = p /\ f1[y] = Empty
    BY <1>1, <1>2 DEF With
  <2>3. Shared(s1, p)
    <3>1. f1[x].device # 0 /\ f1[x].counted
      BY <1>2, <1>4, <2>2
    <3>2. s1.counts[f1[x].device].count > 0
      <4> HIDE DEF s1, f1
      <4> QED BY <2>1, <3>1, DeviceIsThere
    <3>3. s1.counts[p.device].count # 0
      BY <2>2, <3>2
    <3> QED BY <1>2, <1>4, <3>3 DEF Shared
  <2>4. Incref(s, o) = Incref(s1, p)
    <3> DEFINE host == IF o.alloc # 0 THEN [s EXCEPT !.allocs[o.alloc] = @ + 1] ELSE s
               both == Adopted(host, o.device)
    <3>1. Incref(s, o) = [both EXCEPT !.counts[o.device].count = @ + 1]
      BY <1>4 DEF Incref
    <3>2. both = IF p.alloc # 0 THEN [s1 EXCEPT !.allocs[p.alloc] = @ + 1] ELSE s1
      <4>1. CASE o.alloc = 0
        BY <1>2, <4>1
      <4>2. CASE o.alloc # 0
        BY <1>1, <1>2, <4>2 DEF Adopted, NewCount, State
      <4> QED BY <4>1, <4>2
    <3> HIDE DEF both, s1, p
    <3>3. Incref(s1, p) = [both EXCEPT !.counts[p.device].count = @ + 1]
      BY <1>2, <1>4, <3>2 DEF Incref
    <3> QED BY <1>2, <3>1, <3>3
  <2> HIDE DEF s1, f1, p
  <2>5. Good(With(f1, y, p), Incref(s1, p)) /\ Incref(s1, p).obj = s1.obj /\ Incref(s1, p).devices = s1.devices
    BY <1>2, <2>1, <2>2, <2>3, IncrefShared
  <2> QED BY <2>1, <2>4, <2>5 DEF f1, p
<1> QED BY <1>3, <1>4

\* What one object holds is moved to another.
LEMMA MoveGood ==
    ASSUME NEW f, NEW s, Good(f, s), NEW x \in Slots, NEW y \in Slots, x # y, f[y] = Empty
    PROVE  Good(With(With(f, y, f[x]), x, Empty), s)
<1> DEFINE f1 == With(f, y, f[x])
           g == With(f1, x, Empty)
<1>1. f \in [Slots -> Object] /\ f[x] \in Object /\ Empty \in Object
  BY Constants DEF Good, Types
<1>2. /\ f1 \in [Slots -> Object] /\ f1[x] = f[x]
      /\ \A a : Shift(Cardinality(AllocHolders(f, a)), Cardinality(AllocHolders(f1, a)),
                      OfAlloc(f[y], a), OfAlloc(f[x], a))
      /\ \A h : Shift(Cardinality(DevHolders(f, h)), Cardinality(DevHolders(f1, h)),
                      OfDevice(f[y], h), OfDevice(f[x], h))
  <2>1. f1[x] = f[x]
    BY <1>1 DEF With
  <2>2. f1 = With(f, y, f[x])
    OBVIOUS
  <2> HIDE DEF f1
  <2> QED BY <1>1, <2>1, <2>2, HoldersChange
<1>3. g = With(f1, x, Empty)
  OBVIOUS
<1>4. f1 = With(f, y, f[x])
  OBVIOUS
<1> HIDE DEF f1, g
<1>5. /\ g \in [Slots -> Object]
      /\ \A a : Shift(Cardinality(AllocHolders(f1, a)), Cardinality(AllocHolders(g, a)),
                      OfAlloc(f1[x], a), OfAlloc(Empty, a))
      /\ \A h : Shift(Cardinality(DevHolders(f1, h)), Cardinality(DevHolders(g, h)),
                      OfDevice(f1[x], h), OfDevice(Empty, h))
  BY <1>1, <1>2, <1>3, HoldersChange
<1>6. g[x] = Empty /\ g[y] = f[x] /\ \A w \in Slots : w # x /\ w # y => g[w] = f[w]
  BY <1>1, <1>3, <1>4 DEF With
<1>7. /\ \A a : OfAlloc(f[x], a) \in {0, 1} /\ OfAlloc(Empty, a) \in {0, 1}
      /\ \A h : OfDevice(f[x], h) \in {0, 1} /\ OfDevice(Empty, h) \in {0, 1}
  BY DEF OfAlloc, OfDevice
<1>8. \A a : Cardinality(AllocHolders(g, a)) = Cardinality(AllocHolders(f, a))
  BY <1>2, <1>5, <1>7 DEF Shift
<1>9. \A h : Cardinality(DevHolders(g, h)) = Cardinality(DevHolders(f, h))
  BY <1>2, <1>5, <1>7 DEF Shift
<1>10. Types(g, s) /\ AllocsExact(g, s) /\ CountsExact(g, s)
  BY <1>5, <1>8, <1>9 DEF Good, Types, AllocsExact, CountsExact
<1>11. Fits(g, s)
  <2>1. \A w \in Slots : g[w].device = 0 => ~g[w].counted
    BY <1>6, Constants DEF Good, Fits
  <2>2. ASSUME NEW k \in Handles PROVE OwnerFits(g, s, k)
    <3>1. OwnerFits(f, s, k) /\ ~Owns(Empty, k)
      BY Constants DEF Good, Fits, Owns
    <3>2. /\ ~Owns(g[x], k) /\ ~Owns(f[y], k) /\ (Owns(g[y], k) <=> Owns(f[x], k))
          /\ \A w \in Slots : w # x /\ w # y => (Owns(g[w], k) <=> Owns(f[w], k))
      BY <1>6, <3>1
    <3>3. (\E w \in Slots : Owns(g[w], k)) <=> (\E w \in Slots : Owns(f[w], k))
      BY <3>2
    <3>4. \A w, v \in Slots : Owns(g[w], k) /\ Owns(g[v], k) => w = v
      BY <3>1, <3>2 DEF OwnerFits
    <3> QED BY <3>1, <3>3, <3>4 DEF OwnerFits
  <2> QED BY <2>1, <2>2 DEF Good, Fits
<1> QED BY <1>10, <1>11 DEF Good, g, f1

-----------------------------------------------------------------------------
(* Crops *)

CropCount(q) == [count |-> 1, ownership |-> "Cropped", from |-> q]
CropDevice(q) == [kind |-> "crop", of |-> q.device]

\* A count is made that holds what is cropped, which was loose, and the crop is given
\* to an object.
LEMMA CropGood ==
    ASSUME NEW f, NEW s, Good(f, s), NEW y \in Slots, NEW z \in Slots, y # z,
           f[y].device = 0, f[z].device # 0, f[z].counted,
           s.counts[f[z].device].ownership # "Cropped",
           NEW h \in Handles, s.devices[h].kind = "none",
           NEW o \in Object, o.alloc = f[y].alloc, o.device = h, o.counted,
           NEW t \in State, t.misused = FALSE, t.allocs = s.allocs,
           t.counts = With(s.counts, h, CropCount(f[z])), t.devices = With(s.devices, h, CropDevice(f[z]))
    PROVE  Good(With(With(f, z, Empty), y, o), t)
<1> DEFINE p == f[z]
           e == CropCount(p)
           d == CropDevice(p)
           f1 == With(f, z, Empty)
           g == With(f1, y, o)
<1>1. /\ f \in [Slots -> Object] /\ f[y] \in Object /\ p \in Object /\ Empty \in Object
      /\ s.counts \in [Handles -> Count] /\ s.devices \in [Handles -> Device]
      /\ s.allocs \in [Allocs -> Nat]
  BY Constants DEF Good, Types, State
<1>2. f1 = With(f, z, Empty) /\ g = With(f1, y, o)
  OBVIOUS
<1>3. f1[y] = f[y]
  BY <1>1 DEF With
<1>0. /\ p.device # 0 /\ p.counted /\ s.counts[p.device].ownership # "Cropped"
      /\ e \in Count /\ e.count = 1 /\ e.ownership = "Cropped" /\ e.from = p
      /\ d \in Device /\ d.kind = "crop" /\ d.of = p.device
      /\ t.counts = With(s.counts, h, e) /\ t.devices = With(s.devices, h, d)
  BY <1>1 DEF CropCount, CropDevice, Count, Device, Ownership, Kind, Object
<1> HIDE DEF f1, g
<1>4. /\ f1 \in [Slots -> Object]
      /\ \A a : Shift(Cardinality(AllocHolders(f, a)), Cardinality(AllocHolders(f1, a)),
                      OfAlloc(p, a), OfAlloc(Empty, a))
      /\ \A k : Shift(Cardinality(DevHolders(f, k)), Cardinality(DevHolders(f1, k)),
                      OfDevice(p, k), OfDevice(Empty, k))
  <2>1. /\ f1 \in [Slots -> Object]
        /\ \A a : Shift(Cardinality(AllocHolders(f, a)), Cardinality(AllocHolders(f1, a)),
                        OfAlloc(f[z], a), OfAlloc(Empty, a))
        /\ \A k : Shift(Cardinality(DevHolders(f, k)), Cardinality(DevHolders(f1, k)),
                        OfDevice(f[z], k), OfDevice(Empty, k))
    BY <1>1, <1>2, HoldersChange
  <2> QED BY <2>1
<1> HIDE DEF p, e, d
<1>5. /\ g \in [Slots -> Object]
      /\ \A a : Shift(Cardinality(AllocHolders(f1, a)), Cardinality(AllocHolders(g, a)),
                      OfAlloc(f[y], a), OfAlloc(o, a))
      /\ \A k : Shift(Cardinality(DevHolders(f1, k)), Cardinality(DevHolders(g, k)),
                      OfDevice(f[y], k), OfDevice(o, k))
  BY <1>2, <1>3, <1>4, HoldersChange
<1>6. /\ \A a : Shift(Cardinality(AllocCounts(s.counts, a)), Cardinality(AllocCounts(t.counts, a)),
                      OfAlloc(s.counts[h].from, a), OfAlloc(p, a))
      /\ \A k : Shift(Cardinality(DevCounts(s.counts, k)), Cardinality(DevCounts(t.counts, k)),
                      OfFrom(s.counts[h].from, k), OfFrom(p, k))
  BY <1>0, <1>1, CountChanges
<1>7. s.counts[h].count = 0 /\ s.counts[h].ownership = "none" /\ s.counts[h].from = Empty
  <2>1. CountFits(s.counts[h], s.devices[h]) /\ s.counts[h] \in Count
    BY <1>1 DEF Good, Fits
  <2> QED BY <2>1 DEF CountFits, Count, Ownership
<1>8. /\ t.counts[h] = e /\ t.devices[h] = d
      /\ \A k \in Handles : k # h => t.counts[k] = s.counts[k] /\ t.devices[k] = s.devices[k]
  BY <1>0, <1>1 DEF With
<1>9. /\ g[z] = Empty /\ g[y] = o /\ \A w \in Slots : w # z /\ w # y => g[w] = f[w]
  BY <1>1, <1>2, <1>4 DEF With
<1>10. p.device \in Handles /\ p.device # h /\ ~f[y].counted /\ h # 0
  <2>1. f[z].device \in Handles /\ s.devices[f[z].device].kind # "none"
    BY DeviceIsThere
  <2> QED BY <1>1, <2>1, Constants DEF Good, Fits, p
<1>11. \A k \in Handles : s.counts[k].from.device # h
  <2>1. \A k \in Handles : s.counts[k].from.device = h => s.counts[h].count > 0
    BY CountsItsHolders DEF Good
  <2> QED BY <1>7, <2>1
<1>12. Types(g, t)
  BY <1>5 DEF Types
<1>13. AllocsExact(g, t)
  <2> SUFFICES ASSUME NEW a \in Allocs
               PROVE  t.allocs[a] = Cardinality(AllocHolders(g, a)) + Cardinality(AllocCounts(t.counts, a))
    BY DEF AllocsExact
  <2>1. s.allocs[a] = Cardinality(AllocHolders(f, a)) + Cardinality(AllocCounts(s.counts, a))
    BY DEF Good, AllocsExact
  <2>2. OfAlloc(Empty, a) = 0 /\ OfAlloc(s.counts[h].from, a) = 0 /\ OfAlloc(p, a) \in {0, 1}
    BY <1>7, Constants DEF OfAlloc
  <2>3. OfAlloc(f[y], a) = OfAlloc(o, a) /\ OfAlloc(o, a) \in {0, 1}
    BY DEF OfAlloc
  <2>4. /\ Shift(Cardinality(AllocHolders(f, a)), Cardinality(AllocHolders(f1, a)), OfAlloc(p, a), OfAlloc(Empty, a))
        /\ Shift(Cardinality(AllocHolders(f1, a)), Cardinality(AllocHolders(g, a)), OfAlloc(f[y], a), OfAlloc(o, a))
        /\ Shift(Cardinality(AllocCounts(s.counts, a)), Cardinality(AllocCounts(t.counts, a)),
                 OfAlloc(s.counts[h].from, a), OfAlloc(p, a))
    BY <1>4, <1>5, <1>6
  <2> QED BY <2>1, <2>2, <2>3, <2>4 DEF Shift
<1>14. CountsExact(g, t)
  <2> SUFFICES ASSUME NEW k \in Handles
               PROVE  t.counts[k].count = Cardinality(DevHolders(g, k)) + Cardinality(DevCounts(t.counts, k))
    BY DEF CountsExact
  <2>1. s.counts[k].count = Cardinality(DevHolders(f, k)) + Cardinality(DevCounts(s.counts, k))
    BY DEF Good, CountsExact
  <2>2. /\ OfDevice(Empty, k) = 0 /\ OfFrom(s.counts[h].from, k) = 0 /\ OfDevice(f[y], k) = 0
        /\ OfDevice(p, k) = OfFrom(p, k) /\ OfFrom(p, k) \in {0, 1}
    BY <1>7, <1>10, <1>0, Constants DEF OfDevice, OfFrom
  <2>3. t.counts[k].count = s.counts[k].count + OfDevice(o, k) /\ OfDevice(o, k) \in {0, 1}
    <3>1. CASE k = h
      BY <1>0, <1>7, <1>8, <3>1 DEF OfDevice
    <3>2. CASE k # h
      BY <1>1, <1>8, <3>2 DEF OfDevice, Count
    <3> QED BY <3>1, <3>2
  <2>4. /\ Shift(Cardinality(DevHolders(f, k)), Cardinality(DevHolders(f1, k)), OfDevice(p, k), OfDevice(Empty, k))
        /\ Shift(Cardinality(DevHolders(f1, k)), Cardinality(DevHolders(g, k)), OfDevice(f[y], k), OfDevice(o, k))
        /\ Shift(Cardinality(DevCounts(s.counts, k)), Cardinality(DevCounts(t.counts, k)),
                 OfFrom(s.counts[h].from, k), OfFrom(p, k))
    BY <1>4, <1>5, <1>6
  <2> QED BY <2>1, <2>2, <2>3, <2>4 DEF Shift
<1>15. Fits(g, t)
  <2>1. \A w \in Slots : g[w].device = 0 => ~g[w].counted
    BY <1>9, Constants DEF Good, Fits
  <2>2. ASSUME NEW k \in Handles PROVE CountFits(t.counts[k], t.devices[k])
    <3>1. CASE k = h
      BY <1>0, <1>8, <3>1 DEF CountFits
    <3>2. CASE k # h
      BY <1>8, <3>2 DEF Good, Fits
    <3> QED BY <3>1, <3>2
  <2>3. ASSUME NEW k \in Handles PROVE CropFits(t.counts, k)
    <3>1. CASE k = h
      BY <1>0, <1>8, <1>10, <3>1 DEF CropFits
    <3>2. CASE k # h
      <4>1. /\ CropFits(s.counts, k) /\ t.counts[k] = s.counts[k]
            /\ s.counts[k].from.device \in {0} \union Handles /\ s.counts[k].from.device # h
        BY <1>1, <1>8, <1>11, <3>2 DEF Good, Fits, Count, Object
      <4> QED BY <1>8, <4>1 DEF CropFits
    <3> QED BY <3>1, <3>2
  <2>4. ASSUME NEW k \in Handles PROVE OwnerFits(g, t, k)
    <3>1. OwnerFits(f, s, k) /\ OwnerFits(f, s, h) /\ k # 0
      BY Constants DEF Good, Fits
    <3>2. ~Owns(g[y], k) /\ ~Owns(g[z], k) /\ ~Owns(f[z], k) /\ ~Owns(f[y], k)
      BY <1>0, <1>9, <1>10, <3>1, Constants DEF Owns, p
    <3>3. \A w \in Slots : Owns(g[w], k) <=> Owns(f[w], k)
      BY <1>9, <3>2
    <3>4. CASE k = h
      <4>1. \A w \in Slots : ~Owns(f[w], k)
        BY <1>7, <3>1, <3>4 DEF OwnerFits
      <4> QED BY <1>0, <1>8, <3>3, <3>4, <4>1 DEF OwnerFits
    <3>5. CASE k # h
      BY <1>8, <3>1, <3>3, <3>5 DEF OwnerFits
    <3> QED BY <3>4, <3>5
  <2> QED BY <2>1, <2>2, <2>3, <2>4 DEF Fits
<1> QED BY <1>12, <1>13, <1>14, <1>15 DEF Good, g, f1, p, e, d

\* The same, with what makes t the state after it under one name.
IsCropped(f, s, y, z, h, o, t) ==
    /\ Good(f, s)
    /\ y \in Slots /\ z \in Slots /\ y # z
    /\ f[y].device = 0 /\ f[z].device # 0 /\ f[z].counted
    /\ s.counts[f[z].device].ownership # "Cropped"
    /\ h \in Handles /\ s.devices[h].kind = "none"
    /\ o \in Object /\ o.alloc = f[y].alloc /\ o.device = h /\ o.counted
    /\ t \in State /\ t.misused = FALSE /\ t.allocs = s.allocs
    /\ t.counts = With(s.counts, h, CropCount(f[z])) /\ t.devices = With(s.devices, h, CropDevice(f[z]))

LEMMA IsCroppedGood ==
    ASSUME NEW f, NEW s, NEW y, NEW z, NEW h, NEW o, NEW t, IsCropped(f, s, y, z, h, o, t)
    PROVE  Good(With(With(f, z, Empty), y, o), t)
BY CropGood DEF IsCropped

\* Who lets go of device memory changes no other.
LEMMA LetGoDevices ==
    ASSUME NEW s \in State, NEW o \in Object, NEW k \in Handles
    PROVE  LetGo(s, o).devices[k] \in {s.devices[k], NoDevice}
<1>1. s.devices \in [Handles -> Device]
  BY DEF State
<1>2. ASSUME NEW kind PROVE Release(s, o.device, kind).devices[k] \in {s.devices[k], NoDevice}
  BY <1>1 DEF Release, State
<1>3. [s EXCEPT !.devices[o.device] = NoDevice].devices[k] \in {s.devices[k], NoDevice}
  BY <1>1 DEF State
<1>4. ASSUME NEW u, u.devices[k] \in {s.devices[k], NoDevice},
             u \in {Release(s, o.device, KindOf(CountOf(s, o).ownership)), [s EXCEPT !.devices[o.device] = NoDevice]}
      PROVE  [u EXCEPT !.counts[o.device] = NoCount].devices[k] \in {s.devices[k], NoDevice}
  <2>1. u = [s EXCEPT !.devices[o.device] = NoDevice] \/ u = [s EXCEPT !.misused = TRUE]
    BY <1>4 DEF Release
  <2> QED BY <1>4, <2>1 DEF State
<1>5. [s EXCEPT !.counts[o.device].count = @ - 1].devices = s.devices
  BY DEF State
<1> QED BY <1>2, <1>3, <1>4, <1>5 DEF LetGo

LEMMA DropDeviceDevices ==
    ASSUME NEW f, NEW s, Good(f, s), NEW x \in Slots, NEW y \in Slots, x # y, f[y] = Empty,
           NEW o \in Object, o.device = f[x].device, o.counted = f[x].counted, MayGo(s, o),
           NEW k \in Handles
    PROVE  DropDevice(s, o).devices[k] \in {s.devices[k], NoDevice}
<1> DEFINE from == Beneath(s, o)
           s1 == LetGo(s, o)
           f1 == With(With(f, x, Bare(f[x])), y, from)
           t == DropHost(s1, from)
           u == LetGo(t, from)
<1>1. Good(f1, s1)
  BY LetGoGood
<1>2. f1[y] = from
  <2>1. f \in [Slots -> Object] /\ Bare(f[x]) \in Object
    BY Constants DEF Good, Types
  <2> QED BY <2>1 DEF With
<1>3. from \in Object
  <2> HIDE DEF f1, s1, from
  <2> QED BY <1>1, <1>2 DEF Good, Types
<1>4. t \in State /\ t.devices = s1.devices
  <2> HIDE DEF f1, s1, from
  <2>1. Good(With(f1, y, NoHost(f1[y])), t) /\ t.devices = s1.devices
    BY <1>1, <1>2, <1>3, DropHostGood
  <2> QED BY <2>1 DEF Good, Types
<1>5. s1.devices[k] \in {s.devices[k], NoDevice}
  BY LetGoDevices DEF Good, Types
<1>6. u.devices[k] \in {t.devices[k], NoDevice}
  <2> HIDE DEF t, from
  <2> QED BY <1>3, <1>4, LetGoDevices
<1>7. DropDevice(s, o).devices = u.devices
  <2>1. DropDevice(s, o) = [u EXCEPT !.misused = @ \/ Beneath(t, from) # Empty]
    BY DEF DropDevice
  <2> HIDE DEF u
  <2> QED BY <2>1
<1> HIDE DEF t, s1, u, from
<1> QED BY <1>4, <1>5, <1>6, <1>7

\* What is cropped when a crop of an object that counts its memory is made: it is counted,
\* and it is no crop.
LEMMA ParentGood ==
    ASSUME NEW f, NEW s, Good(f, s), NEW x \in Slots, NEW p, p = f[x], p.device # 0, p.counted,
           NEW q, q = IF s.counts[p.device].ownership = "Cropped" THEN s.counts[p.device].from ELSE p
    PROVE  /\ q \in Object /\ q.device \in Handles /\ q.counted /\ Shared(s, q)
           /\ s.counts[q.device].ownership # "Cropped"
<1>1. p \in Object /\ p.device \in Handles /\ s.counts[p.device] \in Count
  BY DEF Good, Types, State, Object
<1>2. CASE s.counts[p.device].ownership = "Cropped"
  <2>1. q = s.counts[p.device].from
    BY <1>2
  <2>2. CropFits(s.counts, p.device)
    BY <1>1 DEF Good, Fits
  <2>3. q \in Object /\ q.device # 0 /\ q.counted /\ s.counts[q.device].ownership # "Cropped"
    BY <1>1, <1>2, <2>1, <2>2 DEF CropFits, Count
  <2>4. q.device \in Handles
    BY <2>3 DEF Object
  <2>5. s.counts[q.device].count > 0
    BY <1>1, <2>1, <2>4, CountsItsHolders DEF Good
  <2>6. s.counts[q.device].count # 0
    BY <2>5
  <2> QED BY <2>3, <2>4, <2>6 DEF Shared
<1>3. CASE s.counts[p.device].ownership # "Cropped"
  <2>1. s.counts[f[x].device].count > 0
    BY DeviceIsThere
  <2>2. q = p /\ s.counts[q.device].count # 0
    BY <1>3, <2>1
  <2> QED BY <1>1, <1>3, <2>2 DEF Shared
<1> QED BY <1>2, <1>3

\* The count of a crop, made for a handle nobody has.
CropOf(s, h, d, q) == CropFrom([s EXCEPT !.devices[h] = d], h, q)

LEMMA CropState ==
    ASSUME NEW s \in State, NEW q \in Object, q.device \in Handles, q.counted,
           NEW h \in Handles, NEW d \in Device, Incref(s, q) \in State
    PROVE  /\ CropCount(q) \in Count
           /\ CropOf(s, h, d, q) \in State
           /\ CropOf(s, h, d, q).misused = Incref(s, q).misused
           /\ CropOf(s, h, d, q).obj = Incref(s, q).obj
           /\ CropOf(s, h, d, q).allocs = Incref(s, q).allocs
           /\ CropOf(s, h, d, q).counts = With(Incref(s, q).counts, h, CropCount(q))
           /\ CropOf(s, h, d, q).devices = With(Incref(s, q).devices, h, d)
<1> DEFINE e == [count |-> 1, ownership |-> "Cropped", from |-> q]
           s1 == [s EXCEPT !.devices[h] = d]
           i == Incref(s, q)
           t == CropFrom(s1, h, q)
<1>1. e \in Count
  BY DEF Count, Ownership
<1>2. q.device # 0 /\ CountsDevice(q) = q
  BY Constants, CountsDeviceIs
<1>3. s1 \in State
  BY DEF State
<1>4. /\ s1.obj = s.obj /\ s1.allocs = s.allocs /\ s1.counts = s.counts
      /\ s1.devices = With(s.devices, h, d) /\ s1.misused = s.misused
  BY DEF State, With
<1>5. /\ Incref(s1, q).obj = i.obj /\ Incref(s1, q).allocs = i.allocs /\ Incref(s1, q).counts = i.counts
      /\ Incref(s1, q).devices = With(i.devices, h, d) /\ Incref(s1, q).misused = i.misused
      /\ Incref(s1, q) = [i EXCEPT !.devices = With(i.devices, h, d)]
  <2> DEFINE r == IF q.alloc # 0 THEN [s EXCEPT !.allocs[q.alloc] = @ + 1] ELSE s
             r1 == IF q.alloc # 0 THEN [s1 EXCEPT !.allocs[q.alloc] = @ + 1] ELSE s1
  <2>1. i = [r EXCEPT !.counts[q.device].count = @ + 1] /\ i.devices = s.devices
    <3>1. i = [r EXCEPT !.counts[q.device].count = @ + 1]
      BY <1>2 DEF Incref
    <3> QED BY <3>1 DEF State
  <2>2. Incref(s1, q) = [r1 EXCEPT !.counts[q.device].count = @ + 1]
    <3> HIDE DEF s1
    <3> QED BY <1>2 DEF Incref
  <2>3. r1 = [r EXCEPT !.devices = With(s.devices, h, d)]
    <3>1. s1 = [s EXCEPT !.devices = With(s.devices, h, d)]
      BY DEF State, With
    <3> HIDE DEF s1
    <3>2. CASE q.alloc = 0
      BY <3>1, <3>2
    <3>3. CASE q.alloc # 0
      BY <1>4, <3>1, <3>3 DEF State
    <3> QED BY <3>2, <3>3
  <2>4. /\ r.obj = s.obj /\ r.counts = s.counts /\ r.devices = s.devices /\ r.misused = s.misused
        /\ r = [obj |-> s.obj, allocs |-> r.allocs, counts |-> s.counts, devices |-> s.devices, misused |-> s.misused]
    BY DEF State
  <2> HIDE DEF r, r1, i, s1
  <2>5. Incref(s1, q) = [i EXCEPT !.devices = With(i.devices, h, d)]
    BY <2>1, <2>2, <2>3, <2>4
  <2> QED BY <2>5 DEF State, i
<1>6. t = [Incref(s1, q) EXCEPT !.counts[h] = e]
  BY <1>2 DEF CropFrom, NewCount
<1>7. /\ i.counts \in [Handles -> Count] /\ i.devices \in [Handles -> Device]
  BY DEF State
<1>8. With(i.counts, h, e) \in [Handles -> Count] /\ With(i.devices, h, d) \in [Handles -> Device]
  BY <1>1, <1>7 DEF With
<1>9. i \in State
  OBVIOUS
<1> HIDE DEF s1, t, i, e
<1>10. Incref(s1, q) \in State
  BY <1>5, <1>8, <1>9 DEF State
<1>11. t = [Incref(s1, q) EXCEPT !.counts = With(i.counts, h, e)]
  BY <1>5, <1>6, <1>10 DEF State, With
<1>12. /\ t \in State /\ t.misused = i.misused /\ t.obj = i.obj /\ t.allocs = i.allocs
       /\ t.counts = With(i.counts, h, e) /\ t.devices = With(i.devices, h, d)
  BY <1>5, <1>8, <1>9, <1>10, <1>11 DEF State
<1> QED BY <1>1, <1>12 DEF i, t, e, s1, CropCount, CropOf

\* The crop of an object: a temporary one, with a crop of the device memory or none.
LEMMA CroppedGood ==
    ASSUME NEW f, NEW s, Good(f, s), NEW x \in Slots, NEW y \in Slots, NEW z \in Slots, NEW v \in Slots,
           x # y, x # z, x # v, y # z, y # v, z # v, f[y] = Empty, f[z] = Empty, f[v] = Empty,
           NEW o, o = f[x], o.device # 0, MayGo(s, o),
           NEW h \in {0} \union Handles, h # 0 => s.devices[h].kind = "none",
           NEW im \in Object, im.alloc = o.alloc, im.device = h, im.counted <=> h # 0
    PROVE  /\ Good(With(With(f, x, CountsDevice(o)), y, im), Cropped(s, o, h))
           /\ Cropped(s, o, h).obj = s.obj
           /\ \A k \in Handles : Cropped(s, o, h).devices[k].kind = "both" => s.devices[k].kind = "both"
<1> DEFINE p == CountsDevice(o)
           f1 == With(With(f, x, p), y, p)
           s1 == Incref(s, o)
           f2 == With(f1, y, Bare(p))
           s2 == DropDevice(s1, p)
<1>1. f \in [Slots -> Object] /\ o \in Object
  BY DEF Good, Types
<1>2. p \in Object /\ p.alloc = o.alloc /\ p.device = o.device /\ p.counted
  BY <1>1, CountsDeviceIs
<1>3. Good(f1, s1) /\ s1.obj = s.obj /\ s1.devices = s.devices
  BY <1>1, IncrefGood
<1>4. f1[x] = p /\ f1[y] = p /\ f1[z] = Empty /\ f1[v] = Empty
  <2> HIDE DEF p
  <2> QED BY <1>1, <1>2 DEF With
<1>5. MayGo(s1, p)
  <2> HIDE DEF f1, s1, p
  <2> QED BY <1>2, <1>3, <1>4, CountedMayGo
<1>6. /\ Good(f2, s2) /\ s2.obj = s1.obj
      /\ \A k \in Handles : s2.devices[k] \in {s.devices[k], NoDevice}
  <2>1. p.device = f1[y].device /\ p.counted = f1[y].counted
    BY <1>4
  <2>2. Good(With(f1, y, Bare(f1[y])), s2) /\ s2.obj = s1.obj
    <3> HIDE DEF f1, s1, p
    <3> QED BY <1>2, <1>3, <1>4, <1>5, <2>1, DropDeviceGood
  <2>3. \A k \in Handles : s2.devices[k] \in {s1.devices[k], NoDevice}
    <3> HIDE DEF f1, s1, p
    <3> QED BY <1>2, <1>3, <1>4, <1>5, <2>1, DropDeviceDevices
  <2> HIDE DEF f1, s1, p, s2
  <2>4. \A k \in Handles : s2.devices[k] \in {s.devices[k], NoDevice}
    BY <1>3, <2>3
  <2> QED BY <1>4, <2>2, <2>4 DEF f2
<1>7. f2[x] = p /\ f2[y] = Bare(p) /\ f2[z] = Empty
  <2>1. f1 \in [Slots -> Object]
    BY <1>3 DEF Good, Types
  <2>2. Bare(p) \in Object
    BY <1>2, Constants
  <2> HIDE DEF f1, p
  <2> QED BY <1>4, <2>1, <2>2 DEF With
<1>8. CASE h = 0
  <2>1. Cropped(s, o, h) = s2
    BY <1>8 DEF Cropped
  <2>2. im = Bare(p)
    <3>1. im = [alloc |-> o.alloc, device |-> 0, counted |-> FALSE]
      BY <1>8 DEF Object
    <3> HIDE DEF p
    <3> QED BY <1>2, <3>1 DEF Bare
  <2>3. f2 = With(With(f, x, p), y, im)
    <3>1. With(f, x, p) \in [Slots -> Object]
      BY <1>1, <1>2 DEF With
    <3> HIDE DEF p
    <3> QED BY <1>1, <1>2, <2>2, <3>1 DEF With
  <2> HIDE DEF s2, f2, s1
  <2> QED BY <1>3, <1>6, <2>1, <2>3, Constants DEF p
<1>9. CASE h # 0
  <2> DEFINE q == IF s2.counts[p.device].ownership = "Cropped" THEN s2.counts[p.device].from ELSE p
             d == CropDevice(q)
             e == CropCount(q)
             s3 == Incref(s2, q)
             t == CropOf(s2, h, d, q)
             f3 == With(f2, z, q)
  <2>1. /\ q \in Object /\ q.device \in Handles /\ q.counted /\ Shared(s2, q)
        /\ s2.counts[q.device].ownership # "Cropped"
    <3>1. p.device # 0
      BY <1>2
    <3>2. p = f2[x]
      BY <1>7
    <3>3. Good(f2, s2)
      BY <1>6
    <3>4. p.counted
      BY <1>2
    <3> HIDE DEF s2, f2, p
    <3> QED BY <3>1, <3>2, <3>3, <3>4, ParentGood
  <2>2. Cropped(s, o, h) = t
    <3>1. Cropped(s, o, h) = DeviceCropped(s2, p, h)
      BY <1>9 DEF Cropped
    <3> HIDE DEF s2, p
    <3> QED BY <3>1 DEF DeviceCropped, CropOf, CropDevice
  <2>3. /\ Good(f3, s3) /\ s3.obj = s2.obj /\ s3.devices = s2.devices
        /\ s3.counts[q.device].ownership # "Cropped"
    <3> HIDE DEF s2, f2, q
    <3>1. /\ Good(f3, s3) /\ s3.obj = s2.obj /\ s3.devices = s2.devices
          /\ \A k \in Handles : s3.counts[k].ownership = s2.counts[k].ownership
      BY <1>6, <1>7, <2>1, IncrefShared
    <3> QED BY <2>1, <3>1
  <2>4. d \in Device /\ d.kind = "crop" /\ d.of = q.device
    <3> HIDE DEF q
    <3> QED BY <2>1 DEF Device, Kind, CropDevice
  <2>5. h \in Handles /\ s2.devices[h].kind = "none"
    <3>1. h \in Handles
      BY <1>9
    <3> HIDE DEF s2
    <3> QED BY <1>6, <1>9, <3>1, Constants
  <2>6. /\ e \in Count /\ t \in State /\ t.misused = FALSE /\ t.obj = s3.obj /\ t.allocs = s3.allocs
        /\ t.counts = With(s3.counts, h, e) /\ t.devices = With(s3.devices, h, d)
    <3>1. s2 \in State /\ s2.misused = FALSE /\ s3 \in State /\ s3.misused = FALSE
      BY <1>6, <2>3 DEF Good, Types
    <3> HIDE DEF s2, q, d
    <3> QED BY <2>1, <2>4, <2>5, <3>1, CropState
  <2>7. f3[z] = q /\ f3[y] = Bare(p)
    <3>1. f2 \in [Slots -> Object]
      BY <1>6 DEF Good, Types
    <3> HIDE DEF f2, q, p
    <3> QED BY <1>7, <2>1, <3>1 DEF With
  <2>8. /\ f3[y].device = 0 /\ im.alloc = f3[y].alloc
        /\ f3[z].device # 0 /\ f3[z].counted /\ s3.counts[f3[z].device].ownership # "Cropped"
        /\ s3.devices[h].kind = "none" /\ im.counted
        /\ t.counts = With(s3.counts, h, CropCount(f3[z])) /\ t.devices = With(s3.devices, h, CropDevice(f3[z]))
    <3> HIDE DEF s3, q, p, f3, t
    <3> QED BY <1>2, <1>9, <2>1, <2>3, <2>5, <2>6, <2>7, Constants DEF Bare
  <2>9. Good(With(With(f3, z, Empty), y, im), t)
    <3> HIDE DEF s2, s3, t, d, e, q, f3, f2, p
    <3>1. Good(f3, s3)
      BY <2>3
    <3>2. y \in Slots /\ z \in Slots /\ y # z
      OBVIOUS
    <3>3. f3[y].device = 0
      BY <2>8
    <3>4. f3[z].device # 0
      BY <2>8
    <3>5. f3[z].counted
      BY <2>8
    <3>6. s3.counts[f3[z].device].ownership # "Cropped"
      BY <2>8
    <3>7. h \in Handles
      BY <2>5
    <3>8. s3.devices[h].kind = "none"
      BY <2>8
    <3>9. im \in Object
      OBVIOUS
    <3>10. im.alloc = f3[y].alloc
      BY <2>8
    <3>11. im.device = h
      OBVIOUS
    <3>12. im.counted
      BY <2>8
    <3>13. t \in State
      BY <2>6
    <3>14. t.misused = FALSE
      BY <2>6
    <3>15. t.allocs = s3.allocs
      BY <2>6
    <3>16. t.counts = With(s3.counts, h, CropCount(f3[z]))
      BY <2>8
    <3>17. t.devices = With(s3.devices, h, CropDevice(f3[z]))
      BY <2>8
    <3>18. IsCropped(f3, s3, y, z, h, im, t)
      BY <3>1, <3>2, <3>3, <3>4, <3>5, <3>6, <3>7, <3>8, <3>9,
         <3>10, <3>11, <3>12, <3>13, <3>14, <3>15, <3>16, <3>17 DEF IsCropped
    <3> QED BY <3>18, IsCroppedGood
  <2>10. With(With(f3, z, Empty), y, im) = With(With(f, x, p), y, im)
    <3>1. f1 \in [Slots -> Object] /\ f2 \in [Slots -> Object] /\ f3 \in [Slots -> Object]
      BY <1>3, <1>6, <2>3 DEF Good, Types
    <3>2. With(f, x, p) \in [Slots -> Object]
      BY <1>1, <1>2 DEF With
    <3>3. \A w \in Slots : w # y => f1[w] = With(f, x, p)[w]
      <4> HIDE DEF p
      <4> QED BY <1>1, <1>2, <3>2 DEF With
    <3>4. \A w \in Slots : w # y => f2[w] = f1[w]
      <4> HIDE DEF f1, p
      <4> QED BY <3>1 DEF With
    <3>5. \A w \in Slots : w # z => f3[w] = f2[w]
      <4> HIDE DEF f2, q
      <4> QED BY <3>1 DEF With
    <3>6. With(f, x, p)[z] = Empty
      <4> HIDE DEF p
      <4> QED BY <1>1, <1>2 DEF With
    <3>7. \A w \in Slots : w # y => With(f3, z, Empty)[w] = With(f, x, p)[w]
      <4> HIDE DEF f1, f2, f3, p
      <4>1. \A w \in Slots : w # z => With(f3, z, Empty)[w] = f3[w]
        BY <3>1, Constants DEF With
      <4>2. With(f3, z, Empty)[z] = Empty
        BY <3>1, Constants DEF With
      <4> QED BY <3>3, <3>4, <3>5, <3>6, <4>1, <4>2
    <3>8. With(f3, z, Empty) \in [Slots -> Object]
      <4> HIDE DEF f3
      <4> QED BY <3>1, Constants DEF With
    <3>9. \A a, b \in [Slots -> Object] :
              (\A w \in Slots : w # y => a[w] = b[w]) => With(a, y, im) = With(b, y, im)
      BY DEF With
    <3> HIDE DEF f3, p
    <3> QED BY <3>2, <3>7, <3>8, <3>9
  <2>11. ASSUME NEW k \in Handles, t.devices[k].kind = "both"
         PROVE  s.devices[k].kind = "both"
    <3>1. s3.devices \in [Handles -> Device]
      BY <2>3 DEF Good, Types, State
    <3>2. k # h /\ t.devices[k] = s2.devices[k]
      <4> HIDE DEF s2, s3, t, d
      <4>1. t.devices[h] = d
        BY <2>5, <2>6, <3>1 DEF With
      <4>2. k # h => t.devices[k] = s3.devices[k]
        BY <2>6, <3>1 DEF With
      <4>3. k # h
        BY <2>4, <2>11, <4>1
      <4> QED BY <2>3, <4>2, <4>3
    <3> HIDE DEF s2, t
    <3> QED BY <1>6, <2>11, <3>2, Constants
  <2> HIDE DEF s2, s3, t, d, e, q, f3, f2, s1
  <2>12. Good(With(With(f, x, p), y, im), t) /\ t.obj = s.obj
    BY <1>3, <1>6, <2>3, <2>6, <2>9, <2>10
  <2> QED BY <2>2, <2>11, <2>12 DEF p
<1> QED BY <1>8, <1>9

-----------------------------------------------------------------------------
(* The methods *)

LEMMA HereIs ==
    /\ Here.obj = obj /\ Here.allocs = allocs /\ Here.counts = counts
    /\ Here.devices = devices /\ Here.misused = misused
BY DEF Here

\* What the client's objects hold, and what changes it.
LEMMA HeldIs ==
    ASSUME NEW objects \in [Vars -> Object]
    PROVE  /\ Held(objects) \in [Slots -> Object]
           /\ \A v \in Vars : Held(objects)[v] = objects[v]
           /\ Held(objects)[Temp] = Empty /\ Held(objects)[Other] = Empty /\ Held(objects)[Third] = Empty
           /\ \A v \in Vars, o \in Object : /\ With(objects, v, o) \in [Vars -> Object]
                                            /\ Held(With(objects, v, o)) = With(Held(objects), v, o)
<1>1. Held(objects) \in [Slots -> Object]
  BY Constants DEF Held
<1>2. /\ \A v \in Vars : Held(objects)[v] = objects[v]
      /\ Held(objects)[Temp] = Empty /\ Held(objects)[Other] = Empty /\ Held(objects)[Third] = Empty
  BY Temporary DEF Held
<1>3. ASSUME NEW v \in Vars, NEW o \in Object
      PROVE  /\ With(objects, v, o) \in [Vars -> Object]
             /\ Held(With(objects, v, o)) = With(Held(objects), v, o)
  <2>1. With(objects, v, o) \in [Vars -> Object]
    BY DEF With
  <2> QED BY <2>1, Temporary DEF Held, With
<1> QED BY <1>1, <1>2, <1>3

LEMMA HereHolds ==
    ASSUME IInv
    PROVE  /\ Good(Held(obj), Here) /\ Here \in State
           /\ obj \in [Vars -> Object] /\ counts \in [Handles -> Count] /\ devices \in [Handles -> Device]
BY HereIs DEF IInv, Good, Types, State

\* Drops keeps memory of device_and_host_malloc from being dropped.
LEMMA DropsMayGo ==
    ASSUME MayDropBoth = FALSE, NEW o, Drops(o)
    PROVE  MayGo(Here, o)
BY HereIs DEF Drops, HasBoth, MayGo

LEMMA SetGood ==
    ASSUME NEW f, NEW s, Good(f, s), NEW v \in Vars, NEW o \in Object
    PROVE  /\ Good(f, Set(s, v, o)) /\ Set(s, v, o).obj = With(s.obj, v, o)
           /\ Set(s, v, o).devices = s.devices
<1> DEFINE t == Set(s, v, o)
<1>1. s \in State /\ s.misused = FALSE
  BY DEF Good, Types
<1>2. t = [s EXCEPT !.obj = With(s.obj, v, o)]
  BY <1>1 DEF Set, With, State
<1>3. With(s.obj, v, o) \in [Vars -> Object]
  BY <1>1 DEF With, State
<1> HIDE DEF t
<1>4. /\ t \in State /\ t.misused = FALSE /\ t.obj = With(s.obj, v, o) /\ t.allocs = s.allocs
      /\ t.counts = s.counts /\ t.devices = s.devices
  BY <1>1, <1>2, <1>3 DEF State
<1>5. Good(f, t)
  BY <1>4 DEF Good, Types, AllocsExact, CountsExact, Fits, OwnerFits
<1> QED BY <1>4, <1>5 DEF t

LEMMA BecomeGood ==
    ASSUME NEW s, Good(Held(s.obj), s), Become(s)
    PROVE  IInv'
<1>1. s \in State
  BY DEF Good, Types
<1>2. Here' = s
  BY <1>1 DEF Here, Become, State
<1>3. obj' = s.obj
  BY DEF Become
<1> QED BY <1>2, <1>3 DEF IInv

\* decref of an object of the client
LEMMA DecrefHere ==
    ASSUME IInv, MayDropBoth = FALSE, NEW v \in Vars, Drops(obj[v])
    PROVE  /\ Good(With(Held(obj), v, Empty), Decref(Here, obj[v]))
           /\ Decref(Here, obj[v]).obj = obj
<1>1. Good(Held(obj), Here) /\ obj \in [Vars -> Object]
  BY HereHolds
<1>2. /\ Held(obj)[Temp] = Empty /\ Held(obj)[Other] = Empty /\ obj[v] = Held(obj)[v]
  BY <1>1, HeldIs
<1>3. MayGo(Here, obj[v])
  BY DropsMayGo
<1>4. /\ v \in Slots /\ Temp \in Slots /\ Other \in Slots /\ v # Temp /\ v # Other /\ Temp # Other
  BY Temporary
<1>5. Good(With(Held(obj), v, Empty), Decref(Here, obj[v])) /\ Decref(Here, obj[v]).obj = Here.obj
  BY <1>1, <1>2, <1>3, <1>4, DecrefGood
<1> QED BY <1>5, HereIs

LEMMA AllocateGood ==
    ASSUME IInv, MayDropBoth = FALSE, NEW v \in Vars, Allocate(v)
    PROVE  IInv'
<1> DEFINE s == Decref(Here, obj[v])
           f == With(Held(obj), v, Empty)
           a == Fresh({b \in Allocs : s.allocs[b] = 0})
           o == [Empty EXCEPT !.alloc = a]
           t == [s EXCEPT !.allocs[a] = 1]
<1>1. Drops(obj[v]) /\ Become(Set(t, v, o)) /\ {b \in Allocs : s.allocs[b] = 0} # {}
  BY DEF Allocate
<1>2. Good(f, s) /\ s.obj = obj
  BY <1>1, DecrefHere
<1>3. a \in Allocs /\ s.allocs[a] = 0
  <2>1. a \in {b \in Allocs : s.allocs[b] = 0}
    <3> HIDE DEF s
    <3> QED BY <1>1 DEF Fresh
  <2> QED BY <2>1
<1>4. obj \in [Vars -> Object] /\ v \in Slots
  BY HereHolds, Temporary
<1> HIDE DEF s, a
<1>5. /\ o \in Object /\ o.alloc = a /\ o.device = 0 /\ o.counted = FALSE
  BY <1>3 DEF Empty, Object
<1>6. t = [s EXCEPT !.allocs[o.alloc] = @ + 1]
  BY <1>2, <1>3, <1>5 DEF Good, Types, State
<1>7. f[v] = Empty /\ Empty.alloc = 0 /\ Empty.device = 0 /\ Empty.counted = FALSE
  BY <1>4, HeldIs, Constants DEF With
<1> HIDE DEF o, t
<1>8. Good(With(f, v, o), t) /\ t.obj = obj
  <2>1. o.device = f[v].device /\ o.counted = f[v].counted /\ f[v].alloc = 0 /\ o.alloc \in Allocs
    BY <1>3, <1>5, <1>7
  <2> HIDE DEF f
  <2>2. Good(With(f, v, o), t) /\ t.obj = s.obj
    BY <1>2, <1>4, <1>5, <1>6, <2>1, ShareHost
  <2> QED BY <1>2, <2>2
<1>9. With(f, v, o) = Held(With(obj, v, o))
  <2>1. With(f, v, o) = With(Held(obj), v, o)
    BY <1>4, <1>5, HeldIs, Constants DEF With
  <2> QED BY <1>4, <1>5, <2>1, HeldIs
<1>10. Good(With(f, v, o), Set(t, v, o)) /\ Set(t, v, o).obj = With(obj, v, o)
  BY <1>5, <1>8, SetGood
<1> QED BY <1>1, <1>9, <1>10, BecomeGood

LEMMA DeallocateGood ==
    ASSUME IInv, MayDropBoth = FALSE, NEW v \in Vars, Deallocate(v)
    PROVE  IInv'
<1> DEFINE s == Decref(Here, obj[v])
<1>1. Drops(obj[v]) /\ Become(Set(s, v, Empty))
  BY DEF Deallocate
<1>2. Good(With(Held(obj), v, Empty), s) /\ s.obj = obj
  BY <1>1, DecrefHere
<1>3. obj \in [Vars -> Object]
  BY HereHolds
<1>4. With(Held(obj), v, Empty) = Held(With(obj, v, Empty))
  BY <1>3, HeldIs, Constants
<1> HIDE DEF s
<1>5. Good(With(Held(obj), v, Empty), Set(s, v, Empty)) /\ Set(s, v, Empty).obj = With(obj, v, Empty)
  <2>1. Empty \in Object
    BY Constants
  <2> QED BY <1>2, <2>1, SetGood
<1> QED BY <1>1, <1>4, <1>5, BecomeGood

LEMMA DeviceDeallocateGood ==
    ASSUME IInv, MayDropBoth = FALSE, NEW v \in Vars, DeviceDeallocate(v)
    PROVE  IInv'
<1> DEFINE s == DropDevice(Here, obj[v])
           o == [Empty EXCEPT !.alloc = obj[v].alloc]
<1>1. Drops(obj[v]) /\ Become(Set(s, v, o))
  BY DEF DeviceDeallocate
<1>2. Good(Held(obj), Here) /\ obj \in [Vars -> Object] /\ obj[v] \in Object
  BY HereHolds
<1>3. Held(obj)[Temp] = Empty /\ Held(obj)[Other] = Empty /\ Held(obj)[v] = obj[v]
  BY <1>2, HeldIs
<1>4. MayGo(Here, obj[v])
  BY <1>1, DropsMayGo
<1>5. o = Bare(obj[v]) /\ o \in Object
  <2>1. o \in Object /\ o.alloc = obj[v].alloc /\ o.device = 0 /\ o.counted = FALSE
    BY <1>2 DEF Empty, Object
  <2>2. /\ Bare(obj[v]) \in Object /\ Bare(obj[v]).alloc = obj[v].alloc
        /\ Bare(obj[v]).device = 0 /\ Bare(obj[v]).counted = FALSE
    BY <1>2, Constants
  <2>3. o = Bare(obj[v])
    BY <2>1, <2>2 DEF Object
  <2> QED BY <2>1, <2>3
<1> HIDE DEF o
<1>6. Good(With(Held(obj), v, o), s) /\ s.obj = obj
  <2>1. /\ v \in Slots /\ Temp \in Slots /\ Other \in Slots /\ v # Temp /\ v # Other /\ Temp # Other
    BY Temporary
  <2>2. obj[v].device = Held(obj)[v].device /\ obj[v].counted = Held(obj)[v].counted
    BY <1>3
  <2>3. Good(With(Held(obj), v, Bare(Held(obj)[v])), s) /\ s.obj = Here.obj
    BY <1>2, <1>3, <1>4, <2>1, <2>2, DropDeviceGood
  <2> QED BY <1>3, <1>5, <2>3, HereIs
<1>7. With(Held(obj), v, o) = Held(With(obj, v, o))
  BY <1>2, <1>5, HeldIs
<1> HIDE DEF s
<1>8. Good(With(Held(obj), v, o), Set(s, v, o)) /\ Set(s, v, o).obj = With(obj, v, o)
  BY <1>5, <1>6, SetGood
<1> QED BY <1>1, <1>7, <1>8, BecomeGood

\* An object that has no device memory is given some that nobody had.
LEMMA GivenHere ==
    ASSUME IInv, NEW v \in Vars, obj[v].device = 0, Unused(Here) # {}, NEW kind \in Kind
    PROVE  LET s == Given(Here, v, kind)
               h == Fresh(Unused(Here))
           IN  /\ h \in Handles /\ h # 0 /\ devices[h].kind = "none" /\ counts[h].ownership = "none"
               /\ s \in State /\ s.misused = FALSE /\ s.allocs = allocs /\ s.counts = counts
               /\ s.devices = With(devices, h, [kind |-> kind, of |-> 0])
               /\ \E o \in Object : /\ o.alloc = obj[v].alloc /\ o.device = h /\ o.counted = FALSE
                                    /\ s.obj = With(obj, v, o)
<1> DEFINE h == Fresh(Unused(Here))
           s == Given(Here, v, kind)
           o == [obj[v] EXCEPT !.device = h]
           d == [kind |-> kind, of |-> 0]
<1>1. /\ Good(Held(obj), Here) /\ Here \in State /\ Here.misused = FALSE /\ obj \in [Vars -> Object]
      /\ obj[v] \in Object /\ devices \in [Handles -> Device] /\ counts \in [Handles -> Count]
  BY HereHolds DEF Good, Types
<1>2. h \in Handles /\ h # 0 /\ devices[h].kind = "none"
  <2>1. h \in Unused(Here)
    BY DEF Fresh
  <2> QED BY <2>1, HereIs, Constants DEF Unused
<1>3. CountFits(counts[h], devices[h])
  BY <1>1, <1>2, HereIs DEF Good, Fits
<1>4. counts[h].ownership = "none"
  BY <1>1, <1>2, <1>3 DEF CountFits, Count, Ownership
<1>5. devices[h].of = 0
  BY <1>3, <1>4 DEF CountFits
<1>6. obj[v].device = 0 /\ obj[v].counted = FALSE
  <2>1. Held(obj)[v] = obj[v] /\ v \in Slots
    BY <1>1, HeldIs, Temporary
  <2> QED BY <1>1, <2>1 DEF Good, Fits, Object
<1>7. s = [Here EXCEPT !.obj[v].device = h, !.devices[h].kind = kind]
  BY DEF Given
<1> HIDE DEF h
<1>8. o \in Object /\ o.alloc = obj[v].alloc /\ o.device = h /\ o.counted = FALSE
  BY <1>1, <1>2, <1>6 DEF Object
<1>9. [devices[h] EXCEPT !.kind = kind] = d
  BY <1>1, <1>2, <1>5 DEF Device
<1>10. d \in Device
  BY DEF Device
<1>11. s = [Here EXCEPT !.obj = With(obj, v, o), !.devices = With(devices, h, d)]
  BY <1>1, <1>2, <1>7, <1>9, HereIs DEF With, State
<1>12. With(obj, v, o) \in [Vars -> Object] /\ With(devices, h, d) \in [Handles -> Device]
  BY <1>1, <1>8, <1>10 DEF With
<1> HIDE DEF s, o, d
<1>13. /\ s \in State /\ s.misused = FALSE /\ s.allocs = allocs /\ s.counts = counts
       /\ s.devices = With(devices, h, d) /\ s.obj = With(obj, v, o)
  BY <1>1, <1>11, <1>12, HereIs DEF State
<1> QED BY <1>2, <1>4, <1>8, <1>13 DEF h, s, d

LEMMA MallocGood ==
    ASSUME IInv, MayReuseFailed = FALSE, NEW v \in Vars, MayBeGiven(v),
           NEW kind \in {"allocated", "both"}, Become(WithMemory(v, kind))
    PROVE  IInv'
<1> DEFINE s == Given(Here, v, kind)
           h == Fresh(Unused(Here))
           d == [kind |-> kind, of |-> 0]
<1>0. kind \in Kind /\ obj[v].device = 0 /\ Unused(Here) # {} /\ Become(s)
  BY DEF Kind, MayBeGiven, WithMemory
<1>1. /\ h \in Handles /\ h # 0 /\ devices[h].kind = "none"
      /\ s \in State /\ s.misused = FALSE /\ s.allocs = allocs /\ s.counts = counts
      /\ s.devices = With(devices, h, d)
      /\ \E o \in Object : /\ o.alloc = obj[v].alloc /\ o.device = h /\ o.counted = FALSE
                           /\ s.obj = With(obj, v, o)
  BY <1>0, GivenHere
<1>2. PICK o \in Object : /\ o.alloc = obj[v].alloc /\ o.device = h /\ o.counted = FALSE
                          /\ s.obj = With(obj, v, o)
  BY <1>1
<1>3. /\ Good(Held(obj), Here) /\ obj \in [Vars -> Object]
  BY HereHolds
<1>4. v \in Slots /\ Held(obj)[v] = obj[v] /\ obj[v].device = 0
  BY <1>0, <1>3, HeldIs, Temporary
<1>5. d \in Device /\ d.kind \in {"allocated", "both"} /\ d.of = 0
  BY <1>0 DEF Device
<1> HIDE DEF s, h, d
<1>6. Good(With(Held(obj), v, o), s)
  <2>1. /\ s.allocs = Here.allocs /\ s.counts = Here.counts /\ s.devices = With(Here.devices, h, d)
        /\ Here.devices[h].kind = "none"
    BY <1>1, HereIs
  <2>2. Held(obj)[v].device = 0 /\ o.alloc = Held(obj)[v].alloc /\ o.device = h /\ ~o.counted
    BY <1>2, <1>4
  <2>3. h \in Handles /\ s \in State /\ s.misused = FALSE
    BY <1>1
  <2> QED BY <1>3, <1>4, <1>5, <2>1, <2>2, <2>3, GivenGood
<1>7. With(Held(obj), v, o) = Held(s.obj)
  BY <1>2, <1>3, HeldIs
<1> QED BY <1>0, <1>6, <1>7, BecomeGood DEF s

\* What a wrap and the constructor from a halide_buffer_t make
Makes(kind, ownership) ==
    \/ kind \in {"native", "failed"} /\ ownership = "WrappedNative"
    \/ kind = "client" /\ ownership = "Unmanaged"

LEMMA GivenCountedGood ==
    ASSUME IInv, MayReuseFailed = FALSE, NEW v \in Vars,
           NEW kind, NEW ownership, Makes(kind, ownership),
           GivenCounted(v, kind, ownership)
    PROVE  IInv'
<1> DEFINE s == Given(Here, v, kind)
           h == Fresh(Unused(Here))
           d == [kind |-> kind, of |-> 0]
           e == [count |-> 1, ownership |-> ownership, from |-> Empty]
<1>0. kind \in Kind /\ ownership \in Ownership /\ obj[v].device = 0 /\ Unused(Here) # {}
  BY DEF Kind, Ownership, Makes, GivenCounted, MayBeGiven
<1>1. /\ h \in Handles /\ h # 0 /\ devices[h].kind = "none" /\ counts[h].ownership = "none"
      /\ s \in State /\ s.misused = FALSE /\ s.allocs = allocs /\ s.counts = counts
      /\ s.devices = With(devices, h, d)
      /\ \E o \in Object : /\ o.alloc = obj[v].alloc /\ o.device = h /\ o.counted = FALSE
                           /\ s.obj = With(obj, v, o)
  BY <1>0, GivenHere
<1>2. PICK o \in Object : /\ o.alloc = obj[v].alloc /\ o.device = h /\ o.counted = FALSE
                          /\ s.obj = With(obj, v, o)
  BY <1>1
<1>3. /\ Good(Held(obj), Here) /\ obj \in [Vars -> Object] /\ counts \in [Handles -> Count]
  BY HereHolds
<1>4. v \in Slots /\ Held(obj)[v] = obj[v] /\ obj[v].device = 0
  BY <1>0, <1>3, HeldIs, Temporary
<1>5. /\ d \in Device /\ e \in Count /\ e.from = Empty /\ e.count = 1 /\ e.ownership # "Cropped"
      /\ CountFits(e, d)
  BY <1>0, Constants DEF Makes, Device, Count, CountFits
<1> DEFINE p == [o EXCEPT !.counted = TRUE]
           t == [NewCount(s, h, ownership, Empty) EXCEPT !.obj[v].counted = TRUE]
<1>6. p \in Object /\ p.alloc = obj[v].alloc /\ p.device = h /\ p.counted = TRUE
  BY <1>2 DEF Object
<1>7. Become(t)
  <2>1. s.obj[v].device = h
    BY <1>2, <1>3 DEF With
  <2> QED BY <2>1 DEF GivenCounted
<1> HIDE DEF h, d, s, e
<1>8. /\ t \in State /\ t.misused = FALSE /\ t.allocs = allocs /\ t.obj = With(obj, v, p)
      /\ t.counts = With(counts, h, e) /\ t.devices = With(devices, h, d)
  <2>1. NewCount(s, h, ownership, Empty) = [s EXCEPT !.counts = With(counts, h, e)]
    BY <1>1 DEF NewCount, With, State, e
  <2>2. [With(obj, v, o) EXCEPT ![v].counted = TRUE] = With(obj, v, p)
    BY <1>2, <1>3 DEF With
  <2>3. t = [s EXCEPT !.counts = With(counts, h, e), !.obj = With(obj, v, p)]
    <3>1. [s EXCEPT !.counts = With(counts, h, e)].obj = With(obj, v, o)
      BY <1>1, <1>2 DEF State
    <3> HIDE DEF p
    <3> QED BY <1>1, <2>1, <2>2, <3>1 DEF State
  <2>4. With(counts, h, e) \in [Handles -> Count] /\ With(obj, v, p) \in [Vars -> Object]
    BY <1>1, <1>3, <1>5, <1>6 DEF With
  <2> HIDE DEF p, t
  <2> QED BY <1>1, <2>3, <2>4 DEF State
<1> HIDE DEF p, t
<1>9. Good(With(Held(obj), v, p), t)
  <2>1. /\ t.allocs = Here.allocs /\ t.counts = With(Here.counts, h, e)
        /\ t.devices = With(Here.devices, h, d)
    BY <1>8, HereIs
  <2>2. Here.counts[h].ownership = "none"
    BY <1>1, HereIs
  <2>3. Here.devices[h].kind # "none" => Owns(Held(obj)[v], h)
    BY <1>1, HereIs
  <2>4. Held(obj)[v].device = 0 \/ Owns(Held(obj)[v], h)
    BY <1>4
  <2>5. p.alloc = Held(obj)[v].alloc /\ p.device = h /\ p.counted
    BY <1>4, <1>6
  <2>6. h \in Handles /\ t \in State /\ t.misused = FALSE
    BY <1>1, <1>8
  <2> QED BY <1>3, <1>4, <1>5, <1>6, <2>1, <2>2, <2>3, <2>4, <2>5, <2>6, NewCountGood
<1>10. With(Held(obj), v, p) = Held(t.obj)
  BY <1>3, <1>6, <1>8, HeldIs
<1> QED BY <1>7, <1>9, <1>10, BecomeGood

\* A wrap after one that failed
LEMMA KnownGood ==
    ASSUME IInv, NEW v \in Vars, Failed(Here, obj[v]), NEW kind \in {"native", "failed"},
           Become(Known(v, kind))
    PROVE  IInv'
<1> DEFINE h == obj[v].device
           d == [devices[h] EXCEPT !.kind = kind]
           s == [Here EXCEPT !.devices = With(devices, h, d)]
<1>1. /\ Good(Held(obj), Here) /\ Here \in State /\ Here.misused = FALSE /\ obj \in [Vars -> Object]
      /\ devices \in [Handles -> Device] /\ counts \in [Handles -> Count]
  BY HereHolds DEF Good, Types
<1>2. h \in Handles /\ devices[h].kind = "failed"
  BY <1>1, HereIs DEF Failed, Object
<1>3. d \in Device /\ d.kind = kind /\ d.of = devices[h].of
  BY <1>1, <1>2 DEF Device, Kind
<1>4. Known(v, kind) = s
  BY <1>1, <1>2, HereIs DEF Known, With, State
<1>5. With(devices, h, d) \in [Handles -> Device]
  BY <1>1, <1>2, <1>3 DEF With
<1>6. /\ s \in State /\ s.misused = FALSE /\ s.obj = obj /\ s.allocs = Here.allocs
      /\ s.counts = Here.counts /\ s.devices = With(devices, h, d)
  BY <1>1, <1>5, HereIs DEF State
<1>7. CountFits(counts[h], devices[h])
  BY <1>1, <1>2, HereIs DEF Good, Fits
<1>8. counts[h].ownership = "WrappedNative" /\ CountFits(counts[h], d)
  <2>1. counts[h].ownership = "WrappedNative"
    BY <1>1, <1>2, <1>7 DEF CountFits, Count, Ownership
  <2> QED BY <1>3, <1>7, <2>1 DEF CountFits
<1>9. /\ s.devices[h] = d
      /\ \A k \in Handles : k # h => s.devices[k] = Here.devices[k]
  BY <1>1, <1>2, <1>6, HereIs DEF With
<1> HIDE DEF s, d, h
<1>10. Fits(Held(obj), s)
  <2>1. \A k \in Handles : CountFits(s.counts[k], s.devices[k])
    BY <1>1, <1>6, <1>8, <1>9, HereIs DEF Good, Fits
  <2>2. \A k \in Handles : CropFits(s.counts, k)
    BY <1>1, <1>6 DEF Good, Fits
  <2>3. ASSUME NEW k \in Handles PROVE OwnerFits(Held(obj), s, k)
    <3>1. OwnerFits(Held(obj), Here, k)
      BY <1>1 DEF Good, Fits
    <3>2. CASE k = h
      <4>1. Here.counts[k].ownership # "none"
        BY <1>8, <3>2, HereIs
      <4> QED BY <1>6, <3>1, <4>1 DEF OwnerFits
    <3>3. CASE k # h
      BY <1>6, <1>9, <3>1, <3>3 DEF OwnerFits
    <3> QED BY <3>2, <3>3
  <2> QED BY <1>1, <2>1, <2>2, <2>3 DEF Good, Fits
<1>11. Good(Held(obj), s)
  BY <1>1, <1>6, <1>10 DEF Good, Types, AllocsExact, CountsExact
<1> QED BY <1>4, <1>6, <1>11, BecomeGood

\* device_free, device_detach_native and device_and_host_free of memory one object has
LEMMA FreesGood ==
    ASSUME IInv, NEW v \in Vars, obj[v].device # 0, Alone(obj, Here, v),
           NEW kind, devices[obj[v].device].kind = kind,
           counts[obj[v].device].ownership # "Cropped", Frees(v, kind)
    PROVE  IInv'
<1> DEFINE h == obj[v].device
           u == [Here EXCEPT !.devices = With(devices, h, NoDevice)]
           t == [Here EXCEPT !.devices = With(devices, h, NoDevice), !.counts = With(counts, h, NoCount)]
           o == [Empty EXCEPT !.alloc = obj[v].alloc]
           f == Held(obj)
<1>1. /\ Good(f, Here) /\ Here \in State /\ Here.misused = FALSE /\ obj \in [Vars -> Object]
      /\ obj[v] \in Object /\ devices \in [Handles -> Device] /\ counts \in [Handles -> Count]
  BY HereHolds DEF Good, Types
<1>2. /\ v \in Slots /\ Temp \in Slots /\ v # Temp /\ f[v] = obj[v] /\ f[Temp] = Empty
  BY <1>1, HeldIs, Temporary
<1>3. h \in Handles
  BY <1>1 DEF Object
<1>4. counts[h].from = Empty
  BY <1>1, <1>3, HereIs DEF Good, Fits, CountFits
<1>5. Alone(f, Here, v)
  BY <1>2 DEF Alone
<1>6. LiveCrops(Here, h) = {}
  <2>1. LiveCrops(Here, f[v].device) = {}
    <3> HIDE DEF f
    <3>1. f[v].device # 0
      BY <1>2
    <3> QED BY <1>1, <1>2, <1>5, <3>1, NoCropOfIt
  <2> QED BY <1>2, <2>1
<1>7. Release(Here, h, kind) = u
  <2>1. [Here EXCEPT !.devices[h] = NoDevice] = u
    BY <1>1, HereIs DEF With, State
  <2>2. Here.devices[h].kind = kind
    BY HereIs
  <2> QED BY <1>6, <2>1, <2>2 DEF Release
<1>8. [u EXCEPT !.counts[h] = NoCount] = t
  BY <1>1, HereIs DEF With, State
<1>9. Become(Set(t, v, o))
  BY <1>7, <1>8 DEF Frees
<1>10. With(counts, h, NoCount) \in [Handles -> Count] /\ With(devices, h, NoDevice) \in [Handles -> Device]
  BY <1>1, <1>3, Constants DEF With
<1>11. /\ t \in State /\ t.misused = FALSE /\ t.obj = obj /\ t.allocs = Here.allocs
       /\ t.counts = With(Here.counts, f[v].device, NoCount)
       /\ t.devices = With(Here.devices, f[v].device, NoDevice)
  <2> HIDE DEF f
  <2> QED BY <1>1, <1>2, <1>10, HereIs DEF State
<1> HIDE DEF t, f
<1>12. Good(With(With(f, v, Bare(f[v])), Temp, Here.counts[f[v].device].from), t)
  <2>1. f[v].device # 0
    BY <1>2
  <2> QED BY <1>1, <1>2, <1>5, <1>11, <2>1, Gone
<1>13. o = Bare(obj[v]) /\ o \in Object
  <2>1. o \in Object /\ o.alloc = obj[v].alloc /\ o.device = 0 /\ o.counted = FALSE
    BY <1>1 DEF Empty, Object
  <2>2. /\ Bare(obj[v]) \in Object /\ Bare(obj[v]).alloc = obj[v].alloc
        /\ Bare(obj[v]).device = 0 /\ Bare(obj[v]).counted = FALSE
    BY <1>1, Constants
  <2>3. o = Bare(obj[v])
    BY <2>1, <2>2 DEF Object
  <2> QED BY <2>1, <2>3
<1> HIDE DEF o
<1>14. With(With(f, v, Bare(f[v])), Temp, Here.counts[f[v].device].from) = With(f, v, o)
  <2>1. Here.counts[f[v].device].from = Empty /\ Bare(f[v]) = o
    BY <1>2, <1>4, <1>13, HereIs
  <2>2. f \in [Slots -> Object]
    BY <1>1 DEF Good, Types
  <2> QED BY <1>2, <1>13, <2>1, <2>2 DEF With
<1>15. With(f, v, o) = Held(With(obj, v, o))
  BY <1>1, <1>13, HeldIs DEF f
<1>16. Good(With(f, v, o), Set(t, v, o)) /\ Set(t, v, o).obj = With(obj, v, o)
  BY <1>11, <1>12, <1>13, <1>14, SetGood
<1> QED BY <1>9, <1>15, <1>16, BecomeGood

\* The device memory of an object of the client
LEMMA HandleHere ==
    ASSUME IInv, NEW v \in Vars, obj[v].device # 0
    PROVE  /\ obj[v].device \in Handles
           /\ CountFits(counts[obj[v].device], devices[obj[v].device])
           /\ ~obj[v].counted => /\ counts[obj[v].device].ownership = "none"
                                 /\ devices[obj[v].device].kind \in {"allocated", "both"}
<1>1. Good(Held(obj), Here) /\ obj \in [Vars -> Object]
  BY HereHolds
<1>2. v \in Slots /\ Held(obj)[v] = obj[v]
  BY <1>1, HeldIs, Temporary
<1>3. Held(obj)[v].device # 0
  BY <1>2
<1>4. /\ obj[v].device \in Handles
      /\ ~obj[v].counted => /\ Here.counts[obj[v].device] = NoCount
                            /\ Here.devices[obj[v].device].kind \in {"allocated", "both"}
  <2>1. /\ Held(obj)[v].device \in Handles
        /\ ~Held(obj)[v].counted => /\ Here.counts[Held(obj)[v].device] = NoCount
                                    /\ Here.devices[Held(obj)[v].device].kind \in {"allocated", "both"}
    BY <1>1, <1>2, <1>3, DeviceIsThere
  <2> QED BY <1>2, <2>1
<1> QED BY <1>1, <1>4, HereIs, Constants DEF Good, Fits

LEMMA DeviceFreeGood ==
    ASSUME IInv, NEW v \in Vars, DeviceFree(v)
    PROVE  IInv'
<1>1. /\ obj[v].device # 0 /\ ~HasBoth(obj[v]) /\ (obj[v].counted => Sole(v, "Allocated"))
      /\ Frees(v, "allocated")
  BY DEF DeviceFree
<1>2. devices[obj[v].device].kind = "allocated" /\ counts[obj[v].device].ownership # "Cropped"
      /\ Alone(obj, Here, v)
  BY <1>1, HandleHere, HereIs DEF HasBoth, Sole, CountFits, Alone
<1> QED BY <1>1, <1>2, FreesGood

LEMMA DeviceDetachNativeGood ==
    ASSUME IInv, MayDropBoth = FALSE, NEW v \in Vars, DeviceDetachNative(v)
    PROVE  IInv'
<1>0. CASE Failed(Here, obj[v])
  BY <1>0, DeviceDeallocateGood DEF DeviceDetachNative
<1> SUFFICES ASSUME ~Failed(Here, obj[v]) PROVE IInv'
  BY <1>0
<1>1. obj[v].counted /\ Sole(v, "WrappedNative") /\ Frees(v, "native")
  BY DEF DeviceDetachNative
<1>2. obj[v].device # 0
  <2>1. Good(Held(obj), Here) /\ Held(obj)[v] = obj[v] /\ v \in Slots
    BY HereHolds, HeldIs, Temporary
  <2> QED BY <1>1, <2>1 DEF Good, Fits
<1>3. devices[obj[v].device].kind = "native" /\ counts[obj[v].device].ownership # "Cropped"
      /\ Alone(obj, Here, v)
  BY <1>1, <1>2, HandleHere, HereIs DEF Sole, CountFits, Alone, Failed
<1> QED BY <1>1, <1>2, <1>3, FreesGood

LEMMA DeviceAndHostFreeGood ==
    ASSUME IInv, NEW v \in Vars, DeviceAndHostFree(v)
    PROVE  IInv'
<1>1. /\ HasBoth(obj[v]) /\ (obj[v].counted => Sole(v, "AllocatedDeviceAndHost"))
      /\ Frees(v, "both")
  BY DEF DeviceAndHostFree
<1>2. obj[v].device # 0 /\ devices[obj[v].device].kind = "both"
  BY <1>1 DEF HasBoth
<1>3. counts[obj[v].device].ownership # "Cropped" /\ Alone(obj, Here, v)
  BY <1>1, <1>2, HandleHere, HereIs DEF Sole, CountFits, Alone
<1> QED BY <1>1, <1>2, <1>3, FreesGood

LEMMA AssignGood ==
    ASSUME IInv, MayDropBoth = FALSE, MayReuseFailed = FALSE, NEW v \in Vars, NEW w \in Vars,
           Assign(v, w)
    PROVE  IInv'
<1> DEFINE o == CountsDevice(obj[w])
           f1 == With(With(Held(obj), w, o), Temp, o)
           s1 == Incref(Here, obj[w])
           f2 == With(f1, v, Empty)
           s2 == Decref(s1, obj[v])
           f3 == With(With(f2, v, f2[Temp]), Temp, Empty)
           s3 == Set(s2, v, o)
           s4 == Set(s3, w, o)
<1>1. v # w /\ Drops(obj[v]) /\ Drops(obj[w]) /\ Become(s4)
  <2>1. Copies(obj[w])
    BY DEF Assign
  <2>2. Seen(obj[w]) = obj[w]
    BY <2>1 DEF Copies, Seen
  <2> QED BY <2>2 DEF Assign
<1>2. /\ Good(Held(obj), Here) /\ obj \in [Vars -> Object]
      /\ Held(obj) \in [Slots -> Object] /\ Held(obj)[v] = obj[v] /\ Held(obj)[w] = obj[w]
      /\ Held(obj)[Temp] = Empty /\ Held(obj)[Other] = Empty /\ Held(obj)[Third] = Empty
  BY HereHolds, HeldIs
<1>3. /\ v \in Slots /\ w \in Slots /\ Temp \in Slots /\ Other \in Slots /\ Third \in Slots
      /\ v # Temp /\ w # Temp /\ v # Other /\ v # Third /\ Temp # Other /\ Temp # Third /\ Other # Third
      /\ w # Other /\ w # Third
  BY Temporary
<1>4. o \in Object /\ Empty \in Object
  <2>1. obj[w] \in Object
    BY <1>2
  <2> QED BY <2>1, CountsDeviceIs, Constants
<1>5. MayGo(Here, obj[w]) /\ MayGo(Here, obj[v])
  BY <1>1, DropsMayGo
<1>6. Good(f1, s1) /\ s1.obj = obj /\ s1.devices = devices
  <2>1. obj[w] = Held(obj)[w]
    BY <1>2
  <2>2. Good(f1, s1) /\ s1.obj = Here.obj /\ s1.devices = Here.devices
    BY <1>2, <1>3, <1>5, <2>1, IncrefGood
  <2> QED BY <2>2, HereIs
<1> HIDE DEF o, s1
<1>7. f1[v] = obj[v] /\ f1[Other] = Empty /\ f1[Third] = Empty /\ f1[Temp] = o /\ f1[w] = o
  BY <1>1, <1>2, <1>3, <1>4 DEF With
<1>8. Good(f2, s2) /\ s2.obj = obj
  <2>1. MayGo(s1, obj[v])
    BY <1>5, <1>6, HereIs DEF MayGo
  <2>2. obj[v] = f1[v]
    BY <1>7
  <2>3. f1[Other] = Empty /\ f1[Third] = Empty
    BY <1>7
  <2>4. Good(f1, s1)
    BY <1>6
  <2> HIDE DEF f1
  <2>5. Good(f2, s2) /\ s2.obj = s1.obj
    BY <1>3, <2>1, <2>2, <2>3, <2>4, DecrefGood
  <2> QED BY <1>6, <2>5
<1> HIDE DEF s2
<1>9. Good(f3, s2)
  <2>1. f2[v] = Empty
    <3>1. f1 \in [Slots -> Object]
      BY <1>6 DEF Good, Types
    <3> HIDE DEF f1
    <3> QED BY <1>3, <3>1 DEF With
  <2> HIDE DEF f2
  <2> QED BY <1>3, <1>8, <2>1, MoveGood
<1>10. f3 = Held(With(With(obj, v, o), w, o))
  <2>1. With(obj, v, o) \in [Vars -> Object] /\ Held(With(obj, v, o)) = With(Held(obj), v, o)
    BY <1>2, <1>4, HeldIs
  <2>2. Held(With(With(obj, v, o), w, o)) = With(With(Held(obj), v, o), w, o)
    BY <1>4, <2>1, HeldIs
  <2>3. f1 \in [Slots -> Object] /\ f2 \in [Slots -> Object] /\ f3 \in [Slots -> Object]
    BY <1>6, <1>8, <1>9 DEF Good, Types
  <2>4. f2[Temp] = o /\ \A x \in Slots : x # v /\ x # Temp /\ x # w => f2[x] = Held(obj)[x]
    <3>1. \A x \in Slots : x # v => f2[x] = f1[x]
      <4> HIDE DEF f1
      <4> QED BY <2>3 DEF With
    <3>2. \A x \in Slots : x # Temp /\ x # w => f1[x] = Held(obj)[x]
      BY <1>2, <1>3, <1>4 DEF With
    <3> HIDE DEF f1, f2
    <3> QED BY <1>3, <1>7, <3>1, <3>2
  <2>5. f2[w] = o
    <3>1. f2[w] = f1[w]
      <4> HIDE DEF f1
      <4> QED BY <1>1, <1>3, <2>3 DEF With
    <3> HIDE DEF f1, f2
    <3> QED BY <1>7, <3>1
  <2> HIDE DEF f1, f2
  <2>6. /\ f3[v] = o /\ f3[Temp] = Empty /\ f3[w] = o
        /\ \A x \in Slots : x # v /\ x # Temp /\ x # w => f3[x] = Held(obj)[x]
    BY <1>1, <1>3, <1>4, <2>3, <2>4, <2>5 DEF With
  <2> DEFINE g == With(With(Held(obj), v, o), w, o)
  <2>7. /\ g \in [Slots -> Object] /\ g[v] = o /\ g[w] = o /\ g[Temp] = Empty
        /\ \A x \in Slots : x # v /\ x # Temp /\ x # w => g[x] = Held(obj)[x]
    BY <1>1, <1>2, <1>3, <1>4 DEF With
  <2> HIDE DEF f3, g
  <2>8. f3 = g
    BY <2>3, <2>6, <2>7
  <2> QED BY <2>2, <2>8 DEF g
<1> HIDE DEF f3
<1>11. Good(f3, s3) /\ s3.obj = With(obj, v, o)
  BY <1>4, <1>8, <1>9, SetGood
<1> HIDE DEF s3
<1>12. Good(f3, s4) /\ s4.obj = With(With(obj, v, o), w, o)
  BY <1>4, <1>11, SetGood
<1> HIDE DEF s4
<1>13. Good(Held(s4.obj), s4)
  BY <1>10, <1>12
<1> QED BY <1>1, <1>13, BecomeGood

LEMMA MoveMethodGood ==
    ASSUME IInv, MayDropBoth = FALSE, NEW v \in Vars, NEW w \in Vars, Move(v, w)
    PROVE  IInv'
<1> DEFINE s == Decref(Here, obj[v])
           f1 == With(Held(obj), v, Empty)
           f2 == With(With(f1, v, f1[w]), w, Empty)
           s1 == Set(s, v, obj[w])
           s2 == Set(s1, w, Empty)
<1>1. v # w /\ Drops(obj[v]) /\ Become(s2)
  BY DEF Move
<1>2. /\ obj \in [Vars -> Object] /\ obj[w] \in Object /\ Empty \in Object
      /\ Held(obj) \in [Slots -> Object] /\ Held(obj)[w] = obj[w] /\ v \in Slots /\ w \in Slots
  BY HereHolds, HeldIs, Temporary, Constants
<1>3. Good(f1, s) /\ s.obj = obj
  BY <1>1, DecrefHere
<1>4. f1[v] = Empty /\ f1[w] = obj[w]
  BY <1>1, <1>2 DEF With
<1> HIDE DEF s
<1>5. Good(f2, s)
  <2>1. Good(f1, s)
    BY <1>3
  <2>2. v \in Slots /\ w \in Slots
    BY <1>2
  <2>3. f1[v] = Empty
    BY <1>4
  <2> HIDE DEF f1
  <2> QED BY <1>1, <2>1, <2>2, <2>3, MoveGood
<1>6. f2 = Held(With(With(obj, v, obj[w]), w, Empty))
  <2>1. With(obj, v, obj[w]) \in [Vars -> Object] /\ Held(With(obj, v, obj[w])) = With(Held(obj), v, obj[w])
    BY <1>2, HeldIs
  <2>2. Held(With(With(obj, v, obj[w]), w, Empty)) = With(With(Held(obj), v, obj[w]), w, Empty)
    BY <1>2, <2>1, HeldIs
  <2>3. With(f1, v, obj[w]) = With(Held(obj), v, obj[w])
    BY <1>2 DEF With
  <2>4. f2 = With(With(f1, v, obj[w]), w, Empty)
    <3> HIDE DEF f1
    <3> QED BY <1>4
  <2> HIDE DEF f1, f2
  <2> QED BY <2>2, <2>3, <2>4
<1> HIDE DEF f2
<1>7. Good(f2, s1) /\ s1.obj = With(obj, v, obj[w])
  <2>1. obj[w] \in Object
    BY <1>2
  <2>2. Good(f2, s1) /\ s1.obj = With(s.obj, v, obj[w])
    BY <1>5, <2>1, SetGood
  <2> QED BY <1>3, <2>2
<1> HIDE DEF s1
<1>8. Good(f2, s2) /\ s2.obj = With(With(obj, v, obj[w]), w, Empty)
  <2>1. Empty \in Object
    BY Constants
  <2>2. Good(f2, s1)
    BY <1>7
  <2>3. Good(f2, s2) /\ s2.obj = With(s1.obj, w, Empty)
    BY <2>1, <2>2, SetGood
  <2> QED BY <1>7, <2>3
<1> HIDE DEF s2
<1>9. Good(Held(s2.obj), s2)
  BY <1>6, <1>8
<1> QED BY <1>1, <1>9, BecomeGood

LEMMA CropMethodGood ==
    ASSUME IInv, MayDropBoth = FALSE, NEW v \in Vars, NEW w \in Vars, Crop(v, w)
    PROVE  IInv'
<1>1. obj[w].device # 0 /\ Drops(obj[v]) /\ Drops(obj[w])
  BY DEF Crop
<1>2. PICK h \in {0} \union {k \in Unused(Here) : k = Fresh(Unused(Here))} :
          LET s == Set(Cropped(Here, obj[w], h), w, CountsDevice(obj[w]))
              im == [alloc |-> obj[w].alloc, device |-> h, counted |-> h # 0]
          IN  Become(Set(Decref(s, s.obj[v]), v, im))
  BY DEF Crop
<1> DEFINE f == Held(obj)
           p == CountsDevice(obj[w])
           im == [alloc |-> obj[w].alloc, device |-> h, counted |-> h # 0]
           c == Cropped(Here, obj[w], h)
           g1 == With(With(f, w, p), Temp, im)
           s1 == Set(c, w, p)
           o == s1.obj[v]
           g2 == With(g1, v, Empty)
           s2 == Decref(s1, o)
           g3 == With(With(g2, v, g2[Temp]), Temp, Empty)
           s3 == Set(s2, v, im)
<1>3. Become(s3)
  BY <1>2
<1>4. h \in {0} \union Handles /\ (h # 0 => Here.devices[h].kind = "none")
  BY <1>2 DEF Unused
<1>5. /\ Good(f, Here) /\ obj \in [Vars -> Object] /\ f \in [Slots -> Object]
      /\ f[v] = obj[v] /\ f[w] = obj[w] /\ f[Temp] = Empty /\ f[Other] = Empty /\ f[Third] = Empty
  BY HereHolds, HeldIs
<1>6. /\ v \in Slots /\ w \in Slots /\ Temp \in Slots /\ Other \in Slots /\ Third \in Slots
      /\ v # Temp /\ v # Other /\ v # Third /\ w # Temp /\ w # Other /\ w # Third
      /\ Temp # Other /\ Temp # Third /\ Other # Third
  BY Temporary
<1>7. /\ p \in Object /\ p.counted /\ Empty \in Object
      /\ im \in Object /\ im.alloc = obj[w].alloc /\ im.device = h /\ (im.counted <=> h # 0)
  <2>1. obj[w] \in Object
    BY <1>5
  <2>2. im \in Object /\ im.alloc = obj[w].alloc /\ im.device = h /\ (im.counted <=> h # 0)
    BY <1>4, <2>1 DEF Object
  <2>3. p \in Object /\ p.counted
    BY <1>1, <2>1, CountsDeviceIs
  <2> QED BY <2>2, <2>3, Constants
<1>8. MayGo(Here, obj[w]) /\ MayGo(Here, obj[v])
  BY <1>1, DropsMayGo
<1> HIDE DEF im
<1>9. /\ Good(g1, c) /\ c.obj = Here.obj
      /\ \A k \in Handles : c.devices[k].kind = "both" => Here.devices[k].kind = "both"
  <2>1. /\ Good(f, Here) /\ obj[w] = f[w] /\ f[Temp] = Empty /\ f[Other] = Empty /\ f[Third] = Empty
    BY <1>5
  <2>2. w \in Slots /\ Temp \in Slots /\ Other \in Slots /\ Third \in Slots
    BY <1>6
  <2>3. w # Temp /\ w # Other /\ w # Third /\ Temp # Other /\ Temp # Third /\ Other # Third
    BY <1>6
  <2>4. MayGo(Here, obj[w])
    BY <1>8
  <2>5. im \in Object
    BY <1>7
  <2>6. im.alloc = obj[w].alloc /\ im.device = h /\ (im.counted <=> h # 0)
    BY <1>7
  <2> HIDE DEF f
  <2> QED BY <1>1, <1>4, <2>1, <2>2, <2>3, <2>4, <2>5, <2>6, CroppedGood
<1>10. g1 \in [Slots -> Object]
  BY <1>9 DEF Good, Types
<1> HIDE DEF c, p, f
<1>11. /\ Good(g1, s1) /\ s1.obj = With(obj, w, p)
       /\ \A k \in Handles : s1.devices[k].kind = "both" => devices[k].kind = "both"
  <2>1. p \in Object
    BY <1>7
  <2>2. Good(g1, c)
    BY <1>9
  <2> HIDE DEF g1
  <2>3. Good(g1, s1) /\ s1.obj = With(c.obj, w, p) /\ s1.devices = c.devices
    BY <2>1, <2>2, SetGood
  <2> QED BY <1>9, <2>3, HereIs
<1> HIDE DEF s1
<1>12. /\ g1[v] = o /\ g1[Temp] = im /\ g1[Other] = Empty /\ g1[Third] = Empty
       /\ \A x \in Slots : x # w /\ x # Temp => g1[x] = f[x]
       /\ v # w => g1[w] = p
  <2>1. /\ g1[Temp] = im /\ g1[w] = p
        /\ \A x \in Slots : x # w /\ x # Temp => g1[x] = f[x]
    BY <1>5, <1>6, <1>7 DEF With
  <2>2. o = IF v = w THEN p ELSE obj[v]
    BY <1>5, <1>11 DEF With
  <2> HIDE DEF g1
  <2> QED BY <1>5, <1>6, <2>1, <2>2
<1> HIDE DEF g1
<1>13. o = IF v = w THEN p ELSE obj[v]
  BY <1>5, <1>11 DEF With
<1> HIDE DEF o
<1>14. MayGo(s1, o)
  <2>1. CASE v = w
    <3>1. g1[v].counted /\ o.device = g1[v].device
      BY <1>7, <1>12, <1>13, <2>1
    <3>2. Good(g1, s1)
      BY <1>11
    <3> QED BY <1>6, <3>1, <3>2, CountedMayGo
  <2>2. CASE v # w
    <3>1. o = obj[v] /\ obj[v].device \in {0} \union Handles
      BY <1>5, <1>13, <2>2 DEF Object
    <3> QED BY <1>8, <1>11, <3>1, HereIs DEF MayGo
  <2> QED BY <2>1, <2>2
<1>15. Good(g2, s2) /\ s2.obj = s1.obj
  <2>1. Good(g1, s1)
    BY <1>11
  <2>2. o = g1[v]
    BY <1>12
  <2>3. g1[Other] = Empty /\ g1[Third] = Empty
    BY <1>12
  <2> QED BY <1>6, <1>14, <2>1, <2>2, <2>3, DecrefGood
<1> HIDE DEF s2
<1>16. g2 \in [Slots -> Object] /\ g2[v] = Empty /\ \A x \in Slots : x # v => g2[x] = g1[x]
  BY <1>6, <1>7, <1>10 DEF With
<1> HIDE DEF g2
<1>17. Good(g3, s2)
  BY <1>6, <1>15, <1>16, MoveGood
<1>18. g3 = Held(With(With(obj, w, p), v, im))
  <2>1. With(obj, w, p) \in [Vars -> Object] /\ Held(With(obj, w, p)) = With(f, w, p)
    BY <1>5, <1>7, HeldIs DEF f
  <2>2. Held(With(With(obj, w, p), v, im)) = With(With(f, w, p), v, im)
    BY <1>7, <2>1, HeldIs
  <2>3. g2[Temp] = im /\ (v # w => g2[w] = p)
        /\ \A x \in Slots : x # v /\ x # w /\ x # Temp => g2[x] = f[x]
    BY <1>6, <1>12, <1>16
  <2>4. /\ g3 \in [Slots -> Object] /\ g3[v] = im /\ g3[Temp] = Empty /\ (v # w => g3[w] = p)
        /\ \A x \in Slots : x # v /\ x # w /\ x # Temp => g3[x] = f[x]
    BY <1>6, <1>7, <1>16, <2>3 DEF With
  <2> DEFINE g == With(With(f, w, p), v, im)
  <2>5. /\ g \in [Slots -> Object] /\ g[v] = im /\ g[Temp] = Empty /\ (v # w => g[w] = p)
        /\ \A x \in Slots : x # v /\ x # w /\ x # Temp => g[x] = f[x]
    BY <1>5, <1>6, <1>7 DEF With
  <2> HIDE DEF g3, g
  <2>6. g3 = g
    BY <1>6, <2>4, <2>5
  <2> QED BY <2>2, <2>6 DEF g
<1> HIDE DEF g3
<1>19. Good(g3, s3) /\ s3.obj = With(With(obj, w, p), v, im)
  <2>1. im \in Object
    BY <1>7
  <2>2. Good(g3, s3) /\ s3.obj = With(s2.obj, v, im)
    BY <1>17, <2>1, SetGood
  <2> QED BY <1>11, <1>15, <2>2
<1> HIDE DEF s3
<1>20. Good(Held(s3.obj), s3)
  BY <1>18, <1>19
<1> QED BY <1>3, <1>20, BecomeGood

-----------------------------------------------------------------------------
(* The invariant is inductive *)

LEMMA InitGood == ASSUME Init PROVE IInv
<1>1. obj \in [Vars -> Object] /\ (\A v \in Vars : obj[v] = Empty)
  BY Constants DEF Init
<1>2. Held(obj) \in [Slots -> Object] /\ \A w \in Slots : Held(obj)[w] = Empty
  BY <1>1, Constants DEF Held
<1>3. /\ Here.obj = obj /\ Here.allocs = [a \in Allocs |-> 0] /\ Here.counts = [h \in Handles |-> NoCount]
      /\ Here.devices = [h \in Handles |-> NoDevice] /\ Here.misused = FALSE
  BY HereIs DEF Init
<1>4. Here \in State
  <2>1. [a \in Allocs |-> 0] \in [Allocs -> Nat]
    OBVIOUS
  <2>2. /\ [h \in Handles |-> NoCount] \in [Handles -> Count]
        /\ [h \in Handles |-> NoDevice] \in [Handles -> Device]
    BY Constants
  <2> QED BY <1>1, <1>3, <2>1, <2>2 DEF State, Here
<1> DEFINE f == Held(obj)
<1>5. \A a \in Allocs : AllocHolders(f, a) = {} /\ AllocCounts(Here.counts, a) = {}
  BY <1>2, <1>3, Constants DEF AllocHolders, AllocCounts
<1>6. \A h \in Handles : DevHolders(f, h) = {} /\ DevCounts(Here.counts, h) = {}
  BY <1>2, <1>3, Constants DEF DevHolders, DevCounts
<1>7. Cardinality({}) = 0
  BY FS_EmptySet
<1> HIDE DEF f
<1>8. AllocsExact(f, Here) /\ CountsExact(f, Here)
  <2>1. \A a \in Allocs : Here.allocs[a] = 0
    BY <1>3
  <2>2. \A h \in Handles : Here.counts[h].count = 0
    BY <1>3, Constants
  <2>3. AllocsExact(f, Here)
    BY <1>5, <1>7, <2>1 DEF AllocsExact
  <2>4. CountsExact(f, Here)
    BY <1>6, <1>7, <2>2 DEF CountsExact
  <2> QED BY <2>3, <2>4
<1>9. Fits(f, Here)
  BY <1>2, <1>3, Constants DEF Fits, CountFits, CropFits, OwnerFits, Owns, f
<1> QED BY <1>2, <1>3, <1>4, <1>8, <1>9 DEF IInv, Good, Types, f

LEMMA NextGood ==
    ASSUME IInv, MayDropBoth = FALSE, MayReuseFailed = FALSE, [Next]_vars
    PROVE  IInv'
<1>1. CASE UNCHANGED vars
  <2>1. Here' = Here /\ obj' = obj
    BY <1>1 DEF vars, Here
  <2> QED BY <2>1 DEF IInv
<1>2. ASSUME NEW v \in Vars, Allocate(v) PROVE IInv'
  BY <1>2, AllocateGood
<1>3. ASSUME NEW v \in Vars, Deallocate(v) PROVE IInv'
  BY <1>3, DeallocateGood
<1>4. ASSUME NEW v \in Vars, DeviceDeallocate(v) PROVE IInv'
  BY <1>4, DeviceDeallocateGood
<1>5. ASSUME NEW v \in Vars, DeviceMalloc(v) PROVE IInv'
  BY <1>5, MallocGood DEF DeviceMalloc
<1>6. ASSUME NEW v \in Vars, DeviceFree(v) PROVE IInv'
  BY <1>6, DeviceFreeGood
<1>7. ASSUME NEW v \in Vars, DeviceWrapNative(v) PROVE IInv'
  <2>1. PICK kind \in {"native", "failed"} :
            IF Failed(Here, obj[v]) THEN Become(Known(v, kind)) ELSE GivenCounted(v, kind, "WrappedNative")
    BY <1>7 DEF DeviceWrapNative
  <2>2. CASE Failed(Here, obj[v])
    BY <2>1, <2>2, KnownGood
  <2>3. CASE ~Failed(Here, obj[v])
    <3>1. GivenCounted(v, kind, "WrappedNative") /\ Makes(kind, "WrappedNative")
      BY <2>1, <2>3 DEF Makes
    <3> QED BY <3>1, GivenCountedGood
  <2> QED BY <2>2, <2>3
<1>8. ASSUME NEW v \in Vars, DeviceDetachNative(v) PROVE IInv'
  BY <1>8, DeviceDetachNativeGood
<1>9. ASSUME NEW v \in Vars, InitializeFromBuffer(v) PROVE IInv'
  <2>1. GivenCounted(v, "client", "Unmanaged") /\ Makes("client", "Unmanaged")
    BY <1>9 DEF InitializeFromBuffer, Makes
  <2> QED BY <2>1, GivenCountedGood
<1>10. ASSUME NEW v \in Vars, DeviceAndHostMalloc(v) PROVE IInv'
  BY <1>10, MallocGood DEF DeviceAndHostMalloc
<1>11. ASSUME NEW v \in Vars, DeviceAndHostFree(v) PROVE IInv'
  BY <1>11, DeviceAndHostFreeGood
<1>12. ASSUME NEW v \in Vars, NEW w \in Vars, Assign(v, w) PROVE IInv'
  BY <1>12, AssignGood
<1>13. ASSUME NEW v \in Vars, NEW w \in Vars, Move(v, w) PROVE IInv'
  BY <1>13, MoveMethodGood
<1>14. ASSUME NEW v \in Vars, NEW w \in Vars, Crop(v, w) PROVE IInv'
  BY <1>14, CropMethodGood
<1>15. ASSUME Next PROVE IInv'
  BY <1>2, <1>3, <1>4, <1>5, <1>6, <1>7, <1>8, <1>9, <1>10, <1>11, <1>12, <1>13, <1>14, <1>15 DEF Next
<1> QED BY <1>1, <1>15

-----------------------------------------------------------------------------
(* What the invariant says of the program *)

\* Only the count of a crop holds an object, and that is counted.
LEMMA FromIsCounted ==
    ASSUME IInv, NEW k \in Handles
    PROVE  /\ counts[k].from.alloc # 0 \/ counts[k].from.device # 0 => counts[k].count > 0
           /\ counts[k].from.device # 0 => counts[k].from.counted
<1>1. CountFits(counts[k], devices[k]) /\ CropFits(counts, k)
  BY HereHolds, HereIs DEF Good, Fits
<1>2. counts[k] \in Count
  BY HereHolds
<1> QED BY <1>1, <1>2, Constants DEF CountFits, CropFits, Count

LEMMA AllocsAreExact ==
    ASSUME IInv, NEW a \in Allocs
    PROVE  allocs[a] = Cardinality({v \in Vars : obj[v].alloc = a})
                       + Cardinality({k \in LiveCounts : counts[k].from.alloc = a})
<1>1. Good(Held(obj), Here) /\ obj \in [Vars -> Object] /\ a # 0
  BY HereHolds, Constants
<1>2. allocs[a] = Cardinality(AllocHolders(Held(obj), a)) + Cardinality(AllocCounts(counts, a))
  BY <1>1, HereIs DEF Good, AllocsExact
<1>3. AllocHolders(Held(obj), a) = {v \in Vars : obj[v].alloc = a}
  BY <1>1, Temporary, Constants DEF AllocHolders, Held
<1>4. AllocCounts(counts, a) = {k \in LiveCounts : counts[k].from.alloc = a}
  BY <1>1, FromIsCounted DEF AllocCounts, LiveCounts
<1> QED BY <1>2, <1>3, <1>4

LEMMA DeviceCountsAreExact ==
    ASSUME IInv, NEW h \in Handles
    PROVE  /\ counts[h].count = Cardinality({v \in Vars : obj[v].device = h /\ obj[v].counted})
                                + Cardinality({k \in LiveCounts : counts[k].from.device = h /\ counts[k].from.counted})
           /\ {k \in LiveCounts : counts[k].from.device = h /\ counts[k].from.counted}
                  = {k \in LiveCounts : counts[k].from.device = h}
           /\ {k \in LiveCounts : counts[k].from.device = h /\ ~counts[k].from.counted} = {}
           /\ counts[h].count > 0 => {v \in Vars : obj[v].device = h /\ ~obj[v].counted} = {}
           /\ \A v, w \in {x \in Vars : obj[x].device = h /\ ~obj[x].counted} : v = w
           /\ devices[h].kind # "none" =>
                  counts[h].count > 0 \/ {v \in Vars : obj[v].device = h /\ ~obj[v].counted} # {}
<1>1. Good(Held(obj), Here) /\ obj \in [Vars -> Object] /\ h # 0 /\ counts[h] \in Count
  BY HereHolds, Constants
<1>2. counts[h].count = Cardinality(DevHolders(Held(obj), h)) + Cardinality(DevCounts(counts, h))
  BY <1>1, HereIs DEF Good, CountsExact
<1>3. DevHolders(Held(obj), h) = {v \in Vars : obj[v].device = h /\ obj[v].counted}
  BY <1>1, Temporary, Constants DEF DevHolders, Held
<1>4. DevCounts(counts, h) = {k \in LiveCounts : counts[k].from.device = h /\ counts[k].from.counted}
  BY <1>1, FromIsCounted DEF DevCounts, LiveCounts
<1>5. \A k \in LiveCounts : counts[k].from.device = h => counts[k].from.counted
  BY <1>1, FromIsCounted DEF LiveCounts
<1>6. OwnerFits(Held(obj), Here, h) /\ CountFits(counts[h], devices[h])
  BY <1>1, HereIs DEF Good, Fits
<1>7. \A v \in Vars : v \in Slots /\ Held(obj)[v] = obj[v]
  BY <1>1, HeldIs, Temporary
<1>8. \A w \in Slots : Owns(Held(obj)[w], h) => w \in Vars
  BY <1>1, Constants DEF Owns, Held
<1>9. /\ counts[h].count > 0 => {v \in Vars : obj[v].device = h /\ ~obj[v].counted} = {}
      /\ \A v, w \in {x \in Vars : obj[x].device = h /\ ~obj[x].counted} : v = w
      /\ devices[h].kind # "none" =>
             counts[h].count > 0 \/ {v \in Vars : obj[v].device = h /\ ~obj[v].counted} # {}
  <2>1. /\ counts[h].ownership # "none" => \A w \in Slots : ~Owns(Held(obj)[w], h)
        /\ counts[h].ownership = "none" =>
               (devices[h].kind # "none" <=> \E w \in Slots : Owns(Held(obj)[w], h))
        /\ \A w, x \in Slots : Owns(Held(obj)[w], h) /\ Owns(Held(obj)[x], h) => w = x
    BY <1>6, HereIs DEF OwnerFits
  <2>2. counts[h].count > 0 <=> counts[h].ownership # "none"
    BY <1>1, <1>6 DEF CountFits, Count
  <2>3. \A v \in Vars : Owns(Held(obj)[v], h) <=> obj[v].device = h /\ ~obj[v].counted
    BY <1>7 DEF Owns
  <2> QED BY <1>7, <1>8, <2>1, <2>2, <2>3
<1> QED BY <1>2, <1>3, <1>4, <1>5, <1>9

LEMMA ExactCounts == ASSUME IInv PROVE CountsAreExact
<1>1. \A a \in Allocs : allocs[a] = Holding(LAMBDA o : o.alloc = a)
  BY AllocsAreExact DEF Holding
<1>2. ASSUME NEW h \in Handles
      PROVE  /\ counts[h].count = Holding(LAMBDA o : o.device = h /\ o.counted)
             /\ counts[h].count > 0 => Holding(LAMBDA o : o.device = h /\ ~o.counted) = 0
             /\ devices[h].kind # "none" => Holding(LAMBDA o : o.device = h) > 0
             /\ Holding(LAMBDA o : o.device = h /\ ~o.counted) <= 1
  <2> DEFINE D == {v \in Vars : obj[v].device = h /\ obj[v].counted}
             E == {v \in Vars : obj[v].device = h /\ ~obj[v].counted}
             A == {v \in Vars : obj[v].device = h}
             C == {k \in LiveCounts : counts[k].from.device = h /\ counts[k].from.counted}
             B == {k \in LiveCounts : counts[k].from.device = h}
             U == {k \in LiveCounts : counts[k].from.device = h /\ ~counts[k].from.counted}
  <2>1. counts[h].count = Cardinality(D) + Cardinality(C) /\ C = B /\ U = {}
    BY DeviceCountsAreExact
  <2>2. /\ counts[h].count > 0 => E = {}
        /\ \A v, w \in E : v = w
        /\ devices[h].kind # "none" => counts[h].count > 0 \/ E # {}
    BY DeviceCountsAreExact
  <2>3. IsFiniteSet(D) /\ IsFiniteSet(E) /\ IsFiniteSet(A) /\ IsFiniteSet(B) /\ IsFiniteSet(C)
    <3>1. D \in SUBSET Vars /\ E \in SUBSET Vars /\ A \in SUBSET Vars
      OBVIOUS
    <3>2. B \in SUBSET Handles /\ C \in SUBSET Handles
      BY DEF LiveCounts
    <3> HIDE DEF A, B, C, D, E
    <3> QED BY <3>1, <3>2, FS_Subset, HalideBufferAssumption
  <2>4. A = D \union E
    OBVIOUS
  <2>5. /\ Cardinality(A) \in Nat /\ Cardinality(B) \in Nat /\ Cardinality(C) \in Nat
        /\ Cardinality(D) \in Nat /\ Cardinality(E) \in Nat /\ Cardinality(U) = 0
    <3> HIDE DEF A, B, C, D, E, U
    <3> QED BY <2>1, <2>3, FS_CardinalityType, FS_EmptySet
  <2>6. Cardinality(E) <= 1
    <3> HIDE DEF E
    <3>1. CASE E = {}
      BY <3>1, FS_EmptySet
    <3>2. CASE E # {}
      <4>1. PICK x \in E : TRUE
        BY <3>2
      <4>2. E = {x}
        BY <2>2, <4>1
      <4> QED BY <4>2, FS_Singleton
    <3> QED BY <3>1, <3>2
  <2>7. devices[h].kind # "none" => Cardinality(A) + Cardinality(B) > 0
    <3> HIDE DEF A, B, C, D, E
    <3>1. SUFFICES ASSUME devices[h].kind # "none", Cardinality(A) = 0, Cardinality(B) = 0
                   PROVE  FALSE
      BY <2>5
    <3>2. A = {} /\ B = {}
      BY <2>3, <3>1, FS_EmptySet
    <3>3. D = {} /\ E = {} /\ C = {}
      BY <2>1, <2>4, <3>2
    <3>4. Cardinality(D) = 0 /\ Cardinality(C) = 0
      BY <3>3, FS_EmptySet
    <3> QED BY <2>1, <2>2, <3>1, <3>3, <3>4
  <2>8. counts[h].count > 0 => Cardinality(E) = 0
    <3> HIDE DEF E
    <3> QED BY <2>2, FS_EmptySet
  <2>9. /\ Holding(LAMBDA o : o.device = h /\ o.counted) = Cardinality(D) + Cardinality(C)
        /\ Holding(LAMBDA o : o.device = h /\ ~o.counted) = Cardinality(E) + Cardinality(U)
        /\ Holding(LAMBDA o : o.device = h) = Cardinality(A) + Cardinality(B)
    BY DEF Holding
  <2> HIDE DEF A, B, C, D, E, U
  <2> QED BY <2>1, <2>5, <2>6, <2>7, <2>8, <2>9
<1> QED BY <1>1, <1>2 DEF CountsAreExact

LEMMA Released == ASSUME IInv PROVE ReleasedOnce
<1>1. Good(Held(obj), Here) /\ Here \in State
  BY HereHolds
<1>2. TypeOK /\ ~misused
  BY <1>1, HereIs DEF TypeOK, Good, Types, State, Object, Count, Ownership, Device, Kind
<1>3. ASSUME NEW v \in Vars, obj[v].device # 0
      PROVE  devices[obj[v].device].kind # "none"
  <2>1. v \in Slots /\ Held(obj)[v] = obj[v]
    BY HereHolds, HeldIs, Temporary
  <2>2. Held(obj)[v].device # 0
    BY <1>3, <2>1
  <2>3. Here.devices[Held(obj)[v].device].kind # "none"
    BY <1>1, <2>1, <2>2, DeviceIsThere
  <2> QED BY <2>1, <2>3, HereIs
<1>4. ASSUME NEW h \in Handles, devices[h].kind = "crop"
      PROVE  devices[devices[h].of].kind # "none"
  <2>1. /\ CountFits(counts[h], devices[h]) /\ CropFits(counts, h)
        /\ counts[h] \in Count
    BY <1>1, HereHolds, HereIs DEF Good, Fits
  <2>2. counts[h].ownership = "Cropped" /\ devices[h].of = counts[h].from.device
    BY <1>4, <2>1 DEF CountFits, Count, Ownership
  <2>3. devices[h].of \in Handles
    BY <2>1, <2>2 DEF CropFits, Count, Object
  <2>4. counts[h].from.device = devices[h].of /\ counts[h].from.counted
    BY <2>1, <2>2 DEF CropFits
  <2> DEFINE k == devices[h].of
  <2>5. counts[k].count > 0
    <3>1. Types(Held(obj), Here) /\ CountsExact(Held(obj), Here)
      BY <1>1 DEF Good
    <3>2. Here.counts[h].from.device = k
      BY <2>4, HereIs
    <3> HIDE DEF k
    <3>3. k \in Handles
      BY <2>3 DEF k
    <3>4. Here.counts[k].count > 0
      BY <3>1, <3>2, <3>3, CountsItsHolders
    <3> QED BY <3>4, HereIs
  <2>6. CountFits(counts[k], devices[k]) /\ counts[k] \in Count
    BY <1>1, <2>3, HereHolds, HereIs DEF Good, Fits
  <2> HIDE DEF k
  <2>7. counts[k].ownership # "none"
    BY <2>5, <2>6 DEF CountFits
  <2>8. devices[k].kind # "none"
    BY <2>6, <2>7 DEF CountFits, Count, Ownership
  <2> QED BY <2>8 DEF k
<1> QED BY <1>2, <1>3, <1>4 DEF ReleasedOnce

-----------------------------------------------------------------------------
(* Theorems *)

\* The inductive invariant, of programs that do not copy and destroy objects with memory
\* of device_and_host_malloc, which decref does not free right (HalideBuffer.h:327-375), nor
\* copy objects whose device_wrap_native failed, whose copies are not counted (290), nor give
\* them other memory: whatever methods are called on whatever objects, in any order.
THEOREM Invariance == ASSUME MayDropBoth = FALSE, MayReuseFailed = FALSE PROVE Spec => []IInv
<1>1. Init => IInv
  BY InitGood
<1>2. IInv /\ [Next]_vars => IInv'
  BY NextGood
<1> QED BY <1>1, <1>2, PTL DEF Spec

\* Each reference count, of host and of device memory, is the number of objects that share
\* the memory, copies in the counts of crops included; memory without a count has one
\* object (incref, decref, crop_from; HalideBuffer.h:286-375).
THEOREM CountsAreExactAlways ==
    ASSUME MayDropBoth = FALSE, MayReuseFailed = FALSE
    PROVE  Spec => []CountsAreExact
<1>1. Spec => []IInv
  BY Invariance
<1>2. IInv => CountsAreExact
  BY ExactCounts
<1> QED BY <1>1, <1>2, PTL

\* Device memory is released once, by the routine for how it was obtained, never under a
\* crop of it, and no object has memory that is gone (decref, device_free,
\* device_detach_native, complete_device_crop).
THEOREM ReleasedOnceAlways ==
    ASSUME MayDropBoth = FALSE, MayReuseFailed = FALSE
    PROVE  Spec => []ReleasedOnce
<1>1. Spec => []IInv
  BY Invariance
<1>2. IInv => ReleasedOnce
  BY Released
<1> QED BY <1>1, <1>2, PTL
=============================================================================
