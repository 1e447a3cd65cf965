---------------------------- MODULE HalideBuffer ----------------------------
(***************************************************************************)
(* Who frees what: the ownership of host and device memory by the objects  *)
(* of the class Halide::Runtime::Buffer (src/runtime/HalideBuffer.h).      *)
(*                                                                         *)
(* Several objects may share memory, which is counted: host memory in its  *)
(* AllocationHeader, device memory in a DeviceRefCount that also says how  *)
(* to free it.  The count of a crop holds an object of its own, a copy of  *)
(* the buffer that was cropped.  A pipeline may give an object device      *)
(* memory behind its back: then there is no count until it is copied.  A   *)
(* device_wrap_native that fails leaves a count and no memory: the model   *)
(* gives that count a handle of the kind "failed".                         *)
(*                                                                         *)
(* Grain: one action per method.  Methods are chains of operators that     *)
(* take and return the state.  A count has the name of the memory it       *)
(* counts.  Content, shape and dirty bits are left out.                    *)
(***************************************************************************)
EXTENDS Integers, FiniteSets

CONSTANTS Vars,      \* the client's Buffer objects
          Allocs,    \* names of host allocations with a header
          Handles,   \* names of device memory: allocated, wrapped, unmanaged, and crops
          MayDropBoth,   \* objects with memory of device_and_host_malloc are copied and destroyed
          MayReuseFailed \* objects whose device_wrap_native failed are copied and given memory

ASSUME HalideBufferAssumption ==
    /\ IsFiniteSet(Vars) /\ IsFiniteSet(Handles)
    /\ 0 \notin Allocs \union Handles
    /\ MayDropBoth \in BOOLEAN /\ MayReuseFailed \in BOOLEAN

VARIABLES obj,     \* the objects: alloc and buf.device, 0 for null, and whether there is a dev_ref_count
          allocs,  \* ref_count of each allocation
          counts,  \* each DeviceRefCount: count, ownership and, for a crop, cropped_from
          devices, \* what each handle is, and of which it is a crop
          misused  \* a handle was freed twice, by the wrong routine, or under a crop (not in the code)

vars == <<obj, allocs, counts, devices, misused>>

Empty == [alloc |-> 0, device |-> 0, counted |-> FALSE]
NoCount == [count |-> 0, ownership |-> "none", from |-> Empty]
NoDevice == [kind |-> "none", of |-> 0]

Init ==
    /\ obj = [v \in Vars |-> Empty]
    /\ allocs = [a \in Allocs |-> 0]
    /\ counts = [h \in Handles |-> NoCount]
    /\ devices = [h \in Handles |-> NoDevice]
    /\ misused = FALSE

-----------------------------------------------------------------------------
(* The device interface *)

LiveCrops(s, h) == {c \in Handles : s.devices[c].kind = "crop" /\ s.devices[c].of = h}
Unused(s) == {h \in Handles : s.devices[h].kind = "none"}

\* The name of new memory: any one that is free.
Fresh(names) == CHOOSE n \in names : TRUE

\* One of device_free, detach_native, device_and_host_free and device_release_crop.
Release(s, h, kind) ==
    IF s.devices[h].kind = kind /\ LiveCrops(s, h) = {}
    THEN [s EXCEPT !.devices[h] = NoDevice]
    ELSE [s EXCEPT !.misused = TRUE]

KindOf(ownership) ==
    CASE ownership = "WrappedNative" -> "native"
      [] ownership = "AllocatedDeviceAndHost" -> "both"
      [] ownership = "Cropped" -> "crop"
      [] OTHER -> "allocated"

-----------------------------------------------------------------------------
(* Counting.  Operators that also change an object return it as o. *)

NewCount(s, h, ownership, from) ==
    [s EXCEPT !.counts[h] = [count |-> 1, ownership |-> ownership, from |-> from]]

\* Mutant: the count that is made for a pipeline's memory starts at nought.
AdoptedMutant(s, h) == [NewCount(s, h, "Allocated", Empty) EXCEPT !.counts[h].count = 0]

\* Sole ownership of what a pipeline has allocated.
Adopted(s, h) == NewCount(s, h, "Allocated", Empty)

CountsDevice(o) == [o EXCEPT !.counted = (o.device # 0)]

\* incref; the original is then CountsDevice(o), and so is the copy.
Incref(s, o) ==
    LET t == IF o.alloc # 0 THEN [s EXCEPT !.allocs[o.alloc] = @ + 1] ELSE s
        u == IF o.counted THEN t ELSE Adopted(t, o.device)
    IN  IF o.device = 0 THEN t ELSE [u EXCEPT !.counts[o.device].count = @ + 1]

\* The object has the count of a wrap that failed: buf.device is null.
Failed(s, o) == o.device # 0 /\ s.devices[o.device].kind = "failed"

DropHost(s, o) == IF o.alloc # 0 THEN [s EXCEPT !.allocs[o.alloc] = @ - 1] ELSE s

\* The count of the device memory of an object: memory that is not counted has one object.
CountOf(s, o) ==
    IF o.counted THEN s.counts[o.device] ELSE [NoCount EXCEPT !.count = 1, !.ownership = "Allocated"]

\* The last object that lets go of the device frees it, and its count is deleted.
LetGo(s, o) ==
    LET c == CountOf(s, o)
        released == IF c.ownership = "Unmanaged" \/ Failed(s, o) THEN [s EXCEPT !.devices[o.device] = NoDevice]
                    ELSE Release(s, o.device, KindOf(c.ownership))
    IN  IF o.device = 0 THEN s
        ELSE IF c.count > 1 THEN [s EXCEPT !.counts[o.device].count = @ - 1]
        ELSE [released EXCEPT !.counts[o.device] = NoCount]

\* The cropped_from that is destroyed with the count of a crop.
Beneath(s, o) ==
    LET c == CountOf(s, o)
    IN  IF o.device # 0 /\ c.count <= 1 /\ c.ownership = "Cropped" THEN c.from ELSE Empty

\* decref of the device.  The destructor of cropped_from has nothing beneath to destroy:
\* it is never a crop, and the model calls it misuse if it is.
DropDevice(s, o) ==
    LET from == Beneath(s, o)
        t == DropHost(LetGo(s, o), from)
    IN  [LetGo(t, from) EXCEPT !.misused = @ \/ Beneath(t, from) # Empty]

Decref(s, o) == DropDevice(DropHost(s, o), o)

-----------------------------------------------------------------------------
(* Crops *)

\* Mutant: the original may go before its crop.
CropFromMutant(s, h, o) == NewCount(s, h, "Cropped", Empty)

\* crop_from: the count holds a copy of what is cropped.
CropFrom(s, h, o) == NewCount(Incref(s, o), h, "Cropped", CountsDevice(o))

\* complete_device_crop and complete_device_slice: of the buffer o a crop is of, if it
\* is one, else of o, as is the new handle: the interfaces crop the memory beneath.
DeviceCropped(s, o, h) ==
    LET c == s.counts[o.device]
        parent == IF c.ownership = "Cropped" THEN c.from ELSE o
    IN  CropFrom([s EXCEPT !.devices[h] = [kind |-> "crop", of |-> parent.device]], h, parent)

\* cropped: a copy that has let go of the device, and has been given a crop of it
\* where the interface could make one (h # 0).
Cropped(s, o, h) ==
    LET t == DropDevice(Incref(s, o), CountsDevice(o))
    IN  IF h = 0 THEN t ELSE DeviceCropped(t, CountsDevice(o), h)

-----------------------------------------------------------------------------
(* Methods *)

Here == [obj |-> obj, allocs |-> allocs, counts |-> counts, devices |-> devices, misused |-> misused]

Become(s) ==
    /\ obj' = s.obj /\ allocs' = s.allocs /\ counts' = s.counts
    /\ devices' = s.devices /\ misused' = s.misused

Set(s, v, o) == [s EXCEPT !.obj[v] = o]

\* device_and_host_malloc leaves the ownership unsaid: what it has allocated is to be
\* freed by device_and_host_free alone.
HasBoth(o) == o.device # 0 /\ devices[o.device].kind = "both"
Drops(o) == MayDropBoth \/ ~HasBoth(o)

\* incref asks for buf.device: the copy of an object whose device_wrap_native failed has
\* its count and is not counted, unless the client makes no copy of it.
Copies(o) == MayReuseFailed \/ ~Failed(Here, o)
Seen(o) == IF Failed(Here, o) THEN [o EXCEPT !.device = 0] ELSE o

\* allocate: what the object had is dropped.
Allocate(v) ==
    /\ Drops(obj[v])
    /\ LET s == Decref(Here, obj[v])
           free == {a \in Allocs : s.allocs[a] = 0}
       IN  /\ free # {}
           /\ Become(Set([s EXCEPT !.allocs[Fresh(free)] = 1], v, [Empty EXCEPT !.alloc = Fresh(free)]))

\* deallocate, and the destructor
Deallocate(v) == obj[v] # Empty /\ Drops(obj[v]) /\ Become(Set(Decref(Here, obj[v]), v, Empty))

DeviceDeallocate(v) ==
    /\ obj[v].device # 0 /\ Drops(obj[v])
    /\ Become(Set(DropDevice(Here, obj[v]), v, [Empty EXCEPT !.alloc = obj[v].alloc]))

\* Copy construction, when v is empty, and assignment: the other is counted first.
Assign(v, w) ==
    /\ v # w /\ Drops(obj[v]) /\ Drops(obj[w]) /\ Copies(obj[w])
    /\ LET o == CountsDevice(obj[w])
       IN  Become(Set(Set(Decref(Incref(Here, Seen(obj[w])), obj[v]), v, o), w, o))

\* Move construction and assignment.
Move(v, w) ==
    /\ v # w /\ Drops(obj[v])
    /\ Become(Set(Set(Decref(Here, obj[v]), v, obj[w]), w, Empty))

\* v = w.cropped(..), v = w.sliced(..), and v.crop(..) with v = w
Crop(v, w) ==
    /\ obj[w].device # 0 /\ Drops(obj[v]) /\ Drops(obj[w]) /\ ~Failed(Here, obj[w])
    /\ \E h \in {0} \union {k \in Unused(Here) : k = Fresh(Unused(Here))} :
          LET s == Set(Cropped(Here, obj[w], h), w, CountsDevice(obj[w]))
              im == [alloc |-> obj[w].alloc, device |-> h, counted |-> h # 0]
          IN  Become(Set(Decref(s, s.obj[v]), v, im))

Given(s, v, kind) ==
    LET h == Fresh(Unused(s)) IN [s EXCEPT !.obj[v].device = h, !.devices[h].kind = kind]

\* What the handle of v is from now on.
Known(v, kind) == [Here EXCEPT !.devices[obj[v].device].kind = kind]

WithMemory(v, kind) == IF Failed(Here, obj[v]) THEN Known(v, kind) ELSE Given(Here, v, kind)

MayBeGiven(v) ==
    IF Failed(Here, obj[v]) THEN MayReuseFailed ELSE obj[v].device = 0 /\ Unused(Here) # {}

\* device_malloc, and a pipeline that runs on the device
DeviceMalloc(v) == MayBeGiven(v) /\ Become(WithMemory(v, "allocated"))

DeviceAndHostMalloc(v) ==
    MayBeGiven(v) /\ obj[v].alloc = 0 /\ Become(WithMemory(v, "both"))

\* The assertions of device_free, device_detach_native and device_and_host_free: the
\* object is the only one that has the memory, and got it the way it is freed.
Sole(v, ownership) ==
    LET c == counts[obj[v].device] IN c.ownership = ownership /\ c.count = 1

Frees(v, kind) ==
    LET h == obj[v].device
    IN  Become(Set([Release(Here, h, kind) EXCEPT !.counts[h] = NoCount], v, [Empty EXCEPT !.alloc = obj[v].alloc]))

DeviceFree(v) ==
    /\ obj[v].device # 0 /\ ~HasBoth(obj[v])
    /\ obj[v].counted => Sole(v, "Allocated")
    /\ Frees(v, "allocated")

DeviceDetachNative(v) ==
    /\ obj[v].counted /\ Sole(v, "WrappedNative")
    /\ IF Failed(Here, obj[v]) THEN DeviceDeallocate(v) ELSE Frees(v, "native")

DeviceAndHostFree(v) ==
    /\ HasBoth(obj[v])
    /\ obj[v].counted => Sole(v, "AllocatedDeviceAndHost")
    /\ Frees(v, "both")

\* A method that makes the count at once: device_wrap_native, and, for memory that
\* somebody else looks after, the constructor from a halide_buffer_t.
GivenCounted(v, kind, ownership) ==
    /\ MayBeGiven(v)
    /\ LET s == Given(Here, v, kind)
           h == s.obj[v].device
       IN  Become([NewCount(s, h, ownership, Empty) EXCEPT !.obj[v].counted = TRUE])

\* The count is made before the interface is asked, which may fail.  A wrap after one
\* that failed makes the count anew.
DeviceWrapNative(v) ==
    \E kind \in {"native", "failed"} :
        IF Failed(Here, obj[v]) THEN Become(Known(v, kind)) ELSE GivenCounted(v, kind, "WrappedNative")

InitializeFromBuffer(v) == obj[v] = Empty /\ GivenCounted(v, "client", "Unmanaged")

Next ==
    \/ \E v \in Vars : \/ Allocate(v) \/ Deallocate(v) \/ DeviceDeallocate(v)
                       \/ DeviceMalloc(v) \/ DeviceFree(v)
                       \/ DeviceWrapNative(v) \/ DeviceDetachNative(v) \/ InitializeFromBuffer(v)
                       \/ DeviceAndHostMalloc(v) \/ DeviceAndHostFree(v)
    \/ \E v, w \in Vars : Assign(v, w) \/ Move(v, w) \/ Crop(v, w)

Spec == Init /\ [][Next]_vars

-----------------------------------------------------------------------------
(* Properties *)

LiveCounts == {h \in Handles : counts[h].count > 0}

TypeOK ==
    LET Object == [alloc : {0} \union Allocs, device : {0} \union Handles, counted : BOOLEAN]
    IN  /\ obj \in [Vars -> Object]
        /\ allocs \in [Allocs -> Nat]
        /\ counts \in [Handles -> [count : Nat, from : Object,
                ownership : {"none", "Allocated", "WrappedNative", "Unmanaged", "AllocatedDeviceAndHost", "Cropped"}]]
        /\ devices \in [Handles -> [kind : {"none", "allocated", "native", "failed", "client", "both", "crop"},
                                   of : {0} \union Handles]]
        /\ misused \in BOOLEAN

\* How many objects, of the client and in the counts of crops, are such that P.
Holding(P(_)) ==
    Cardinality({v \in Vars : P(obj[v])}) + Cardinality({h \in LiveCounts : P(counts[h].from)})

\* Each count is that of the objects that share the memory: none is kept once nobody
\* has it, and none is freed that somebody has.  Memory that is not counted has one
\* object.
CountsAreExact ==
    /\ \A a \in Allocs : allocs[a] = Holding(LAMBDA o : o.alloc = a)
    /\ \A h \in Handles :
        /\ counts[h].count = Holding(LAMBDA o : o.device = h /\ o.counted)
        /\ counts[h].count > 0 => Holding(LAMBDA o : o.device = h /\ ~o.counted) = 0
        /\ devices[h].kind # "none" => Holding(LAMBDA o : o.device = h) > 0
        /\ Holding(LAMBDA o : o.device = h /\ ~o.counted) <= 1

\* Memory is released once, by the routine for how it was obtained, and never under a
\* crop of it: what a crop is of stays until the crop is gone, in whatever order the
\* objects are copied, moved, cropped again and destroyed.
ReleasedOnce ==
    /\ TypeOK /\ ~misused
    /\ \A v \in Vars : obj[v].device # 0 => devices[obj[v].device].kind # "none"
    /\ \A h \in Handles : devices[h].kind = "crop" => devices[devices[h].of].kind # "none"
=============================================================================
