-------------------------- MODULE DeviceInterface --------------------------
(***************************************************************************)
(* The device interface: the calls that give a halide_buffer_t memory on a *)
(* device and move its content between host and device                     *)
(* (src/runtime/device_interface.cpp), over two implementations, those of  *)
(* cuda.cpp and opencl.cpp, and the free list in which cuda.cpp keeps      *)
(* device memory for reuse (with allocation_cache.cpp).                    *)
(*                                                                         *)
(* Grain: one action per call.  A call is a chain of operators that take   *)
(* and return the whole state, with the result of the call in it, as the   *)
(* code calls the implementation and may call other entry points.  The     *)
(* fuse is the number of calls of the driver until one fails (0: none).    *)
(*                                                                         *)
(* Content is abstracted to whether a copy is the newest one: `known` says *)
(* that the client can say what the buffer holds, and `host` and `device`  *)
(* which of the two copies hold it.  No two buffers share host memory, and *)
(* only a view shares device memory, with the buffer it is a crop of.      *)
(***************************************************************************)
EXTENDS Integers, Sequences, FiniteSets, SequencesExt

CONSTANTS Buffers,       \* those that own their memory
          Views,         \* those that are crops and slices of others
          SizeOf,        \* size_in_bytes
          ClientHost,    \* the buffers whose host memory is the client's
          Interfaces,
          Pooled,        \* the interfaces that keep memory for reuse
          Croppable,     \* the interfaces that do not have halide_default_device_crop
          Boxed,         \* those whose device handle is a device_handle of the heap: opencl.cpp's
          DeviceMemory, NativeMemory, \* what the driver allocates, and what the client wraps
          MaxDepth,      \* how far down a list memory is kept (32)
          MaxFuse,
          MaxRefused,    \* bound: the crops an interface refuses
          MayOverwriteDirty, \* a copy between interfaces may go to a dirty destination
          MayMixSizes    \* reuse may be turned on while memory is in use

None == "none"
Null == 0

ASSUME DeviceAssumption ==
    /\ SizeOf \in [Buffers -> Nat \ {0}]
    /\ IsFiniteSet(Buffers) /\ IsFiniteSet(Views) /\ Buffers \cap Views = {}
    /\ ClientHost \subseteq Buffers
    /\ Pooled \subseteq Interfaces /\ Croppable \subseteq Interfaces /\ Boxed \subseteq Interfaces
    /\ None \notin Interfaces
    /\ DeviceMemory \subseteq Nat \ {0} /\ NativeMemory \subseteq Nat \ {0}
    /\ DeviceMemory \cap NativeMemory = {}
    /\ MaxDepth \in Nat /\ MaxFuse \in Nat /\ MaxRefused \in Nat
    /\ MayOverwriteDirty \in BOOLEAN /\ MayMixSizes \in BOOLEAN

VARIABLES buf,     \* the halide_buffer_t's
          origin,  \* how each got its device memory (not in the code)
          content, \* which copies are the newest (not in the code)
          memory,  \* the size of what the driver has allocated, 0 where it has not
          list,    \* free_list, newest first
          uses,    \* the balance of use_module and release_module
          refused, \* the crops that failed after use_module (not in the code)
          reuse    \* halide_reuse_device_allocations_flag

vars == <<buf, origin, content, memory, list, uses, refused, reuse>>

All == Buffers \union Views
Unknown == [known |-> FALSE, host |-> FALSE, device |-> FALSE]

Init ==
    /\ buf = [b \in All |-> [host |-> IF b \in ClientHost THEN "client" ELSE None,
                             device |-> Null, interface |-> None,
                             hostDirty |-> FALSE, deviceDirty |-> FALSE]]
    /\ origin = [b \in All |-> None]
    /\ content = [b \in All |-> Unknown]
    /\ memory = [p \in DeviceMemory |-> 0]
    /\ list = [i \in Interfaces |-> <<>>]
    /\ uses = [i \in Interfaces |-> 0]
    /\ refused = [i \in Interfaces |-> 0]
    /\ reuse = TRUE

-----------------------------------------------------------------------------
(* Results, and the driver *)

Ok(s) == [s EXCEPT !.result = "ok"]
Error(s) == [s EXCEPT !.result = "error"]
Incompatible(s) == [s EXCEPT !.result = "incompatible"] \* halide_error_code_incompatible_device_interface
Succeeds(s) == s.result = "ok"

Breaks(s) == s.fuse = 1
Burn(s) == [s EXCEPT !.fuse = IF @ = 0 THEN 0 ELSE @ - 1]

HasHost(r) == r.host # None

\* debug_log_and_validate_buf
Valid(s, b) ==
    LET r == s.buf[b]
    IN  (r.device # Null <=> r.interface # None) /\ ~(r.hostDirty /\ r.deviceDirty)

-----------------------------------------------------------------------------
(* Memory: cuda.cpp's, and without a list opencl.cpp's *)

Pools(s, i) == i \in Pooled /\ s.reuse

RoundUp(n, unit) == ((n + unit - 1) \div unit) * unit

\* The four most significant bits are kept, rounding up.
Quantize(n) ==
    IF n < 16 THEN n ELSE RoundUp(n, CHOOSE u \in {2 ^ k : k \in 1 .. n} : 8 * u <= n /\ n < 16 * u)

\* Mutant: what is allocated is the size asked for.
AllocationSizeMutant(s, b, i) == SizeOf[b]

AllocationSize(s, b, i) == IF Pools(s, i) THEN Quantize(SizeOf[b]) ELSE SizeOf[b]

Unallocate(s, P) == [s EXCEPT !.memory = [p \in DeviceMemory |-> IF p \in P THEN 0 ELSE @[p]]]

ReleaseUnused(s, i) ==
    [Unallocate(s, {item.ptr : item \in ToSet(s.list[i])}) EXCEPT !.list[i] = <<>>]

Fits(size, item) == size <= item.size /\ size >= (item.size \div 8) * 7

\* The search for the best fit: the item is better than all before it.
Better(items, size, k) ==
    Fits(size, items[k]) /\ \A j \in 1 .. k - 1 : Fits(size, items[j]) => items[j].size > items[k].size

\* From the first item below the depth that is not, the list is cut off.
Kept(items, size) ==
    Min({Len(items)} \union {k - 1 : k \in {j \in DOMAIN items : j > MaxDepth + 1 /\ ~Better(items, size, j)}})

\* What the search leaves in the list.
Trimmed(s, i, size) ==
    LET items == s.list[i] n == Kept(items, size)
    IN  [Unallocate(s, {items[k].ptr : k \in n + 1 .. Len(items)}) EXCEPT !.list[i] = SubSeq(@, 1, n)]

Attach(s, b, i, p) ==
    [s EXCEPT !.buf[b].device = p, !.buf[b].interface = i, !.uses[i] = @ + 1]

\* cuMemAlloc, and once more when the list has been released.
Allocate(s, b, i, size) ==
    LET Unused(t) == {p \in DeviceMemory : t.memory[p] = 0}
        t == IF Unused(s) = {} THEN ReleaseUnused(s, i) ELSE s
        p == Min(Unused(t))
    IN  IF Breaks(s) THEN Error(Burn(s))
        ELSE IF Unused(t) = {} THEN Error(t)
        ELSE Ok([Attach(Burn(t), b, i, p) EXCEPT !.memory[p] = size, !.origin[b] = "malloc"])

ImplMalloc(s, b, i) ==
    LET size == AllocationSize(s, b, i)
        t == IF Pools(s, i) THEN Trimmed(Burn(s), i, size) ELSE Burn(s)
        best == {k \in DOMAIN t.list[i] : Pools(s, i) /\ Better(t.list[i], size, k)}
    IN  IF s.buf[b].device # Null THEN Ok(s)
        ELSE IF Breaks(s) THEN Error(Burn(s))
        ELSE IF best = {} THEN Allocate(t, b, i, size)
        ELSE LET k == Max(best)
             IN  Ok([Attach(t, b, i, t.list[i][k].ptr) EXCEPT !.list[i] = RemoveAt(@, k),
                                                              !.origin[b] = "malloc"])

\* The buffer lets go of its device memory.  What was newest only there is lost.
Detach(s, b) ==
    [s EXCEPT !.buf[b].device = Null, !.buf[b].interface = None,
              !.uses[s.buf[b].interface] = @ - 1,
              !.origin[b] = None,
              !.content[b] = IF s.buf[b].deviceDirty THEN Unknown ELSE [@ EXCEPT !.device = FALSE]]

\* Mutant: the module stays in use for memory that is kept.
CachedMutant(s, b, i) ==
    [Detach(s, b) EXCEPT !.list[i] = <<[ptr |-> s.buf[b].device, size |-> Quantize(SizeOf[b])]>> \o @,
                         !.uses[i] = @ + 1]

Cached(s, b, i) ==
    [Detach(s, b) EXCEPT !.list[i] = <<[ptr |-> s.buf[b].device, size |-> Quantize(SizeOf[b])]>> \o @]

\* An error of the driver is returned once the memory is given up.
ImplFree(s, b) ==
    LET r == s.buf[b] t == Burn(s)
    IN  IF r.device = Null THEN Ok(s)
        ELSE IF Breaks(s) THEN Error(t)
        ELSE IF Pools(s, r.interface)
        THEN Ok(Cached(t, b, r.interface))
        ELSE LET u == Unallocate(Detach(t, b), {r.device})
             IN  IF Breaks(t) THEN Error(Burn(u)) ELSE Ok(Burn(u))

-----------------------------------------------------------------------------
(* Copies *)

\* A copy of all of dst; its image becomes that of src.
Move(s, src, from, dst, to) ==
    LET here == s.content[src]
    IN  [s EXCEPT !.content[dst] =
            IF src = dst THEN [@ EXCEPT ![to] = here[from]]
            ELSE IF here.known THEN [Unknown EXCEPT !.known = TRUE, ![to] = here[from]]
            ELSE Unknown]

\* A copy that fails half way.
Torn(s, src, from, dst, to) ==
    [s EXCEPT !.content[dst] = IF src # dst THEN Unknown ELSE IF from = to THEN @ ELSE [@ EXCEPT ![to] = FALSE]]

\* Mutant: the host's copy is not preferred when it is dirty.
ReadsHostMutant(r, i) == r.interface # i \/ r.device = Null

\* from_host of halide_cuda_buffer_copy
ReadsHost(r, i) == r.interface # i \/ r.device = Null \/ (r.hostDirty /\ HasHost(r))

\* buffer_copy of interface i
ImplCopy(s, i, src, dst, to) ==
    LET r == s.buf[src]
        from == IF ReadsHost(r, i) THEN "host" ELSE "device"
    IN  IF (r.deviceDirty \/ ~HasHost(r)) /\ r.interface # i THEN Incompatible(s)
        ELSE IF Breaks(s) THEN Error(Torn(Burn(s), src, from, dst, to))
        ELSE Ok(Move(Burn(s), src, from, dst, to))

-----------------------------------------------------------------------------
(* The entry points *)

HostClean(s, b) == [s EXCEPT !.buf[b].hostDirty = FALSE]
DeviceClean(s, b) == [s EXCEPT !.buf[b].deviceDirty = FALSE]

\* copy_to_host_already_locked
CopyToHostLocked(s, b) ==
    LET r == s.buf[b]
        c == ImplCopy(s, r.interface, b, b, "host")
    IN  IF ~r.deviceDirty THEN Ok(s)
        ELSE IF r.hostDirty \/ r.interface = None THEN Error(s)
        ELSE IF Succeeds(c) THEN DeviceClean(c, b) ELSE Error(c)

CopyToHost(s, b) == IF Valid(s, b) THEN CopyToHostLocked(s, b) ELSE Error(s)

MayUse(s, b, i) == s.buf[b].interface \in {None, i}

DeviceMalloc(s, b, i) ==
    IF ~Valid(s, b) THEN Error(s)
    ELSE IF ~MayUse(s, b, i) THEN Incompatible(s)
    ELSE ImplMalloc(s, b, i)

\* copy_to_device_already_locked
CopyToDeviceLocked(s, b, i) ==
    LET r == s.buf[b]
        j == IF i = None THEN r.interface ELSE i
        m == IF r.device = Null THEN DeviceMalloc(s, b, j) ELSE Ok(s)
        c == ImplCopy(m, j, b, b, "device")
    IN  IF ~Valid(s, b) \/ j = None THEN Error(s)
        ELSE IF r.device # Null /\ r.interface # j THEN Incompatible(s)
        ELSE IF ~Succeeds(m) \/ ~r.hostDirty THEN m
        ELSE IF Succeeds(c) THEN HostClean(c, b) ELSE Error(c)

DeviceFree(s, b) ==
    LET f == ImplFree(s, b)
    IN  IF ~Valid(s, b) THEN Error(s)
        ELSE IF Succeeds(f) THEN DeviceClean(f, b) ELSE f

\* halide_device_and_host_malloc, with halide_default_device_and_host_malloc
DeviceAndHostMalloc(s, b, i) ==
    LET m == DeviceMalloc([Burn(s) EXCEPT !.buf[b].host = "halide"], b, i)
    IN  IF ~Valid(s, b) THEN Error(s)
        ELSE IF ~MayUse(s, b, i) THEN Incompatible(s)
        ELSE IF Breaks(s) THEN Error(Burn(s))
        ELSE IF Succeeds(m) THEN m ELSE [m EXCEPT !.buf[b].host = None]

\* halide_device_and_host_free, with halide_default_device_and_host_free
DeviceAndHostFree(s, b) ==
    LET NoHost(t) == [t EXCEPT !.buf[b].host = None, !.content[b] = Unknown]
        f == DeviceFree(s, b)
    IN  IF ~Valid(s, b) THEN Error(s)
        ELSE IF s.buf[b].interface # None THEN HostClean(DeviceClean(NoHost(f), b), b)
        ELSE Ok(DeviceClean(NoHost(s), b))

\* The interface is set, and no memory of it is there.
Stranded(s, b, i) == [s EXCEPT !.buf[b].interface = i, !.origin[b] = "failed"]

\* The interface is set first.  There may be no memory for the handle.
WrapNative(s, b, h, i) ==
    IF ~Valid(s, b) THEN Error(s)
    ELSE IF ~MayUse(s, b, i) THEN Incompatible(s)
    ELSE IF i \in Boxed /\ Breaks(s) THEN Error(Stranded(Burn(s), b, i))
    ELSE Ok([Attach(s, b, i, h) EXCEPT !.origin[b] = "wrap"])

DetachNative(s, b) ==
    IF ~Valid(s, b) THEN Error(s)
    ELSE IF s.buf[b].interface = None THEN Ok(s)
    ELSE Ok(Detach(s, b))

\* What is left of a crop that fails: use_module comes first.
Refused(s, i) == [s EXCEPT !.uses[i] = @ + 1, !.refused[i] = @ + 1]

\* halide_device_crop and halide_device_slice.  For a handle of the heap the driver may have
\* no context, or there may be no memory; in between the interface is set.
DeviceCrop(s, src, dst) ==
    LET r == s.buf[src]
        i == r.interface
        dirty == IF i \in Boxed THEN s.buf[dst].deviceDirty ELSE r.deviceDirty
    IN  IF r.device = Null THEN Ok(s)
        ELSE IF s.buf[dst].device # Null THEN Error(s)
        ELSE IF i \notin Croppable THEN Error(Refused(s, i))
        ELSE IF i \in Boxed /\ Breaks(s) THEN Error(Refused(Burn(s), i))
        ELSE IF i \in Boxed /\ Breaks(Burn(s)) THEN Error(Stranded(Refused(Burn(Burn(s)), i), dst, i))
        ELSE Ok([Attach(s, dst, i, r.device) EXCEPT !.buf[dst].deviceDirty = dirty, !.origin[dst] = src])

ReleaseCrop(s, b) == Ok(IF s.buf[b].device = Null THEN s ELSE Detach(s, b))
-----------------------------------------------------------------------------
(* halide_buffer_copy *)

\* dev -> dev via dst host memory
CopyViaDestination(s, src, i, dst) ==
    LET c == ImplCopy(s, s.buf[src].interface, src, dst, "host")
    IN  IF Succeeds(c) THEN CopyToDeviceLocked([c EXCEPT !.buf[dst].hostDirty = TRUE], dst, i) ELSE c

\* dev -> dev via src host memory
CopyViaSource(s, src, i, dst) ==
    LET c == CopyToHostLocked(s, src)
    IN  IF Succeeds(c) THEN ImplCopy(c, i, src, dst, "device") ELSE c

FromDevice(r) == r.device # Null /\ (~HasHost(r) \/ ~r.hostDirty)
FromHost(r) == HasHost(r) /\ (~r.deviceDirty \/ r.interface = None)

\* The ways to copy, the direct one first.  (Neither implementation refuses to copy
\* from its own memory to the host.)
Transfer(s, src, i, dst) ==
    LET r == s.buf[src]
        d == s.buf[dst]
        direct == IF FromDevice(r) /\ i # None THEN ImplCopy(s, i, src, dst, "device") ELSE Incompatible(s)
    IN  IF i = None /\ ~HasHost(d) THEN Error(s)
        ELSE IF direct.result # "incompatible" THEN direct
        ELSE IF ~HasHost(r) /\ ~HasHost(d) THEN Incompatible(s)
        ELSE IF i = None /\ FromHost(r) THEN Ok(Move(s, src, "host", dst, "host"))
        ELSE IF i = None /\ FromDevice(r) THEN ImplCopy(s, r.interface, src, dst, "host")
        ELSE IF FromDevice(r) /\ HasHost(d) THEN CopyViaDestination(s, src, i, dst)
        ELSE IF i # None THEN CopyViaSource(s, src, i, dst)
        ELSE Incompatible(s)

Marked(s, i, dst) == [s EXCEPT !.buf[dst].hostDirty = (i = None), !.buf[dst].deviceDirty = (i # None)]

\* halide_buffer_copy_already_locked; i is None for the host.
BufferCopyLocked(s, src, i, dst) ==
    LET m == IF i # None /\ s.buf[dst].device = Null THEN DeviceMalloc(s, dst, i) ELSE Ok(s)
        c == Transfer(m, src, i, dst)
    IN  IF i # None /\ ~MayUse(s, dst, i) THEN Incompatible(s)
        ELSE IF ~Succeeds(m) THEN m
        ELSE IF Succeeds(c) /\ dst # src THEN Marked(c, i, dst) ELSE c

-----------------------------------------------------------------------------
(* The calls of clients and pipelines *)

\* The fuse burns down: with n # 0 the driver does fail.
Call(Op(_)) ==
    \E n \in 0 .. MaxFuse :
        \E s \in {Op([buf |-> buf, origin |-> origin, content |-> content, memory |-> memory,
                      list |-> list, uses |-> uses, refused |-> refused, reuse |-> reuse, fuse |-> n, result |-> "ok"])} :
            /\ s.fuse = 0
            /\ buf' = s.buf /\ origin' = s.origin /\ content' = s.content
            /\ memory' = s.memory /\ list' = s.list /\ uses' = s.uses /\ refused' = s.refused
            /\ reuse' = s.reuse

\* Whoever gives a buffer device memory has marked what it holds on the host.
Announced(b) == content[b].host /\ buf[b].device = Null => buf[b].hostDirty

HalideCopyToHost(b) == HasHost(buf[b]) /\ Call(LAMBDA s : CopyToHost(s, b))

HalideCopyToDevice(b, i) == Announced(b) /\ Call(LAMBDA s : CopyToDeviceLocked(s, b, i))

HalideDeviceMalloc(b, i) == Announced(b) /\ Call(LAMBDA s : DeviceMalloc(s, b, i))

\* Not of memory a view is a crop of, nor of memory the client wrapped.
NotCropped(b) == \A v \in Views : origin[v] # b

HalideDeviceFree(b) ==
    origin[b] # "wrap" /\ NotCropped(b) /\ Call(LAMBDA s : DeviceFree(s, b))

HalideDeviceAndHostMalloc(b, i) ==
    ~HasHost(buf[b]) /\ Call(LAMBDA s : DeviceAndHostMalloc(s, b, i))

HalideDeviceAndHostFree(b) ==
    /\ buf[b].host = "halide" /\ origin[b] # "wrap" /\ NotCropped(b)
    /\ Call(LAMBDA s : DeviceAndHostFree(s, b))

HalideDeviceWrapNative(b, h, i) ==
    /\ buf[b].device = Null /\ Announced(b)
    /\ \A c \in Buffers : buf[c].device # h
    /\ Call(LAMBDA s : WrapNative(s, b, h, i))

HalideDeviceDetachNative(b) ==
    origin[b] # "malloc" /\ NotCropped(b) /\ Call(LAMBDA s : DetachNative(s, b))

HalideDeviceCrop(src, dst) ==
    /\ Call(LAMBDA s : DeviceCrop(s, src, dst))
    /\ \A i \in Interfaces : refused'[i] <= MaxRefused

HalideDeviceReleaseCrop(v) == Call(LAMBDA s : ReleaseCrop(s, v))

\* Between interfaces, into the host memory of the destination on the way.
OverwritesDirty(src, i, dst) ==
    /\ i \notin {None, buf[src].interface} /\ FromDevice(buf[src])
    /\ HasHost(buf[dst]) /\ buf[dst].deviceDirty

\* From a buffer that holds something, at least as large.
HalideBufferCopy(src, i, dst) ==
    /\ content[src].known /\ SizeOf[src] >= SizeOf[dst]
    /\ src = dst => Announced(dst)
    /\ OverwritesDirty(src, i, dst) => MayOverwriteDirty
    /\ Call(LAMBDA s : BufferCopyLocked(s, src, i, dst))

InUse(b, i) == buf[b].device # Null /\ buf[b].interface = i

\* Once no memory of it is in use.
HalideDeviceRelease(i) ==
    (\A b \in All : ~InUse(b, i)) /\ Call(LAMBDA s : ReleaseUnused(s, i))

\* Memory that is in use when reuse is turned on has its exact size.
MixesSizes == \E b \in Buffers, i \in Pooled : InUse(b, i)

HalideReuseDeviceAllocations(flag) ==
    /\ flag /\ MixesSizes => MayMixSizes
    /\ reuse' = flag
    /\ LET unused == {i \in Pooled : ~flag}
       IN  /\ list' = [i \in Interfaces |-> IF i \in unused THEN <<>> ELSE list[i]]
           /\ memory' = [p \in DeviceMemory |->
                            IF \E i \in unused : \E k \in DOMAIN list[i] : list[i][k].ptr = p THEN 0 ELSE memory[p]]
    /\ UNCHANGED <<buf, origin, content, uses, refused>>

\* The client writes to the host, and a kernel to the device, each where the content
\* of the other side has been copied first, and sets the dirty bit.
WriteHost(b) ==
    /\ HasHost(buf[b]) /\ ~buf[b].deviceDirty
    /\ buf' = [buf EXCEPT ![b].hostDirty = TRUE]
    /\ content' = [content EXCEPT ![b] = [known |-> TRUE, host |-> TRUE, device |-> FALSE]]
    /\ UNCHANGED <<origin, memory, list, uses, refused, reuse>>

RunKernel(b) ==
    /\ buf[b].device # Null /\ ~buf[b].hostDirty
    /\ buf' = [buf EXCEPT ![b].deviceDirty = TRUE]
    /\ content' = [content EXCEPT ![b] = [known |-> TRUE, host |-> FALSE, device |-> TRUE]]
    /\ UNCHANGED <<origin, memory, list, uses, refused, reuse>>

Next ==
    \/ \E b \in Buffers : \/ HalideCopyToHost(b) \/ HalideDeviceFree(b) \/ HalideDeviceAndHostFree(b)
                          \/ HalideDeviceDetachNative(b) \/ WriteHost(b) \/ RunKernel(b)
    \/ \E b \in Buffers, i \in Interfaces :
            HalideDeviceMalloc(b, i) \/ HalideDeviceAndHostMalloc(b, i)
    \/ \E b \in Buffers, i \in Interfaces \union {None} : HalideCopyToDevice(b, i)
    \/ \E b \in Buffers, h \in NativeMemory, i \in Interfaces : HalideDeviceWrapNative(b, h, i)
    \/ \E b \in Buffers, v \in Views : HalideDeviceCrop(b, v)
    \/ \E v \in Views : HalideDeviceReleaseCrop(v)
    \/ \E src, dst \in Buffers, i \in Interfaces \union {None} : HalideBufferCopy(src, i, dst)
    \/ \E i \in Interfaces : HalideDeviceRelease(i)
    \/ \E flag \in BOOLEAN : HalideReuseDeviceAllocations(flag)

Spec == Init /\ [][Next]_vars

-----------------------------------------------------------------------------
(* Properties *)

TypeOK ==
    /\ buf \in [All -> [host : {None, "client", "halide"},
                        device : {Null} \union DeviceMemory \union NativeMemory,
                        interface : Interfaces \union {None},
                        hostDirty : BOOLEAN, deviceDirty : BOOLEAN]]
    /\ content \in [All -> [known : BOOLEAN, host : BOOLEAN, device : BOOLEAN]]
    /\ memory \in [DeviceMemory -> Nat]
    /\ uses \in [Interfaces -> Int] /\ refused \in [Interfaces -> Nat] /\ reuse \in BOOLEAN

\* "Buffer has both host and device dirty bits set, which violates a Halide invariant"
\* (HalideRuntime.h:1231): every call that validates the buffer would refuse it.
NeverBothDirty == \A b \in All : ~(buf[b].hostDirty /\ buf[b].deviceDirty)

\* The dirty bits tell which side holds the newest content, and never both: whatever
\* was copied, freed, reallocated, wrapped, or failed on the way, reading the host of
\* a buffer that is not device_dirty, or running on the device one that is not
\* host_dirty, sees the last write.
Coherent ==
    /\ NeverBothDirty
    /\ \A b \in Buffers : content[b].known =>
        /\ HasHost(buf[b]) /\ ~buf[b].deviceDirty => content[b].host
        /\ buf[b].device # Null /\ ~buf[b].hostDirty => content[b].device

\* Memory the driver has allocated is in one place: in one buffer or, once, in the free
\* list.  No two buffers that own their memory share it, none is lost.  A buffer's
\* memory is as large as the buffer, and what is kept for reuse as large as it says.
Holders(p) ==
    {<<b, 0>> : b \in {c \in Buffers : buf[c].device = p}}
    \union UNION {{<<i, k>> : k \in {j \in DOMAIN list[i] : list[i][j].ptr = p}} : i \in Interfaces}

MemoryIsOwned ==
    /\ \A p \in DeviceMemory : Cardinality(Holders(p)) = IF memory[p] = 0 THEN 0 ELSE 1
    /\ \A b \in Buffers : buf[b].device \in DeviceMemory => memory[buf[b].device] >= SizeOf[b]
    /\ \A i \in Interfaces : \A k \in DOMAIN list[i] : memory[list[i][k].ptr] >= list[i][k].size

\* An interface's module is in use once for every buffer that has memory of it, and once
\* more for every crop that failed: it is not unloaded under a buffer, and nothing but a
\* failed crop keeps it.  Views are among them, and what a view is a crop of is still
\* there.  No call but a crop or a wrap that failed leaves a buffer an interface without
\* memory, which every later call refuses.
UsesBalance ==
    /\ TypeOK
    /\ \A i \in Interfaces : uses[i] = Cardinality({b \in All : InUse(b, i)}) + refused[i]
    /\ \A b \in All : IF buf[b].device = Null THEN buf[b].interface # None => origin[b] = "failed"
                      ELSE buf[b].interface # None
    /\ \A v \in Views : buf[v].device # Null => buf[origin[v]].device = buf[v].device
=============================================================================
