# A TLA+ model of Halide's runtime

Halide is a compiler for array code; what it emits is linked with a runtime
(`src/src/runtime`) in C++ that does the locking, scheduling and caching of the
generated pipelines. The compiler itself is made of pure functions from one IR to
another. The state, the concurrency and the failure handling are in the runtime,
and that is what these modules model: from the word-sized lock at the bottom, over
mutexes and condition variables, to the thread pool, and beside it two caches, the
trace buffer, the device interface and the ownership of buffers. Of
the compiler, the parts that decide how the runtime is called are in the models as
well (the number of threads of a task, the protocol of a memoized Func).

Paths below are relative to the repository; `runtime/` stands for
`src/src/runtime/`.

## 1. Inventory

| Component | Source | State | Operations | Modelled |
|---|---|---|---|---|
| word_lock | `runtime/synchronization_common.h` 117-289 | one word: lock bit, queue lock bit, pointer to a stack-allocated list of sleepers | lock, unlock | yes |
| parking lot | same, 291-601 | buckets, each with a word_lock and a list of parked threads | park, unpark_one, unpark_requeue | yes |
| fast_mutex, fast_cond | same, 603-906 | a word with a lock and a parked bit; a word naming the mutex of the waiters | lock, unlock; wait, signal, broadcast | yes |
| halide_cond_with_spinning | `runtime/thread_pool_common.h` 37-80 | a counter over a fast_cond | wait, broadcast | yes |
| thread pool | same, 82-768 | a stack of jobs, teams of sleepers, counters of reserved threads, activations on the threads' stacks | par_for, parallel_tasks, set_num_threads, shutdown, the worker's loop | yes |
| semaphores | same, 770-808 | a counter | init, release, try_acquire | yes |
| task lowering | `src/src/LowerParallelTasks.cpp` | none | min_threads of a task, choice of the entry point | those two |
| memoization cache | `runtime/cache.cpp`, `src/src/Memoization.cpp` | hash chains, LRU list, sizes, use counts | lookup, store, release, set_size, evict, cleanup | yes |
| GPU compilation cache | `runtime/gpu_context_common.h` | an open-addressing table with tombstones, counts of uses | kernel_state_setup, lookup, release_hold, delete_context, release_all | yes |
| device interface | `runtime/device_interface.cpp` | host and device dirty bits of a buffer, device handle and interface | malloc, free, copies, crop, slice, wrap, detach | yes |
| GPU backends, allocation caches | `runtime/cuda.cpp`, `opencl.cpp`, `allocation_cache.cpp` | a free list of device memory | malloc, free, copy, reuse | as the device interface uses them |
| tracing | `runtime/tracing.cpp` | a shared buffer under a shared-exclusive spin lock | trace, flush, set file, shutdown | yes |
| HalideBuffer | `runtime/HalideBuffer.h` | reference counts of host and device allocations | copy, move, assign, crop, wrap, free | yes |
| allocators | `runtime/internal/region_allocator.h`, `block_allocator.h` | linked regions of blocks | reserve, reclaim, collect | planned |
| profiler | `runtime/profiler_common.cpp` | list of running instances, a sampling thread | instance start and end, sampling | planned |
| everything else | GPU backends, Hexagon, front end, lowering passes, code generation, simplifier, serialization, autoschedulers, bindings, tools | see `components` in PROJECT.json | | no, with the reason there |

How they interact, bottom up:

    generated code --- halide_do_parallel_tasks, halide_do_par_for, semaphores
          |                         |
          |                    thread pool         work_queue.mutex, three condition variables
          |                         |
          |              halide_cond_with_spinning     wake_a_team, wake_b_team, wake_owners
          |                         |
          +--- caches --------- fast_mutex, fast_cond  (halide_mutex_*, halide_cond_*)
                                    |
                               parking lot             1024 buckets, by hash of the address
                                    |
                                word_lock              the lock of a bucket
                                    |
                             thread_parker             pthread mutex and condition

    Halide::Runtime::Buffer, generated code
          |
    device interface       under device_copy_mutex, a fast_mutex
          |
    cuda, opencl           free list of device memory, GPU compilation cache

    generated code --- halide_trace --- trace buffer under a SharedExclusiveSpinLock

The pieces call downwards; upwards they communicate through shared words and
callbacks (`validate`, `before_sleep`, `unpark` and `requeue_callback` of a
`parking_control` run under the bucket locks). Threads communicate through the
nodes on each other's stacks: a `word_lock_queue_data`, a `queue_data`, a `work`.
That is the theme of most hazards: a pointer to a stack frame that must not be
left yet, a value read without the lock that covers it, a wake-up that falls
between a check and a sleep, a counter that must balance on every path, and lists
that are edited by one call and walked by another much later. PROJECT.json lists
them at their lines, with the properties that would show them going wrong.

What makes each component correct:

* **word_lock**: one owner; one thread at a time in the queue; the nodes it walks
  belong to threads that still sleep; no sleeper is forgotten; a wanted lock that is
  free is taken.
* **mutexes and conditions**: one owner; no sleeper beside a free mutex without
  somebody on the way; a condition that shows no waiters has none; broadcasts and
  signals reach those who waited when they were called; no deadlock of bucket locks.
* **condition with spinning**: the same contract as one without.
* **thread pool**: every call returns, after all iterations or with an error; a job is
  not touched after its owner has left; the reserved threads balance; nobody sleeps
  while there is something he has to do.
* **caches**: what a client holds stays what it is; a key has one entry; links and probe
  sequences lead to all entries; limits hold for what is not in use.
* **device interface**: the side of a buffer that is not stale is the one that is read,
  whatever failed; device memory is in one place and large enough; modules are in use
  as long as there is memory of theirs.
* **HalideBuffer**: memory is freed once, by the right routine, after the last object
  that has it and the last crop of it.
* **tracing**: the file is made of whole packets in order; a pipeline that has ended is
  in it; every call returns.

## 2. Modules

Each module's header names its grain of atomicity. All of them assume
**sequentially consistent** atomics: the code's acquire, release and relaxed orders
are not modelled, so a missing fence would not show.

### AbstractLock, WordLock, WordLockProofs, MCWordLock

`AbstractLock` is what any lock of the runtime promises: one owner, and (in
`LiveSpec`) a free lock that somebody wants is taken. It promises no order.

`WordLock` is word_lock with an action per access to the word. A node on a
thread's stack is named by the thread, and `next`, `prev` and `tail` are functions
of threads. `expected` is the local copy that compare-and-swap refreshes; when the
code will not read it again it is set to a fixed value, so that states differing
in dead locals are one. `LockFast`..`LockFullWake` are lock() and lock_full(),
`Unlock`..`Unpark` unlock() and unlock_full(): the walk (`ScanStart`, `WalkStep`,
`WalkEnd`), the decision, and the three ways out (leave it to a new holder, empty
the queue, pop its tail). A weak compare-and-swap may fail for no reason. The inner
loop of the code that empties the queue is the pc `"clear"`.

### FastSync, FastSyncHistory, FastSyncProofs, MCFastSync, MCFastSyncHistory

`FastSync` composes fast_mutex, fast_cond and the parking lot, because their
correctness is in how they interlock. The bucket lock is the abstract lock that
WordLock implements (`bucketOwner`). A bucket's list is kept as the address every
thread sleeps at (`parkedOn`) and who is before it there (`ahead`): all the code
reads of a list is the sleepers of one address in their order. What a thread does to
the lists while it owns their buckets is one action; each access to a mutex word or
condition word is its own. `park` is cut into taking the bucket, `validate` and
enqueueing; `unpark` into taking the bucket, picking (with the callback that
stores the word), releasing the bucket (`Release`) and the wake-up after it (`Wake`).
wait() enters the list, runs unlock() by its normal paths, sleeps, and runs lock().
`return` says where an unlock or a notification that was called on the way goes
back to. How often lock_full spins before it parks is left open.

`FastSyncHistory` adds who waited when a notification was called, to state what
signal and broadcast promise to them.

### AbstractCond, CondWithSpinning, CondWithSpinningProofs, MCCondWithSpinning

`AbstractCond` is a mutex with a condition variable as its clients see it. A wait is
released by the next broadcast and by nothing else. `CondWithSpinning` is the
version that spins on a counter before it takes the mutex for a last look and
sleeps. It is shown to implement AbstractCond: the abstract owner is nobody while
a waiter has the mutex for its last look, and the abstract waiters are those whose
`initial` is still the counter. The counter is a natural number up to `MaxCount`;
in the code it is a `uintptr_t`, and a waiter would have to sleep through a full
turn of it to notice.

### ThreadPool, ThreadPoolProofs, MCThreadPool

The pool over that mutex and those conditions, which it uses as their abstract
versions promise: the mutex is held exactly at the pcs of `Locked`, and a
broadcast releases all sleepers of its condition. A thread has a stack of *frames*,
one per activation of `worker_thread_already_locked`: the jobs of the call
that owns it, what it is joining, and the task it runs. That is how a task can call
the pool again from inside the pool. A job is named by its place
`<<thread, depth, index>>`, as it is an address in the code.

`Enqueue` is `enqueue_work_already_locked` with spawning, the over-commit check, the
team sizes and the three broadcasts. `CancelOwned`, `InheritFailure`, `JoinNext`,
`Return`, `StartScan`, `PassOver`, `Take`, `Sleep` are the loop of the worker, one
action per turn; `Claim`, `ClaimEnds`, `IterationEnds`, `CallInTask`,
`ReleaseSemaphore`, `WakeWaiters`, `TaskFails` run without the mutex; `Finish` is
everything from taking the mutex again to the wake-up of the owners.

What the tasks do is a constant, the *program*: for each call its tasks, for each
task its loop type, extent, acquires, and a body that releases semaphores and makes
calls. `MinThreads` is computed from it as LowerParallelTasks.cpp does, and
`IsParFor` chooses the entry point. `MCThreadPool` has the programs:

* `fork`: a producer and a consumer that take turns over a buffer of one slot;
* `batch`: a producer of four and a consumer that takes two at a time;
* `rows`: a parallel loop over forks;
* `outers`: a parallel loop in a parallel loop, nothing blocking;
* `ys`: a parallel loop in a parallel loop over a pair of tasks, one of which waits
  for the other.

### MemoizationCache, MemoizationCacheProofs, MCMemoizationCache

Every call of the cache holds `memoization_lock` throughout and is one action; the
interleaving that matters is that of clients between lookup and store, and
between store and release. The clients are uses of a memoized Func as
Memoization.cpp generates them. The model keeps the pointers: `more` and `less` of the
LRU list and the chains of the buckets, with entries as addresses that can be
allocated again, so that a stale link leads to what the address then holds. Keys
stand for all that is compared (key bytes, bounds, shapes). `fate` records that a
pointer to freed memory was followed, after which the model says nothing more.
`bypassed` becomes true when an entry is pruned past an older one that is in use, which leaves
such a pointer behind (section 4). The loops of prune_cache and of
halide_memoization_cache_evict change the list they walk along: they are recursive functions of
the number of the iteration (`Prune`, `Evicted`), whose steps are `PruneOne` and `EvictFirst`.
The bytes in the cache are counted as a set of slots (`Bytes`).
`Evict` and `Cleanup` are restricted to what their callers can mean: they are called
for what no client is using (see section 6).

### GPUCompilationCache, DeviceProofs, MCGPUCompilationCache

The open-addressing table that CUDA, OpenCL, Metal, D3D12, Vulkan and WebGPU share,
with its probe sequence, tombstones, resizing (including that moving entries can
trigger another resize), and the count that decides about it. A client holds the
module from initialize_kernels to finalize_kernels; other threads release the
device in between. Every call but an insertion is an action, as it holds the mutex from end
to end. `insert` and `resize_table` call each other; here an insertion is a loop that places one
entry a step, and `moving` is what its calls still have on their stack: the entries of
the tables that are being left, and the new one. `Grow` is a resize, `GrowFails` one for which
there is no memory, `Place` and `PlaceFails` are the two ends of insert, and `Turn` is the order in
which the nested calls return. No other call starts in between (`MutexFree`). The memory of any
table may run out. For the new entry that is an error of the call; resize_table ignores it about
an entry that it moves, and `lost` records the keys of those that were in use then (section 4). Names are prefixed (`CacheInit`, `CacheNext`, ...) where
DeviceProofs, which extends this module and DeviceInterface, would have them twice.

### Tracing, TracingProofs, MCTracing

All threads write packets into one buffer. `AcquireShared`, `Claim`, `AddOverage`,
`BackOut`, `Fill`, `ReleasePacket` are `acquire_packet` and `release_packet`, an action
per access to the word of the lock, the cursor and the overage; `Request`,
`TakeExclusive`, `TakeFails`, `Flush`, `WriteFails`, `ReleaseExclusive` are `flush`. A
packet is its size, a byte of the buffer the event and the place in it. `Trace` is
`halide_get_trace_file`, which may open the file and make the buffer. Threads trace for
pipelines: the owner traces the first and the last event, its helpers in between.
Failure to write aborts, after which nothing happens. An exclusive compare-and-swap
that fails asks again (`RetryPc`): taking the lock clears the waiting bit of all.

### DeviceInterface, DeviceProofs, MCDeviceInterface

A buffer is its dirty bits, its device handle and interface, and whether it has host
memory; every entry point of device_interface.cpp is an action. Inside, a call is a
chain of operators on the whole state, one per function of device_interface.cpp and
one per function of the backends it calls, with a result and a *fuse*: the n-th call of
the driver fails, allocations of the backend itself included. So a failure happens at every place a call can fail, after what it
has already changed. The content of a buffer is abstracted to which of its copies hold
the newest one (`content`), and a copy moves that; the code does not know it, and the
dirty bits have to say the same. Interfaces differ: `Pooled` keep memory for reuse, `Croppable` have a crop of their own, and the
handles of `Boxed` ones (OpenCL's) are allocated on the heap, so that wrapping and cropping may
fail half way (`Stranded`, `Refused`) and a crop does not copy the device dirty bit.
The memory of the driver is a set of handles with
sizes, so that CUDA's free list can lose one, use one twice or hand out one too small.

What the clients do is what the header tells them: they mark what they write, copy
before they read or run, and do not free what is cropped or wrapped (`Announced`,
`NotCropped`, and the guards of the actions). Calls are atomic: copies, crops and slices
run under `device_copy_mutex`, the others on a buffer only their caller has.

### HalideBuffer, HalideBufferProofs, MCHalideBuffer

`Halide::Runtime::Buffer` above that interface, reduced to who owns what. An object has
a host allocation, a device handle, and perhaps a pointer to a `DeviceRefCount`; as a
handle never has two counts, counts have the names of handles. `Incref`, `Decref`,
`CropFrom` and `DeviceCropped` are the functions of those names, and methods are chains of
them. The count of a crop holds an object of its own, so dropping a crop may drop what
it was a crop of: `LetGo` is decref of the device without that, `Beneath` what is to be
dropped with the count, and `DropDevice` the two. In the code the destructor of
`cropped_from` could go on downwards; it does not, because a crop of a crop is made of the
original (`complete_device_crop`, `521`). The model takes one step down and calls it misuse
if there is more, and the theorem `ReleasedOnceAlways` says that there never is.
A device_wrap_native that fails leaves a count and no device memory; in the model that count has a
handle of the kind `"failed"`, which no routine of the interface is called for, and for which
`Seen` is what incref sees of its object: no device.
Every release goes through `Release`, which knows how the handle was obtained and
whether crops of it live.

## 3. Runs

| Run | Instance | What it asks | Distinct states |
|---|---|---|---|
| `word_lock` | 3 threads, SpinCount 2, with fairness | exclusion of the queue, nodes outlive their use, sleepers are queued, refinement of AbstractLock, safety and progress | 10,059 |
| `fast_sync` | 3 threads, 2 mutexes, 2 conditions, colliding crosswise | exclusion, no stranded sleeper, conditions track waiters, unparks reach sleepers, no bucket deadlock, what broadcast and signal promise | 464,762 |
| `fast_sync_live` | 3 threads on a mutex, one of them also on a second mutex that shares a bucket with the condition, with fairness | the mutex implements AbstractLock with progress; calls end | 90,405 |
| `cond_with_spinning` | 3 threads, SpinLimit 2, 4 broadcasts, with fairness | refinement of AbstractCond, nobody oversleeps, calls end | 195,277 |
| `thread_pool` | 1 client, 2 workers; `fork`, `batch`, `rows`, `ys` in turn; producers may fail; with fairness | reservations balance, the queue holds the rest, failures reach their owner, nothing is left behind, success means done, calls return | 135,484 |
| `thread_pool_clients` | 2 clients, 1 worker, nested parallel loops, changing the number of threads, shutdown | never stuck, success means done | 158,675 |
| `memoization_cache` | 3 clients, 3 keys, 3 entries, 2 buckets | one entry per key, use counts, buffers outlive their use, the LRU order, pruning makes room | 146,748 |
| `memoization_cache_chains` | the same | violated: the links miss entries | |
| `gpu_compilation_cache` | 2 clients, 2 contexts, 2 pipelines, 4 modules, tables of 2 to 16 slots, any allocation of a table may fail | probes find entries, held modules stay but for those that a nested resize had no memory to move | 367,123 |
| `tracing` | 4 threads, two pipelines, one with two helpers, 7 events, a buffer of 3 bytes, writes may fail; with fairness | the lock is exact, the file is whole, an ended pipeline is written, calls end | 131,763 |
| `device_interface` | 2 buffers of 16 and 17 bytes, a view, a pooling and a plain interface, 2 device allocations and a wrapped one, up to 3 driver calls before a failure, 1 crop refused | coherent, memory is owned, module uses balance | 239,020 |
| `halide_buffer` | 3 objects, 2 host allocations, 4 device handles, wraps may fail | counts are exact, released once | 48,723 |

Why the bounds are enough to mean something:

* *Threads.* Three are the least with which a lock has a holder, a sleeper and a
  thread that overtakes it, a queue has a middle, and a broadcast has one waiter to
  wake and one to move. The proofs of section 5 remove the bound for the safety
  properties of the locks and the pool.
* *Buckets.* `Crosswise` puts each condition into the bucket of the other's mutex,
  and of a mutex it may itself be used with. `Layout` gives the mutex whose progress
  is checked a bucket of its own: as word_lock promises no order, threads that keep
  using a condition in the same bucket could keep a thread from it for ever.
* *SpinCount, SpinLimit = 2* give a spin that ends early and one that runs out; 40 in
  the code. *MaxCount = 4* broadcasts let a thread wait again before an old waiter has
  returned.
* *Pool.* Extents of 2 and 4 let a loop be split, finished by others than its owner,
  and, for `batch`, a batch start half acquired. `DefaultThreads` is one above the
  number of workers, as the owner counts. Workers bound what is spawned,
  as MAX_THREADS does in the code: `rows` would ask for three, and runs with the two there are.
* *Memoization cache.* Sizes 1, 1, 2 against limits 2 and 3 make the cache prune none,
  one and two entries; two keys collide in a bucket. `MaxOverstated` caps the drift of
  the recorded size through evictions.
* *GPU cache.* Of four hashes three collide at the last slot of the first table, so
  probes wrap around. The first table has 2 slots (128 in the code), so that a few
  entries fill it once `count` has sunk below their number, and a few moves of entries start the
  next resize. `MaxBits = 4` caps its size, `MaxDrift = 1` how far `count` may sink, and
  `MaxLost = 1` how many entries in use are lost for want of memory: it is enough for the entry to be
  compiled anew while its first client still runs, and for that client's release to go
  to the second entry. Client, pipeline and module symmetry.
* *Tracing.* With packets of 1 and 2 in a buffer of 3, the buffer overflows with room left
  that a smaller packet still takes, several threads add overage at once, and the
  flush at the end of a pipeline meets writers of the other.
* *Device interface.* 16 and 17 round to 16 and 18, so the memory of one buffer may or
  may not do for the other. `MaxDepth = 0` cuts the list at its second item (32 in the code).
  No call makes more than a few calls of the driver; `MaxFuse = 3` covers a second
  and a third that fail, 0 is no failure. `MaxRefused = 1` bounds the crops of each interface that
  fail, as each leaves a use of the module for ever.
* *Objects.* Three objects and four handles give a crop of a crop of memory that a copy
  still has, with one more handle to be freed in between.
* *Symmetry* is used only in runs without liveness, over sets whose members are
  interchangeable in every definition of the instance.

### Fairness

Weak fairness is assumed of the *steps inside calls* of each thread: the OS runs
every thread that can run. No client has to call anything or, for the locks, to
unlock. Strong fairness is assumed of one thing: a compare-and-swap that could
succeed again and again does (`SwapNext`, `LeavesLoop`), which also covers leaving
the spin loop of lock_full; the loops of the code have no other way to end under
contention; and in tracing for the two compare-and-swaps of the spin lock. As word_lock and fast_mutex let newcomers overtake, no thread is promised
the lock while others keep coming; `CallsEnd` and `CallsReturn` therefore say that
calls end *once clients stop calling*. `AbstractLock!Progress` says that the lock
keeps moving even if they do not.

`CHECK_DEADLOCK FALSE` is set where the system may stop: every client may sleep on a
condition that nobody signals, bounded counters run out, or the caches reach a state
after which the model says no more. The runs of `word_lock` and the thread
pool do check it.

## 4. Findings

One run is a finding; TLC must find it violated:

1. **A link into a freed entry** (`runtime/cache.cpp:301`). Pruning an entry from the
   middle of the list assigns a field of the entry instead of its neighbour's
   `more_recent`. The next touch of the neighbour writes through the stale link; the
   consistency check of `validate_cache` would trap.

Six more have a configuration of their own that is not among the runs; TLC
finds each violated with `tlc -config <cfg> <module>`:

2. **A failure that does not reach its owner** (`runtime/thread_pool_common.h:458`;
   `MCThreadPoolLostFailure.cfg`, MCThreadPool, `FailureReachesOwner`).
   The siblings of a failing job are marked, and their sleeping owner is to be woken
   if `job->active_workers == 0`, but the failing worker has not been subtracted yet.
   If the owner of a fork sleeps on the producer while the consumer fails on a
   worker, the call never returns.
3. **A wake-up lost with a stolen job** (`:415`; `MCThreadPoolLostWakeup.cfg`,
   `NeverStuck`). A serial job with iterations left is
   put back on the queue without a wake-up; an owner who stole it and whose own job is
   over leaves without looking at the queue. A release in between found nobody to
   wake for it. Needs two clients.
4. **Over-commit** (`:570`; `MCThreadPoolOverCommit.cfg`, `NeverAborts`). The threads
   promised to the workers of a job are one
   account, and the nested loop enqueued by one worker may take all of it; the next
   worker's nested call fails the assertion and the program aborts. Needs a blocking
   fork two parallel loops deep, and five threads.
5. **Both dirty bits** (`runtime/device_interface.cpp:572-575`;
   `MCDeviceInterfaceBothDirty.cfg`, MCDeviceInterface, `NeverBothDirty`). A copy between
   interfaces through the destination's host memory sets `host_dirty` on a
   destination that may be `device_dirty`; copy_to_device then refuses the buffer, as does
   every later call, and it cannot be freed. HalideRuntime.h:1231 calls it a
   violation of an invariant. The clients of the run `device_interface` do not copy to a
   dirty destination this way (`MayOverwriteDirty`).
6. **An entry in use lost by a nested resize** (`runtime/gpu_context_common.h:113`;
   `MCGPUCompilationCacheLostEntry.cfg`, MCGPUCompilationCache, `ReleasesFind`). An insertion
   within resize_table may resize again, and when there is no memory for that table the entry that
   was to be moved is dropped without an error. If a client runs with it, release_hold finds
   nothing ("Value must be in cache to be released", an assertion at 228), or finds the
   entry of a second compilation of the same kernel, whose `use_count` is then too low: it is
   unloaded while others run with it. A nested resize needs `count` to have sunk below the
   number of entries first, which takes two releases of a device (`139`): the second counts the
   slots down again that the first has emptied.
   `HeldModulesStay` says that no other key is touched by any of this.
7. **The count of a wrap that failed** (`runtime/HalideBuffer.h:1854-1856`;
   `MCHalideBufferFailedWrap.cfg`, MCHalideBuffer, `CountsAreExact`). device_wrap_native makes
   the `DeviceRefCount` before the interface may fail. incref counts only where there is device
   memory (290), so a copy of that object shares the count uncounted and both delete it; and
   memory the object is given by other means will be released by detach_native. The clients
   of the run `halide_buffer` neither copy such an object nor give it memory
   (`MayReuseFailed`); they may move it, wrap again, detach or destroy it.

Observed and not made runs: tasks of extent 0 shift the copy loop of
`halide_default_do_parallel_tasks` (`thread_pool_common.h:690-694`), so that jobs which were never
written are enqueued, of which a model can say nothing; eviction frees
buffers in use and does not reduce the recorded size (`cache.cpp:600`); the entry
count of the GPU cache drifts in both directions (`gpu_context_common.h:105-112`,
`139`). Once it is too low, insert can find the table full, and a resize can start another,
both of which the comments at `64-66` and `113` call logic errors that should never occur; TLC
reaches both in the instance of `gpu_compilation_cache`, and the theorems hold with them: as long as
there is memory, a client is told that its kernel could not be set up, and nothing else is
lost. Without, they lead to finding 6. The question in the TODO at `thread_pool_common.h:783`, whether a
release should wake sleepers only from 0, comes out harmless
in `batch`.

Of the device interface: a buffer whose pool memory was allocated while reuse was off
(exact size) and freed while it is on enters the list with its rounded size and may be
given to a larger buffer (`cuda.cpp:673`, `822`), which is why the clients of the model turn
reuse on only with no such memory in use (`MayMixSizes`); HalideRuntime.h:2104 says that reuse is off by
default, `allocation_cache.cpp:10` that it is on. `halide_device_crop` and
`_slice` keep the module in use when the implementation fails (`661`, `692`): `refused` counts
these, and the balance of `UsesBalance` is off by exactly as many.
`halide_device_wrap_native` sets the interface before the implementation may fail (`396-398`), and
so does the crop of opencl.cpp (`1298-1313`), which leaves an interface without a handle; the
property says that no other call does. Every later call that validates the buffer refuses
it (`halide_error_device_interface_no_device`, `104-107`). `halide_copy_to_device` after `halide_device_free` of
a buffer that is clean on the host does not copy it (`Announced`).

Of HalideBuffer: `device_and_host_malloc` does not record the ownership
`AllocatedDeviceAndHost` that decref looks at (`HalideBuffer.h:181`, `1881`), so the last
object frees the device half only; with `MayDropBoth = TRUE` TLC shows it. Two threads
that copy the same const Buffer race on the creation of its count (`298`).

Of tracing: for a descriptor of its own that a client sets no buffer is ever made
(`tracing.cpp:198`), so the proofs assume `NoDescriptorOfItsOwn` and the run has none;
`halide_set_trace_file(0)` in the middle of a pipeline leaves packets unwritten.

## 5. Proofs

TLAPS checks these for every number of threads, mutexes, conditions, buffers, calls and tasks,
every hash, every program of the pool and every bound. The assumptions are the named ones of
the modules: the null values are outside of the sets (`NoThreadAssumption`,
`NullThreadAssumption`, `NullAssumption`), mutexes and conditions are different addresses
(`CondAssumption`), hashes are numbers (`BucketAssumption`), bounds are numbers
(`SpinCountAssumption`, `BoundAssumption`), packets fit into the buffer (`EventsAssumption`), what
buffers there are, with which sizes and interfaces (`DeviceAssumption`), that calls consist of
tasks which need some number of threads (`ProgramAssumption`, `NeedsAssumption`), that
threads are finitely many (`ThreadsAssumption`), that a cache has finitely many clients and addresses, a bucket for each key and
results of at least a byte (`CacheAssumption`), that Buffer objects and device handles are
finitely many and 0 is no memory (`HalideBufferAssumption`), and that kernels are hashed to slots
of the table, whichever (`GPUCacheAssumption`). Where a theorem needs more, its
statement says so:

* `FailuresReachOwners` assumes of the program that the tasks that may fail, and those that call one
  of them, are the first of their calls (`FailsFirst`); TLC checks that this is so of the
  program of run `thread_pool`, whose producer fails. `ParForFailuresReachOwners` assumes only that
  every call has one task, as those of halide_do_par_for do. The configuration
  `MCThreadPoolLostFailure` shows what happens when a second task fails, a finding of section 4;
* `LoopsAreNeverStuck` and `LoopFailuresReachOwners` assume that the tasks that are called acquire no
  semaphore and need no threads (`NothingBlocks`), as with parallel loops and forks of plain tasks,
  nested to any depth; TLC checks that this is so of the program of run `thread_pool_clients`.
  `MCThreadPoolLostWakeup` shows what happens otherwise, a finding of section 4;
* the theorems about Tracing assume `NoDescriptorOfItsOwn` (the client redirects tracing to text
  or to nothing, not to a descriptor of its own, for which the code makes no buffer);
* `CoherentAlways` assumes that no copy between two interfaces goes over a destination
  that is dirty on its device. The configuration `MCDeviceInterfaceBothDirty` shows what
  happens otherwise, a finding of section 4;
* `MemoryIsOwnedAlways` assumes that reuse is not turned on while memory of a pooling interface is
  in use, which would be listed as larger than it is (observed in section 4). `UsesBalanceAlways`
  and `TypeCorrect` assume nothing;
* the theorems about HalideBuffer assume `MayDropBoth = FALSE`: an object with memory of
  device_and_host_malloc is freed with device_and_host_free, and neither copied nor destroyed
  with it, as decref does not free it right (observed in section 4); and `MayReuseFailed = FALSE`:
  an object whose device_wrap_native failed is not copied and not given other memory.
  `MCHalideBufferFailedWrap` shows what happens otherwise, a finding of section 4.

| Module | Theorem | Property |
|---|---|---|
| WordLockProofs | TypeCorrect, LockExcludes, QueueExcludes | TypeOK, MutualExclusion, QueueExclusion |
| | Refinement | WordLock implements AbstractLock (safety) |
| | NodesOutlive, SleepersQueued | NodesOutliveTheirUse, SleepersAreQueued |
| FastSyncProofs | TypeCorrect, MutexesExclude | TypeOK, MutualExclusion |
| | SleepersAnnounced, NobodyIsStranded | SleepersAreAnnounced, NoStrandedSleeper |
| | ConditionsTrackWaiters, UnparksReachSleepers | CondTracksWaiters, WakesSleepers |
| | BroadcastsDoNotDeadlock | NoBucketDeadlock |
| | EveryMutexIsALock | every mutex of FastSync implements AbstractLock (safety) |
| CondWithSpinningProofs | TypeCorrect, WaitersAreReached | TypeOK, NobodyOversleeps |
| | Refinement | CondWithSpinning implements AbstractCond |
| ThreadPoolProofs | Invariance | the inductive invariant |
| | QueueHoldsTheRestAlways, ReservationsBalanceAlways | QueueHoldsTheRest, ReservationsBalance |
| | CallsLeaveNothing, SuccessIsDone | CallsLeaveNothingBehind, SuccessMeansDone |
| | FailuresReachOwners, ParForFailuresReachOwners | FailureReachesOwner, of programs whose first tasks fail |
| | LoopsAreNeverStuck, LoopFailuresReachOwners | NeverStuck and FailureReachesOwner, of programs in which no task waits |
| MemoizationCacheProofs | Invariance | the inductive invariant |
| | OneEntryPerKeyAlways, InUseCountsUsersAlways | OneEntryPerKey, InUseCountsUsers |
| | BuffersOutliveTheirUseAlways, LruIsExactAlways | BuffersOutliveTheirUse, LruIsExact |
| | ValidUntilBypassed | ChainsHoldAllEntries, until an entry is pruned past an older one |
| | RoomIsMade | PruneMakesRoom |
| | EvictionIsComplete | an eviction leaves nothing with its key |
| TracingProofs | TypeCorrect, LockExact | TypeOK, LockIsExact |
| | FlushExcludes | no packet is claimed or filled while the buffer is flushed |
| | FileIsWholeAlways, EndedIsWritten | FileIsWhole, EndedPipelineIsWritten |
| DeviceProofs | TypeCorrect, MemoryIsOwnedAlways | TypeOK, MemoryIsOwned |
| | UsesBalanceAlways, CoherentAlways | UsesBalance, Coherent |
| | QuantizeRoundsUp | what the free list says of a size is no less than the size |
| | EntriesAreFound, ModulesInUseStay | ProbesFindEntries, HeldModulesStay of GPUCompilationCache, all allocations failing |
| HalideBufferProofs | Invariance | the inductive invariant |
| | CountsAreExactAlways, ReleasedOnceAlways | CountsAreExact, ReleasedOnce |

**WordLock.** For the two exclusions the invariant is `TypeOK`, themselves and
`WalkOnNodes`. The two bits of the word protect each other: a compare-and-swap succeeds only on the
word its thread has read, so a swap that sets the lock bit leaves the queue lock bit as it is
now, and the other way round. `WalkOnNodes` is there because the thread that takes the
queue must have seen a head, for `QueueExclusion`'s last conjunct.

The queue is a list in the nodes, and what it holds would be a recursion over data. The
invariant `QueueInv` says instead that there is a function `q` and two numbers with `q[lo] ..
q[hi]` the queue from its tail to its head: enqueueing extends it at `hi`, popping
shortens it at `lo`, and no step needs induction. `Line` is what the `next` links say, `Parked`
that exactly those sleep who are in it or about to be woken, `Known` which part of
it the `prev` links and the cached tail already cover, `Walks` where the thread that processes the
queue is. Only the thread with the queue lock takes nodes out, so it never finds the
queue empty and the inner loop's `pc = "clear"` is proved unreachable. `SleepersAreQueued` is
stated with a recursive function (`Reach`, a walk from the head); the proof gives its values in
closed form (`Seen`) and shows that there is no least argument at which they differ. That every
sleeper is reached within as many steps as there are threads needs that threads are finitely many.

**FastSync.** `NoStrandedSleeper` alone is far from inductive. The argument goes by who
owns which bucket. `LocalInv` says which locals a thread has in which call, and
`BucketInv` which buckets it owns, in `lock_bucket_pair`'s order; from it
`NoBucketDeadlock` follows. `ListInv` says that a listed thread sleeps, or is on its
way, at its own mutex or condition. `CondInv` ties each condition to the mutex of its
waiters, except while a broadcast that has untied it owns its bucket; hence the
waiters a broadcast moves to its target mutex are waiters *of* that mutex, and
`CondTracksWaiters` follows. `WordInv` says that the parked bit is set wherever
threads sleep, are being listed, or are being moved. With that, an unlock on the
fast path has nobody to strand, and an unlock on the slow path takes the first
sleeper out, who will lock. The delicate step is the move of a broadcast that
found the mutex free and wakes one: that one is out of the list, and either the mutex has
been taken meanwhile, or he cannot be its holder and so is on his way
(`SleeperWillLock`). `EveryMutexIsALock` maps each mutex to a lock of its own, with its holder as
the owner and the threads past their first compare-and-swap as the waiters: a step takes the
lock, asks for it, frees it, or keeps every thread's role (`KeepsRole`), and a step at one mutex
is invisible at the others. The proof has a lemma per part of the invariant and a step per action;
frame lemmas (`CondFrame`, `HoldFrame`, `StrandFrame`) take the actions that cannot
disturb a part.

**CondWithSpinning.** The invariant adds where the owner of the mutex can be (and
that a thread there is the owner), that the threads on the condition are at the pc
`"sleep"`, and how each `initial` lies to the counter: never above it, below it for
those that go on without the mutex, and below it for all waiters while a broadcast
is under way. The last look with the mutex held is what keeps `NobodyOversleeps`. In the refinement,
`SpinSeesBump` and the spins are stutters, `GiveUp` a stutter because the owner that
takes a last look does not show, `Sleep` a stutter as well, and `Broadcast` moves all
abstract waiters at once by the definition of `StillWaiting`.

**ThreadPool.** The invariant `IInv` has these parts, besides the types:

* `PcInv` and `NestInv`: where a thread is in the code, and how its frames nest: a frame above
  another is a call made by the task that runs below, and its parent is that task or nobody.
* `RunInv`: who works on a job works on one that is there, and on as much of it as it has
  claimed. A frame that somebody works on cannot be returned from, so no job is freed under its
  worker.
* `ActiveInv`: `active_workers` is the number of frames that run the job, and a serial task has
  at most one.
* `QueueInv` and `FreshInv`: a job is in the queue once if it was entered, has iterations left
  and (a serial one) nobody works on it, and not otherwise; nobody knows of a job before it is
  entered.
* `JoinInv`: the jobs an owner has joined are over, and a failure among them is in the frame
  or has been passed on to all that are left. That makes `Return` safe: all jobs of the frame
  are over when the last is.
* `AccountInv`: the iterations of a job that has not failed are to be had, under way, or done.
  With `JoinInv` it gives `SuccessMeansDone`.
* `BalanceInv`: the threads reserved on a job, or in the pool, are the sum of what the running
  jobs below it need.
* `ScanInv`, `ShutInv`: the cursor stays in the queue while the mutex is held; a shutdown
  joins workers when no client is in a call.

A sum over a set that changes by one element is the hard part for this prover, because a fold
is a recursion. `Total` is therefore the size of a set of slots, as many for each summand as
its value, and `TotalGrows` follows from the library's facts about cardinalities. Actions that
change nested stacks are reduced by lemmas about one frame, one job, or one run that is set
(`FrameChange`, `JobIsSet`, `RunIsSet`), so that each action is shown to be one of a few
*effects* (`Quiet`, `Effect`, `Marks`, `Pushes`, `Spawned`), and each part of the invariant to
survive the effects that touch it. The queue part needs that removing and concatenating
sequences keeps them without repetitions (`RemoveAtRemoves`, `ConcatInjective`). For the two
action properties, `OnlyReturns` shows that no step but `Return` lowers a stack whose thread
is in the loop.

`FailureReachesOwner` needs `IInv` and `FailureInv` besides. Its part `WatchInv` is the property
itself, said also of an owner who looks for work, as it does not let go of the mutex between
the look at its own job and going to sleep. What has to be excluded is that a failing job
takes a sibling with it whose owner sleeps and is not woken. So `FramesOk` follows the failures: a
run fails with its job, and a call with the task that makes it (`FailOk`, `BlameOk`), so that
the job of a failed run is of a task that may fail or had failed already; and a job after the one that is
joined fails only with all of them (`LaterOk`). Now a job that fails first is the first of its call.
It is the one its owner waits for, because it cannot run once it is joined, and whoever is the last to
finish it wakes the owner. If the job had failed already, so had those left, and nothing new fails.
A step is one of a few kinds again: `Calm` steps fail nothing, `FailuresMove` covers those after
which something has failed, and `CallFails` and `ReturnFails` those after which there is a frame more or less.

`NeverStuck` needs `IInv` and `LoopsInv`. `WaitInv` says what a sleeping owner knows: that nothing of
its job is left to be taken (`Spent`) and that the job is not over (`Awaits`), so that somebody works
on it. It is so when the owner goes to sleep, because the scan would have taken its job had it
been in the queue (`OwnIsTaken`: without semaphores it can be made runnable, and as nothing is
reserved there are always threads enough); it stays so because extents only decrease, and because whoever
ends the work on a job that is over wakes its owner (`FinishLoops`). If everybody slept, then the one
who works for a sleeping owner would itself sleep in a call further up its stack, and so on;
that this cannot go on in a circle is what `AgeInv` says. The frames can be given ages that increase up
each stack and from a job to the calls its workers make: every new frame is the youngest
(`AgesGrow`). So the sleeper with the youngest frame (`Largest`) waits for somebody who is awake
(`SomebodyAwake`). `Within` says that only calls of the program in question are under way.

**MemoizationCache.** A cache is a value, and each function of cache.cpp an operator on it, so
the proof goes by operator. The invariant of a cache, `Good`, is that the chains hold every entry
once and in its place (`Placed`), that no two have the same key (`Distinct`), that `recency` has
exactly the entries (`Remembered`), and that the links lead through them in that order
(`Ordered`). The last part is claimed only while nothing has been bypassed, because it does not
hold afterwards: that is the finding of section 4. The other parts, and with them the use counts
and the lifetime of the buffers, do not depend on the list and hold all the same, whatever a
stale link leads to. `Sized` says that the recorded size is never below the bytes in the cache,
which keeps the subtraction of a failed store and of a pruned entry from going below zero. Of the
clients the invariant adds what they hold at each `pc` (`ClientInv`); `in_use_count` is the size of
the set of buffers in hands, which a hit or a store enlarges by `TupleCount` and a release by one
less (`HandsMore`, `HandsLess`).

Unlinking, putting to the front and destroying an entry each have a lemma for what they do to the
fields and one for the list (`UnlinkLinks`, `AtFrontLinks`). For the walk of prune_cache, `PrunedTo`
says what is so after each step: what is taken out had no users and its bytes are off the size;
what lies ahead on the list is untouched; and what lies behind is gone or in use, or there is room
already. As the list is no longer than there are entries, the walk passes all of it, hence
`PruneMakesRoom`. Lacking induction, the proof takes the least step after which this would be
false. The same argument, with the number of entries that are still to be evicted, gives
`EvictionIsComplete`.

`BuffersOutliveTheirUse` rests on the restriction of `Evict` to what nobody uses, which is a guard of
the model's clients and not of the code (section 6).

**Tracing.** The invariant of the lock is `LockIsExact`, the types, `UnderWay` (a thread on its way
has an event left) and `BufferFollowsFile` (tracing to a file has a buffer). The count in the word is
the cardinality of the set of writers: the lemmas `WriterJoins`, `WriterLeaves` and `WritersStay`
say what a step does to it, and `NoWriters` turns a count of 0 into nobody, which is what a
flush relies on.

For the file the invariant says that there is a *plan* `T` (`PlanInv`): the file, followed by the
claimed packets as they will be when they are filled. The plan is whole at every step, the
buffer agrees with it except where somebody is filling, and a flush, which is alone with the
buffer, makes the file equal to it. Where the plan ends is the delicate part, as packets that do
not fit push the cursor beyond the buffer and are counted in the overage: `End` is the cursor
less the bytes of those who are about to add or have added overage, and `EndInv` keeps it within
the buffer. `EnderInv` and `TailInv` add that the last event of a pipeline comes after its
helpers are done, so that its flush writes all of them.

**DeviceInterface.** A call is a chain of operators on the whole state that may fail at each
link, so the proof goes by operator: for each function of device_interface.cpp and of the backends
a lemma says what it does in success and in failure (`ImplMallocMallocs`,
`CopyToHostLockedBrings`, `CopyViaSourceArrives`, ...), in terms of a few relations between states (`Gets`,
`LetsGo`, `Keeps`, `KeepsView`, `Arrives`), and those keep the two halves of the invariant. `Sound` is
about memory: a handle is in one buffer, or once in one free list, and no live one is lost; it
is as large as its buffer, and where it will go to the free list as large as the list will say
(hence `QuantizeRoundsUp`); views have the memory of their origin; and the uses of a module are
those that have memory of it and the crops it has refused, whichever link of the chain failed. `Seen` is about content: the
newest one is where the dirty bits say. That quantization rounds up holds for all sizes; as
induction is out of reach, the proof takes the least power of two that would be a counterexample.

**GPUCompilationCache.** The properties say what is true of the table between calls, and in the
middle of an insertion they are not: entries that were taken out of a smaller table are in no
slot. So the invariant `CacheInv` speaks of the entries in the table and in `moving` together.
`Distinct`: no two have the same key, and no two the same module, so that the use of one is not
taken for that of another. `Held` and `Counts`: a client that runs has an entry, and an entry's
`uses` is the number of its holders, for keys that are not `lost`. A lost key may be compiled
again, and then two clients of one key run with different modules; that this stays
between them is `Owners`: who runs with the module of an entry runs with its key. `Reachable`: no slot that was never used lies before an entry
where the search for it starts; unloading keeps it as it leaves a tombstone, placing as it takes
the *first* free slot, growing as it starts from an empty table. From the two, a search ends at the one
entry there is (`FindsEntry`). What no test would see is `HasRoom`: as soon as the table has grown, the
entries in it and those to be moved are no more than its slots, since they were no more than
the slots of the table before; hence every old entry that has got its table finds a place (`FreeExists`), and only a
new one in a table that did not grow can find none. This does not use `count`, and must not:
`count` drifts. `IdInv` says that as many ids are out as pipelines have one, so a new id is nobody's.
That a table doubles (`PowerDoubles`) is shared with the free lists of DeviceInterface.

**HalideBuffer.** A method is a chain of counting operators, and in the middle of it some
memory is held by nobody's object: what incref has counted for a copy that is not there yet,
or what decref is about to drop. So the invariant `Good(f, s)` is one of a state `s` and of a
function `f` that says who holds what: the client's objects and three temporary ones. Each
operator has a lemma that says which holder it fills, empties or replaces (`DropHostGood`,
`LetGoGood`, `IncrefGood`, `AdoptedGood`, `CropGood`, `NewCountGood`, ...). A method is then a
chain of such steps at the end of which the temporary holders are empty and `f` is what the
objects are (`Held`). Its parts:

* `AllocsExact` and `CountsExact`: a count is the number of its holders plus the number of
  counts of crops that hold it. A change of one holder shifts a cardinality by one
  (`OneChanges`, `HoldersChange`, `CountChanges`).
* `CountFits`: how a count was made agrees with what the handle is. Hence the last holder calls
  the right routine.
* `CropFits`: what a crop's count holds is counted and is no crop. Hence memory under a crop has
  a holder that is not the last one (`NoCropOfIt`), and one step down is enough in
  `DropDevice`.
* `OwnerFits`: memory without a count has one holder, and memory without a holder is not there.
  That is what makes the count that a first copy creates start from one (`AdoptedGood`).

**Model-checked only.**

* Liveness, and the progress half of the refinements, are out of this prover's reach.
* FastSyncHistory's properties are checked on its instance.
* `NeverStuck` and `FailureReachesOwner` of ThreadPool do not hold of every program, as findings 2 and
  3 of section 4 show, and are proved for the programs named above. That a fork of tasks that wait
  for each other's semaphores is not stuck when one client runs it is only model-checked.
* `TypeOK` of the modules with proofs is proved and not checked by a run; elsewhere it is a
  conjunct of an invariant.

## 6. Limits of the models

* Memory orders, see above. `thread_parker`'s pthread mutex and condition, thread
  creation and joining are taken to do what POSIX says, and to succeed.
* A client of FastSync holds at most one mutex at a time, and waits with a mutex it holds.
  The spin counts of lock_full are nondeterministic.
* ThreadPool: shutting down while a client is in a call is not modelled, as the
  runtime shuts down from a destructor; nor are custom do_task and do_par_for
  handlers, nor tasks of extent 0. Semaphores are those of the call that made them.
* MemoizationCache: device copies of the buffers are not modelled. `Evict` and
  `Cleanup` happen only when no client uses what they free; the code does not check it
  and the header does not demand it.
* GPUCompilationCache: running out of ids is left out. Of a key that a nested resize lost, only
  what it does to the others is said.
* Tracing: the file is set before anything is traced, and tracing is shut down outside of
  all pipelines. What the packets hold, and text output, are left out.
* DeviceInterface: shapes, copies of parts of buffers, and device_sync are left out, and
  content is one value a buffer. No two threads use one buffer at a time.
* HalideBuffer: shapes, dirty bits and threads that share an object are left out; objects with
  memory of device_and_host_malloc are freed with device_and_host_free, and objects whose wrap failed
  are not copied. Releases by the interface succeed.
* Counters that only grow in the code are bounded by the constants named in section 3.

### Not modelled

The compiler (front end, lowering, simplifier, code generation, serialization) is made of
pure functions over an IR of hundreds of node types: there is no state to explore, and what a
pass must preserve is the semantics of the IR, which has no bounded instance small enough to
enumerate and to mean something. The autoschedulers are searches whose result is legal by
construction. GPU and Hexagon backends beyond what the device interface uses are calls of
vendor libraries. Applications, tools, bindings and vendored headers hold no logic of the
system. By lines these are nearly all of the repository; the modules cover the part with
state and concurrency.

## 7. Plan

Built so far, in this order: WordLock, FastSync, CondWithSpinning, ThreadPool,
MemoizationCache, GPUCompilationCache, Tracing, DeviceInterface, HalideBuffer, with the
proofs of all of them. Next:

1. **RegionAllocator** and **BlockAllocator**: the regions tile their block in order; free
   neighbours are merged; what is in use is not collected.
2. **Profiler**: the list of instances against the sampling thread, and its start and stop.
3. **ModulusRemainder** and **ConstantInterval** as pure operators against the sets
   of integers they stand for.
