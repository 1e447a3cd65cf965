------------------------ MODULE GPUCompilationCache ------------------------
(***************************************************************************)
(* The cache of compiled GPU kernels (src/runtime/gpu_context_common.h):   *)
(* an open-addressing hash table from a device context and the id of a     *)
(* pipeline to the module compiled for them, with a count of the pipelines *)
(* that are running with it.  CUDA, OpenCL, Metal, D3D12, Vulkan and       *)
(* WebGPU each have one.                                                   *)
(*                                                                         *)
(* A client is a run of a pipeline: halide_*_initialize_kernels takes a    *)
(* hold of the module, halide_*_run looks it up and                        *)
(* halide_*_finalize_kernels gives the hold back.  Other threads release   *)
(* the device in the meantime (delete_context); release_all is called by   *)
(* the destructor of the runtime, when no pipeline runs.  Every call holds *)
(* the mutex of the cache from end to end and is one action, but for an    *)
(* insertion: its loop moves one entry per step, and moving one may start  *)
(* the loop anew.  No other call comes in between.  Every allocation of a  *)
(* table may fail.                                                         *)
(***************************************************************************)
EXTENDS Integers, FiniteSets

CONSTANTS Clients,
          Contexts,
          Pipelines,    \* each has a state pointer that keeps its id
          Modules,
          Nil,          \* nullptr
          KernelHash,   \* kernel_hash
          InitialBits,  \* kInitialTableBits
          MaxBits,      \* bound: no table gets larger
          MaxDrift,     \* bound: the device is not released when count is below -MaxDrift
          MaxLost       \* bound: memory does not run out for more entries in use than this

InvalidId == 0
DeletedId == 1
FirstId == 2
Ids == FirstId .. FirstId + Cardinality(Pipelines) - 1

Size(b) == 2 ^ b

ASSUME GPUCacheAssumption ==
    /\ IsFiniteSet(Clients) /\ IsFiniteSet(Pipelines)
    /\ Nil \notin Modules \union Contexts
    /\ MaxBits \in Nat /\ InitialBits \in 1 .. MaxBits /\ MaxDrift \in Nat /\ MaxLost \in Nat
    /\ \A context \in Contexts, i \in Ids, b \in 1 .. MaxBits :
           KernelHash[<<context, i, b>>] \in 0 .. Size(b) - 1

VARIABLES
    compilations,
    bits,       \* log2_compilations_size
    count,
    moving,     \* the entries an insertion still has to place
    id,         \* the id of a pipeline, behind its state pointer
    unique_id,
    running,    \* the context, pipeline and module a client runs with
    lost        \* not in the code: the keys of entries in use that found no memory to move to

cacheVars == <<compilations, bits, count, moving, id, unique_id, running, lost>>

Zero == [context |-> Nil, module |-> Nil, id |-> InvalidId, uses |-> 0]
Empty(b) == [s \in 0 .. Size(b) - 1 |-> Zero]
NoTable == [s \in {} |-> Zero]
Idle == [context |-> Nil, pipeline |-> Nil, module |-> Nil]

CacheInit ==
    /\ compilations = NoTable /\ bits = 0 /\ count = 0
    /\ moving = {}
    /\ id = [p \in Pipelines |-> InvalidId]
    /\ unique_id = FirstId
    /\ running = [t \in Clients |-> Idle]
    /\ lost = {}

-----------------------------------------------------------------------------
(* The table *)

\* How many slots are tried before slot s for a context and id.
Tries(context, i, s) ==
    LET index == KernelHash[<<context, i, bits>>]
    IN  IF s >= index THEN s - index ELSE s - index + Size(bits)

\* The slots that are tried before slot s.
Before(context, i, s) == {r \in DOMAIN compilations : Tries(context, i, r) < Tries(context, i, s)}

KeyOf(slot) == <<slot.context, slot.id>>

Matches(slot, context, i) == slot.context = context /\ slot.id = i

\* find_internal: the slot of a context and id, in a set.
Find(context, i) ==
    {s \in DOMAIN compilations :
        /\ Matches(compilations[s], context, i)
        /\ \A r \in Before(context, i, s) :
              compilations[r].id # InvalidId /\ ~Matches(compilations[r], context, i)}

Free(slot) == slot.id <= DeletedId

Live == {s \in DOMAIN compilations : ~Free(compilations[s])}

\* The first free slot for an entry, in a set.
FirstFree(entry) ==
    {s \in DOMAIN compilations :
        /\ Free(compilations[s])
        /\ \A r \in Before(entry.context, entry.id, s) : ~Free(compilations[r])}

\* kLoadFactor is a half.
Overloaded == 2 * (count + 1) > Size(bits)

\* The clients that run with a module.
HoldersOf(module) == {t \in Clients : running[t] # Idle /\ running[t].module = module}

-----------------------------------------------------------------------------
(* insert and resize_table *)

\* An entry that is to be moved is known by its slot in the table of `from' bits; the new
\* one has neither.  A table has been allocated for an entry that is grown.
Pending(from, s, entry) == [from |-> from, slot |-> s, entry |-> entry, grown |-> FALSE]

\* The entry whose turn it is: the loop over the table that was left last goes on, from
\* slot to slot; the loops around it and the new entry come after it.
Turn(m) ==
    /\ m \in moving
    /\ \A n \in moving \ {m} : m.from > n.from \/ (m.from = n.from /\ m.slot < n.slot)

\* The larger table has no entries yet and keeps the count: what is moved is counted again.
Grow(m) ==
    /\ Turn(m)
    /\ ~m.grown /\ Overloaded
    /\ bits < MaxBits
    /\ compilations' = Empty(bits + 1) /\ bits' = bits + 1
    /\ moving' = (moving \ {m}) \union {[m EXCEPT !.grown = TRUE]}
                 \union {Pending(bits, s, compilations[s]) : s \in {r \in Live : count > 0}}
    /\ UNCHANGED <<count, id, unique_id, running, lost>>

\* The client of the new entry does not run when that is not inserted.
Served(m) == [t \in Clients |-> IF m.from = 0 /\ running[t].module = m.entry.module THEN Idle ELSE running[t]]

\* There is no memory for a larger table.  resize_table ignores that about an entry that
\* it moves: the entry is gone, also when it is in use, and the loop goes on.
GrowFails(m) ==
    /\ Turn(m)
    /\ ~m.grown /\ Overloaded
    /\ moving' = moving \ {m}
    /\ running' = Served(m)
    /\ lost' = lost \union {KeyOf(m.entry) : t \in {u \in HoldersOf(m.entry.module) : m.from # 0}}
    /\ Cardinality(lost') <= MaxLost
    /\ UNCHANGED <<compilations, bits, count, id, unique_id>>

Placeable(m) == Turn(m) /\ (m.grown \/ ~Overloaded)

Place(m) ==
    /\ Placeable(m)
    /\ \E s \in FirstFree(m.entry) : compilations' = [compilations EXCEPT ![s] = m.entry]
    /\ count' = count + 1
    /\ moving' = moving \ {m}
    /\ UNCHANGED <<bits, id, unique_id, running, lost>>

\* The result is ignored here too, but for the one of the new entry.
PlaceFails(m) ==
    /\ Placeable(m)
    /\ FirstFree(m.entry) = {}
    /\ count' = count + 1
    /\ moving' = moving \ {m}
    /\ running' = Served(m)
    /\ UNCHANGED <<compilations, bits, id, unique_id, lost>>

-----------------------------------------------------------------------------
(* kernel_state_setup *)

\* Nobody holds the mutex.
MutexFree == moving = {}

Hold(s) == [compilations EXCEPT ![s].uses = @ + 1]

\* The pipeline gets an id with its first run.  (It takes as many pipelines as there are
\* uintptr_t to run out of ids; that error is left out.)
TakeId(p) ==
    IF id[p] = InvalidId
    THEN id' = [id EXCEPT ![p] = unique_id] /\ unique_id' = unique_id + 1
    ELSE UNCHANGED <<id, unique_id>>

Starts(t, context, p, module) ==
    running' = [running EXCEPT ![t] = [context |-> context, pipeline |-> p, module |-> module]]

SetupFinds(t, context, p) ==
    /\ MutexFree /\ running[t] = Idle /\ TakeId(p)
    /\ \E s \in Find(context, id'[p]) :
           compilations' = Hold(s) /\ Starts(t, context, p, compilations[s].module)
    /\ UNCHANGED <<bits, count, moving, lost>>

\* A module that is loaded now is not one a client runs with or the cache has.
Loaded == {compilations[s].module : s \in DOMAIN compilations} \union {running[t].module : t \in Clients}

\* A module that is compiled and finds no place is not unloaded, but nobody knows it.
SetupCompiles(t, context, p) ==
    /\ MutexFree /\ running[t] = Idle /\ TakeId(p)
    /\ Find(context, id'[p]) = {}
    /\ \E module \in Modules \ Loaded :
        /\ moving' = {Pending(0, 0, [context |-> context, module |-> module, id |-> id'[p], uses |-> 1])}
        /\ Starts(t, context, p, module)
    /\ IF bits = 0 THEN compilations' = Empty(InitialBits) /\ bits' = InitialBits
       ELSE UNCHANGED <<compilations, bits>>
    /\ UNCHANGED <<count, lost>>

\* Nothing is compiled, or there is no memory for the first table of all.
SetupFails(t, context, p) ==
    /\ MutexFree /\ running[t] = Idle /\ TakeId(p)
    /\ Find(context, id'[p]) = {}
    /\ UNCHANGED <<compilations, bits, count, moving, running, lost>>

-----------------------------------------------------------------------------
(* The other calls *)

\* The hold is given back to the entry that is found: if the client's was lost, to none or
\* to one that was compiled since.  An assertion of debug builds says that one is found.
ReleaseHold(t) ==
    LET at == Find(running[t].context, id[running[t].pipeline]) IN
    /\ MutexFree /\ running[t] # Idle
    /\ compilations' = [s \in DOMAIN compilations |->
           IF s \in at THEN [compilations[s] EXCEPT !.uses = @ - 1] ELSE compilations[s]]
    /\ running' = [running EXCEPT ![t] = Idle]
    /\ UNCHANGED <<bits, count, moving, id, unique_id, lost>>

\* Mutant: modules in use are unloaded too.
UnloadsMutant(slot, contexts) == slot.id > InvalidId /\ slot.context \in contexts

\* A slot whose module was unloaded before passes as well.
Unloads(slot, contexts) == slot.id > InvalidId /\ slot.context \in contexts /\ slot.uses = 0

\* Mutant: the slot becomes one that was never used.
DeletedMutant(slot) == [context |-> slot.context, module |-> Nil, id |-> InvalidId, uses |-> slot.uses]

Deleted(slot) == [context |-> slot.context, module |-> Nil, id |-> DeletedId, uses |-> slot.uses]

\* release_context_already_locked
Gone(contexts) == {s \in DOMAIN compilations : count # 0 /\ Unloads(compilations[s], contexts)}
Remaining(contexts) ==
    [s \in DOMAIN compilations |-> IF s \in Gone(contexts) THEN Deleted(compilations[s]) ELSE compilations[s]]
Counted(contexts) == count - Cardinality(Gone(contexts))

\* halide_*_device_release of a context that lives on
DeleteContext(context) ==
    /\ MutexFree /\ count >= -MaxDrift
    /\ compilations' = Remaining({context})
    /\ count' = Counted({context})
    /\ UNCHANGED <<bits, moving, id, unique_id, running, lost>>

ReleaseAll ==
    /\ MutexFree /\ \A t \in Clients : running[t] = Idle
    /\ count >= -MaxDrift
    /\ count' = Counted(Contexts)
    /\ IF count' = 0 THEN compilations' = NoTable /\ bits' = 0 /\ lost' = {}
       ELSE compilations' = Remaining(Contexts) /\ UNCHANGED <<bits, lost>>
    /\ UNCHANGED <<moving, id, unique_id, running>>

-----------------------------------------------------------------------------
Client(t) ==
    \/ \E context \in Contexts, p \in Pipelines :
          SetupFinds(t, context, p) \/ SetupCompiles(t, context, p) \/ SetupFails(t, context, p)
    \/ ReleaseHold(t)

CacheNext ==
    \/ \E t \in Clients : Client(t)
    \/ \E m \in moving : Grow(m) \/ GrowFails(m) \/ Place(m) \/ PlaceFails(m)
    \/ \E context \in Contexts : DeleteContext(context)
    \/ ReleaseAll

CacheSpec == CacheInit /\ [][CacheNext]_cacheVars

-----------------------------------------------------------------------------
(* Properties *)

Keys == Contexts \X Ids
Entry == [context : Contexts, module : Modules, id : Ids, uses : Int]

\* A slot was never used, or its module was unloaded when nobody used it, or it has an entry.
Slot == {Zero} \union Entry
        \union {[context |-> c, module |-> Nil, id |-> DeletedId, uses |-> 0] : c \in Contexts}

\* The types; a table has a power of two of slots.
CacheTypeOK ==
    /\ bits \in {0} \union InitialBits .. MaxBits /\ count \in Int
    /\ compilations \in [IF bits = 0 THEN {} ELSE 0 .. Size(bits) - 1 -> Slot]
    /\ moving \subseteq [from : 0 .. MaxBits, slot : Nat, entry : Entry, grown : BOOLEAN]
    /\ id \in [Pipelines -> {InvalidId} \union Ids] /\ unique_id \in Nat
    /\ running \in [Clients -> {Idle} \union [context : Contexts, pipeline : Pipelines, module : Modules]]
    /\ lost \subseteq Keys

\* Whatever was inserted, unloaded, moved to larger tables and lost in whatever order,
\* the search for the context and id of an entry ends at its slot: it is not cut off by
\* a free slot before it, and there is no second entry for them.
ProbesFindEntries ==
    /\ CacheTypeOK
    /\ \A s \in Live : Find(compilations[s].context, compilations[s].id) = {s}

\* The context and id a client runs with.
KeyFor(t) == <<running[t].context, id[running[t].pipeline]>>

\* The module a client runs with stays in the cache until the client gives it back,
\* whoever releases the device in the meantime: halide_*_run finds it, and its
\* use_count is the number of the clients that hold it.  Where an allocation failed, that
\* holds of all keys but those of entries in use that could not be moved; nothing that
\* happens to them, their compiling again and their holders' releases disturbs the others.
HeldModulesStay ==
    MutexFree =>
        /\ \A t \in Clients : running[t] # Idle /\ KeyFor(t) \notin lost =>
               \E s \in Find(running[t].context, id[running[t].pipeline]) :
                   compilations[s].module = running[t].module
        /\ \A s \in DOMAIN compilations : KeyOf(compilations[s]) \notin lost =>
               compilations[s].uses = Cardinality(HoldersOf(compilations[s].module))

\* "Value must be in cache to be released" (an assertion of release_hold, line 228): the
\* entry of a client that runs is found.  It is not when a nested resize found no memory.
ReleasesFind ==
    MutexFree => \A t \in Clients : running[t] # Idle =>
        Find(running[t].context, id[running[t].pipeline]) # {}
=============================================================================
