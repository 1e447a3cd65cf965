------------------------------ MODULE Tracing ------------------------------
(***************************************************************************)
(* Tracing to a file: halide_trace, the buffer all threads write packets   *)
(* into, and the SharedExclusiveSpinLock over it (src/runtime/tracing.cpp).*)
(*                                                                         *)
(* The threads that hold the lock shared are the writers: each claims a    *)
(* range of the buffer by adding to a cursor, and fills it.  Whoever holds *)
(* the lock exclusively writes the buffer to the file and empties it.      *)
(*                                                                         *)
(* Grain: one action per access to the word of the lock, to the cursor and *)
(* to the overage; filling a packet is an action, and what a thread does   *)
(* with exclusive access, or under halide_trace_file_lock, is one.  A      *)
(* compare-and-swap that fails and is tried again leaves no trace.         *)
(*                                                                         *)
(* The events are those of pipelines: the owner of a pipeline traces its   *)
(* first and last event, its helpers trace in between.                     *)
(***************************************************************************)
EXTENDS Integers, Sequences, FiniteSets, Functions

CONSTANTS Threads,
          Events,         \* the sizes of the packets each thread traces, in order
          Owner,          \* the thread whose pipeline a thread works for
          BufferSize,
          HasTraceFile,   \* HL_TRACE_FILE is defined
          Descriptors,    \* what halide_set_trace_file is called with
          WriteMayFail

FD == 1                   \* the descriptor of the file that is opened
Stale == [event |-> <<>>, part |-> 0] \* a byte of the buffer nobody has filled since the last flush

Id == UNION {{t} \X (1 .. Len(Events[t])) : t \in Threads}
Size(e) == Events[e[1]][e[2]]
Bytes(e) == {[event |-> e, part |-> k] : k \in 1 .. Size(e)}

ASSUME EventsAssumption ==
    /\ IsFiniteSet(Threads)
    /\ BufferSize \in Nat
    /\ Events \in [Threads -> Seq(1 .. BufferSize)]
    /\ Owner \in [Threads -> Threads]
    /\ \A t \in Threads : Owner[Owner[t]] = Owner[t]
    /\ \A t \in Threads : Owner[t] = t => Len(Events[t]) >= 2
    /\ Descriptors \subseteq Int

VARIABLES traceFile,  \* halide_trace_file
          buffer,     \* halide_trace_buffer: "none", "live" or "freed"
          opened,     \* halide_trace_file_internally_opened
          lock,       \* the word of the lock
          cursor, overage, buf,
          file,       \* what has been written
          pc,
          done,       \* how many events each thread has traced
          at,         \* my_cursor, where the packet of the thread is
          after       \* where a flush returns to

vars == <<traceFile, buffer, opened, lock, cursor, overage, buf, file, pc, done, at, after>>
output == <<traceFile, buffer, opened>>
contents == <<cursor, overage, buf, file>>
locals == <<done, at, after>>

Empty == [k \in 0 .. BufferSize - 1 |-> Stale]

Init ==
    /\ traceFile = -1 /\ buffer = "none" /\ opened = FALSE
    /\ lock = [held |-> FALSE, waiting |-> FALSE, shared |-> 0]
    /\ cursor = 0 /\ overage = 0 /\ buf = Empty
    /\ file = <<>>
    /\ pc = [t \in Threads |-> "out"]
    /\ done = [t \in Threads |-> 0]
    /\ at = [t \in Threads |-> 0]
    /\ after = [t \in Threads |-> "retry"]

Goto(t, l) == pc' = [pc EXCEPT ![t] = l]

-----------------------------------------------------------------------------
(* The pipelines *)

Helpers(t) == {h \in Threads \ {t} : Owner[h] = t}
Event(t) == <<t, done[t] + 1>>
Over(t) == done[t] = Len(Events[t])

\* e->event == halide_trace_end_pipeline
EndsPipeline(t) == Owner[t] = t /\ done[t] + 1 = Len(Events[t])

\* A helper works between the first and the last event of its owner.
MayTrace(t) ==
    /\ pc[t] = "out" /\ ~Over(t)
    /\ Owner[t] # t => done[Owner[t]] > 0
    /\ EndsPipeline(t) => \A h \in Helpers(t) : Over(h)

InPipeline(t) == ~Over(t) /\ done[Owner[t]] > 0

-----------------------------------------------------------------------------
(* halide_trace: to a descriptor, or as text *)

\* halide_get_trace_file, under halide_trace_file_lock.
Trace(t) ==
    /\ MayTrace(t)
    /\ LET opens == traceFile < 0 /\ HasTraceFile
           fd == IF traceFile >= 0 THEN traceFile ELSE IF opens THEN FD ELSE 0
       IN  /\ traceFile' = fd
           /\ opened' = (opened \/ opens)
           /\ buffer' = IF opens /\ buffer = "none" THEN "live" ELSE buffer
           /\ Goto(t, IF fd > 0 THEN "acquire" ELSE "print")
    /\ UNCHANGED <<lock, contents, locals>>

Returns(t) ==
    /\ Goto(t, "out")
    /\ done' = [done EXCEPT ![t] = @ + 1]

PrintText(t) ==
    /\ pc[t] = "print"
    /\ Returns(t)
    /\ UNCHANGED <<output, lock, contents, at, after>>

-----------------------------------------------------------------------------
(* A packet *)

\* Mutant: the bits of the exclusive owners are ignored.
MayShareMutant == TRUE

\* acquire_shared expects the word without them.
MayShare == ~lock.held /\ ~lock.waiting

AcquireShared(t) ==
    /\ pc[t] = "acquire" /\ MayShare
    /\ lock' = [lock EXCEPT !.shared = @ + 1]
    /\ Goto(t, "claim")
    /\ UNCHANGED <<output, contents, locals>>

Fits(t) == cursor + Size(Event(t)) <= BufferSize

Claim(t) ==
    /\ pc[t] = "claim"
    /\ cursor' = cursor + Size(Event(t))
    /\ at' = [at EXCEPT ![t] = cursor]
    /\ Goto(t, IF Fits(t) THEN "fill" ELSE "over")
    /\ UNCHANGED <<output, lock, overage, buf, file, done, after>>

\* The buffer is full: what was added to the cursor is recorded ...
AddOverage(t) ==
    /\ pc[t] = "over"
    /\ overage' = overage + Size(Event(t))
    /\ Goto(t, "backOut")
    /\ UNCHANGED <<output, lock, cursor, buf, file, locals>>

\* ... the lock is released, and the buffer flushed to make room.
BackOut(t) ==
    /\ pc[t] = "backOut"
    /\ lock' = [lock EXCEPT !.shared = @ - 1]
    /\ after' = [after EXCEPT ![t] = "retry"]
    /\ Goto(t, "request")
    /\ UNCHANGED <<output, contents, done, at>>

Fill(t) ==
    /\ pc[t] = "fill"
    /\ buf' = [k \in DOMAIN buf |->
                  IF k \in at[t] .. at[t] + Size(Event(t)) - 1
                  THEN [event |-> Event(t), part |-> k - at[t] + 1] ELSE buf[k]]
    /\ Goto(t, "release")
    /\ UNCHANGED <<output, lock, cursor, overage, file, locals>>

\* Mutant: nothing is flushed at the end of a pipeline.
FlushesMutant(t) == FALSE

Flushes(t) == EndsPipeline(t)

ReleasePacket(t) ==
    /\ pc[t] = "release"
    /\ lock' = [lock EXCEPT !.shared = @ - 1]
    /\ IF Flushes(t)
       THEN after' = [after EXCEPT ![t] = "return"] /\ Goto(t, "request") /\ UNCHANGED done
       ELSE Returns(t) /\ UNCHANGED after
    /\ UNCHANGED <<output, contents, at>>

-----------------------------------------------------------------------------
(* flush *)

Request(t) ==
    /\ pc[t] = "request"
    /\ lock' = [lock EXCEPT !.waiting = TRUE]
    /\ Goto(t, "take")
    /\ UNCHANGED <<output, contents, locals>>

\* The compare-and-swap from the waiting bit alone to the held bit alone.
MayTake == lock.waiting /\ ~lock.held /\ lock.shared = 0

TakeExclusive(t) ==
    /\ pc[t] = "take" /\ MayTake
    /\ lock' = [held |-> TRUE, waiting |-> FALSE, shared |-> 0]
    /\ Goto(t, "flush")
    /\ UNCHANGED <<output, contents, locals>>

\* Mutant: one request is enough.
RetryPcMutant == "take"

\* Taking the lock clears the waiting bit for all who have set it.
RetryPc == "request"

TakeFails(t) ==
    /\ pc[t] = "take" /\ ~MayTake
    /\ Goto(t, RetryPc)
    /\ UNCHANGED <<output, lock, contents, locals>>

\* Mutant: the overage is written as well.
FlushedMutant == cursor

Flushed == cursor - overage

FirstBytes(n) == [k \in 1 .. n |-> IF k <= BufferSize THEN buf[k - 1] ELSE Stale]

Flush(t) ==
    /\ pc[t] = "flush"
    /\ file' = file \o FirstBytes(Flushed)
    /\ cursor' = 0 /\ overage' = 0 /\ buf' = Empty
    /\ Goto(t, "unlock")
    /\ UNCHANGED <<output, lock, locals>>

\* A short write: halide_abort_if_false, once the lock is released.
WriteFails(t) ==
    /\ pc[t] = "flush" /\ WriteMayFail /\ cursor > 0
    /\ \E n \in 0 .. Flushed - 1 : file' = file \o FirstBytes(n)
    /\ cursor' = 0 /\ overage' = 0 /\ buf' = Empty
    /\ lock' = [lock EXCEPT !.held = FALSE]
    /\ Goto(t, "aborted")
    /\ UNCHANGED <<output, locals>>

ReleaseExclusive(t) ==
    /\ pc[t] = "unlock"
    /\ lock' = [lock EXCEPT !.held = FALSE]
    /\ IF after[t] = "return" THEN Returns(t) ELSE Goto(t, "acquire") /\ UNCHANGED done
    /\ UNCHANGED <<output, contents, at, after>>

-----------------------------------------------------------------------------
(* halide_set_trace_file, before anything is traced, and halide_shutdown_trace, *)
(* outside of all pipelines                                                     *)

SetTraceFile(fd) ==
    /\ traceFile = -1
    /\ traceFile' = fd
    /\ UNCHANGED <<buffer, opened, lock, contents, pc, locals>>

ShutdownTrace ==
    /\ opened
    /\ \A t \in Threads : pc[t] = "out" /\ ~InPipeline(t)
    /\ traceFile' = 0 /\ opened' = FALSE
    /\ buffer' = IF buffer = "live" THEN "freed" ELSE buffer
    /\ UNCHANGED <<lock, contents, pc, locals>>

Aborted == \E t \in Threads : pc[t] = "aborted"

Step(t) ==
    \/ PrintText(t) \/ AcquireShared(t) \/ Claim(t) \/ AddOverage(t) \/ BackOut(t) \/ Fill(t)
    \/ ReleasePacket(t) \/ Request(t) \/ TakeExclusive(t) \/ TakeFails(t) \/ Flush(t)
    \/ WriteFails(t) \/ ReleaseExclusive(t)

Next ==
    /\ ~Aborted
    /\ \/ \E t \in Threads : Trace(t) \/ Step(t)
       \/ \E fd \in Descriptors : SetTraceFile(fd)
       \/ ShutdownTrace

Spec == Init /\ [][Next]_vars

\* A thread that can go on does; a compare-and-swap that could succeed again and
\* again does.  (The pipelines run their events.)
LiveSpec ==
    /\ Spec
    /\ \A t \in Threads : WF_vars(~Aborted /\ (Trace(t) \/ Step(t)))
    /\ \A t \in Threads : SF_vars(~Aborted /\ (AcquireShared(t) \/ TakeExclusive(t)))

-----------------------------------------------------------------------------
(* Properties *)

SharedPcs == {"claim", "over", "backOut", "fill", "release"}
ExclusivePcs == {"flush", "unlock"}
PacketPcs == {"acquire", "request", "take"} \union SharedPcs \union ExclusivePcs
Pcs == {"out", "print", "aborted"} \union PacketPcs

TypeOK ==
    /\ traceFile \in Descriptors \union {-1, 0, FD}
    /\ buffer \in {"none", "live", "freed"} /\ opened \in BOOLEAN
    /\ lock \in [held : BOOLEAN, waiting : BOOLEAN, shared : Nat]
    /\ cursor \in Nat /\ overage \in Nat
    /\ pc \in [Threads -> Pcs]
    /\ done \in [Threads -> Nat] /\ \A t \in Threads : done[t] <= Len(Events[t])
    /\ at \in [Threads -> Nat]
    /\ after \in [Threads -> {"retry", "return"}]

\* The word says who has the lock: the count is that of the writers, the held bit
\* is set while one thread flushes, and never both.  While the waiting bit keeps
\* the writers out there is somebody who wants to flush.  The word lies in the
\* buffer, which is there while anybody is on his way with a packet.
LockIsExact ==
    /\ \A t \in Threads : pc[t] \in PacketPcs => buffer = "live"
    /\ lock.shared = Cardinality({t \in Threads : pc[t] \in SharedPcs})
    /\ lock.held => lock.shared = 0
    /\ \A t \in Threads : pc[t] \in ExclusivePcs => lock.held
    /\ \A t, u \in Threads : pc[t] \in ExclusivePcs /\ pc[u] \in ExclusivePcs => t = u
    /\ lock.waiting => \E t \in Threads : pc[t] \in {"request", "take"}

\* The file is made of whole packets, none of them twice, those of a thread in
\* the order in which it traced them; nothing of the buffer is written that was
\* not filled.
FirstByte(p) == p = 1 \/ file[p - 1].part = Size(file[p - 1].event)

FileIsWhole == ~Aborted =>
    /\ \A p \in DOMAIN file :
        /\ file[p] # Stale
        /\ IF FirstByte(p) THEN file[p].part = 1
           ELSE file[p].event = file[p - 1].event /\ file[p].part = file[p - 1].part + 1
    /\ file # <<>> => file[Len(file)].part = Size(file[Len(file)].event)
    /\ \A p, q \in DOMAIN file :
          p < q /\ file[p].part = 1 /\ file[q].part = 1 /\ file[p].event[1] = file[q].event[1]
          => file[p].event[2] < file[q].event[2]

Written == Range(file)

\* When a pipeline has ended everything it traced, on all threads, is in the file:
\* a process that exits, or shuts tracing down, between pipelines loses nothing.
EndedPipelineIsWritten == traceFile = FD =>
    \A t \in Threads : Owner[t] = t /\ Over(t) =>
        \A u \in Helpers(t) \union {t} : \A i \in DOMAIN Events[u] : Bytes(<<u, i>>) \subseteq Written

\* Every call of halide_trace returns: no writer is kept out for good, and no flush.
CallsEnd == <>(Aborted \/ \A t \in Threads : pc[t] = "out" /\ Over(t))
=============================================================================
