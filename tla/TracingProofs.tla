--------------------------- MODULE TracingProofs ---------------------------
(***************************************************************************)
(* Proofs about Tracing, for any number of threads, any pipelines, any     *)
(* events and any size of the buffer: the word of the lock is exact, so    *)
(* nobody fills a packet while the buffer is written to the file; what is  *)
(* written are whole packets in the order of their threads, and all of a   *)
(* pipeline that has ended.                                                *)
(*                                                                         *)
(* The file and the buffer are compared with a plan: the file followed by  *)
(* the packets that were claimed, as they will be when they are filled     *)
(* (Laid).  Claiming a packet that fits appends it to the plan, filling    *)
(* makes the buffer agree with it, flushing makes the file equal to it.    *)
(***************************************************************************)
EXTENDS Tracing, FiniteSetTheorems, SequenceTheorems, TLAPS

\* The client redirects tracing to text or to nowhere, not to a descriptor of its own,
\* for which the code makes no buffer.
NoDescriptorOfItsOwn == \A fd \in Descriptors : fd <= 0

Writers == {t \in Threads : pc[t] \in SharedPcs}

\* A thread on its way has an event to trace.
UnderWay == \A t \in Threads : pc[t] # "out" => done[t] + 1 \in 1 .. Len(Events[t])

\* Tracing to a file has a buffer; one that has not begun has none.
BufferFollowsFile ==
    /\ traceFile < 0 => buffer = "none"
    /\ traceFile > 0 => buffer = "live"

IInv == TypeOK /\ UnderWay /\ BufferFollowsFile /\ LockIsExact

-----------------------------------------------------------------------------
(* Lemmas *)

\* The packet of a thread on its way has a size.
LEMMA SizeOfEvent ==
    ASSUME IInv, NEW t \in Threads, pc[t] # "out"
    PROVE  Size(Event(t)) \in 1 .. BufferSize
<1>1. done[t] + 1 \in 1 .. Len(Events[t]) /\ Events[t] \in Seq(1 .. BufferSize)
  BY EventsAssumption DEF IInv, UnderWay
<1>2. Events[t][done[t] + 1] \in 1 .. BufferSize
  BY <1>1, ElementOfSeq
<1> QED
  BY <1>2 DEF Size, Event

\* A thread that becomes a writer adds one to them.
LEMMA WriterJoins ==
    ASSUME pc \in [Threads -> Pcs], NEW t \in Threads, NEW l, pc' = [pc EXCEPT ![t] = l],
           pc[t] \notin SharedPcs, l \in SharedPcs
    PROVE  Cardinality(Writers') = Cardinality(Writers) + 1
<1>1. IsFiniteSet(Writers)
  BY EventsAssumption, FS_Subset DEF Writers
<1>2. Writers' = Writers \union {t} /\ t \notin Writers
  BY DEF Writers
<1> QED
  BY <1>1, <1>2, FS_AddElement

\* One that stops takes one away.
LEMMA WriterLeaves ==
    ASSUME pc \in [Threads -> Pcs], NEW t \in Threads, NEW l, pc' = [pc EXCEPT ![t] = l],
           pc[t] \in SharedPcs, l \notin SharedPcs
    PROVE  Cardinality(Writers) \in Nat \ {0} /\ Cardinality(Writers') = Cardinality(Writers) - 1
<1>1. IsFiniteSet(Writers)
  BY EventsAssumption, FS_Subset DEF Writers
<1>2. Writers' = Writers \ {t} /\ t \in Writers
  BY DEF Writers
<1>3. Cardinality(Writers) \in Nat /\ Cardinality(Writers) # 0
  BY <1>1, <1>2, FS_CardinalityType, FS_EmptySet
<1> QED
  BY <1>1, <1>2, <1>3, FS_RemoveElement

\* Any other step of a thread leaves them alone.
LEMMA WritersStay ==
    ASSUME pc \in [Threads -> Pcs], NEW t \in Threads, NEW l, pc' = [pc EXCEPT ![t] = l],
           pc[t] \in SharedPcs <=> l \in SharedPcs
    PROVE  Writers' = Writers
  BY DEF Writers

\* Nobody writes while somebody has the lock for himself.
LEMMA NoWriters ==
    ASSUME IInv, lock.shared = 0
    PROVE  \A t \in Threads : pc[t] \notin SharedPcs
<1>1. IsFiniteSet(Writers)
  BY EventsAssumption, FS_Subset DEF Writers
<1>2. Cardinality(Writers) = 0
  BY DEF IInv, LockIsExact, Writers
<1> QED
  BY <1>1, <1>2, FS_EmptySet DEF Writers

-----------------------------------------------------------------------------
(* Every step preserves the invariant *)

\* The initial states satisfy the invariant.
LEMMA InitInv == Init => IInv
<1> SUFFICES ASSUME Init PROVE IInv
  OBVIOUS
<1>1. TypeOK
  <2>1. \A t \in Threads : Len(Events[t]) \in Nat
    BY EventsAssumption
  <2>2. done \in [Threads -> Nat] /\ \A t \in Threads : done[t] <= Len(Events[t])
    BY <2>1 DEF Init
  <2>3. pc \in [Threads -> Pcs] /\ at \in [Threads -> Nat] /\ after \in [Threads -> {"retry", "return"}]
    BY DEF Init, Pcs
  <2> QED
    BY <2>2, <2>3 DEF Init, TypeOK
<1>2. UnderWay /\ BufferFollowsFile
  BY DEF Init, UnderWay, BufferFollowsFile
<1>3. Writers = {}
  BY DEF Init, Writers, SharedPcs
<1>4. LockIsExact
  BY <1>3, FS_EmptySet DEF Init, LockIsExact, Writers, PacketPcs, ExclusivePcs, SharedPcs
<1> QED
  BY <1>1, <1>2, <1>4 DEF IInv

\* Steps by which a thread neither becomes a writer nor stops being one.
LEMMA TracePreserves ==
    ASSUME IInv, NoDescriptorOfItsOwn, NEW t \in Threads, Trace(t)
    PROVE  IInv'
<1> USE DEF IInv, TypeOK, Trace, Goto, locals, contents
<1>1. TypeOK'
  BY DEF Pcs, PacketPcs, FD, MayTrace
<1>2. UnderWay'
  <2>1. done[t] + 1 \in 1 .. Len(Events[t])
    BY EventsAssumption DEF MayTrace, Over
  <2> QED
    BY <2>1 DEF UnderWay
<1>3. BufferFollowsFile'
  BY EventsAssumption DEF BufferFollowsFile, FD
<1>4. Writers' = Writers
  BY DEF MayTrace, Writers, SharedPcs
<1>5. \A u \in Threads : pc'[u] \in PacketPcs => buffer' = "live"
  BY DEF LockIsExact, BufferFollowsFile, FD, PacketPcs, SharedPcs, ExclusivePcs
<1>6. LockIsExact'
  BY <1>4, <1>5 DEF LockIsExact, Writers, MayTrace, ExclusivePcs
<1> QED
  BY <1>1, <1>2, <1>3, <1>6

\* What a step of a thread with a packet may do to the word of the lock, and so to who
\* may write and who may flush.  (The others are where they were.)
LEMMA LockSteps ==
    ASSUME IInv, NEW t \in Threads, NEW l, pc' = [pc EXCEPT ![t] = l], pc[t] \in PacketPcs,
           buffer' = buffer,
           \/ AcquireShared(t) \/ Claim(t) \/ AddOverage(t) \/ BackOut(t) \/ Fill(t) \/ ReleasePacket(t)
           \/ Request(t) \/ TakeExclusive(t) \/ TakeFails(t) \/ Flush(t) \/ WriteFails(t) \/ ReleaseExclusive(t)
    PROVE  LockIsExact'
<1> DEFINE Asks == \E u \in Threads : pc[u] \in {"request", "take"}
<1> USE DEF IInv, TypeOK, Goto, Returns
<1>0. \A u \in Threads : pc'[u] \in PacketPcs => buffer' = "live"
  BY DEF LockIsExact
<1>1. lock.shared = Cardinality(Writers)
  BY DEF LockIsExact, Writers
<1>2. ASSUME pc[t] \in SharedPcs <=> l \in SharedPcs, pc[t] \notin ExclusivePcs, l \notin ExclusivePcs,
             lock'.shared = lock.shared, lock'.held = lock.held,
             lock'.waiting => \E u \in Threads : pc'[u] \in {"request", "take"}
      PROVE  LockIsExact'
  <2>1. Writers' = Writers
    BY <1>2, WritersStay
  <2> QED
    BY <1>0, <1>1, <1>2, <2>1 DEF LockIsExact, Writers
<1>3. CASE AcquireShared(t)
  <2>1. l = "claim" /\ pc[t] = "acquire"
    BY <1>3 DEF AcquireShared
  <2>2. Cardinality(Writers') = Cardinality(Writers) + 1
    BY <2>1, WriterJoins DEF SharedPcs
  <2> QED
    BY <1>0, <1>1, <1>3, <2>1, <2>2 DEF LockIsExact, AcquireShared, MayShare, Writers, ExclusivePcs
<1>4. CASE Claim(t) \/ AddOverage(t) \/ Fill(t) \/ Request(t) \/ TakeFails(t)
  <2>1. lock'.waiting => \E u \in Threads : pc'[u] \in {"request", "take"}
    BY <1>4 DEF LockIsExact, Claim, AddOverage, Fill, Request, TakeFails, RetryPc
  <2> QED
    BY <1>2, <1>4, <2>1 DEF Claim, AddOverage, Fill, Request, TakeFails, RetryPc, SharedPcs, ExclusivePcs
<1>5. CASE BackOut(t) \/ ReleasePacket(t)
  <2>1. pc[t] \in {"backOut", "release"} /\ l \in {"request", "out"}
    BY <1>5 DEF BackOut, ReleasePacket
  <2>2. Cardinality(Writers) \in Nat \ {0} /\ Cardinality(Writers') = Cardinality(Writers) - 1
    BY <2>1, WriterLeaves DEF SharedPcs
  <2>3. lock' = [lock EXCEPT !.shared = @ - 1]
    BY <1>5 DEF BackOut, ReleasePacket
  <2> QED
    BY <1>0, <1>1, <2>1, <2>2, <2>3 DEF LockIsExact, Writers, ExclusivePcs
<1>6. CASE TakeExclusive(t)
  <2>1. lock.shared = 0 /\ ~lock.held /\ pc[t] = "take" /\ l = "flush"
    BY <1>6 DEF TakeExclusive, MayTake
  <2>2. Writers' = Writers
    BY <2>1, WritersStay DEF SharedPcs
  <2>3. \A u \in Threads : pc[u] \notin ExclusivePcs
    BY <2>1 DEF LockIsExact
  <2> QED
    BY <1>0, <1>1, <1>6, <2>1, <2>2, <2>3 DEF LockIsExact, TakeExclusive, Writers
<1>7. CASE Flush(t)
  <2>1. pc[t] = "flush" /\ l = "unlock" /\ lock' = lock
    BY <1>7 DEF Flush
  <2>2. Writers' = Writers
    BY <2>1, WritersStay DEF SharedPcs
  <2> QED
    BY <1>0, <1>1, <2>1, <2>2 DEF LockIsExact, Writers, ExclusivePcs
<1>8. CASE WriteFails(t) \/ ReleaseExclusive(t)
  <2>1. pc[t] \in ExclusivePcs /\ l \in {"aborted", "out", "acquire"} /\ lock' = [lock EXCEPT !.held = FALSE]
    BY <1>8 DEF WriteFails, ReleaseExclusive, ExclusivePcs
  <2>2. Writers' = Writers
    BY <2>1, WritersStay DEF SharedPcs, ExclusivePcs
  <2>3. \A u \in Threads : pc'[u] \notin ExclusivePcs
    BY <2>1 DEF LockIsExact, ExclusivePcs
  <2> QED
    BY <1>0, <1>1, <2>1, <2>2, <2>3 DEF LockIsExact, Writers, ExclusivePcs
<1> QED
  BY <1>3, <1>4, <1>5, <1>6, <1>7, <1>8

\* A step of a thread with a packet.
LEMMA PacketPreserves ==
    ASSUME IInv, NEW t \in Threads,
           \/ AcquireShared(t) \/ Claim(t) \/ AddOverage(t) \/ BackOut(t) \/ Fill(t) \/ ReleasePacket(t)
           \/ Request(t) \/ TakeExclusive(t) \/ TakeFails(t) \/ Flush(t) \/ WriteFails(t) \/ ReleaseExclusive(t)
    PROVE  IInv'
<1> USE DEF Goto, Returns, output, contents, locals
<1>1. /\ pc[t] \in PacketPcs
      /\ UNCHANGED <<traceFile, buffer, opened>>
      /\ \E l \in Pcs : pc' = [pc EXCEPT ![t] = l]
      /\ \/ done' = done
         \/ done' = [done EXCEPT ![t] = @ + 1] /\ pc' = [pc EXCEPT ![t] = "out"]
  BY DEF AcquireShared, Claim, AddOverage, BackOut, Fill, ReleasePacket, Request, TakeExclusive, TakeFails,
         Flush, WriteFails, ReleaseExclusive, RetryPc, Pcs, PacketPcs, SharedPcs, ExclusivePcs
<1>2. PICK l \in Pcs : pc' = [pc EXCEPT ![t] = l]
  BY <1>1
<1>3. Size(Event(t)) \in Nat
  BY <1>1, SizeOfEvent, EventsAssumption DEF PacketPcs, SharedPcs, ExclusivePcs
<1>4. \A u \in Threads : Len(Events[u]) \in Nat
  BY EventsAssumption
<1>5. pc[t] # "out" /\ done[t] + 1 \in 1 .. Len(Events[t])
  BY <1>1 DEF IInv, UnderWay, PacketPcs, SharedPcs, ExclusivePcs
<1>6. /\ done' \in [Threads -> Nat] /\ \A u \in Threads : done'[u] <= Len(Events[u])
      /\ UnderWay'
  <2>1. CASE done' = done
    BY <1>2, <1>4, <1>5, <2>1 DEF IInv, TypeOK, UnderWay
  <2>2. CASE done' = [done EXCEPT ![t] = @ + 1] /\ pc' = [pc EXCEPT ![t] = "out"]
    <3>1. done[t] \in Nat /\ done[t] + 1 \in Nat /\ done[t] + 1 <= Len(Events[t])
      BY <1>5 DEF IInv, TypeOK
    <3>2. done' \in [Threads -> Nat] /\ \A u \in Threads : done'[u] <= Len(Events[u])
      BY <2>2, <3>1 DEF IInv, TypeOK
    <3>3. \A u \in Threads : pc'[u] # "out" => u # t /\ pc'[u] = pc[u] /\ done'[u] = done[u]
      BY <2>2 DEF IInv, TypeOK
    <3> QED
      BY <3>2, <3>3 DEF IInv, UnderWay
  <2> QED
    BY <1>1, <2>1, <2>2
<1>7. cursor' \in Nat /\ overage' \in Nat /\ at' \in [Threads -> Nat] /\ after' \in [Threads -> {"retry", "return"}]
  <2> USE DEF IInv, TypeOK
  <2>1. CASE Claim(t)
    BY <1>3, <2>1 DEF Claim
  <2>2. CASE AddOverage(t)
    BY <1>3, <2>2 DEF AddOverage
  <2>3. CASE BackOut(t) \/ ReleasePacket(t)
    BY <2>3 DEF BackOut, ReleasePacket
  <2>4. CASE AcquireShared(t) \/ Fill(t) \/ Request(t) \/ TakeExclusive(t) \/ TakeFails(t) \/ ReleaseExclusive(t)
    BY <2>4 DEF AcquireShared, Fill, Request, TakeExclusive, TakeFails, ReleaseExclusive
  <2>5. CASE Flush(t) \/ WriteFails(t)
    BY <2>5 DEF Flush, WriteFails
  <2> QED
    BY <2>1, <2>2, <2>3, <2>4, <2>5
<1>8. lock' \in [held : BOOLEAN, waiting : BOOLEAN, shared : Nat]
  <2>1. CASE BackOut(t) \/ ReleasePacket(t)
    <3>1. pc[t] \in SharedPcs /\ pc'[t] \notin SharedPcs
      BY <2>1 DEF IInv, TypeOK, BackOut, ReleasePacket, SharedPcs
    <3>2. Cardinality(Writers) \in Nat \ {0}
      BY <1>2, <3>1, WriterLeaves DEF IInv, TypeOK
    <3>3. lock.shared - 1 \in Nat
      BY <3>2 DEF IInv, TypeOK, LockIsExact, Writers
    <3>4. lock' = [lock EXCEPT !.shared = @ - 1]
      BY <2>1 DEF BackOut, ReleasePacket
    <3> QED
      BY <3>3, <3>4 DEF IInv, TypeOK
  <2>2. CASE Claim(t) \/ AddOverage(t) \/ Fill(t) \/ TakeFails(t) \/ Flush(t)
    BY <2>2 DEF IInv, TypeOK, Claim, AddOverage, Fill, TakeFails, Flush
  <2>3. CASE AcquireShared(t)
    <3>1. lock' = [lock EXCEPT !.shared = @ + 1] /\ lock.shared + 1 \in Nat
      BY <2>3 DEF IInv, TypeOK, AcquireShared
    <3> QED
      BY <3>1 DEF IInv, TypeOK
  <2>4. CASE Request(t)
    BY <2>4 DEF IInv, TypeOK, Request
  <2>5. CASE TakeExclusive(t)
    BY <2>5 DEF TakeExclusive
  <2>6. CASE WriteFails(t) \/ ReleaseExclusive(t)
    BY <2>6 DEF IInv, TypeOK, WriteFails, ReleaseExclusive
  <2> QED
    BY <2>1, <2>2, <2>3, <2>4, <2>5, <2>6
<1>9. TypeOK'
  BY <1>1, <1>2, <1>6, <1>7, <1>8 DEF IInv, TypeOK
<1>10. LockIsExact'
  BY <1>1, <1>2, LockSteps
<1> QED
  BY <1>1, <1>6, <1>9, <1>10 DEF IInv, BufferFollowsFile

\* A step without a packet.
LEMMA PrintPreserves ==
    ASSUME IInv, NEW t \in Threads, PrintText(t)
    PROVE  IInv'
<1> USE DEF IInv, TypeOK, PrintText, Goto, Returns, output, contents
<1>1. \A u \in Threads : Len(Events[u]) \in Nat
  BY EventsAssumption
<1>2. done[t] + 1 \in 1 .. Len(Events[t])
  BY DEF UnderWay
<1>3. TypeOK' /\ UnderWay'
  BY <1>1, <1>2 DEF UnderWay, Pcs
<1>4. Writers' = Writers
  BY WritersStay DEF SharedPcs
<1>5. LockIsExact'
  BY <1>4 DEF LockIsExact, Writers, PacketPcs, ExclusivePcs
<1> QED
  BY <1>3, <1>5 DEF BufferFollowsFile

\* Every step preserves the invariant.
LEMMA NextInv == NoDescriptorOfItsOwn /\ IInv /\ [Next]_vars => IInv'
<1> SUFFICES ASSUME NoDescriptorOfItsOwn, IInv, [Next]_vars PROVE IInv'
  OBVIOUS
<1>1. CASE UNCHANGED vars
  BY <1>1 DEF vars, IInv, TypeOK, UnderWay, BufferFollowsFile, LockIsExact
<1>2. ASSUME NEW t \in Threads, Trace(t) \/ Step(t) PROVE IInv'
  BY <1>2, TracePreserves, PrintPreserves, PacketPreserves DEF Step
<1>3. ASSUME NEW fd \in Descriptors, SetTraceFile(fd) PROVE IInv'
  BY <1>3, EventsAssumption
     DEF SetTraceFile, contents, locals, NoDescriptorOfItsOwn, IInv, TypeOK, UnderWay, BufferFollowsFile, LockIsExact, FD
<1>4. CASE ShutdownTrace
  <2>1. \A t \in Threads : pc[t] \notin PacketPcs
    BY <1>4 DEF ShutdownTrace, PacketPcs, SharedPcs, ExclusivePcs
  <2>2. /\ traceFile' = 0 /\ opened' = FALSE /\ buffer' \in {"none", "live", "freed"}
        /\ UNCHANGED <<lock, cursor, overage, pc, done, at, after>>
    BY <1>4 DEF ShutdownTrace, contents, locals, IInv, TypeOK
  <2>3. TypeOK'
    BY <2>2 DEF IInv, TypeOK
  <2>5. UnderWay' /\ BufferFollowsFile'
    BY <2>2 DEF IInv, UnderWay, BufferFollowsFile
  <2>4. LockIsExact'
    BY <2>1, <2>2 DEF IInv, LockIsExact
  <2> QED
    BY <2>3, <2>4, <2>5 DEF IInv
<1> QED
  BY <1>1, <1>2, <1>3, <1>4 DEF Next

\* The invariant holds of every reachable state.
LEMMA Invariant == ASSUME NoDescriptorOfItsOwn PROVE Spec => []IInv
<1>1. IInv /\ [Next]_vars => IInv'
  BY NextInv
<1> QED
  BY InitInv, <1>1, PTL DEF Spec

-----------------------------------------------------------------------------
(* Theorems about the lock *)

\* The word of the lock is exact, for any number of threads: halide_trace's count of
\* writers, its one flusher, and the waiting bit that somebody stands behind.
THEOREM LockExact == ASSUME NoDescriptorOfItsOwn PROVE Spec => []LockIsExact
  BY Invariant, PTL DEF IInv

\* The variables of the trace buffer keep their types.
THEOREM TypeCorrect == ASSUME NoDescriptorOfItsOwn PROVE Spec => []TypeOK
  BY Invariant, PTL DEF IInv

\* Nobody claims or fills a packet while the buffer is written to the file.
FlushesAlone ==
    \A t \in Threads : pc[t] \in ExclusivePcs =>
        \A u \in Threads : pc[u] \notin SharedPcs /\ (pc[u] \in ExclusivePcs => u = t)

\* Flushing is exclusive, for any number of threads: try_acquire_packet and flush of
\* TraceBuffer never run against each other.
THEOREM FlushExcludes == ASSUME NoDescriptorOfItsOwn PROVE Spec => []FlushesAlone
<1>1. IInv => FlushesAlone
  <2> SUFFICES ASSUME IInv, NEW t \in Threads, pc[t] \in ExclusivePcs, NEW u \in Threads
               PROVE  pc[u] \notin SharedPcs /\ (pc[u] \in ExclusivePcs => u = t)
    BY DEF FlushesAlone
  <2>1. lock.shared = 0
    BY DEF IInv, LockIsExact
  <2> QED
    BY <2>1, NoWriters DEF IInv, LockIsExact
<1> QED
  BY Invariant, <1>1, PTL

-----------------------------------------------------------------------------
(* How far the buffer has been claimed *)

\* What has been added to the cursor in vain, and is not recorded yet: one pair for
\* each byte of a packet that did not fit.
Pending == {x \in Threads \X (1 .. BufferSize) : pc[x[1]] = "over" /\ x[2] <= Size(Event(x[1]))}

\* The end of the packets that were claimed.
End == cursor - overage - Cardinality(Pending)

\* Once a packet did not fit, no other one does until the buffer is flushed.
EndInv == End \in 0 .. BufferSize /\ (cursor <= BufferSize => End = cursor)

\* Pending is finite, so its bytes are counted.
LEMMA PendingIsFinite == IsFiniteSet(Pending) /\ Cardinality(Pending) \in Nat
<1>1. IsFiniteSet(Threads) /\ IsFiniteSet(1 .. BufferSize)
  BY EventsAssumption, FS_Interval
<1>2. IsFiniteSet(Threads \X (1 .. BufferSize))
  BY <1>1, FS_Product
<1>3. IsFiniteSet(Pending)
  BY <1>2, FS_Subset DEF Pending
<1>4. QED
  BY <1>3, FS_CardinalityType

\* A packet of n bytes has n of them.
LEMMA PacketBytes ==
    ASSUME NEW t, NEW n \in Nat
    PROVE  IsFiniteSet({t} \X (1 .. n)) /\ Cardinality({t} \X (1 .. n)) = n
<1>1. IsFiniteSet({t}) /\ Cardinality({t}) = 1
  BY FS_Singleton
<1>2. IsFiniteSet(1 .. n) /\ Cardinality(1 .. n) = n
  BY FS_Interval
<1>3. IsFiniteSet({t} \X (1 .. n)) /\ Cardinality({t} \X (1 .. n)) = Cardinality({t}) * Cardinality(1 .. n)
  BY <1>1, <1>2, FS_Product, Zenon
<1>4. QED
  BY <1>1, <1>2, <1>3

\* They are the ones a thread adds to Pending, and takes away.
Cells(t, n) == {t} \X (1 .. n)

\* One thread's packet more.
LEMMA PendingUnion ==
    ASSUME NEW A, NEW B, NEW t, NEW n \in Nat, IsFiniteSet(A), B = A \union Cells(t, n),
           A \cap Cells(t, n) = {}
    PROVE  Cardinality(B) = Cardinality(A) + n
<1> DEFINE P == Cells(t, n)
<1>1. IsFiniteSet(P) /\ Cardinality(P) = n
  BY PacketBytes DEF Cells
<1> HIDE DEF P
<1>2. Cardinality(A \union P) = Cardinality(A) + Cardinality(P) - Cardinality(A \cap P)
  BY <1>1, FS_Union
<1>3. A \cap P = {} /\ B = A \union P
  BY DEF P
<1>4. Cardinality(A) \in Nat
  BY FS_CardinalityType
<1>5. Cardinality(A \cap P) = 0
  BY <1>3, FS_EmptySet, Zenon
<1>6. Cardinality(B) = Cardinality(A) + n - 0
  BY <1>1, <1>2, <1>3, <1>5, Zenon
<1>7. QED
  BY <1>4, <1>6

\* A thread whose packet does not fit.
LEMMA PendingJoins ==
    ASSUME IInv, NEW t \in Threads, pc[t] \notin {"out", "over"}, pc' = [pc EXCEPT ![t] = "over"], done' = done
    PROVE  Cardinality(Pending') = Cardinality(Pending) + Size(Event(t))
<1>1. Size(Event(t)) \in 1 .. BufferSize
  BY SizeOfEvent
<1>2. pc'[t] = "over" /\ \A u \in Threads : u # t => pc'[u] = pc[u]
  BY DEF IInv, TypeOK
<1>3. \A u \in Threads : Size(Event(u))' = Size(Event(u))
  BY DEF Event, Size
<1>4. Pending' = Pending \union Cells(t, Size(Event(t)))
  BY <1>1, <1>2, <1>3, EventsAssumption DEF Pending, Cells
<1>5. Pending \cap Cells(t, Size(Event(t))) = {}
  BY DEF Pending, Cells
<1>6. PICK n \in Nat : n = Size(Event(t))
  BY <1>1
<1>7. Pending' = Pending \union Cells(t, n) /\ Pending \cap Cells(t, n) = {}
  BY <1>4, <1>5, <1>6
<1>8. Cardinality(Pending') = Cardinality(Pending) + n
  <2>1. PICK A : A = Pending
    OBVIOUS
  <2>2. PICK B : B = Pending'
    OBVIOUS
  <2>3. IsFiniteSet(A) /\ B = A \union Cells(t, n) /\ A \cap Cells(t, n) = {}
    BY <1>7, <2>1, <2>2, PendingIsFinite
  <2>4. Cardinality(B) = Cardinality(A) + n
    BY <2>3, PendingUnion
  <2>5. QED
    BY <2>1, <2>2, <2>4
<1>9. QED
  BY <1>6, <1>8

\* It has recorded what it added.
LEMMA PendingLeaves ==
    ASSUME IInv, NEW t \in Threads, NEW l, pc[t] = "over", l # "over", pc' = [pc EXCEPT ![t] = l], done' = done
    PROVE  Cardinality(Pending) = Cardinality(Pending') + Size(Event(t))
<1>1. Size(Event(t)) \in 1 .. BufferSize
  BY SizeOfEvent
<1>2. pc'[t] # "over" /\ \A u \in Threads : u # t => pc'[u] = pc[u]
  BY DEF IInv, TypeOK
<1>3. \A u \in Threads : Size(Event(u))' = Size(Event(u))
  BY DEF Event, Size
<1>4. Pending = Pending' \union Cells(t, Size(Event(t)))
  BY <1>1, <1>2, <1>3, EventsAssumption DEF Pending, Cells
<1>5. Pending' \cap Cells(t, Size(Event(t))) = {}
  BY <1>2 DEF Pending, Cells
<1>6. IsFiniteSet(Pending')
  BY <1>4, PendingIsFinite, FS_Subset
<1>7. PICK n \in Nat : n = Size(Event(t))
  BY <1>1
<1>8. Pending = Pending' \union Cells(t, n) /\ Pending' \cap Cells(t, n) = {}
  BY <1>4, <1>5, <1>7
<1>9. Cardinality(Pending) = Cardinality(Pending') + n
  <2>1. PICK A : A = Pending'
    OBVIOUS
  <2>2. PICK B : B = Pending
    OBVIOUS
  <2>3. IsFiniteSet(A) /\ B = A \union Cells(t, n) /\ A \cap Cells(t, n) = {}
    BY <1>6, <1>8, <2>1, <2>2
  <2>4. Cardinality(B) = Cardinality(A) + n
    BY <2>3, PendingUnion
  <2>5. QED
    BY <2>1, <2>2, <2>4
<1>10. QED
  BY <1>7, <1>9

\* Any other step of a thread.
LEMMA PendingStays ==
    ASSUME IInv, NEW t \in Threads, NEW l, pc[t] # "over", l # "over", pc' = [pc EXCEPT ![t] = l],
           \A u \in Threads \ {t} : done'[u] = done[u]
    PROVE  Pending' = Pending
<1>1. pc'[t] # "over" /\ \A u \in Threads : u # t => pc'[u] = pc[u]
  BY DEF IInv, TypeOK
<1>2. \A u \in Threads : u # t => Size(Event(u))' = Size(Event(u))
  BY DEF Event, Size
<1>3. QED
  BY <1>1, <1>2 DEF Pending

-----------------------------------------------------------------------------
(* The file and the packets that follow it in the buffer *)

Byte == UNION {Bytes(e) : e \in Id}

\* A sequence of whole packets, those of a thread in order.
First(T, p) == p = 1 \/ T[p - 1].part = Size(T[p - 1].event)
Whole(T) ==
    \A p \in 1 .. Len(T) : IF First(T, p) THEN T[p].part = 1
                           ELSE T[p].event = T[p - 1].event /\ T[p].part = T[p - 1].part + 1
Complete(T) == Len(T) > 0 => T[Len(T)].part = Size(T[Len(T)].event)
Ordered(T) ==
    \A p, q \in 1 .. Len(T) :
        p < q /\ T[p].part = 1 /\ T[q].part = 1 /\ T[p].event[1] = T[q].event[1]
        => T[p].event[2] < T[q].event[2]

\* How many events of a thread have claimed their packets.
HasPacket(t) ==
    \/ pc[t] \in {"fill", "release"}
    \/ pc[t] \in {"request", "take", "flush", "unlock"} /\ after[t] = "return"
Claimed(t) == IF HasPacket(t) THEN done[t] + 1 ELSE done[t]

Filling(t) == pc[t] = "fill"
Covers(t, k) == k \in at[t] .. at[t] + Size(Event(t)) - 1

\* T is the file, followed by the packets that were claimed: those of the buffer, with
\* those that are being filled as they will be.
Laid(T) ==
    /\ T \in Seq(Byte) /\ Len(T) = Len(file) + End
    /\ \A p \in 1 .. Len(file) : file[p] = T[p]
    /\ \A t \in Threads : Filling(t) =>
        /\ at[t] + Size(Event(t)) <= End
        /\ \A j \in 1 .. Size(Event(t)) : T[Len(file) + at[t] + j] = [event |-> Event(t), part |-> j]
    /\ \A k \in 0 .. End - 1 : buf[k] = T[Len(file) + k + 1] \/ \E t \in Threads : Filling(t) /\ Covers(t, k)

\* Nothing else is in it, and where tracing went to a file all the time, all of it.
Says(T, t, i) == \A x \in Bytes(<<t, i>>) : \E p \in 1 .. Len(T) : T[p] = x
Accounts(T) ==
    /\ \A p \in 1 .. Len(T) : T[p].event[2] <= Claimed(T[p].event[1])
    /\ traceFile = FD => \A t \in Threads : \A i \in 1 .. Claimed(t) : Says(T, t, i)

Plan(T) == Laid(T) /\ Whole(T) /\ Complete(T) /\ Ordered(T) /\ Accounts(T)

FileInv == file \in Seq(Byte) /\ Complete(file) /\ DOMAIN buf = 0 .. BufferSize - 1
PlanInv == \E T : Plan(T)

\* Before anything was traced, and tracing that is not to a file.
BeginInv ==
    /\ traceFile < 0 => \A t \in Threads : pc[t] = "out" /\ done[t] = 0
    /\ \A t \in Threads : pc[t] = "print" => traceFile = 0

\* The steps of the whole module keep these together, until the program aborts.
ContentInv == ~Aborted => EndInv /\ FileInv /\ PlanInv /\ BeginInv

\* What a byte of a packet says.
LEMMA ByteHas ==
    ASSUME NEW x \in Byte
    PROVE  /\ x.event \in Id /\ x.event[1] \in Threads /\ x.event[2] \in 1 .. Len(Events[x.event[1]])
           /\ x.part \in 1 .. Size(x.event) /\ Size(x.event) \in 1 .. BufferSize
<1>1. PICK e \in Id : x \in Bytes(e)
  BY DEF Byte
<1>2. x.event = e /\ x.part \in 1 .. Size(e)
  BY <1>1 DEF Bytes
<1>3. PICK t \in Threads : e \in {t} \X (1 .. Len(Events[t]))
  BY DEF Id
<1>4. e[1] = t /\ e[2] \in 1 .. Len(Events[t])
  BY <1>3
<1>5. Events[t] \in Seq(1 .. BufferSize)
  BY EventsAssumption
<1>6. Events[t][e[2]] \in 1 .. BufferSize
  BY <1>4, <1>5, ElementOfSeq
<1>7. QED
  BY <1>1, <1>2, <1>4, <1>6 DEF Size

\* The event of a thread on its way.
LEMMA EventHas ==
    ASSUME IInv, NEW t \in Threads, pc[t] # "out"
    PROVE  /\ Event(t) \in Id /\ Event(t)[1] = t /\ Event(t)[2] = done[t] + 1
           /\ Size(Event(t)) \in 1 .. BufferSize
<1>1. done[t] + 1 \in 1 .. Len(Events[t])
  BY DEF IInv, UnderWay
<1>2. QED
  BY <1>1, SizeOfEvent DEF Event, Id

\* The packet of an event.
Packet(e) == [j \in 1 .. Size(e) |-> [event |-> e, part |-> j]]

\* Its bytes, in order.
LEMMA PacketHas ==
    ASSUME NEW e \in Id, Size(e) \in 1 .. BufferSize
    PROVE  /\ Packet(e) \in Seq(Byte) /\ Len(Packet(e)) = Size(e)
           /\ \A j \in 1 .. Size(e) : Packet(e)[j].event = e /\ Packet(e)[j].part = j
           /\ \A j \in 1 .. Size(e) : Packet(e)[j] = [event |-> e, part |-> j]
           /\ \A x \in Bytes(e) : \E j \in 1 .. Size(e) : Packet(e)[j] = x
<1>1. \A j \in 1 .. Size(e) : [event |-> e, part |-> j] \in Byte
  BY DEF Byte, Bytes
<1>2. PICK n \in Nat : n = Size(e)
  OBVIOUS
<1>3. Packet(e) \in [1 .. n -> Byte]
  BY <1>1, <1>2 DEF Packet
<1>4. Packet(e) \in Seq(Byte) /\ Len(Packet(e)) = n
  BY <1>3, IsASeq, LenProperties
<1>5. \A j \in 1 .. Size(e) : Packet(e)[j] = [event |-> e, part |-> j]
  BY DEF Packet
<1>6. \A x \in Bytes(e) : \E j \in 1 .. Size(e) : x = [event |-> e, part |-> j]
  BY DEF Bytes
<1>7. QED
  BY <1>2, <1>4, <1>5, <1>6

\* A packet more at the end.
Before(T, e) == \A p \in 1 .. Len(T) : T[p].event[1] = e[1] => T[p].event[2] < e[2]
Appended(U, T, e) ==
    /\ U \in Seq(Byte) /\ Len(U) = Len(T) + Size(e)
    /\ \A p \in 1 .. Len(T) : U[p] = T[p]
    /\ \A j \in 1 .. Size(e) : U[Len(T) + j] = [event |-> e, part |-> j]

\* It leaves whole packets in order.
LEMMA WholeAndOne ==
    ASSUME NEW T \in Seq(Byte), NEW e \in Id, Size(e) \in 1 .. BufferSize,
           Whole(T), Complete(T), Ordered(T), Before(T, e), NEW U, U = T \o Packet(e)
    PROVE  Appended(U, T, e) /\ Whole(U) /\ Complete(U) /\ Ordered(U)
<1> USE DEF Before
<1>1. /\ Packet(e) \in Seq(Byte) /\ Len(Packet(e)) = Size(e)
      /\ \A j \in 1 .. Size(e) : Packet(e)[j] = [event |-> e, part |-> j]
  BY PacketHas
<1>2. PICK n \in Nat : n = Size(e) /\ n >= 1
  OBVIOUS
<1>3. PICK m \in Nat : m = Len(T)
  BY LenProperties
<1>4. /\ U \in Seq(Byte) /\ Len(U) = m + n
      /\ \A i \in 1 .. m + n : U[i] = IF i <= m THEN T[i] ELSE Packet(e)[i - m]
  <2>1. PICK P \in Seq(Byte) : P = Packet(e)
    BY <1>1
  <2>2. /\ T \o P \in Seq(Byte) /\ Len(T \o P) = Len(T) + Len(P)
        /\ \A i \in 1 .. Len(T) + Len(P) : (T \o P)[i] = IF i <= Len(T) THEN T[i] ELSE P[i - Len(T)]
    BY ConcatProperties
  <2>3. U = T \o P /\ Len(P) = n
    BY <1>1, <1>2, <2>1
  <2>4. QED
    BY <1>3, <2>1, <2>2, <2>3
<1>5. \A p \in 1 .. m : U[p] = T[p]
  BY <1>4
<1>6. \A j \in 1 .. n : U[m + j] = [event |-> e, part |-> j]
  <2> TAKE j \in 1 .. n
  <2>1. m + j \in 1 .. m + n /\ ~(m + j <= m) /\ (m + j) - m = j
    OBVIOUS
  <2>2. U[m + j] = Packet(e)[j]
    BY <1>4, <2>1
  <2>3. QED
    BY <1>1, <1>2, <2>2
<1>7. Complete(U)
  <2>1. U[m + n] = [event |-> e, part |-> n]
    <3>1. n \in 1 .. n
      BY <1>2
    <3>2. QED
      BY <1>6, <3>1
  <2>2. QED
    BY <1>2, <1>4, <2>1 DEF Complete
<1>8. Whole(U)
  <2> SUFFICES ASSUME NEW p \in 1 .. m + n
               PROVE  IF First(U, p) THEN U[p].part = 1
                      ELSE U[p].event = U[p - 1].event /\ U[p].part = U[p - 1].part + 1
    BY <1>4 DEF Whole
  <2>1. CASE p <= m
    <3>0. p \in 1 .. m /\ (p # 1 => p - 1 \in 1 .. m)
      BY <2>1
    <3>1. U[p] = T[p] /\ (p # 1 => U[p - 1] = T[p - 1])
      BY <1>5, <3>0
    <3>2. First(U, p) <=> First(T, p)
      BY <3>1 DEF First
    <3>3. IF First(T, p) THEN T[p].part = 1
          ELSE T[p].event = T[p - 1].event /\ T[p].part = T[p - 1].part + 1
      BY <1>3, <2>1 DEF Whole
    <3>4. CASE First(T, p)
      BY <3>1, <3>2, <3>3, <3>4
    <3>5. CASE ~First(T, p)
      <4>1. p # 1
        BY <3>5 DEF First
      <4>2. QED
        BY <3>1, <3>2, <3>3, <3>5, <4>1
    <3>6. QED
      BY <3>4, <3>5
  <2>2. CASE p = m + 1
    <3>1. U[p].part = 1
      <4>1. 1 \in 1 .. n
        BY <1>2
      <4>2. U[m + 1] = [event |-> e, part |-> 1]
        BY <1>6, <4>1
      <4>3. QED
        BY <2>2, <4>2
    <3>2. First(U, p)
      BY <1>3, <1>5, <2>2 DEF First, Complete
    <3>3. QED
      BY <3>1, <3>2
  <2>3. CASE p > m + 1
    <3>1. PICK j \in 2 .. n : p = m + j
      <4>1. p - m \in 2 .. n /\ p = m + (p - m)
        BY <2>3
      <4>2. QED
        BY <4>1
    <3>2. U[p] = [event |-> e, part |-> j]
      <4>1. j \in 1 .. n
        BY <3>1
      <4>2. QED
        BY <1>6, <3>1, <4>1
    <3>3. U[p - 1] = [event |-> e, part |-> j - 1]
      <4>1. j - 1 \in 1 .. n /\ p - 1 = m + (j - 1)
        BY <3>1
      <4>2. QED
        BY <1>6, <4>1
    <3>4. ~First(U, p)
      BY <1>2, <3>1, <3>3 DEF First
    <3>5. QED
      BY <3>1, <3>2, <3>3, <3>4
  <2>4. p \in Int /\ m \in Int
    OBVIOUS
  <2>5. p <= m \/ p = m + 1 \/ p > m + 1
    BY <2>4
  <2>6. QED
    BY <2>1, <2>2, <2>3, <2>5, Zenon
<1>9. Ordered(U)
  <2> SUFFICES ASSUME NEW p \in 1 .. m + n, NEW q \in 1 .. m + n, p < q, U[p].part = 1, U[q].part = 1,
                      U[p].event[1] = U[q].event[1]
               PROVE  U[p].event[2] < U[q].event[2]
    BY <1>4 DEF Ordered
  <2>1. CASE q <= m
    BY <1>3, <1>5, <2>1 DEF Ordered
  <2>2. CASE q > m
    <3>1. PICK j \in 1 .. n : q = m + j
      <4>1. q - m \in 1 .. n /\ q = m + (q - m)
        BY <2>2
      <4>2. QED
        BY <4>1
    <3>2. U[q].event = e /\ j = 1
      <4>1. U[q] = [event |-> e, part |-> j]
        BY <1>6, <3>1
      <4>2. QED
        BY <4>1
    <3>3. p \in 1 .. m
      BY <3>1, <3>2
    <3>4. QED
      BY <1>3, <1>5, <3>2, <3>3
  <2>3. q \in Int /\ m \in Int
    OBVIOUS
  <2>4. q <= m \/ q > m
    BY <2>3
  <2>5. QED
    BY <2>1, <2>2, <2>4, Zenon
<1>10. QED
  BY <1>2, <1>3, <1>4, <1>5, <1>6, <1>7, <1>8, <1>9 DEF Appended

-----------------------------------------------------------------------------
(* Every step keeps the file and the packets after it *)

\* Nothing is written, nothing planned.
LEMMA InitContent == Init => ContentInv
<1> SUFFICES ASSUME Init PROVE ContentInv
  OBVIOUS
<1>1. BufferSize \in Nat
  BY EventsAssumption
<1>2. Pending = {}
  BY DEF Init, Pending
<1>3. End = 0 /\ EndInv
  <2>1. Cardinality(Pending) = 0
    BY <1>2, FS_EmptySet
  <2>2. End = 0
    BY <2>1 DEF Init, End
  <2>3. QED
    BY <1>1, <2>2 DEF Init, EndInv
<1>4. /\ <<>> \in Seq(Byte) /\ Len(<<>>) = 0
  OBVIOUS
<1>5. FileInv
  BY <1>4 DEF Init, FileInv, Complete, Empty
<1>6. BeginInv
  BY DEF Init, BeginInv
<1>7. Plan(<<>>)
  <2>1. \A t \in Threads : Claimed(t) = 0 /\ ~Filling(t)
    BY DEF Init, Claimed, HasPacket, Filling
  <2>2. Laid(<<>>)
    BY <1>3, <1>4, <2>1 DEF Init, Laid
  <2>3. Whole(<<>>) /\ Complete(<<>>) /\ Ordered(<<>>) /\ Accounts(<<>>)
    BY <1>4, <2>1 DEF Whole, Complete, Ordered, Accounts
  <2>4. QED
    BY <2>2, <2>3 DEF Plan
<1>8. QED
  BY <1>3, <1>5, <1>6, <1>7 DEF ContentInv, PlanInv

\* The numbers of events.
LEMMA ClaimedType ==
    ASSUME IInv, NEW t \in Threads
    PROVE  Claimed(t) \in Nat /\ done[t] \in Nat
BY DEF IInv, TypeOK, Claimed

\* The same of the next state.
LEMMA ClaimedTypeNext ==
    ASSUME IInv', NEW t \in Threads
    PROVE  Claimed(t)' \in Nat
BY DEF IInv, TypeOK, Claimed

\* A step that leaves the file, the buffer and those who fill it alone.
LEMMA PlanFrame ==
    ASSUME IInv, IInv', NEW T, Plan(T), file' = file, buf' = buf, End' = End,
           \A t \in Threads : Filling(t)' <=> Filling(t),
           \A t \in Threads : Filling(t) => at'[t] = at[t] /\ done'[t] = done[t],
           \A t \in Threads : Claimed(t) <= Claimed(t)',
           traceFile' = FD => \A t \in Threads : Claimed(t)' = 0 \/ (traceFile = FD /\ Claimed(t)' = Claimed(t))
    PROVE  Plan(T)'
<1>1. \A t \in Threads : Filling(t) => Event(t)' = Event(t)
  BY DEF Event
<1>2. \A e : Size(e)' = Size(e)
  BY DEF Size
<1>3. \A t \in Threads : Filling(t) => Size(Event(t))' = Size(Event(t))
  BY <1>1, <1>2 DEF Size
<1>4. \A t \in Threads : Filling(t) => \A k : Covers(t, k)' <=> Covers(t, k)
  BY <1>3 DEF Covers
<1>5. Laid(T)'
  BY <1>1, <1>3, <1>4 DEF Plan, Laid
<1>6. Accounts(T)'
  <2>1. \A p \in 1 .. Len(T) : T[p].event[2] <= Claimed(T[p].event[1])'
    <3> TAKE p \in 1 .. Len(T)
    <3>1. T[p] \in Byte
      BY ElementOfSeq DEF Plan, Laid
    <3>2. T[p].event[1] \in Threads /\ T[p].event[2] \in Int
      BY <3>1, ByteHas
    <3>3. PICK t \in Threads : t = T[p].event[1]
      BY <3>2
    <3>4. Claimed(t) \in Nat /\ Claimed(t)' \in Nat /\ Claimed(t) <= Claimed(t)'
      BY ClaimedType, ClaimedTypeNext
    <3>5. T[p].event[2] <= Claimed(t)
      BY <3>3 DEF Plan, Accounts
    <3>6. T[p].event[2] <= Claimed(t)'
      BY <3>2, <3>4, <3>5
    <3>7. QED
      BY <3>3, <3>6
  <2>2. traceFile' = FD => \A t \in Threads : \A i \in 1 .. Claimed(t)' : Says(T, t, i)
    <3> SUFFICES ASSUME traceFile' = FD, NEW t \in Threads, NEW i \in 1 .. Claimed(t)'
                 PROVE  Says(T, t, i)
      OBVIOUS
    <3>1. Claimed(t)' # 0
      OBVIOUS
    <3>2. traceFile = FD /\ i \in 1 .. Claimed(t)
      BY <3>1
    <3>3. QED
      BY <3>2 DEF Plan, Accounts
  <2>3. \A t \in Threads, i \in Int : Says(T, t, i)' <=> Says(T, t, i)
    BY DEF Says, Bytes, Size
  <2>4. QED
    BY <2>1, <2>2, <2>3 DEF Accounts
<1>7. (Whole(T) /\ Complete(T) /\ Ordered(T))'
  BY <1>2 DEF Plan, Whole, Complete, Ordered, First, Size
<1>8. QED
  BY <1>5, <1>6, <1>7 DEF Plan

\* The parts together, for such a step.
LEMMA ContentFrame ==
    ASSUME IInv, IInv', ContentInv, ~Aborted, file' = file, buf' = buf, End' = End,
           cursor' = cursor \/ (cursor' \in Nat /\ cursor' > BufferSize),
           \A t \in Threads : Filling(t)' <=> Filling(t),
           \A t \in Threads : Filling(t) => at'[t] = at[t] /\ done'[t] = done[t],
           \A t \in Threads : Claimed(t) <= Claimed(t)',
           traceFile' = FD => \A t \in Threads : Claimed(t)' = 0 \/ (traceFile = FD /\ Claimed(t)' = Claimed(t)),
           BeginInv'
    PROVE  ContentInv'
<1>1. EndInv'
  BY EventsAssumption DEF ContentInv, EndInv
<1>2. FileInv'
  BY DEF ContentInv, FileInv, Complete, Size, Byte, Bytes, Id
<1>3. PICK T : Plan(T)
  BY DEF ContentInv, PlanInv
<1>4. Plan(T)'
  BY <1>3, PlanFrame
<1>5. PlanInv'
  BY <1>4 DEF PlanInv
<1>6. QED
  BY <1>1, <1>2, <1>5 DEF ContentInv

\* Only t has moved.
Moves(t, l) ==
    /\ pc' = [pc EXCEPT ![t] = l]
    /\ \A u \in Threads \ {t} : done'[u] = done[u] /\ at'[u] = at[u] /\ after'[u] = after[u]

\* So the others fill and have claimed what they did.
LEMMA OthersStay ==
    ASSUME IInv, NEW t \in Threads, NEW l, Moves(t, l)
    PROVE  /\ pc'[t] = l
           /\ \A u \in Threads \ {t} : /\ pc'[u] = pc[u] /\ (Filling(u)' <=> Filling(u)) /\ Claimed(u)' = Claimed(u)
<1>1. pc'[t] = l /\ \A u \in Threads \ {t} : pc'[u] = pc[u]
  BY DEF Moves, IInv, TypeOK
<1>2. QED
  BY <1>1 DEF Moves, Filling, Claimed, HasPacket

\* A step of a thread that writes nothing.
LEMMA QuietStep ==
    ASSUME IInv, IInv', ContentInv, ~Aborted, NEW t \in Threads, NEW l, Moves(t, l),
           file' = file, buf' = buf, traceFile' = traceFile, End' = End,
           cursor' = cursor \/ (cursor' \in Nat /\ cursor' > BufferSize),
           pc[t] \notin {"out", "fill"}, l \notin {"fill", "print"},
           Claimed(t)' = Claimed(t) \/ (traceFile # FD /\ Claimed(t) <= Claimed(t)')
    PROVE  ContentInv'
<1>1. /\ pc'[t] = l
      /\ \A u \in Threads \ {t} : /\ pc'[u] = pc[u] /\ (Filling(u)' <=> Filling(u)) /\ Claimed(u)' = Claimed(u)
  BY OthersStay
<1>2. ~Filling(t) /\ ~Filling(t)'
  BY <1>1 DEF Filling
<1>3. \A u \in Threads : Filling(u)' <=> Filling(u)
  BY <1>1, <1>2
<1>4. \A u \in Threads : Filling(u) => at'[u] = at[u] /\ done'[u] = done[u]
  BY <1>2 DEF Moves
<1>5. \A u \in Threads : Claimed(u) <= Claimed(u)'
  <2>1. \A u \in Threads : Claimed(u) \in Nat
    BY ClaimedType
  <2>2. QED
    BY <1>1, <2>1
<1>6. traceFile' = FD => \A u \in Threads : traceFile = FD /\ Claimed(u)' = Claimed(u)
  BY <1>1
<1>7. BeginInv'
  BY <1>1 DEF ContentInv, BeginInv
<1>8. QED
  BY <1>3, <1>4, <1>5, <1>6, <1>7, ContentFrame

\* The steps that leave the cursor, too.
LEMMA StillSteps ==
    ASSUME IInv, IInv', ContentInv, ~Aborted, NEW t \in Threads,
           \/ PrintText(t) \/ AcquireShared(t) \/ BackOut(t) \/ ReleasePacket(t) \/ Request(t)
           \/ TakeExclusive(t) \/ TakeFails(t) \/ ReleaseExclusive(t)
    PROVE  ContentInv'
<1> USE DEF Goto, Returns, output, contents, locals
<1>1. /\ UNCHANGED <<cursor, overage, file, buf, traceFile>>
      /\ pc[t] \notin {"out", "fill", "over"}
  BY DEF PrintText, AcquireShared, BackOut, ReleasePacket, Request, TakeExclusive, TakeFails, ReleaseExclusive
<1>2. \E l : Moves(t, l) /\ l \notin {"fill", "print", "over"}
  <2>1. \E l : pc' = [pc EXCEPT ![t] = l] /\ l \notin {"fill", "print", "over"}
    BY DEF PrintText, AcquireShared, BackOut, ReleasePacket, Request, TakeExclusive, TakeFails, ReleaseExclusive, RetryPc
  <2>2. \A u \in Threads \ {t} : done'[u] = done[u] /\ at'[u] = at[u] /\ after'[u] = after[u]
    BY DEF PrintText, AcquireShared, BackOut, ReleasePacket, Request, TakeExclusive, TakeFails, ReleaseExclusive,
           IInv, TypeOK
  <2>3. QED
    BY <2>1, <2>2 DEF Moves
<1>3. PICK l : Moves(t, l) /\ l \notin {"fill", "print", "over"}
  BY <1>2
<1>4. pc'[t] = l /\ pc' = [pc EXCEPT ![t] = l]
  BY <1>3, OthersStay DEF Moves
<1>5. End' = End
  <2>1. Pending' = Pending
    BY <1>1, <1>3, <1>4, PendingStays DEF Moves
  <2>2. QED
    BY <1>1, <2>1 DEF End
<1>6. Claimed(t)' = Claimed(t) \/ (traceFile # FD /\ Claimed(t) <= Claimed(t)')
  <2> USE DEF IInv, TypeOK
  <2>1. CASE PrintText(t)
    <3>1. traceFile = 0 /\ traceFile # FD
      BY <2>1 DEF PrintText, ContentInv, BeginInv, FD
    <3>2. Claimed(t) = done[t] /\ Claimed(t)' = done[t] + 1
      BY <2>1 DEF PrintText, Claimed, HasPacket
    <3>3. QED
      BY <3>1, <3>2
  <2>2. CASE AcquireShared(t) \/ BackOut(t) \/ Request(t) \/ TakeExclusive(t) \/ TakeFails(t)
    BY <2>2 DEF AcquireShared, BackOut, Request, TakeExclusive, TakeFails, RetryPc, Claimed, HasPacket
  <2>3. CASE ReleasePacket(t)
    BY <2>3 DEF ReleasePacket, Claimed, HasPacket
  <2>4. CASE ReleaseExclusive(t)
    BY <2>4 DEF ReleaseExclusive, Claimed, HasPacket
  <2>5. QED
    BY <2>1, <2>2, <2>3, <2>4
<1>7. QED
  BY <1>1, <1>3, <1>5, <1>6, QuietStep

\* A packet that does not fit.
LEMMA OverSteps ==
    ASSUME IInv, IInv', ContentInv, ~Aborted, NEW t \in Threads, (Claim(t) /\ ~Fits(t)) \/ AddOverage(t)
    PROVE  ContentInv'
<1> USE DEF Goto, output, locals
<1>1. /\ UNCHANGED <<file, buf, traceFile, done>> /\ pc[t] \in {"claim", "over"}
  BY DEF Claim, AddOverage
<1>2. PICK n \in Nat : n = Size(Event(t))
  <2>1. Size(Event(t)) \in 1 .. BufferSize
    BY <1>1, SizeOfEvent
  <2>2. QED
    BY <2>1
<1>3. BufferSize \in Nat /\ cursor \in Nat /\ overage \in Nat /\ Cardinality(Pending) \in Nat
  BY EventsAssumption, PendingIsFinite DEF IInv, TypeOK
<1>4. CASE Claim(t) /\ ~Fits(t)
  <2>1. pc' = [pc EXCEPT ![t] = "over"] /\ cursor' = cursor + n /\ overage' = overage /\ pc[t] = "claim"
        /\ cursor + n > BufferSize
    BY <1>2, <1>3, <1>4 DEF Claim, Fits
  <2>2. Cardinality(Pending') = Cardinality(Pending) + n
    BY <1>1, <1>2, <2>1, PendingJoins
  <2>3. End' = End
    BY <1>3, <2>1, <2>2 DEF End
  <2>4. Moves(t, "over")
    BY <1>4, <2>1 DEF Claim, Moves, IInv, TypeOK
  <2>5. Claimed(t)' = Claimed(t)
    BY <1>1, <2>1, <2>4, OthersStay DEF Claimed, HasPacket
  <2>6. QED
    BY <1>1, <1>3, <2>1, <2>3, <2>4, <2>5, QuietStep
<1>5. CASE AddOverage(t)
  <2>1. pc' = [pc EXCEPT ![t] = "backOut"] /\ cursor' = cursor /\ overage' = overage + n /\ pc[t] = "over"
    BY <1>2, <1>5 DEF AddOverage
  <2>2. Cardinality(Pending) = Cardinality(Pending') + n
    BY <1>1, <1>2, <2>1, PendingLeaves
  <2>3. Cardinality(Pending') \in Int
    <3>1. Pending' \subseteq Pending
      BY <1>1, <2>1 DEF Pending, Event, Size, IInv, TypeOK
    <3>2. IsFiniteSet(Pending')
      BY <3>1, PendingIsFinite, FS_Subset
    <3>3. QED
      BY <3>2, FS_CardinalityType
  <2>4. End' = End
    BY <1>3, <2>1, <2>2, <2>3 DEF End
  <2>5. Moves(t, "backOut")
    BY <1>5, <2>1 DEF AddOverage, Moves
  <2>6. Claimed(t)' = Claimed(t)
    BY <1>1, <2>1, <2>5, OthersStay DEF Claimed, HasPacket
  <2>7. QED
    BY <1>1, <2>1, <2>4, <2>5, <2>6, QuietStep
<1>6. QED
  BY <1>4, <1>5

\* A packet that fits is laid behind the others.
LEMMA ClaimStep ==
    ASSUME IInv, IInv', ContentInv, ~Aborted, NEW t \in Threads, Claim(t), Fits(t)
    PROVE  ContentInv'
<1> USE DEF Goto, output
<1>1. /\ UNCHANGED <<file, buf, traceFile, done, overage, after>> /\ pc[t] = "claim"
      /\ pc' = [pc EXCEPT ![t] = "fill"] /\ at' = [at EXCEPT ![t] = cursor] /\ cursor' = cursor + Size(Event(t))
  BY DEF Claim
<1>2. /\ Event(t) \in Id /\ Event(t)[1] = t /\ Event(t)[2] = done[t] + 1 /\ Size(Event(t)) \in 1 .. BufferSize
  BY <1>1, EventHas
<1>3. PICK n \in Nat : n = Size(Event(t)) /\ n >= 1
  BY <1>2
<1>4. /\ EndInv /\ FileInv /\ BeginInv
      /\ BufferSize \in Nat /\ cursor \in Nat
  BY EventsAssumption DEF ContentInv, IInv, TypeOK
<1>5. End = cursor /\ cursor + n <= BufferSize
  BY <1>3, <1>4 DEF Fits, EndInv
<1>6. Moves(t, "fill")
  BY <1>1 DEF Moves, IInv, TypeOK
<1>7. /\ pc'[t] = "fill" /\ at'[t] = cursor
      /\ \A u \in Threads \ {t} : /\ pc'[u] = pc[u] /\ (Filling(u)' <=> Filling(u)) /\ Claimed(u)' = Claimed(u)
  BY <1>1, <1>6, OthersStay DEF IInv, TypeOK
<1>8. End' = End + n
  <2>1. Pending' = Pending
    BY <1>1, <1>6, PendingStays DEF Moves
  <2>2. Cardinality(Pending) \in Nat /\ overage \in Nat
    BY PendingIsFinite DEF IInv, TypeOK
  <2>3. QED
    BY <1>1, <1>3, <1>4, <2>1, <2>2 DEF End
<1>9. EndInv' /\ FileInv' /\ BeginInv'
  <2>1. EndInv'
    BY <1>1, <1>3, <1>4, <1>5, <1>8 DEF EndInv
  <2>2. FileInv'
    BY <1>1, <1>4 DEF FileInv, Complete, Size, Byte, Bytes, Id
  <2>3. BeginInv'
    BY <1>1, <1>4, <1>7 DEF BeginInv
  <2>4. QED
    BY <2>1, <2>2, <2>3
<1>10. PICK T : Plan(T)
  BY DEF ContentInv, PlanInv
<1>11. T \in Seq(Byte) /\ Len(T) = Len(file) + End /\ Len(file) \in Nat /\ Len(T) \in Nat /\ End \in Nat
  BY <1>4, <1>5, <1>10, LenProperties DEF Plan, Laid, FileInv
<1>12. Claimed(t) = done[t] /\ Claimed(t)' = done[t] + 1 /\ done[t] \in Nat
  BY <1>1, <1>7 DEF Claimed, HasPacket, IInv, TypeOK
<1>13. Before(T, Event(t))
  <2> SUFFICES ASSUME NEW p \in 1 .. Len(T), T[p].event[1] = t PROVE T[p].event[2] < done[t] + 1
    BY <1>2 DEF Before
  <2>1. T[p] \in Byte
    BY <1>11, ElementOfSeq
  <2>2. T[p].event[2] \in Int
    BY <2>1, ByteHas
  <2>3. T[p].event[2] <= done[t]
    BY <1>10, <1>12 DEF Plan, Accounts
  <2>4. QED
    BY <1>12, <2>2, <2>3
<1>14. PICK U : U = T \o Packet(Event(t))
  OBVIOUS
<1>15. /\ U \in Seq(Byte) /\ Len(U) = Len(T) + n
       /\ \A p \in 1 .. Len(T) : U[p] = T[p]
       /\ \A j \in 1 .. n : U[Len(T) + j] = [event |-> Event(t), part |-> j]
       /\ Whole(U) /\ Complete(U) /\ Ordered(U)
  <2>1. PICK e \in Id : e = Event(t)
    BY <1>2
  <2>2. Whole(T) /\ Complete(T) /\ Ordered(T)
    BY <1>10 DEF Plan
  <2>3. Size(e) \in 1 .. BufferSize
    BY <1>2, <2>1
  <2>4. Before(T, e)
    BY <1>13, <2>1
  <2>5. U = T \o Packet(e)
    BY <1>14, <2>1
  <2>6. Appended(U, T, e) /\ Whole(U) /\ Complete(U) /\ Ordered(U)
    BY <1>11, <2>2, <2>3, <2>4, <2>5, WholeAndOne
  <2>7. QED
    BY <1>3, <2>1, <2>6 DEF Appended
<1>16. \A u \in Threads : Event(u)' = Event(u) /\ Size(Event(u))' = Size(Event(u))
  BY <1>1 DEF Event, Size
<1>17. Laid(U)'
  <2>1. \A p \in 1 .. Len(file) : file[p] = U[p]
    BY <1>10, <1>11, <1>15 DEF Plan, Laid
  <2>2. ASSUME NEW u \in Threads, Filling(u)'
        PROVE  /\ at'[u] + Size(Event(u)) <= End'
               /\ \A j \in 1 .. Size(Event(u)) : U[Len(file) + at'[u] + j] = [event |-> Event(u), part |-> j]
    <3>1. CASE u = t
      <4>1. Len(file) + at'[t] = Len(T) /\ at'[t] + n = End'
        BY <1>3, <1>5, <1>7, <1>8, <1>11
      <4>2. at'[u] + Size(Event(u)) <= End'
        BY <1>3, <1>8, <1>11, <3>1, <4>1
      <4>3. \A j \in 1 .. n : U[Len(T) + j] = [event |-> Event(t), part |-> j]
        BY <1>15
      <4>4. \A j \in 1 .. n : U[(Len(file) + at'[t]) + j] = [event |-> Event(t), part |-> j]
        BY <4>1, <4>3
      <4>5. QED
        BY <1>3, <3>1, <4>2, <4>4
    <3>2. CASE u # t
      <4>1. Filling(u) /\ at'[u] = at[u] /\ at[u] \in Nat /\ pc[u] # "out"
        BY <1>6, <1>7, <2>2, <3>2 DEF Moves, IInv, TypeOK, Filling
      <4>2. PICK m \in Nat : m = Size(Event(u))
        BY <4>1, EventHas
      <4>3. at[u] + m <= End /\ \A j \in 1 .. m : T[Len(file) + at[u] + j] = [event |-> Event(u), part |-> j]
        BY <1>10, <4>1, <4>2 DEF Plan, Laid
      <4>4. \A j \in 1 .. m : Len(file) + at[u] + j \in 1 .. Len(T)
        BY <1>11, <4>1, <4>3
      <4>5. \A j \in 1 .. m : U[Len(file) + at[u] + j] = [event |-> Event(u), part |-> j]
        BY <1>15, <4>3, <4>4
      <4>6. at[u] + m <= End + n
        BY <1>11, <4>1, <4>3
      <4>7. QED
        BY <1>8, <4>1, <4>2, <4>5, <4>6
    <3>3. QED
      BY <3>1, <3>2
  <2>3. ASSUME NEW k \in 0 .. End' - 1
        PROVE  buf'[k] = U[Len(file) + k + 1] \/ \E u \in Threads : Filling(u)' /\ Covers(u, k)'
    <3>1. CASE k < End
      <4>0. k \in 0 .. End - 1 /\ Len(file) + k + 1 \in 1 .. Len(T)
        BY <1>8, <1>11, <3>1
      <4>1. CASE buf[k] = T[Len(file) + k + 1]
        BY <1>1, <1>15, <4>0, <4>1
      <4>2. CASE \E u \in Threads : Filling(u) /\ Covers(u, k)
        <5>1. PICK u \in Threads : Filling(u) /\ Covers(u, k)
          BY <4>2
        <5>2. u # t
          BY <1>1, <5>1 DEF Filling
        <5>3. Filling(u)' /\ at'[u] = at[u]
          BY <1>6, <1>7, <5>1, <5>2 DEF Moves
        <5>4. Covers(u, k)'
          BY <1>16, <5>1, <5>3 DEF Covers
        <5>5. QED
          BY <5>3, <5>4
      <4>3. QED
        BY <1>10, <4>0, <4>1, <4>2 DEF Plan, Laid
    <3>2. CASE k >= End
      <4>1. Filling(t)'
        BY <1>7 DEF Filling
      <4>2. k \in at'[t] .. at'[t] + n - 1
        BY <1>5, <1>7, <1>8, <1>11, <3>2
      <4>3. Covers(t, k)'
        BY <1>3, <1>16, <4>2 DEF Covers
      <4>4. QED
        BY <4>1, <4>3
    <3>3. k \in Int /\ End \in Int
      BY <1>11
    <3>4. k < End \/ k >= End
      BY <3>3
    <3>5. QED
      BY <3>1, <3>2, <3>4, Zenon
  <2>4. U \in Seq(Byte) /\ Len(U) = Len(file) + End'
    BY <1>8, <1>11, <1>15
  <2>5. Byte' = Byte
    BY DEF Byte, Bytes, Id, Size
  <2>6. QED
    BY <1>1, <1>16, <2>1, <2>2, <2>3, <2>4, <2>5 DEF Laid
<1>18. Accounts(U)'
  <2>1. ASSUME NEW p \in 1 .. Len(U) PROVE U[p].event[2] <= Claimed(U[p].event[1])'
    <3>1. CASE p <= Len(T)
      <4>1. p \in 1 .. Len(T) /\ U[p] = T[p] /\ T[p] \in Byte
        BY <1>11, <1>15, <3>1, ElementOfSeq
      <4>2. T[p].event[1] \in Threads /\ T[p].event[2] \in Int
        BY <4>1, ByteHas
      <4>3. T[p].event[2] <= Claimed(T[p].event[1])
        BY <1>10, <4>1 DEF Plan, Accounts
      <4>4. CASE T[p].event[1] = t
        BY <1>12, <4>1, <4>2, <4>3, <4>4
      <4>5. CASE T[p].event[1] # t
        <5>1. PICK u \in Threads \ {t} : u = T[p].event[1]
          BY <4>2, <4>5
        <5>2. T[p].event[2] <= Claimed(u)'
          BY <1>7, <4>3, <5>1
        <5>3. QED
          BY <4>1, <5>1, <5>2
      <4>6. QED
        BY <4>4, <4>5
    <3>2. CASE p > Len(T)
      <4>1. PICK j \in 1 .. n : p = Len(T) + j
        <5>1. p - Len(T) \in 1 .. n /\ p = Len(T) + (p - Len(T))
          BY <1>11, <1>15, <3>2
        <5>2. QED
          BY <5>1
      <4>2. U[p] = [event |-> Event(t), part |-> j]
        BY <1>15, <4>1
      <4>3. QED
        BY <1>2, <1>12, <4>2
    <3>3. p \in Int /\ Len(T) \in Int
      BY <1>11
    <3>4. p <= Len(T) \/ p > Len(T)
      BY <3>3
    <3>5. QED
      BY <3>1, <3>2, <3>4, Zenon
  <2>2. ASSUME traceFile = FD, NEW u \in Threads, NEW i \in 1 .. Claimed(u)' PROVE Says(U, u, i)
    <3>1. CASE u = t /\ i = done[t] + 1
      <4>1. <<u, i>> = Event(t)
        BY <3>1 DEF Event
      <4>2. \A x \in Bytes(Event(t)) : \E j \in 1 .. n : x = [event |-> Event(t), part |-> j]
        BY <1>3 DEF Bytes
      <4>3. \A j \in 1 .. n : Len(T) + j \in 1 .. Len(U)
        BY <1>11, <1>15
      <4>4. \A x \in Bytes(Event(t)) : \E p \in 1 .. Len(U) : U[p] = x
        <5> TAKE x \in Bytes(Event(t))
        <5>1. PICK j \in 1 .. n : x = [event |-> Event(t), part |-> j]
          BY <4>2
        <5>2. U[Len(T) + j] = x /\ Len(T) + j \in 1 .. Len(U)
          BY <1>15, <4>3, <5>1
        <5>3. QED
          BY <5>2
      <4>5. QED
        BY <4>1, <4>4 DEF Says
    <3>2. CASE ~(u = t /\ i = done[t] + 1)
      <4>1. i \in 1 .. Claimed(u)
        BY <1>7, <1>12, <2>2, <3>2
      <4>2. Says(T, u, i)
        BY <1>10, <2>2, <4>1 DEF Plan, Accounts
      <4>3. \A p \in 1 .. Len(T) : p \in 1 .. Len(U)
        BY <1>11, <1>15
      <4>4. QED
        BY <1>15, <4>2, <4>3 DEF Says
    <3>3. QED
      BY <3>1, <3>2
  <2>3. \A u \in Threads, i \in Int : Says(U, u, i)' <=> Says(U, u, i)
    BY DEF Says, Bytes, Size
  <2>4. QED
    BY <1>1, <2>1, <2>2, <2>3 DEF Accounts
<1>19. (Whole(U) /\ Complete(U) /\ Ordered(U))'
  BY <1>15 DEF Whole, Complete, Ordered, First, Size
<1>20. PlanInv'
  BY <1>17, <1>18, <1>19 DEF PlanInv, Plan
<1>21. QED
  BY <1>9, <1>20 DEF ContentInv

\* A packet is filled as it was laid.
LEMMA FillStep ==
    ASSUME IInv, IInv', ContentInv, ~Aborted, NEW t \in Threads, Fill(t)
    PROVE  ContentInv'
<1> USE DEF Goto, output, locals
<1>1. /\ UNCHANGED <<file, traceFile, done, cursor, overage, at, after>> /\ pc[t] = "fill"
      /\ pc' = [pc EXCEPT ![t] = "release"]
  BY DEF Fill
<1>2. /\ EndInv /\ FileInv /\ BeginInv
  BY DEF ContentInv
<1>3. Moves(t, "release")
  BY <1>1 DEF Moves
<1>4. /\ pc'[t] = "release" /\ Claimed(t)' = Claimed(t)
      /\ \A u \in Threads \ {t} : /\ pc'[u] = pc[u] /\ (Filling(u)' <=> Filling(u)) /\ Claimed(u)' = Claimed(u)
  BY <1>1, <1>3, OthersStay DEF Claimed, HasPacket
<1>5. End' = End
  <2>1. Pending' = Pending
    BY <1>1, PendingStays
  <2>2. QED
    BY <1>1, <2>1 DEF End
<1>6. /\ \A k \in DOMAIN buf : Covers(t, k) => buf'[k] = [event |-> Event(t), part |-> k - at[t] + 1]
      /\ \A k \in DOMAIN buf : ~Covers(t, k) => buf'[k] = buf[k]
      /\ DOMAIN buf' = DOMAIN buf
  BY DEF Fill, Covers
<1>7. EndInv' /\ FileInv' /\ BeginInv'
  <2>1. EndInv'
    BY <1>1, <1>2, <1>5 DEF EndInv
  <2>2. FileInv'
    BY <1>1, <1>2, <1>6 DEF FileInv, Complete, Size, Byte, Bytes, Id
  <2>3. BeginInv'
    BY <1>1, <1>2, <1>4 DEF BeginInv
  <2>4. QED
    BY <2>1, <2>2, <2>3
<1>8. PICK T : Plan(T)
  BY DEF ContentInv, PlanInv
<1>9. \A u \in Threads : Event(u)' = Event(u) /\ Size(Event(u))' = Size(Event(u)) /\ \A k : Covers(u, k)' <=> Covers(u, k)
  BY <1>1 DEF Event, Size, Covers
<1>10. Laid(T)'
  <2>1. ASSUME NEW u \in Threads, Filling(u)' PROVE Filling(u)
    BY <1>4, <2>1 DEF Filling
  <2>2. ASSUME NEW k \in 0 .. End - 1
        PROVE  buf'[k] = T[Len(file) + k + 1] \/ \E u \in Threads : Filling(u)' /\ Covers(u, k)'
    <3>0. k \in DOMAIN buf
      BY <1>2, EventsAssumption DEF EndInv, FileInv
    <3>1. CASE Covers(t, k)
      <4>1. PICK n \in Nat : n = Size(Event(t))
        BY <1>1, EventHas
      <4>2. at[t] \in Nat /\ Len(file) \in Nat
        BY <1>2, LenProperties DEF IInv, TypeOK, FileInv
      <4>3. PICK j \in 1 .. n : j = k - at[t] + 1
        <5>1. k - at[t] + 1 \in 1 .. n
          BY <3>1, <4>1, <4>2 DEF Covers
        <5>2. QED
          BY <5>1
      <4>4. T[Len(file) + at[t] + j] = [event |-> Event(t), part |-> j]
        BY <1>1, <1>8, <4>1 DEF Plan, Laid, Filling
      <4>5. Len(file) + at[t] + j = Len(file) + k + 1
        BY <4>2, <4>3
      <4>6. QED
        BY <1>6, <3>0, <3>1, <4>3, <4>4, <4>5
    <3>2. CASE ~Covers(t, k)
      <4>1. buf'[k] = buf[k]
        BY <1>6, <3>0, <3>2
      <4>2. ASSUME NEW u \in Threads, Filling(u), Covers(u, k) PROVE Filling(u)' /\ Covers(u, k)'
        BY <1>4, <1>9, <3>2, <4>2
      <4>3. QED
        BY <1>8, <4>1, <4>2 DEF Plan, Laid
    <3>3. QED
      BY <3>1, <3>2
  <2>3. Byte' = Byte
    BY DEF Byte, Bytes, Id, Size
  <2>4. T \in Seq(Byte) /\ Len(T) = Len(file) + End /\ \A p \in 1 .. Len(file) : file[p] = T[p]
    BY <1>8 DEF Plan, Laid
  <2>5. \A u \in Threads : Filling(u) =>
          /\ at[u] + Size(Event(u)) <= End
          /\ \A j \in 1 .. Size(Event(u)) : T[Len(file) + at[u] + j] = [event |-> Event(u), part |-> j]
    BY <1>8 DEF Plan, Laid
  <2>6. QED
    BY <1>1, <1>5, <1>9, <2>1, <2>2, <2>3, <2>4, <2>5 DEF Laid
<1>11. Accounts(T)'
  <2>1. \A p \in 1 .. Len(T) : T[p] \in Byte /\ T[p].event[1] \in Threads
    BY <1>8, ElementOfSeq, ByteHas DEF Plan, Laid
  <2>2. \A u \in Threads : Claimed(u)' = Claimed(u)
    BY <1>4
  <2>3. \A u, i : Says(T, u, i)' <=> Says(T, u, i)
    BY DEF Says, Bytes, Size
  <2>4. QED
    BY <1>1, <1>8, <2>1, <2>2, <2>3 DEF Plan, Accounts
<1>12. (Whole(T) /\ Complete(T) /\ Ordered(T))'
  BY <1>8 DEF Plan, Whole, Complete, Ordered, First, Size
<1>13. PlanInv'
  BY <1>10, <1>11, <1>12 DEF PlanInv, Plan
<1>14. QED
  BY <1>7, <1>13 DEF ContentInv

\* Who flushes has the packets for himself: nobody fills, nobody has claimed in vain.
LEMMA FlusherAlone ==
    ASSUME IInv, NEW t \in Threads, pc[t] = "flush"
    PROVE  Pending = {} /\ Flushed = End /\ \A u \in Threads : ~Filling(u)
<1>1. lock.shared = 0
  BY DEF IInv, LockIsExact, ExclusivePcs
<1>2. \A u \in Threads : pc[u] \notin SharedPcs
  BY <1>1, NoWriters
<1>3. Pending = {} /\ \A u \in Threads : ~Filling(u)
  BY <1>2 DEF Pending, Filling, SharedPcs
<1>4. Cardinality(Pending) = 0 /\ cursor \in Int /\ overage \in Int
  BY <1>3, FS_EmptySet DEF IInv, TypeOK
<1>5. QED
  BY <1>3, <1>4 DEF Flushed, End

\* The buffer holds what follows the file.
LEMMA FlushedBytes ==
    ASSUME IInv, EndInv, FileInv, NEW t \in Threads, pc[t] = "flush", NEW T, Plan(T), NEW n \in 0 .. Flushed
    PROVE  /\ FirstBytes(n) \in Seq(Byte) /\ Len(FirstBytes(n)) = n
           /\ \A k \in 1 .. n : FirstBytes(n)[k] = T[Len(file) + k]
<1>1. Flushed = End
  BY FlusherAlone
<1>2. End \in 0 .. BufferSize /\ BufferSize \in Nat
  BY EventsAssumption DEF EndInv
<1>3. T \in Seq(Byte) /\ Len(T) = Len(file) + End /\ Len(file) \in Nat
  BY LenProperties DEF Plan, Laid, FileInv
<1>4. \A k \in 1 .. n : FirstBytes(n)[k] = T[Len(file) + k] /\ T[Len(file) + k] \in Byte
  <2> TAKE k \in 1 .. n
  <2>1. k \in 1 .. End /\ k <= BufferSize
    BY <1>1, <1>2
  <2>2. k - 1 \in 0 .. End - 1 /\ Len(file) + (k - 1) + 1 = Len(file) + k
    BY <1>2, <1>3, <2>1
  <2>3. buf[k - 1] = T[Len(file) + (k - 1) + 1]
    BY <2>2, FlusherAlone DEF Plan, Laid
  <2>4. Len(file) + k \in 1 .. Len(T)
    BY <1>2, <1>3, <2>1
  <2>5. T[Len(file) + k] \in Byte
    BY <1>3, <2>4, ElementOfSeq
  <2>6. FirstBytes(n)[k] = buf[k - 1]
    BY <2>1 DEF FirstBytes
  <2>7. QED
    BY <2>2, <2>3, <2>5, <2>6
<1>5. n \in Nat
  BY <1>1, <1>2
<1>6. FirstBytes(n) \in [1 .. n -> Byte]
  BY <1>4 DEF FirstBytes
<1>7. FirstBytes(n) \in Seq(Byte) /\ Len(FirstBytes(n)) = n
  BY <1>5, <1>6, IsASeq, LenProperties
<1>8. QED
  BY <1>1, <1>4, <1>7

\* With that the file is the plan.
LEMMA FlushedIsPlan ==
    ASSUME IInv, EndInv, FileInv, NEW t \in Threads, pc[t] = "flush", NEW T, Plan(T),
           file' = file \o FirstBytes(Flushed)
    PROVE  file' = T
<1>1. PICK m \in Nat : m = Flushed /\ m = End
  BY FlusherAlone DEF EndInv
<1>2. PICK P \in Seq(Byte) : P = FirstBytes(Flushed) /\ Len(P) = m /\ \A k \in 1 .. m : P[k] = T[Len(file) + k]
  <2>1. m \in 0 .. Flushed
    BY <1>1
  <2>2. QED
    BY <1>1, <2>1, FlushedBytes
<1>3. /\ file \o P \in Seq(Byte) /\ Len(file \o P) = Len(file) + m
      /\ \A i \in 1 .. Len(file) + m : (file \o P)[i] = IF i <= Len(file) THEN file[i] ELSE P[i - Len(file)]
  BY <1>2, ConcatProperties DEF FileInv
<1>4. /\ T \in Seq(Byte) /\ Len(T) = Len(file) + m /\ Len(file) \in Nat
      /\ \A i \in 1 .. Len(file) : file[i] = T[i]
  BY <1>1, LenProperties DEF Plan, Laid, FileInv
<1>5. PICK Q \in Seq(Byte) : Q = file \o P
  BY <1>3
<1>6. \A i \in 1 .. Len(T) : Q[i] = T[i]
  <2> TAKE i \in 1 .. Len(T)
  <2>1. i \in 1 .. Len(file) + m
    BY <1>4
  <2>2. CASE i <= Len(file)
    BY <1>3, <1>4, <1>5, <2>1, <2>2
  <2>3. CASE i > Len(file)
    <3>1. PICK k \in 1 .. m : i = Len(file) + k
      <4>1. i - Len(file) \in 1 .. m /\ i = Len(file) + (i - Len(file))
        BY <1>4, <2>1, <2>3
      <4>2. QED
        BY <4>1
    <3>2. i - Len(file) = k /\ ~(i <= Len(file))
      BY <1>4, <2>3, <3>1
    <3>3. Q[i] = P[k]
      BY <1>3, <1>5, <2>1, <3>2
    <3>4. QED
      BY <1>2, <3>1, <3>3
  <2>4. i \in Int /\ Len(file) \in Int
    BY <1>4
  <2>5. i <= Len(file) \/ i > Len(file)
    BY <2>4
  <2>6. QED
    BY <2>2, <2>3, <2>5, Zenon
<1>7. Len(Q) = Len(T)
  BY <1>3, <1>4, <1>5
<1>8. Q = T
  BY <1>4, <1>5, <1>6, <1>7, SeqEqual
<1>9. QED
  BY <1>2, <1>5, <1>8

\* Flushing writes it all.
LEMMA FlushStep ==
    ASSUME IInv, IInv', ContentInv, ~Aborted, NEW t \in Threads, Flush(t)
    PROVE  ContentInv'
<1> USE DEF Goto, output, locals
<1>1. /\ UNCHANGED <<traceFile, done, at, after>> /\ pc[t] = "flush" /\ pc' = [pc EXCEPT ![t] = "unlock"]
      /\ cursor' = 0 /\ overage' = 0 /\ buf' = Empty /\ file' = file \o FirstBytes(Flushed)
  BY DEF Flush
<1>2. EndInv /\ FileInv /\ BeginInv /\ BufferSize \in Nat
  BY EventsAssumption DEF ContentInv
<1>3. Moves(t, "unlock")
  BY <1>1 DEF Moves
<1>4. /\ pc'[t] = "unlock" /\ Claimed(t)' = Claimed(t)
      /\ \A u \in Threads \ {t} : /\ pc'[u] = pc[u] /\ (Filling(u)' <=> Filling(u)) /\ Claimed(u)' = Claimed(u)
  BY <1>1, <1>3, OthersStay DEF Claimed, HasPacket
<1>5. \A u \in Threads : ~Filling(u)' /\ Claimed(u)' = Claimed(u)
  BY <1>1, <1>4, FlusherAlone DEF Filling
<1>6. End' = 0
  <2>1. Pending' = Pending
    BY <1>1, PendingStays
  <2>2. Cardinality(Pending') = 0
    BY <1>1, <2>1, FlusherAlone, FS_EmptySet
  <2>3. QED
    BY <1>1, <2>2 DEF End
<1>7. PICK T : Plan(T)
  BY DEF ContentInv, PlanInv
<1>8. file' = T
  BY <1>1, <1>2, <1>7, FlushedIsPlan
<1>9. T \in Seq(Byte) /\ Complete(T) /\ Whole(T) /\ Ordered(T) /\ Accounts(T) /\ Len(T) \in Nat
  BY <1>7, LenProperties DEF Plan, Laid
<1>10. Byte' = Byte
  BY DEF Byte, Bytes, Id, Size
<1>11. EndInv' /\ FileInv' /\ BeginInv'
  <2>1. EndInv'
    BY <1>1, <1>2, <1>6 DEF EndInv
  <2>2. FileInv'
    BY <1>1, <1>8, <1>9, <1>10 DEF FileInv, Complete, Size, Empty
  <2>3. BeginInv'
    BY <1>1, <1>2, <1>4 DEF BeginInv
  <2>4. QED
    BY <2>1, <2>2, <2>3
<1>12. Laid(T)'
  BY <1>5, <1>6, <1>8, <1>9, <1>10 DEF Laid
<1>13. Accounts(T)'
  <2>1. \A p \in 1 .. Len(T) : T[p] \in Byte /\ T[p].event[1] \in Threads
    BY <1>9, ElementOfSeq, ByteHas
  <2>2. \A u, i : Says(T, u, i)' <=> Says(T, u, i)
    BY DEF Says, Bytes, Size
  <2>3. QED
    BY <1>1, <1>5, <1>9, <2>1, <2>2 DEF Accounts
<1>14. (Whole(T) /\ Complete(T) /\ Ordered(T))'
  BY <1>9 DEF Whole, Complete, Ordered, First, Size
<1>15. PlanInv'
  BY <1>12, <1>13, <1>14 DEF PlanInv, Plan
<1>16. QED
  BY <1>11, <1>15 DEF ContentInv

\* What the client does, and the call of halide_trace itself, write nothing.
LEMMA OtherSteps ==
    ASSUME NoDescriptorOfItsOwn, IInv, IInv', ContentInv, ~Aborted,
           \/ \E t \in Threads : Trace(t)
           \/ \E fd \in Descriptors : SetTraceFile(fd)
           \/ ShutdownTrace
    PROVE  ContentInv'
<1> USE DEF Goto, contents, locals
<1>1. UNCHANGED <<file, buf, cursor, overage, done, at, after>>
  BY DEF Trace, SetTraceFile, ShutdownTrace
<1>2. BeginInv /\ pc \in [Threads -> Pcs] /\ traceFile \in Descriptors \union {-1, 0, FD} /\ Descriptors \subseteq Int
      /\ (traceFile <= 0 \/ traceFile = FD)
  BY EventsAssumption DEF ContentInv, IInv, TypeOK, NoDescriptorOfItsOwn
<1>3. ASSUME NEW t \in Threads, Trace(t) PROVE ContentInv'
  <2>0. PICK fd \in {traceFile, FD, 0} :
           /\ traceFile' = fd /\ fd >= 0 /\ (traceFile >= 0 => fd = traceFile)
           /\ pc' = [pc EXCEPT ![t] = IF fd > 0 THEN "acquire" ELSE "print"]
    <3>1. traceFile \in Int /\ FD \in Int /\ FD > 0
      BY <1>2 DEF FD
    <3>2. traceFile' \in {traceFile, FD, 0} /\ traceFile' >= 0 /\ (traceFile >= 0 => traceFile' = traceFile)
      BY <1>3, <3>1 DEF Trace
    <3>3. pc' = [pc EXCEPT ![t] = IF traceFile' > 0 THEN "acquire" ELSE "print"]
      BY <1>3 DEF Trace
    <3>4. QED
      BY <3>2, <3>3
  <2>1. /\ pc[t] = "out" /\ pc'[t] \in {"acquire", "print"} /\ \A u \in Threads \ {t} : pc'[u] = pc[u]
        /\ \E l \in {"acquire", "print"} : pc' = [pc EXCEPT ![t] = l]
        /\ (traceFile >= 0 => traceFile' = traceFile) /\ traceFile' >= 0 /\ (pc'[t] = "print" => ~(traceFile' > 0))
        /\ traceFile' \in {traceFile, FD, 0}
    <3>1. pc[t] = "out"
      BY <1>3 DEF Trace, MayTrace
    <3>2. CASE fd > 0
      BY <1>2, <2>0, <3>1, <3>2
    <3>3. CASE ~(fd > 0)
      BY <1>2, <2>0, <3>1, <3>3
    <3>4. QED
      BY <3>2, <3>3
  <2>2. End' = End
    <3>1. PICK l \in {"acquire", "print"} : pc' = [pc EXCEPT ![t] = l]
      BY <2>1
    <3>2. Pending' = Pending
      BY <1>1, <2>1, <3>1, PendingStays
    <3>3. QED
      BY <1>1, <3>2 DEF End
  <2>3. \A u \in Threads : (Filling(u)' <=> Filling(u)) /\ Claimed(u)' = Claimed(u) /\ Claimed(u) \in Nat
    BY <1>1, <2>1, ClaimedType DEF Filling, Claimed, HasPacket
  <2>4. traceFile < 0 => \A u \in Threads : Claimed(u) = 0
    BY <1>2 DEF BeginInv, Claimed, HasPacket
  <2>5. BeginInv'
    BY <1>1, <1>2, <2>1 DEF BeginInv, FD
  <2>6. traceFile' = FD => \A u \in Threads : Claimed(u)' = 0 \/ (traceFile = FD /\ Claimed(u)' = Claimed(u))
    BY <1>2, <2>1, <2>3, <2>4 DEF FD
  <2>7. \A u \in Threads : Claimed(u) <= Claimed(u)'
    BY <2>3
  <2>8. QED
    BY <1>1, <2>2, <2>3, <2>5, <2>6, <2>7, ContentFrame
<1>4. ASSUME (\E fd \in Descriptors : SetTraceFile(fd)) \/ ShutdownTrace PROVE ContentInv'
  <2>1. pc' = pc /\ traceFile' <= 0 /\ traceFile' # FD /\ (traceFile = -1 \/ traceFile' = 0)
    BY <1>2, <1>4 DEF SetTraceFile, ShutdownTrace, NoDescriptorOfItsOwn, FD
  <2>2. End' = End
    BY <1>1, <2>1 DEF End, Pending, Event, Size
  <2>3. \A u \in Threads : (Filling(u)' <=> Filling(u)) /\ Claimed(u)' = Claimed(u) /\ Claimed(u) \in Nat
    BY <1>1, <2>1, ClaimedType DEF Filling, Claimed, HasPacket
  <2>4. BeginInv'
    BY <1>1, <1>2, <2>1 DEF BeginInv
  <2>5. \A u \in Threads : Claimed(u) <= Claimed(u)'
    BY <2>3
  <2>6. QED
    BY <1>1, <2>1, <2>2, <2>3, <2>4, <2>5, ContentFrame
<1>5. QED
  BY <1>3, <1>4

\* Every step keeps the file and the packets after it.
LEMMA NextContent ==
    ASSUME NoDescriptorOfItsOwn, IInv, IInv', ContentInv, [Next]_vars
    PROVE  ContentInv'
<1>1. CASE UNCHANGED vars
  <2>1. UNCHANGED <<traceFile, cursor, overage, buf, file, pc, done, at, after>>
    BY <1>1 DEF vars
  <2>2. (Aborted' <=> Aborted) /\ Pending' = Pending /\ Byte' = Byte /\ \A e : Size(e)' = Size(e)
    BY <2>1 DEF Aborted, Pending, Event, Size, Byte, Bytes, Id
  <2>3. \A t \in Threads : (Filling(t)' <=> Filling(t)) /\ Claimed(t)' = Claimed(t)
    BY <2>1 DEF Filling, Claimed, HasPacket
  <2>4. End' = End
    BY <2>1, <2>2 DEF End
  <2>5. CASE ~Aborted
    <3>1. BeginInv'
      BY <2>1, <2>5 DEF ContentInv, BeginInv
    <3>2. \A t \in Threads : Claimed(t) <= Claimed(t)'
      BY <2>3, ClaimedType
    <3>3. QED
      BY <2>1, <2>3, <2>4, <2>5, <3>1, <3>2, ContentFrame
  <2>6. CASE Aborted
    BY <2>2, <2>6 DEF ContentInv
  <2>7. QED
    BY <2>5, <2>6
<1>2. CASE Next
  <2>1. ~Aborted
    BY <1>2 DEF Next
  <2>2. ASSUME NEW t \in Threads, Step(t) PROVE ContentInv'
    <3>1. CASE WriteFails(t)
      <4>1. pc'[t] = "aborted"
        BY <3>1 DEF WriteFails, Goto, IInv, TypeOK
      <4>2. QED
        BY <4>1 DEF ContentInv, Aborted
    <3>2. CASE Claim(t)
      BY <2>1, <3>2, ClaimStep, OverSteps
    <3>3. QED
      BY <2>1, <2>2, <3>1, <3>2, StillSteps, OverSteps, FillStep, FlushStep DEF Step
  <2>3. QED
    BY <1>2, <2>1, <2>2, OtherSteps DEF Next
<1>3. QED
  BY <1>1, <1>2

-----------------------------------------------------------------------------
(* What has ended is written *)

\* On the way to the flush at the end of a pipeline.
Ending(t) == pc[t] \in {"request", "take", "flush", "unlock"} /\ after[t] = "return"

\* The last event of a pipeline is traced when the helpers are done.
EnderInv ==
    \A t \in Threads :
        /\ pc[t] # "out" /\ EndsPipeline(t) => \A h \in Helpers(t) : Over(h)
        /\ Ending(t) => EndsPipeline(t)

\* The flush is over.
Ended(t) == Over(t) \/ (pc[t] = "unlock" /\ after[t] = "return")
AllOf(t) == UNION {{<<u, i>> : i \in DOMAIN Events[u]} : u \in Helpers(t) \union {t}}
WrittenAll(t) == \A e \in AllOf(t) : Bytes(e) \subseteq Written
TailInv == traceFile = FD => \A t \in Threads : Owner[t] = t /\ Ended(t) => WrittenAll(t)

\* A thread that is over is not on its way.
LEMMA OverIsOut ==
    ASSUME IInv, NEW t \in Threads, Over(t)
    PROVE  pc[t] = "out"
<1>1. Len(Events[t]) \in Nat
  BY EventsAssumption
<1>2. QED
  BY <1>1 DEF IInv, UnderWay, Over

\* What a step of a thread does to its counter.
LEMMA StepMoves ==
    ASSUME IInv, NEW t \in Threads, Step(t)
    PROVE  /\ pc[t] # "out" /\ \A u \in Threads \ {t} : pc'[u] = pc[u] /\ done'[u] = done[u] /\ after'[u] = after[u]
           /\ traceFile' = traceFile
           /\ done'[t] = done[t] \/ (pc'[t] = "out" /\ done'[t] = done[t] + 1)
           /\ Ending(t)' => Ending(t) \/ EndsPipeline(t)
<1> USE DEF Goto, Returns, output, contents, locals, IInv, TypeOK
<1>1. CASE ReleasePacket(t)
  BY <1>1 DEF ReleasePacket, Flushes, Ending
<1>2. CASE PrintText(t) \/ AcquireShared(t) \/ Claim(t) \/ AddOverage(t) \/ BackOut(t) \/ Fill(t)
  BY <1>2 DEF PrintText, AcquireShared, Claim, AddOverage, BackOut, Fill, Ending
<1>3. CASE Request(t) \/ TakeExclusive(t) \/ TakeFails(t) \/ Flush(t)
  BY <1>3 DEF Request, TakeExclusive, TakeFails, RetryPc, Flush, Ending
<1>4. CASE WriteFails(t) \/ ReleaseExclusive(t)
  BY <1>4 DEF WriteFails, ReleaseExclusive, Ending
<1>5. QED
  BY <1>1, <1>2, <1>3, <1>4 DEF Step

\* Every step keeps the order of the pipelines.
LEMMA NextEnder ==
    ASSUME IInv, EnderInv, [Next]_vars
    PROVE  EnderInv'
<1>1. ASSUME NEW t \in Threads, Step(t) PROVE EnderInv'
  <2> SUFFICES ASSUME NEW u \in Threads
               PROVE  /\ pc'[u] # "out" /\ EndsPipeline(u)' => \A h \in Helpers(u) : Over(h)'
                      /\ Ending(u)' => EndsPipeline(u)'
    BY DEF EnderInv, Helpers
  <2>1. /\ pc[t] # "out" /\ \A v \in Threads \ {t} : pc'[v] = pc[v] /\ done'[v] = done[v] /\ after'[v] = after[v]
        /\ done'[t] = done[t] \/ pc'[t] = "out"
        /\ Ending(t)' => Ending(t) \/ EndsPipeline(t)
    BY <1>1, StepMoves
  <2>2. ASSUME NEW h \in Threads, Over(h) PROVE Over(h)'
    <3>1. h # t
      BY <2>1, <2>2, OverIsOut
    <3>2. QED
      BY <2>1, <2>2, <3>1 DEF Over
  <2>3. CASE u = t
    <3>1. pc'[t] # "out" => (EndsPipeline(t)' <=> EndsPipeline(t))
      BY <2>1 DEF EndsPipeline
    <3>2. Ending(t)' => pc'[t] # "out"
      BY DEF Ending
    <3>3. QED
      BY <2>1, <2>2, <2>3, <3>1, <3>2 DEF EnderInv, Helpers
  <2>4. CASE u # t
    <3>1. (EndsPipeline(u)' <=> EndsPipeline(u)) /\ (Ending(u)' <=> Ending(u)) /\ pc'[u] = pc[u]
      BY <2>1, <2>4 DEF EndsPipeline, Ending
    <3>2. QED
      BY <2>2, <3>1 DEF EnderInv, Helpers
  <2>5. QED
    BY <2>3, <2>4
<1>2. ASSUME NEW t \in Threads, Trace(t) PROVE EnderInv'
  <2> USE DEF IInv, TypeOK
  <2>1. /\ \A v \in Threads \ {t} : pc'[v] = pc[v]
        /\ done' = done /\ after' = after /\ pc'[t] \in {"acquire", "print"}
    BY <1>2 DEF Trace, Goto, locals
  <2>2. EndsPipeline(t) => \A h \in Helpers(t) : Over(h)
    BY <1>2 DEF Trace, MayTrace
  <2>3. \A v \in Threads : (EndsPipeline(v)' <=> EndsPipeline(v)) /\ (Over(v)' <=> Over(v))
    BY <2>1 DEF EndsPipeline, Over
  <2>4. ~Ending(t)' /\ \A v \in Threads \ {t} : Ending(v)' <=> Ending(v)
    BY <2>1 DEF Ending
  <2>5. QED
    BY <2>1, <2>2, <2>3, <2>4 DEF EnderInv, Helpers
<1>3. ASSUME UNCHANGED <<pc, done, after>> PROVE EnderInv'
  BY <1>3 DEF EnderInv, Ending, EndsPipeline, Helpers, Over
<1>4. QED
  BY <1>1, <1>2, <1>3 DEF Next, SetTraceFile, ShutdownTrace, contents, locals, vars

\* The file only grows.
LEMMA FileGrows ==
    ASSUME IInv, ContentInv, ~Aborted, [Next]_vars
    PROVE  Written \subseteq Written'
<1>1. EndInv /\ FileInv
  BY DEF ContentInv
<1>2. CASE \E t \in Threads : Flush(t) \/ WriteFails(t)
  <2>1. PICK t \in Threads : Flush(t) \/ WriteFails(t)
    BY <1>2
  <2>2. PICK T : Plan(T)
    BY DEF ContentInv, PlanInv
  <2>3. pc[t] = "flush"
    BY <2>1 DEF Flush, WriteFails
  <2>4. Flushed \in Nat
    BY <1>1, <2>3, FlusherAlone DEF EndInv
  <2>5. PICK n \in 0 .. Flushed : file' = file \o FirstBytes(n)
    <3>1. CASE Flush(t)
      <4>1. file' = file \o FirstBytes(Flushed) /\ Flushed \in 0 .. Flushed
        BY <2>4, <3>1 DEF Flush
      <4>2. QED
        BY <4>1
    <3>2. CASE WriteFails(t)
      <4>1. PICK n \in 0 .. Flushed - 1 : file' = file \o FirstBytes(n)
        BY <3>2 DEF WriteFails
      <4>2. n \in 0 .. Flushed
        BY <2>4
      <4>3. QED
        BY <4>1, <4>2
    <3>3. QED
      BY <2>1, <3>1, <3>2
  <2>6. PICK P \in Seq(Byte) : P = FirstBytes(n)
    BY <1>1, <2>2, <2>3, FlushedBytes
  <2>7. /\ file \o P \in Seq(Byte) /\ Len(file \o P) = Len(file) + Len(P)
        /\ \A i \in 1 .. Len(file) + Len(P) : (file \o P)[i] = IF i <= Len(file) THEN file[i] ELSE P[i - Len(file)]
    BY <1>1, ConcatProperties DEF FileInv
  <2>8. Len(file) \in Nat /\ Len(P) \in Nat /\ DOMAIN file = 1 .. Len(file)
    BY <1>1, LenProperties DEF FileInv
  <2>9. PICK Q \in Seq(Byte) : Q = file \o P
    BY <2>7
  <2>10. DOMAIN Q = 1 .. Len(file) + Len(P) /\ \A i \in 1 .. Len(file) : i \in DOMAIN Q /\ Q[i] = file[i]
    <3>1. DOMAIN Q = 1 .. Len(file) + Len(P)
      BY <2>7, <2>9, LenProperties
    <3>2. \A i \in 1 .. Len(file) : i \in 1 .. Len(file) + Len(P)
      BY <2>8
    <3>3. QED
      BY <2>7, <2>9, <3>1, <3>2
  <2>11. file' = Q
    BY <2>5, <2>6, <2>9
  <2>12. QED
    BY <2>8, <2>10, <2>11 DEF Written, Range
<1>3. CASE ~\E t \in Threads : Flush(t) \/ WriteFails(t)
  <2>1. file' = file
    BY <1>3 DEF Next, Step, Trace, SetTraceFile, ShutdownTrace, PrintText, AcquireShared, Claim, AddOverage, BackOut,
                Fill, ReleasePacket, Request, TakeExclusive, TakeFails, ReleaseExclusive, contents, vars
  <2>2. QED
    BY <2>1 DEF Written
<1>4. QED
  BY <1>2, <1>3

\* What is written stays written.
LEMMA WrittenStays ==
    ASSUME Written \subseteq Written', NEW t \in Threads, WrittenAll(t)
    PROVE  WrittenAll(t)'
<1>1. AllOf(t)' = AllOf(t) /\ \A e : Bytes(e)' = Bytes(e)
  BY DEF AllOf, Helpers, Bytes, Size
<1>2. QED
  BY <1>1 DEF WrittenAll

\* The flush at the end of a pipeline writes all of it: its helpers are over, its own
\* last packet is in the buffer.
LEMMA LastFlush ==
    ASSUME IInv, ContentInv, EnderInv, ~Aborted, NEW t \in Threads, Flush(t), after[t] = "return", traceFile = FD
    PROVE  WrittenAll(t)'
<1>1. EndInv /\ FileInv /\ pc[t] = "flush" /\ file' = file \o FirstBytes(Flushed)
  BY DEF ContentInv, Flush
<1>2. PICK T : Plan(T)
  BY DEF ContentInv, PlanInv
<1>3. EndsPipeline(t) /\ \A h \in Helpers(t) : Over(h)
  BY <1>1 DEF EnderInv, Ending
<1>4. \A u \in Helpers(t) \union {t} : u \in Threads /\ Claimed(u) = Len(Events[u]) /\ DOMAIN Events[u] = 1 .. Len(Events[u])
  <2>1. Claimed(t) = Len(Events[t])
    BY <1>1, <1>3 DEF Claimed, HasPacket, EndsPipeline
  <2>2. \A h \in Helpers(t) : h \in Threads /\ Claimed(h) = Len(Events[h])
    <3> TAKE h \in Helpers(t)
    <3>1. h \in Threads /\ Over(h) /\ pc[h] = "out"
      BY <1>3, OverIsOut DEF Helpers
    <3>2. QED
      BY <3>1 DEF Over, Claimed, HasPacket
  <2>3. \A u \in Threads : DOMAIN Events[u] = 1 .. Len(Events[u])
    BY EventsAssumption, LenProperties
  <2>4. QED
    BY <2>1, <2>2, <2>3
<1>5. file' = T
  BY <1>1, <1>2, FlushedIsPlan
<1>6. T \in Seq(Byte) /\ DOMAIN T = 1 .. Len(T)
  BY <1>2, LenProperties DEF Plan, Laid
<1>7. \A u \in Helpers(t) \union {t} : \A i \in DOMAIN Events[u] : Bytes(<<u, i>>) \subseteq Range(T)
  <2> TAKE u \in Helpers(t) \union {t}
  <2> TAKE i \in DOMAIN Events[u]
  <2>1. Says(T, u, i)
    BY <1>2, <1>4 DEF Plan, Accounts
  <2>2. QED
    BY <1>6, <2>1 DEF Says, Range
<1>8. \A e \in AllOf(t) : Bytes(e) \subseteq Range(T)
  BY <1>7 DEF AllOf
<1>9. AllOf(t)' = AllOf(t) /\ \A e : Bytes(e)' = Bytes(e)
  BY DEF AllOf, Helpers, Bytes, Size
<1>10. QED
  BY <1>5, <1>8, <1>9 DEF WrittenAll, Written

\* Every step keeps what has ended in the file.
LEMMA NextTail ==
    ASSUME NoDescriptorOfItsOwn, IInv, IInv', ContentInv, EnderInv, TailInv, [Next]_vars
    PROVE  TailInv'
<1>1. CASE UNCHANGED vars
  <2>1. \A t : WrittenAll(t)' <=> WrittenAll(t)
    BY <1>1 DEF vars, WrittenAll, AllOf, Helpers, Bytes, Size, Written
  <2>2. QED
    BY <1>1, <2>1 DEF vars, TailInv, Ended, Over
<1>2. CASE Next
  <2>0. ~Aborted /\ Written \subseteq Written'
    BY <1>2, FileGrows DEF Next
  <2> SUFFICES ASSUME traceFile' = FD, NEW u \in Threads, Owner[u] = u, Ended(u)' PROVE WrittenAll(u)'
    BY DEF TailInv
  <2>1. CASE traceFile = FD /\ Ended(u)
    BY <2>0, <2>1, WrittenStays DEF TailInv
  <2>2. ASSUME NEW t \in Threads, Step(t), ~Ended(u) PROVE WrittenAll(u)'
    <3>1. /\ pc[t] # "out" /\ \A v \in Threads \ {t} : pc'[v] = pc[v] /\ done'[v] = done[v] /\ after'[v] = after[v]
          /\ traceFile = FD
          /\ done'[t] = done[t] \/ (pc'[t] = "out" /\ done'[t] = done[t] + 1)
      BY <2>2, StepMoves
    <3>2. u = t
      BY <2>2, <3>1 DEF Ended, Over
    <3>3. CASE Flush(t)
      <4>1. after[t] = "return"
        <5>1. done' = done /\ after' = after /\ ~Over(t)
          BY <2>2, <3>2, <3>3 DEF Flush, Goto, locals, Ended
        <5>2. QED
          BY <3>2, <5>1 DEF Ended, Over
      <4>2. QED
        BY <2>0, <3>1, <3>2, <3>3, <4>1, LastFlush
    <3>4. CASE ~Flush(t)
      <4>0. pc \in [Threads -> Pcs] /\ done \in [Threads -> Nat] /\ after \in [Threads -> {"retry", "return"}]
        BY DEF IInv, TypeOK
      <4>1. CASE PrintText(t)
        BY <2>0, <3>1, <4>1 DEF PrintText, ContentInv, BeginInv, FD
      <4>2. CASE ReleasePacket(t)
        BY <2>2, <3>2, <4>0, <4>2 DEF ReleasePacket, Goto, Returns, Flushes, EndsPipeline, Ended, Over
      <4>3. CASE ReleaseExclusive(t)
        BY <2>2, <3>2, <4>0, <4>3 DEF ReleaseExclusive, Goto, Returns, Ended, Over
      <4>4. CASE AcquireShared(t) \/ Claim(t) \/ AddOverage(t) \/ BackOut(t) \/ Fill(t) \/ Request(t)
                 \/ TakeExclusive(t) \/ TakeFails(t) \/ WriteFails(t)
        <5>1. done' = done /\ pc'[t] # "unlock"
          BY <4>0, <4>4 DEF AcquireShared, Claim, AddOverage, BackOut, Fill, Request, TakeExclusive, TakeFails, RetryPc,
                            WriteFails, Goto, output, locals
        <5>2. QED
          BY <2>2, <3>2, <5>1 DEF Ended, Over
      <4>5. QED
        BY <2>2, <3>4, <4>1, <4>2, <4>3, <4>4 DEF Step
    <3>5. QED
      BY <3>3, <3>4
  <2>3. ASSUME traceFile # FD PROVE WrittenAll(u)'
    <3>1. BeginInv /\ traceFile \in Descriptors \union {-1, 0, FD} /\ Descriptors \subseteq Int
          /\ (traceFile <= 0 \/ traceFile = FD)
      BY <2>0, EventsAssumption DEF ContentInv, IInv, TypeOK, NoDescriptorOfItsOwn
    <3>2. Len(Events[u]) >= 2 /\ Len(Events[u]) \in Nat
      BY EventsAssumption
    <3>3. CASE \E t \in Threads : Step(t)
      BY <2>3, <3>3, StepMoves
    <3>4. CASE \E t \in Threads : Trace(t)
      <4>1. PICK t \in Threads : Trace(t)
        BY <3>4
      <4>2. traceFile < 0
        BY <2>3, <3>1, <4>1 DEF Trace, FD
      <4>3. pc[u] = "out" /\ done'[u] = 0
        BY <3>1, <4>1, <4>2 DEF BeginInv, Trace, locals
      <4>4. pc'[u] # "unlock"
        BY <4>1, <4>3 DEF Trace, Goto, IInv, TypeOK
      <4>5. QED
        BY <3>2, <4>3, <4>4 DEF Ended, Over
    <3>5. CASE (\E fd \in Descriptors : SetTraceFile(fd)) \/ ShutdownTrace
      BY <3>5 DEF SetTraceFile, ShutdownTrace, NoDescriptorOfItsOwn, FD
    <3>6. QED
      BY <1>2, <3>3, <3>4, <3>5 DEF Next
  <2>4. ASSUME traceFile = FD, ~Ended(u), ~\E t \in Threads : Step(t) PROVE WrittenAll(u)'
    <3>1. done' = done /\ after' = after /\ (pc' = pc \/ \E t \in Threads : Trace(t))
      BY <1>2, <2>4 DEF Next, Trace, SetTraceFile, ShutdownTrace, locals
    <3>2. pc'[u] = "unlock" => pc[u] = "unlock"
      <4>1. CASE \E t \in Threads : Trace(t)
        BY <4>1 DEF Trace, Goto, IInv, TypeOK
      <4>2. QED
        BY <3>1, <4>1
    <3>3. QED
      BY <2>4, <3>1, <3>2 DEF Ended, Over
  <2>5. QED
    BY <2>1, <2>2, <2>3, <2>4
<1>3. QED
  BY <1>1, <1>2

\* The invariants hold initially.
LEMMA InitTail == Init => EnderInv /\ TailInv
  BY EventsAssumption DEF Init, EnderInv, Ending, TailInv, FD

-----------------------------------------------------------------------------
(* Theorems about the file *)

\* The file, as far as it is written, is laid out in whole packets.
LEMMA PlanIsWhole ==
    ASSUME IInv, ContentInv
    PROVE  FileIsWhole
<1> SUFFICES ASSUME ~Aborted PROVE FileIsWhole
  BY DEF FileIsWhole
<1>1. EndInv /\ FileInv
  BY DEF ContentInv
<1>2. PICK T : Plan(T)
  BY DEF ContentInv, PlanInv
<1>3. /\ file \in Seq(Byte) /\ Len(file) \in Nat /\ DOMAIN file = 1 .. Len(file)
      /\ \A p \in 1 .. Len(file) : file[p] \in Byte
  BY <1>1, LenProperties, ElementOfSeq DEF FileInv
<1>4. T \in Seq(Byte) /\ Len(T) \in Nat /\ \A p \in 1 .. Len(file) : p \in 1 .. Len(T) /\ file[p] = T[p]
  BY <1>1, <1>2, <1>3, LenProperties DEF Plan, Laid, EndInv
<1>5. \A p \in 1 .. Len(file) : file[p] # Stale
  <2> TAKE p \in 1 .. Len(file)
  <2>1. PICK x \in Byte : x = file[p]
    BY <1>3
  <2>2. x.part # 0
    BY <2>1, ByteHas
  <2>3. Stale.part = 0
    BY DEF Stale
  <2>4. QED
    BY <2>1, <2>2, <2>3
<1>6. \A p \in 1 .. Len(file) :
          IF FirstByte(p) THEN file[p].part = 1
          ELSE file[p].event = file[p - 1].event /\ file[p].part = file[p - 1].part + 1
  <2> TAKE p \in 1 .. Len(file)
  <2>1. p \in 1 .. Len(T) /\ file[p] = T[p] /\ (p # 1 => file[p - 1] = T[p - 1])
    <3>1. p # 1 => p - 1 \in 1 .. Len(file)
      BY <1>3
    <3>2. QED
      BY <1>4, <3>1
  <2>2. FirstByte(p) <=> First(T, p)
    BY <2>1 DEF FirstByte, First
  <2>3. IF First(T, p) THEN T[p].part = 1
        ELSE T[p].event = T[p - 1].event /\ T[p].part = T[p - 1].part + 1
    BY <1>2, <2>1 DEF Plan, Whole
  <2>4. CASE First(T, p)
    BY <2>1, <2>2, <2>3, <2>4
  <2>5. CASE ~First(T, p)
    <3>1. p # 1
      BY <2>5 DEF First
    <3>2. QED
      BY <2>1, <2>2, <2>3, <2>5, <3>1
  <2>6. QED
    BY <2>4, <2>5
<1>7. file # <<>> => file[Len(file)].part = Size(file[Len(file)].event)
  <2>1. file # <<>> => Len(file) > 0
    BY <1>3, EmptySeq
  <2>2. QED
    BY <1>1, <2>1 DEF FileInv, Complete
<1>8. \A p, q \in 1 .. Len(file) :
          p < q /\ file[p].part = 1 /\ file[q].part = 1 /\ file[p].event[1] = file[q].event[1]
          => file[p].event[2] < file[q].event[2]
  BY <1>2, <1>4 DEF Plan, Ordered
<1>9. QED
  BY <1>3, <1>5, <1>6, <1>7, <1>8 DEF FileIsWhole

\* The invariants hold of every reachable state.
LEMMA FileInvariant == ASSUME NoDescriptorOfItsOwn PROVE Spec => [](IInv /\ ContentInv /\ EnderInv /\ TailInv)
<1> DEFINE All == IInv /\ ContentInv /\ EnderInv /\ TailInv
<1>1. Init => All
  BY InitInv, InitContent, InitTail
<1>2. All /\ [Next]_vars => All'
  <2> SUFFICES ASSUME All, [Next]_vars PROVE All'
    OBVIOUS
  <2>1. IInv'
    BY NextInv
  <2>2. QED
    BY <2>1, NextContent, NextEnder, NextTail
<1>3. QED
  BY <1>1, <1>2, PTL DEF Spec

\* The file a pipeline leaves is made of whole packets, none twice, each thread's in the
\* order it traced them: try_acquire_packet hands out ranges that do not overlap, and
\* flush writes what was claimed and filled, and no byte of the overage.
THEOREM FileIsWholeAlways == ASSUME NoDescriptorOfItsOwn PROVE Spec => []FileIsWhole
<1>1. IInv /\ ContentInv => FileIsWhole
  BY PlanIsWhole
<1>2. QED
  BY <1>1, FileInvariant, PTL

\* A pipeline that has returned from its last halide_trace has left everything it traced
\* in the file: the flush at halide_trace_end_pipeline.
THEOREM EndedIsWritten == ASSUME NoDescriptorOfItsOwn PROVE Spec => []EndedPipelineIsWritten
<1>1. IInv /\ TailInv => EndedPipelineIsWritten
  <2> SUFFICES ASSUME TailInv, traceFile = FD, NEW t \in Threads, Owner[t] = t, Over(t),
                      NEW u \in Helpers(t) \union {t}, NEW i \in DOMAIN Events[u]
               PROVE  Bytes(<<u, i>>) \subseteq Written
    BY DEF EndedPipelineIsWritten
  <2>1. WrittenAll(t)
    BY DEF TailInv, Ended
  <2>2. <<u, i>> \in AllOf(t)
    BY DEF AllOf
  <2>3. QED
    BY <2>1, <2>2 DEF WrittenAll
<1>2. QED
  BY <1>1, FileInvariant, PTL
=============================================================================
