--------------------------- MODULE WordLockProofs ---------------------------
(***************************************************************************)
(* Theorems about word_lock, for any set of threads and any spin count.    *)
(* The inductive invariant is the type invariant with the two exclusion    *)
(* properties: the lock bit names the one holder, the queue lock bit the   *)
(* one thread that processes the queue.  The compare-and-swaps make it     *)
(* inductive: the word a thread swaps out is the word it has looked at.    *)
(*                                                                         *)
(* That the nodes outlive their use and that every sleeper is in the queue *)
(* needs the shape of the queue: some line of threads q[lo] .. q[hi] that  *)
(* the next links run through, of which the end that has been walked knows *)
(* the tail and has its prev links set.  A thread that enqueues makes the  *)
(* line longer at hi, the one that holds the queue lock takes one off at   *)
(* lo, and the walk moves the boundary of what is known.                   *)
(***************************************************************************)
EXTENDS WordLock, Integers, FiniteSetTheorems, NaturalsInduction, WellFoundedInduction, TLAPS

\* What the swaps do to the word.
LEMMA WordOps ==
  ASSUME NEW w \in Word, NEW t \in Threads
  PROVE  /\ Zero \in Word
         /\ w.locked \in BOOLEAN /\ w.queuing \in BOOLEAN /\ w.head \in Node
         /\ Locked(w) \in Word /\ Locked(w).locked
         /\ Locked(w).queuing = w.queuing /\ Locked(w).head = w.head
         /\ Unlocked(w) \in Word /\ ~Unlocked(w).locked
         /\ Unlocked(w).queuing = w.queuing /\ Unlocked(w).head = w.head
         /\ Queuing(w) \in Word /\ Queuing(w).queuing
         /\ Queuing(w).locked = w.locked /\ Queuing(w).head = w.head
         /\ Quiet(w) \in Word /\ ~Quiet(w).queuing
         /\ Quiet(w).locked = w.locked /\ Quiet(w).head = w.head
         /\ Pushed(w, t) \in Word /\ Pushed(w, t).head = t
         /\ Pushed(w, t).locked = w.locked /\ Pushed(w, t).queuing = w.queuing
         /\ Emptied(w) \in Word /\ ~Emptied(w).queuing
         /\ Emptied(w).locked = w.locked /\ Emptied(w).head = NoThread
  BY DEF Word, Node, Zero, Locked, Unlocked, Queuing, Quiet, Pushed, Emptied

IInv == TypeOK /\ MutualExclusion /\ QueueExclusion /\ WalkOnNodes

\* It holds at the start: the word is zero and nobody is in the lock.
LEMMA InitIInv == Init => IInv
  BY NoThreadAssumption, SpinCountAssumption
  DEF Init, IInv, TypeOK, Zero, Word, Node, Pcs, MutualExclusion, Holders, QueueExclusion, Walkers,
      WalkPcs, WalkOnNodes

\* Every step keeps each variable in its range.
LEMMA NextTypeOK == IInv /\ [Next]_vars => TypeOK'
  <1> SUFFICES ASSUME IInv, [Next]_vars PROVE TypeOK'
    OBVIOUS
  <1> USE NoThreadAssumption, SpinCountAssumption
  <1> USE DEF IInv, TypeOK, WalkOnNodes, Node, Pcs, LockPcs, UnlockPcs, WalkPcs, Goto, node, walker, Discard, CasSucceeds, CasFails, Load
  <1>1. CASE UNCHANGED vars
    BY <1>1 DEF vars
  <1>2. ASSUME NEW t \in Threads, LockNext(t) PROVE TypeOK'
    <2>1. CASE LockFast(t)
      BY <2>1, WordOps DEF LockFast, Zero
    <2>2. CASE LockFastFails(t)
      BY <2>2, WordOps DEF LockFastFails
    <2>3. CASE LockFullLoad(t)
      BY <2>3, WordOps DEF LockFullLoad
    <2>4. CASE LockFullTake(t)
      BY <2>4, WordOps DEF LockFullTake
    <2>5. CASE LockFullTakeFails(t)
      BY <2>5, WordOps DEF LockFullTakeFails
    <2>6. CASE LockFullSpin(t)
      BY <2>6, WordOps DEF LockFullSpin, ShouldSpin
    <2>7. CASE LockFullEnqueue(t)
      BY <2>7, WordOps DEF LockFullEnqueue, FreshNode
    <2>8. CASE LockFullEnqueueFails(t)
      BY <2>8, WordOps DEF LockFullEnqueueFails
    <2>9. CASE LockFullWake(t)
      BY <2>9, WordOps DEF LockFullWake
    <2> QED
      BY <1>2, <2>1, <2>2, <2>3, <2>4, <2>5, <2>6, <2>7, <2>8, <2>9 DEF LockNext
  <1>3. ASSUME NEW t \in Threads, Unlock(t) PROVE TypeOK'
    BY <1>3, WordOps DEF Unlock
  <1>4. ASSUME NEW t \in Threads, UnlockFullNext(t) PROVE TypeOK'
    <2>1. CASE UnlockFullLoad(t)
      BY <2>1, WordOps DEF UnlockFullLoad
    <2>2. CASE UnlockFullLeave(t)
      BY <2>2, WordOps DEF UnlockFullLeave
    <2>3. CASE UnlockFullTakeQueue(t)
      BY <2>3, WordOps DEF UnlockFullTakeQueue, WantsQueue
    <2>4. CASE UnlockFullTakeQueueFails(t)
      BY <2>4, WordOps DEF UnlockFullTakeQueueFails
    <2>5. CASE ScanStart(t)
      BY <2>5, WordOps DEF ScanStart
    <2>6. CASE WalkStep(t)
      BY <2>6, WordOps DEF WalkStep
    <2>7. CASE WalkEnd(t)
      BY <2>7, WordOps DEF WalkEnd
    <2>8. CASE LeaveToHolder(t)
      BY <2>8, WordOps DEF LeaveToHolder
    <2>9. CASE LeaveToHolderFails(t)
      BY <2>9, WordOps DEF LeaveToHolderFails
    <2>10. CASE ClearQueue(t)
      BY <2>10, WordOps DEF ClearQueue, Clearing
    <2>11. CASE ClearQueueFails(t)
      BY <2>11, WordOps DEF ClearQueueFails, Clearing
    <2>12. CASE PopTail(t)
      BY <2>12, WordOps DEF PopTail
    <2>13. CASE Unpark(t)
      BY <2>13, WordOps DEF Unpark
    <2> QED
      BY <1>4, <2>1, <2>2, <2>3, <2>4, <2>5, <2>6, <2>7,
         <2>8, <2>9, <2>10, <2>11, <2>12, <2>13 DEF UnlockFullNext
  <1> QED
    BY <1>1, <1>2, <1>3, <1>4 DEF Next

\* Only the three steps that take or free the lock move the lock bit or a holder.
LEMMA NextMutualExclusion == IInv /\ [Next]_vars => MutualExclusion'
  <1> SUFFICES ASSUME IInv, [Next]_vars PROVE MutualExclusion'
    OBVIOUS
  <1> USE NoThreadAssumption, SpinCountAssumption
  <1> USE DEF IInv, TypeOK, MutualExclusion, Holders, Pcs, LockPcs, UnlockPcs, WalkPcs, Goto, Discard, CasSucceeds, CasFails, Load
  <1>1. CASE UNCHANGED vars
    BY <1>1 DEF vars
  <1>2. ASSUME NEW t \in Threads, LockNext(t) PROVE MutualExclusion'
    <2>1. CASE LockFast(t)
      BY <2>1, WordOps DEF LockFast, Zero
    <2>2. CASE LockFastFails(t)
      BY <2>2, WordOps DEF LockFastFails
    <2>3. CASE LockFullLoad(t)
      BY <2>3, WordOps DEF LockFullLoad
    <2>4. CASE LockFullTake(t)
      BY <2>4, WordOps DEF LockFullTake
    <2>5. CASE LockFullTakeFails(t)
      BY <2>5, WordOps DEF LockFullTakeFails
    <2>6. CASE LockFullSpin(t)
      BY <2>6, WordOps DEF LockFullSpin, ShouldSpin
    <2>7. CASE LockFullEnqueue(t)
      BY <2>7, WordOps DEF LockFullEnqueue, FreshNode
    <2>8. CASE LockFullEnqueueFails(t)
      BY <2>8, WordOps DEF LockFullEnqueueFails
    <2>9. CASE LockFullWake(t)
      BY <2>9, WordOps DEF LockFullWake
    <2> QED
      BY <1>2, <2>1, <2>2, <2>3, <2>4, <2>5, <2>6, <2>7, <2>8, <2>9 DEF LockNext
  <1>3. ASSUME NEW t \in Threads, Unlock(t) PROVE MutualExclusion'
    BY <1>3, WordOps DEF Unlock
  <1>4. ASSUME NEW t \in Threads, UnlockFullNext(t) PROVE MutualExclusion'
    <2>1. CASE UnlockFullLoad(t)
      BY <2>1, WordOps DEF UnlockFullLoad
    <2>2. CASE UnlockFullLeave(t)
      BY <2>2, WordOps DEF UnlockFullLeave
    <2>3. CASE UnlockFullTakeQueue(t)
      BY <2>3, WordOps DEF UnlockFullTakeQueue, WantsQueue
    <2>4. CASE UnlockFullTakeQueueFails(t)
      BY <2>4, WordOps DEF UnlockFullTakeQueueFails
    <2>5. CASE ScanStart(t)
      BY <2>5, WordOps DEF ScanStart
    <2>6. CASE WalkStep(t)
      BY <2>6, WordOps DEF WalkStep
    <2>7. CASE WalkEnd(t)
      BY <2>7, WordOps DEF WalkEnd
    <2>8. CASE LeaveToHolder(t)
      BY <2>8, WordOps DEF LeaveToHolder
    <2>9. CASE LeaveToHolderFails(t)
      BY <2>9, WordOps DEF LeaveToHolderFails
    <2>10. CASE ClearQueue(t)
      BY <2>10, WordOps DEF ClearQueue, Clearing
    <2>11. CASE ClearQueueFails(t)
      BY <2>11, WordOps DEF ClearQueueFails, Clearing
    <2>12. CASE PopTail(t)
      BY <2>12, WordOps DEF PopTail
    <2>13. CASE Unpark(t)
      BY <2>13, WordOps DEF Unpark
    <2> QED
      BY <1>4, <2>1, <2>2, <2>3, <2>4, <2>5, <2>6, <2>7,
         <2>8, <2>9, <2>10, <2>11, <2>12, <2>13 DEF UnlockFullNext
  <1> QED
    BY <1>1, <1>2, <1>3, <1>4 DEF Next

\* A thread that swaps the queue lock bit in has seen the queue unlocked and not empty.
LEMMA NextQueueExclusion == IInv /\ [Next]_vars => QueueExclusion'
  <1> SUFFICES ASSUME IInv, [Next]_vars PROVE QueueExclusion'
    OBVIOUS
  <1> USE NoThreadAssumption, SpinCountAssumption
  <1> USE DEF IInv, TypeOK, QueueExclusion, Walkers, Node, Pcs, LockPcs, UnlockPcs, WalkPcs, Goto, Discard, CasSucceeds, CasFails, Load
  <1>1. CASE UNCHANGED vars
    BY <1>1 DEF vars
  <1>2. ASSUME NEW t \in Threads, LockNext(t) PROVE QueueExclusion'
    <2>1. CASE LockFast(t)
      BY <2>1, WordOps DEF LockFast
    <2>2. CASE LockFastFails(t)
      BY <2>2, WordOps DEF LockFastFails
    <2>3. CASE LockFullLoad(t)
      BY <2>3, WordOps DEF LockFullLoad
    <2>4. CASE LockFullTake(t)
      BY <2>4, WordOps DEF LockFullTake
    <2>5. CASE LockFullTakeFails(t)
      BY <2>5, WordOps DEF LockFullTakeFails
    <2>6. CASE LockFullSpin(t)
      BY <2>6, WordOps DEF LockFullSpin, ShouldSpin
    <2>7. CASE LockFullEnqueue(t)
      BY <2>7, WordOps DEF LockFullEnqueue, FreshNode
    <2>8. CASE LockFullEnqueueFails(t)
      BY <2>8, WordOps DEF LockFullEnqueueFails
    <2>9. CASE LockFullWake(t)
      BY <2>9, WordOps DEF LockFullWake
    <2> QED
      BY <1>2, <2>1, <2>2, <2>3, <2>4, <2>5, <2>6, <2>7, <2>8, <2>9 DEF LockNext
  <1>3. ASSUME NEW t \in Threads, Unlock(t) PROVE QueueExclusion'
    BY <1>3, WordOps DEF Unlock
  <1>4. ASSUME NEW t \in Threads, UnlockFullNext(t) PROVE QueueExclusion'
    <2>1. CASE UnlockFullLoad(t)
      BY <2>1, WordOps DEF UnlockFullLoad
    <2>2. CASE UnlockFullLeave(t)
      BY <2>2, WordOps DEF UnlockFullLeave
    <2>3. CASE UnlockFullTakeQueue(t)
      BY <2>3, WordOps DEF UnlockFullTakeQueue, WantsQueue
    <2>4. CASE UnlockFullTakeQueueFails(t)
      BY <2>4, WordOps DEF UnlockFullTakeQueueFails
    <2>5. CASE ScanStart(t)
      BY <2>5, WordOps DEF ScanStart
    <2>6. CASE WalkStep(t)
      BY <2>6, WordOps DEF WalkStep
    <2>7. CASE WalkEnd(t)
      BY <2>7, WordOps DEF WalkEnd
    <2>8. CASE LeaveToHolder(t)
      BY <2>8, WordOps DEF LeaveToHolder
    <2>9. CASE LeaveToHolderFails(t)
      BY <2>9, WordOps DEF LeaveToHolderFails
    <2>10. CASE ClearQueue(t)
      BY <2>10, WordOps DEF ClearQueue, Clearing
    <2>11. CASE ClearQueueFails(t)
      BY <2>11, WordOps DEF ClearQueueFails, Clearing
    <2>12. CASE PopTail(t)
      BY <2>12, WordOps DEF PopTail
    <2>13. CASE Unpark(t)
      BY <2>13, WordOps DEF Unpark
    <2> QED
      BY <1>4, <2>1, <2>2, <2>3, <2>4, <2>5, <2>6, <2>7,
         <2>8, <2>9, <2>10, <2>11, <2>12, <2>13 DEF UnlockFullNext
  <1> QED
    BY <1>1, <1>2, <1>3, <1>4 DEF Next

\* Whoever processes the queue looks at nodes only.
LEMMA NextWalkOnNodes == IInv /\ [Next]_vars => WalkOnNodes'
  <1> SUFFICES ASSUME IInv, [Next]_vars PROVE WalkOnNodes'
    OBVIOUS
  <1> USE NoThreadAssumption, SpinCountAssumption
  <1> USE DEF IInv, TypeOK, QueueExclusion, WalkOnNodes, Walkers, Node, Pcs, LockPcs, UnlockPcs, WalkPcs, Goto, node, walker, Discard, CasSucceeds, CasFails, Load
  <1>1. CASE UNCHANGED vars
    BY <1>1 DEF vars
  <1>2. ASSUME NEW t \in Threads, LockNext(t) PROVE WalkOnNodes'
    <2>1. CASE LockFast(t)
      BY <2>1, WordOps DEF LockFast
    <2>2. CASE LockFastFails(t)
      BY <2>2, WordOps DEF LockFastFails
    <2>3. CASE LockFullLoad(t)
      BY <2>3, WordOps DEF LockFullLoad
    <2>4. CASE LockFullTake(t)
      BY <2>4, WordOps DEF LockFullTake
    <2>5. CASE LockFullTakeFails(t)
      BY <2>5, WordOps DEF LockFullTakeFails
    <2>6. CASE LockFullSpin(t)
      BY <2>6, WordOps DEF LockFullSpin, ShouldSpin
    <2>7. CASE LockFullEnqueue(t)
      BY <2>7, WordOps DEF LockFullEnqueue, FreshNode
    <2>8. CASE LockFullEnqueueFails(t)
      BY <2>8, WordOps DEF LockFullEnqueueFails
    <2>9. CASE LockFullWake(t)
      BY <2>9, WordOps DEF LockFullWake
    <2> QED
      BY <1>2, <2>1, <2>2, <2>3, <2>4, <2>5, <2>6, <2>7, <2>8, <2>9 DEF LockNext
  <1>3. ASSUME NEW t \in Threads, Unlock(t) PROVE WalkOnNodes'
    BY <1>3, WordOps DEF Unlock
  <1>4. ASSUME NEW t \in Threads, UnlockFullNext(t) PROVE WalkOnNodes'
    <2>1. CASE UnlockFullLoad(t)
      BY <2>1, WordOps DEF UnlockFullLoad
    <2>2. CASE UnlockFullLeave(t)
      BY <2>2, WordOps DEF UnlockFullLeave
    <2>3. CASE UnlockFullTakeQueue(t)
      BY <2>3, WordOps DEF UnlockFullTakeQueue, WantsQueue
    <2>4. CASE UnlockFullTakeQueueFails(t)
      BY <2>4, WordOps DEF UnlockFullTakeQueueFails
    <2>5. CASE ScanStart(t)
      BY <2>5, WordOps DEF ScanStart
    <2>6. CASE WalkStep(t)
      BY <2>6, WordOps DEF WalkStep
    <2>7. CASE WalkEnd(t)
      BY <2>7, WordOps DEF WalkEnd
    <2>8. CASE LeaveToHolder(t)
      BY <2>8, WordOps DEF LeaveToHolder
    <2>9. CASE LeaveToHolderFails(t)
      BY <2>9, WordOps DEF LeaveToHolderFails
    <2>10. CASE ClearQueue(t)
      BY <2>10, WordOps DEF ClearQueue, Clearing
    <2>11. CASE ClearQueueFails(t)
      BY <2>11, WordOps DEF ClearQueueFails, Clearing
    <2>12. CASE PopTail(t)
      BY <2>12, WordOps DEF PopTail
    <2>13. CASE Unpark(t)
      BY <2>13, WordOps DEF Unpark
    <2> QED
      BY <1>4, <2>1, <2>2, <2>3, <2>4, <2>5, <2>6, <2>7,
         <2>8, <2>9, <2>10, <2>11, <2>12, <2>13 DEF UnlockFullNext
  <1> QED
    BY <1>1, <1>2, <1>3, <1>4 DEF Next

\* So it holds always.
LEMMA InvariantIInv == Spec => []IInv
  <1>1. IInv /\ [Next]_vars => IInv'
    BY NextTypeOK, NextMutualExclusion, NextQueueExclusion, NextWalkOnNodes DEF IInv
  <1> QED
    BY InitIInv, <1>1, PTL DEF Spec

\* The variables of word_lock keep their types.
THEOREM TypeCorrect == Spec => []TypeOK
  <1>1. IInv => TypeOK
    BY DEF IInv
  <1> QED
    BY InvariantIInv, <1>1, PTL

\* At most one thread is between lock() and unlock(), exactly when the bit says so.
THEOREM LockExcludes == Spec => []MutualExclusion
  <1>1. IInv => MutualExclusion
    BY DEF IInv
  <1> QED
    BY InvariantIInv, <1>1, PTL

\* At most one thread processes the queue, and never an empty one.
THEOREM QueueExcludes == Spec => []QueueExclusion
  <1>1. IInv => QueueExclusion
    BY DEF IInv
  <1> QED
    BY InvariantIInv, <1>1, PTL
-----------------------------------------------------------------------------
(* word_lock implements the abstract lock. *)

\* The abstract owner is the holder, when there is one.
LEMMA OwnerIsHolder ==
  ASSUME MutualExclusion
  PROVE  /\ \A t \in Threads : t \in Holders => Owner = t
         /\ Holders = {} => Owner = NoThread
  BY DEF MutualExclusion, Holders, Owner

\* The free lock is the free abstract lock.
LEMMA RefinesInit == Init => Lock!Init
  BY DEF Init, Lock!Init, Owner, Holders, Waiting, LockPcs

\* A step of a thread that neither takes nor frees the lock nor enters lock()
\* is not seen at the abstract level.
LEMMA Stutters ==
  ASSUME IInv, NEW t \in Threads, pc' = [pc EXCEPT ![t] = pc'[t]],
         pc[t] = "held" <=> pc'[t] = "held",
         pc[t] \in LockPcs <=> pc'[t] \in LockPcs
  PROVE  UNCHANGED Lock!vars
  <1>1. Holders' = Holders
    BY DEF IInv, TypeOK, Holders
  <1>2. Waiting' = Waiting
    BY DEF IInv, TypeOK, Waiting, LockPcs
  <1> QED
    BY <1>1, <1>2 DEF Lock!vars, Owner

\* A step is a step of the abstract lock, or leaves its owner and its waiters alone.
LEMMA RefinesNext == IInv /\ IInv' /\ [Next]_vars => [Lock!Next]_(Lock!vars)
  <1> SUFFICES ASSUME IInv, IInv', [Next]_vars PROVE [Lock!Next]_(Lock!vars)
    OBVIOUS
  <1> USE DEF IInv
  <1>1. CASE UNCHANGED vars
    BY <1>1 DEF vars, Lock!vars, Owner, Holders, Waiting
  <1>2. ASSUME NEW t \in Threads, LockFast(t) \/ LockFullTake(t) PROVE Lock!Acquire(t)
    <2>1. t \in Holders' /\ Waiting' = Waiting \ {t}
      BY <1>2 DEF LockFast, LockFullTake, Goto, TypeOK, Holders, Waiting, LockPcs
    <2>2. ~state.locked
      BY <1>2 DEF LockFast, LockFullTake, CasSucceeds, Zero
    <2> QED
      BY <2>1, <2>2, OwnerIsHolder DEF Lock!Acquire, MutualExclusion, Owner, Holders
  <1>3. ASSUME NEW t \in Threads, LockFastFails(t) PROVE Lock!Request(t)
    <2>1. t \notin Holders /\ Holders' = Holders
      BY <1>3 DEF LockFastFails, Goto, TypeOK, Holders
    <2>2. t \notin Waiting /\ Waiting' = Waiting \union {t}
      BY <1>3 DEF LockFastFails, Goto, TypeOK, Waiting, LockPcs
    <2>3. Owner' = Owner
      BY <2>1 DEF Owner
    <2>4. t # Owner
      BY <2>1, NoThreadAssumption, OwnerIsHolder DEF Holders, Owner
    <2> QED
      BY <2>2, <2>3, <2>4 DEF Lock!Request
  <1>4. ASSUME NEW t \in Threads, Unlock(t) PROVE Lock!Release(t)
    <2>1. t \in Holders
      BY <1>4 DEF Unlock, Holders
    <2>2. ~state'.locked
      BY <1>4, WordOps DEF Unlock, TypeOK
    <2>3. Waiting' = Waiting
      BY <1>4 DEF Unlock, TypeOK, Waiting, LockPcs
    <2>4. Owner = t /\ Owner' = NoThread
      BY <2>1, <2>2, OwnerIsHolder DEF MutualExclusion, Owner
    <2> QED
      BY <2>3, <2>4 DEF Lock!Release
  <1>5. ASSUME NEW t \in Threads, LockNext(t), ~LockFast(t), ~LockFullTake(t), ~LockFastFails(t)
        PROVE  UNCHANGED Lock!vars
    BY <1>5, Stutters
    DEF LockNext, LockFullLoad, LockFullTakeFails, LockFullSpin, LockFullEnqueue,
        LockFullEnqueueFails, LockFullWake, Goto, LockPcs, TypeOK
  <1>6. ASSUME NEW t \in Threads, UnlockFullNext(t) PROVE UNCHANGED Lock!vars
    BY <1>6, Stutters
    DEF UnlockFullNext, UnlockFullLoad, UnlockFullLeave, UnlockFullTakeQueue,
        UnlockFullTakeQueueFails, ScanStart, WalkStep, WalkEnd, LeaveToHolder,
        LeaveToHolderFails, Clearing, ClearQueue, ClearQueueFails, PopTail, Unpark,
        Goto, LockPcs, TypeOK
  <1> QED
    BY <1>1, <1>2, <1>3, <1>4, <1>5, <1>6 DEF Next, LockNext, Lock!Next

\* word_lock is a lock: its steps are those of the abstract lock, or invisible.
THEOREM Refinement == Spec => ImplementsLock
  BY InvariantIInv, RefinesInit, RefinesNext, PTL DEF Spec, ImplementsLock, Lock!Spec

-----------------------------------------------------------------------------
(* The queue *)

Scanning == {"scan", "walk", "decide"}

\* The queue is q[lo] .. q[hi], from the thread that has waited longest to the one that
\* came last.
Line(q, lo, hi) ==
    /\ lo <= hi + 1
    /\ lo > hi => state.head = NoThread
    /\ lo <= hi => state.head = q[hi] /\ prev[q[hi]] = NoThread
    /\ \A i \in lo .. hi : q[i] \in Threads /\ Sleeping(q[i])
    /\ \A i, k \in lo .. hi : q[i] = q[k] => i = k
    /\ \A i \in lo + 1 .. hi : next[q[i]] = q[i - 1]

\* Who sleeps is in it, or has been taken off it and is about to be woken, by one thread.
Parked(q, lo, hi) ==
    /\ \A t \in Threads : Sleeping(t) =>
          (\E i \in lo .. hi : q[i] = t) \/ \E u \in Threads : pc[u] = "unpark" /\ last[u] = t
    /\ \A u \in Threads : pc[u] = "unpark" =>
          /\ Sleeping(last[u])
          /\ \A i \in lo .. hi : q[i] # last[u]
          /\ \A v \in Threads : pc[v] = "unpark" /\ last[v] = last[u] => v = u

\* q[m] is the last that knows the tail; from there on the links go both ways.
Known(q, lo, hi, m) ==
    /\ m \in lo .. hi /\ tail[q[m]] = q[lo]
    /\ \A i \in m + 1 .. hi : tail[q[i]] = NoThread
    /\ \A i \in lo .. m - 1 : prev[q[i]] = q[i + 1]

\* A thread that processes the queue started at q[j] and is at q[c].
Walks(t, q, lo, hi, m, j) ==
    /\ j \in m .. hi /\ expected[t].head = q[j]
    /\ \A i \in j .. hi : prev[q[i]] = NoThread
    /\ pc[t] = "walk" => \E c \in m .. j : current[t] = q[c] /\ \A i \in c .. j - 1 : prev[q[i]] = q[i + 1]
    /\ pc[t] = "decide" => m = j /\ last[t] = q[lo]

Marked(q, lo, hi, m) ==
    /\ Known(q, lo, hi, m)
    /\ \A t \in Threads : pc[t] \in Scanning => \E j \in m .. hi : Walks(t, q, lo, hi, m, j)

Queue(q, lo, hi) ==
    /\ q \in [Int -> Node] /\ lo \in Int /\ hi \in Int
    /\ Line(q, lo, hi) /\ Parked(q, lo, hi)
    /\ lo <= hi => \E m \in lo .. hi : Marked(q, lo, hi, m)

\* A thread that finds the queue emptied under it would keep it for ever ("clear"): none does.
QueueInv == (\A t \in Threads : pc[t] # "clear") /\ \E q, lo, hi : Queue(q, lo, hi)

\* Nobody waits at first.
LEMMA InitQueue == Init => QueueInv
<1> SUFFICES ASSUME Init PROVE QueueInv
  OBVIOUS
<1>1. PICK q : q = [i \in Int |-> NoThread]
  OBVIOUS
<1>2. \A i \in 1 .. 0 : FALSE
  OBVIOUS
<1>3. Line(q, 1, 0)
  BY <1>2 DEF Init, Zero, Line
<1>4. Parked(q, 1, 0)
  BY DEF Init, Parked, Sleeping
<1>5. Queue(q, 1, 0)
  BY <1>1, <1>3, <1>4 DEF Queue, Node
<1>6. QED
  BY <1>5 DEF Init, QueueInv

\* What a step of t leaves to the others.
Alone(t) ==
    \A u \in Threads \ {t} : /\ pc'[u] = pc[u] /\ expected'[u] = expected[u]
                             /\ current'[u] = current[u] /\ last'[u] = last[u]

\* All steps do.
LEMMA StepsAlone ==
    ASSUME IInv, NEW t \in Threads, LockNext(t) \/ Unlock(t) \/ UnlockFullNext(t)
    PROVE  Alone(t)
<1> USE DEF IInv, TypeOK, Goto, Discard, CasSucceeds, CasFails, Load, node, walker, Alone
<1>1. CASE LockNext(t)
  BY <1>1 DEF LockNext, LockFast, LockFastFails, LockFullLoad, LockFullTake, LockFullTakeFails, LockFullSpin,
              LockFullEnqueue, LockFullEnqueueFails, LockFullWake
<1>2. CASE Unlock(t)
  BY <1>2 DEF Unlock
<1>3. CASE UnlockFullLoad(t) \/ UnlockFullLeave(t) \/ UnlockFullTakeQueue(t) \/ UnlockFullTakeQueueFails(t)
           \/ ScanStart(t) \/ WalkStep(t) \/ WalkEnd(t)
  BY <1>3 DEF UnlockFullLoad, UnlockFullLeave, UnlockFullTakeQueue, UnlockFullTakeQueueFails,
              ScanStart, WalkStep, WalkEnd
<1>4. CASE LeaveToHolder(t) \/ LeaveToHolderFails(t) \/ ClearQueue(t) \/ ClearQueueFails(t) \/ PopTail(t) \/ Unpark(t)
  BY <1>4 DEF LeaveToHolder, LeaveToHolderFails, ClearQueue, ClearQueueFails, PopTail, Unpark
<1>5. QED
  BY <1>1, <1>2, <1>3, <1>4 DEF UnlockFullNext

\* A step that is none of the queue's business.
LEMMA QueueFrame ==
    ASSUME IInv, QueueInv, NEW t \in Threads, Alone(t), state'.head = state.head,
           ~Sleeping(t), ~Sleeping(t)',
           \A u \in Threads \ {t} : next'[u] = next[u] /\ prev'[u] = prev[u] /\ tail'[u] = tail[u]
                                    /\ shouldPark'[u] = shouldPark[u],
           pc[t] # "unpark", pc'[t] \notin Scanning \union {"unpark", "clear"}
    PROVE  QueueInv'
<1>1. \A u \in Threads : u # t => pc'[u] = pc[u]
  BY DEF Alone
<1>2. \A u \in Threads : pc'[u] # "clear"
  BY <1>1 DEF QueueInv
<1>3. PICK q, lo, hi : Queue(q, lo, hi)
  BY DEF QueueInv
<1>4. \A u \in Threads : Sleeping(u)' <=> Sleeping(u)
  BY <1>1 DEF Sleeping
<1>5. \A i \in lo .. hi : q[i] \in Threads \ {t}
  BY <1>3 DEF Queue, Line
<1>6. lo \in Int /\ hi \in Int
  BY <1>3 DEF Queue
<1>7. Line(q, lo, hi)'
  BY <1>3, <1>4, <1>5, <1>6 DEF Queue, Line
<1>8. \A u \in Threads : pc'[u] = "unpark" <=> pc[u] = "unpark"
  BY <1>1 DEF Scanning
<1>9. \A u \in Threads : pc[u] = "unpark" => last'[u] = last[u] /\ last[u] \in Threads
  BY DEF Alone, IInv, WalkOnNodes
<1>10. Parked(q, lo, hi)'
  BY <1>3, <1>4, <1>8, <1>9 DEF Queue, Parked
<1>11. ASSUME NEW m \in lo .. hi, Marked(q, lo, hi, m) PROVE Marked(q, lo, hi, m)'
  <2>1. \A i \in m .. hi : i \in lo .. hi
    BY <1>6
  <2>2. Known(q, lo, hi, m)'
    <3>1. \A i \in lo .. m - 1 : i \in lo .. hi
      BY <1>6
    <3>2. QED
      BY <1>5, <1>6, <1>11, <2>1, <3>1 DEF Marked, Known
  <2>3. ASSUME NEW u \in Threads, pc'[u] \in Scanning PROVE \E j \in m .. hi : Walks(u, q, lo, hi, m, j)'
    <3>1. u # t /\ pc'[u] = pc[u] /\ expected'[u] = expected[u] /\ current'[u] = current[u] /\ last'[u] = last[u]
      BY <2>3 DEF Alone
    <3>2. PICK j \in m .. hi : Walks(u, q, lo, hi, m, j)
      BY <1>11, <2>3, <3>1 DEF Marked
    <3>3. \A i \in m .. hi : prev'[q[i]] = prev[q[i]]
      BY <1>5, <2>1
    <3>4. Walks(u, q, lo, hi, m, j)'
      BY <1>6, <3>1, <3>2, <3>3 DEF Walks
    <3>5. QED
      BY <3>4
  <2>4. QED
    BY <2>2, <2>3 DEF Marked
<1>12. Queue(q, lo, hi)'
  BY <1>3, <1>7, <1>10, <1>11 DEF Queue, Node
<1>13. QED
  BY <1>2, <1>12 DEF QueueInv

\* The steps of lock() that leave the queue alone.
LEMMA LockFrame ==
    ASSUME IInv, QueueInv, NEW t \in Threads, LockNext(t), ~LockFullEnqueue(t)
    PROVE  QueueInv'
<1>1. Alone(t)
  BY StepsAlone
<1>2. state'.head = state.head
  BY WordOps DEF LockNext, LockFast, LockFastFails, LockFullLoad, LockFullTake, LockFullTakeFails, LockFullSpin,
                 LockFullEnqueueFails, LockFullWake, CasSucceeds, CasFails, Load, IInv, TypeOK
<1>3. pc[t] \notin {"unpark"} /\ pc'[t] \in {"held", "load", "loop"} /\ (pc[t] = "park" => ~shouldPark[t])
      /\ \A u \in Threads \ {t} : next'[u] = next[u] /\ prev'[u] = prev[u] /\ tail'[u] = tail[u]
                                  /\ shouldPark'[u] = shouldPark[u]
  BY DEF LockNext, LockFast, LockFastFails, LockFullLoad, LockFullTake, LockFullTakeFails, LockFullSpin,
         LockFullEnqueueFails, LockFullWake, Goto, node, IInv, TypeOK
<1>4. ~Sleeping(t) /\ ~Sleeping(t)'
  BY <1>3 DEF Sleeping
<1>5. pc'[t] \notin Scanning \union {"unpark", "clear"}
  BY <1>3 DEF Scanning
<1>6. QED
  BY <1>1, <1>2, <1>3, <1>4, <1>5, QueueFrame

\* The same of unlock().
LEMMA UnlockFrame ==
    ASSUME IInv, QueueInv, NEW t \in Threads,
           \/ Unlock(t) \/ UnlockFullLoad(t) \/ UnlockFullLeave(t) \/ UnlockFullTakeQueueFails(t) \/ LeaveToHolder(t)
    PROVE  QueueInv'
<1>1. Alone(t)
  BY StepsAlone DEF UnlockFullNext
<1>2. state'.head = state.head
  BY WordOps DEF Unlock, UnlockFullLoad, UnlockFullLeave, UnlockFullTakeQueueFails, LeaveToHolder,
                 CasSucceeds, CasFails, Load, IInv, TypeOK
<1>3. /\ pc[t] \in {"held", "unlockLoad", "unlockLoop", "decide"} /\ pc'[t] \in {"idle", "unlockLoad", "unlockLoop"}
      /\ UNCHANGED <<next, prev, tail, shouldPark>>
  BY DEF Unlock, UnlockFullLoad, UnlockFullLeave, UnlockFullTakeQueueFails, LeaveToHolder, Goto, node, IInv, TypeOK
<1>4. ~Sleeping(t) /\ ~Sleeping(t)'
  BY <1>3 DEF Sleeping
<1>5. pc'[t] \notin Scanning \union {"unpark", "clear"} /\ pc[t] # "unpark"
  BY <1>3 DEF Scanning
<1>6. QED
  BY <1>1, <1>2, <1>3, <1>4, <1>5, QueueFrame

\* A step that leaves the nodes and who sleeps alone.
LEMMA LineStays ==
    ASSUME IInv, QueueInv, NEW t \in Threads, Alone(t), state'.head = state.head,
           next' = next, prev' = prev, shouldPark' = shouldPark,
           pc[t] \notin {"park", "unpark"}, pc'[t] \notin {"park", "unpark"},
           NEW q, NEW lo, NEW hi, Queue(q, lo, hi)
    PROVE  Line(q, lo, hi)' /\ Parked(q, lo, hi)'
<1>1. \A u \in Threads : u # t => pc'[u] = pc[u]
  BY DEF Alone
<1>2. \A u \in Threads : (Sleeping(u)' <=> Sleeping(u)) /\ (pc'[u] = "unpark" <=> pc[u] = "unpark")
  BY <1>1 DEF Sleeping
<1>3. \A u \in Threads : pc[u] = "unpark" => last'[u] = last[u] /\ last[u] \in Threads
  BY DEF Alone, IInv, WalkOnNodes
<1>4. Line(q, lo, hi)'
  BY <1>2 DEF Queue, Line
<1>5. Parked(q, lo, hi)'
  BY <1>2, <1>3 DEF Queue, Parked
<1>6. QED
  BY <1>4, <1>5

\* What it leaves of the walks of others.
LEMMA WalksStay ==
    ASSUME NEW t \in Threads, Alone(t), NEW u \in Threads, u # t, NEW q, NEW lo, NEW hi, NEW m, NEW j,
           prev' = prev, Walks(u, q, lo, hi, m, j)
    PROVE  Walks(u, q, lo, hi, m, j)'
  BY DEF Walks, Alone

\* The scan starts, or starts again, from the head.
LEMMA Rescan ==
    ASSUME IInv, IInv', QueueInv, NEW t \in Threads, Alone(t), state'.head = state.head,
           next' = next, prev' = prev, tail' = tail, shouldPark' = shouldPark,
           pc[t] \notin {"park", "unpark"}, pc'[t] = "scan", expected'[t].head = state.head
    PROVE  QueueInv'
<1>1. PICK q, lo, hi : Queue(q, lo, hi)
  BY DEF QueueInv
<1>2. Line(q, lo, hi)' /\ Parked(q, lo, hi)'
  BY <1>1, LineStays
<1>3. lo \in Int /\ hi \in Int
  BY <1>1 DEF Queue
<1>4. lo <= hi
  <2>1. state.head # NoThread
    BY NoThreadAssumption DEF IInv, WalkOnNodes
  <2>2. lo > hi => state.head = NoThread
    BY <1>1 DEF Queue, Line
  <2>3. QED
    BY <1>3, <2>1, <2>2
<1>5. PICK m \in lo .. hi : Marked(q, lo, hi, m)
  BY <1>1, <1>4 DEF Queue
<1>6. Walks(t, q, lo, hi, m, hi)'
  BY <1>1, <1>3, <1>4 DEF Queue, Line, Walks
<1>7. \A u \in Threads \ {t} : pc'[u] \in Scanning => \E j \in m .. hi : Walks(u, q, lo, hi, m, j)'
  <2> TAKE u \in Threads \ {t}
  <2> HAVE pc'[u] \in Scanning
  <2>1. pc[u] \in Scanning
    BY DEF Alone
  <2>2. PICK j \in m .. hi : Walks(u, q, lo, hi, m, j)
    BY <1>5, <2>1 DEF Marked
  <2>3. QED
    BY <2>2, WalksStay
<1>8. Marked(q, lo, hi, m)'
  <2>1. Known(q, lo, hi, m)'
    BY <1>5 DEF Marked, Known
  <2>2. hi \in m .. hi
    BY <1>3
  <2>3. QED
    BY <1>6, <1>7, <2>1, <2>2 DEF Marked
<1>9. Queue(q, lo, hi)'
  BY <1>1, <1>2, <1>8 DEF Queue, Node
<1>10. \A u \in Threads : pc'[u] # "clear"
  BY DEF Alone, QueueInv
<1>11. QED
  BY <1>9, <1>10 DEF QueueInv

\* A failed swap means the queue has grown: it is never empty while a thread processes it.
LEMMA RescanSteps ==
    ASSUME IInv, IInv', QueueInv, NEW t \in Threads,
           UnlockFullTakeQueue(t) \/ LeaveToHolderFails(t) \/ ClearQueueFails(t)
    PROVE  QueueInv'
<1>1. Alone(t)
  BY StepsAlone DEF UnlockFullNext
<1>2. pc[t] \in {"unlockLoop", "decide"} /\ UNCHANGED <<next, prev, tail, shouldPark>>
  BY DEF UnlockFullTakeQueue, LeaveToHolderFails, ClearQueueFails, Clearing, Goto, node, QueueInv
<1>3. pc'[t] = "scan" /\ state'.head = state.head /\ expected'[t].head = state.head
  <2>1. CASE UnlockFullTakeQueue(t)
    BY <2>1, WordOps DEF UnlockFullTakeQueue, Goto, CasSucceeds, IInv, TypeOK
  <2>2. CASE LeaveToHolderFails(t)
    BY <2>2 DEF LeaveToHolderFails, Goto, CasFails, IInv, TypeOK
  <2>3. CASE ClearQueueFails(t)
    <3>1. state.head # NoThread
      <4>1. t \in Walkers
        BY <1>2, <2>3 DEF Walkers, WalkPcs, ClearQueueFails, Clearing
      <4>2. QED
        BY <4>1 DEF IInv, QueueExclusion
    <3>2. QED
      BY <2>3, <3>1 DEF ClearQueueFails, CasFails, IInv, TypeOK
  <2>4. QED
    BY <2>1, <2>2, <2>3
<1>4. pc[t] \notin {"park", "unpark"}
  BY <1>2
<1>5. QED
  BY <1>1, <1>2, <1>3, <1>4, Rescan

\* One thread processes the queue, and it is not empty.
LEMMA OneScans ==
    ASSUME IInv, NEW t \in Threads, pc[t] \in Scanning, NEW q, NEW lo, NEW hi, Queue(q, lo, hi)
    PROVE  /\ lo <= hi /\ \A u \in Threads : pc[u] \in Scanning => u = t
           /\ \E m \in lo .. hi : \E j \in m .. hi : Marked(q, lo, hi, m) /\ Walks(t, q, lo, hi, m, j)
<1>1. t \in Walkers /\ \A u \in Threads : pc[u] \in Scanning => u \in Walkers
  BY DEF Walkers, WalkPcs, Scanning
<1>2. state.head # NoThread /\ \A u \in Threads : pc[u] \in Scanning => u = t
  BY <1>1 DEF IInv, QueueExclusion
<1>3. lo \in Int /\ hi \in Int /\ (lo > hi => state.head = NoThread)
  BY DEF Queue, Line
<1>4. lo <= hi
  BY <1>2, <1>3
<1>5. QED
  BY <1>2, <1>4 DEF Queue, Marked

\* A step of the thread that processes the queue, which goes on doing so.
LEMMA WalkerGoesOn ==
    ASSUME IInv, QueueInv, NEW t \in Threads, Alone(t), pc[t] \in Scanning, pc'[t] \in Scanning,
           NEW q, NEW lo, NEW hi, Queue(q, lo, hi), Line(q, lo, hi)', Parked(q, lo, hi)',
           NEW m \in lo .. hi, Known(q, lo, hi, m)', NEW j \in m .. hi, Walks(t, q, lo, hi, m, j)'
    PROVE  QueueInv'
<1>1. \A u \in Threads : pc'[u] \in Scanning => u = t
  BY OneScans DEF Alone
<1>2. Marked(q, lo, hi, m)'
  BY <1>1 DEF Marked
<1>3. Queue(q, lo, hi)'
  BY <1>2 DEF Queue, Node
<1>4. \A u \in Threads : pc'[u] # "clear"
  BY DEF Alone, QueueInv, Scanning
<1>5. QED
  BY <1>3, <1>4 DEF QueueInv

\* Who takes the queue lock starts at the head of a queue that is not empty.
LEMMA ScanStartQueue ==
    ASSUME IInv, IInv', QueueInv, NEW t \in Threads, ScanStart(t)
    PROVE  QueueInv'
<1>1. Alone(t)
  BY StepsAlone DEF UnlockFullNext
<1>2. /\ pc[t] = "scan" /\ pc'[t] = "walk" /\ current'[t] = expected[t].head /\ expected' = expected
      /\ UNCHANGED <<state, next, prev, tail, shouldPark>>
  BY DEF ScanStart, Goto, node, IInv, TypeOK
<1>3. PICK q, lo, hi : Queue(q, lo, hi)
  BY DEF QueueInv
<1>4. Line(q, lo, hi)' /\ Parked(q, lo, hi)'
  BY <1>1, <1>2, <1>3, LineStays
<1>5. PICK m \in lo .. hi : \E j \in m .. hi : Marked(q, lo, hi, m) /\ Walks(t, q, lo, hi, m, j)
  BY <1>2, <1>3, OneScans DEF Scanning
<1>6. PICK j \in m .. hi : Marked(q, lo, hi, m) /\ Walks(t, q, lo, hi, m, j)
  BY <1>5
<1>7. lo \in Int /\ hi \in Int
  BY <1>3 DEF Queue
<1>8. Walks(t, q, lo, hi, m, j)'
  <2>1. j \in m .. j /\ \A i \in j .. j - 1 : FALSE
    BY <1>7
  <2>2. QED
    BY <1>2, <1>6, <2>1 DEF Walks
<1>9. Known(q, lo, hi, m)'
  BY <1>2, <1>6 DEF Marked, Known
<1>10. pc[t] \in Scanning /\ pc'[t] \in Scanning
  BY <1>2 DEF Scanning
<1>11. QED
  BY <1>1, <1>3, <1>4, <1>8, <1>9, <1>10, WalkerGoesOn

\* The walk links the node it leaves to the next one's prev, on the way to the node that
\* knows the tail.
LEMMA WalkStepQueue ==
    ASSUME IInv, IInv', QueueInv, NEW t \in Threads, WalkStep(t)
    PROVE  QueueInv'
<1>1. Alone(t)
  BY StepsAlone DEF UnlockFullNext
<1>2. /\ pc[t] = "walk" /\ pc' = pc /\ expected' = expected /\ last' = last
      /\ UNCHANGED <<state, next, tail, shouldPark>>
      /\ tail[current[t]] = NoThread /\ next[current[t]] # NoThread
      /\ current'[t] = next[current[t]]
  BY DEF WalkStep, IInv, TypeOK
<1>3. PICK q, lo, hi : Queue(q, lo, hi)
  BY DEF QueueInv
<1>4. PICK m \in lo .. hi : \E j \in m .. hi : Marked(q, lo, hi, m) /\ Walks(t, q, lo, hi, m, j)
  BY <1>2, <1>3, OneScans DEF Scanning
<1>5. PICK j \in m .. hi : Marked(q, lo, hi, m) /\ Walks(t, q, lo, hi, m, j)
  BY <1>4
<1>6. PICK c \in m .. j : current[t] = q[c] /\ \A i \in c .. j - 1 : prev[q[i]] = q[i + 1]
  BY <1>2, <1>5 DEF Walks
<1>7. lo \in Int /\ hi \in Int /\ \A i \in lo .. hi : q[i] \in Threads
  BY <1>3 DEF Queue, Line
<1>8. c # m
  <2>1. q[lo] # NoThread
    BY <1>7, NoThreadAssumption
  <2>2. QED
    BY <1>2, <1>5, <1>6, <2>1 DEF Marked, Known
<1>9. c \in lo + 1 .. hi /\ c - 1 \in lo .. hi /\ c \in lo .. hi /\ c - 1 \in m .. j /\ m < c /\ c <= j
  BY <1>7, <1>8
<1>10. next[q[c]] = q[c - 1] /\ current'[t] = q[c - 1]
  BY <1>2, <1>3, <1>6, <1>9 DEF Queue, Line
<1>11. \A i \in lo .. hi : prev'[q[i]] = IF i = c - 1 THEN q[c] ELSE prev[q[i]]
  <2> TAKE i \in lo .. hi
  <2>1. prev' = [prev EXCEPT ![q[c - 1]] = q[c]]
    BY <1>2, <1>6, <1>10 DEF WalkStep
  <2>2. q[i] = q[c - 1] <=> i = c - 1
    BY <1>3, <1>9 DEF Queue, Line
  <2>3. QED
    BY <1>7, <2>1, <2>2 DEF IInv, TypeOK
<1>12. \A u \in Threads : Sleeping(u)' <=> Sleeping(u)
  BY <1>2 DEF Sleeping
<1>13. Line(q, lo, hi)'
  <2>1. lo <= hi /\ hi \in lo .. hi /\ hi # c - 1
    BY <1>7, <1>9
  <2>2. prev'[q[hi]] = prev[q[hi]]
    BY <1>11, <2>1
  <2>3. QED
    BY <1>2, <1>3, <1>12, <2>2 DEF Queue, Line
<1>14. Parked(q, lo, hi)'
  <2>1. \A u \in Threads : pc[u] = "unpark" => last[u] \in Threads
    BY DEF IInv, WalkOnNodes
  <2>2. QED
    BY <1>2, <1>3, <1>12, <2>1 DEF Queue, Parked
<1>15. Known(q, lo, hi, m)'
  <2>1. \A i \in lo .. m - 1 : i \in lo .. hi /\ i # c - 1
    BY <1>7, <1>9
  <2>2. QED
    BY <1>2, <1>5, <1>11, <2>1 DEF Marked, Known
<1>16. Walks(t, q, lo, hi, m, j)'
  <2>1. \A i \in j .. hi : i \in lo .. hi /\ i # c - 1
    BY <1>7, <1>9
  <2>2. \A i \in c - 1 .. j - 1 : prev'[q[i]] = q[i + 1]
    <3> TAKE i \in c - 1 .. j - 1
    <3>1. i \in lo .. hi
      BY <1>7, <1>9
    <3>2. CASE i = c - 1
      BY <1>9, <1>11, <3>1, <3>2
    <3>3. CASE i # c - 1
      <4>1. i \in c .. j - 1
        BY <1>9, <3>3
      <4>2. QED
        BY <1>6, <1>11, <3>1, <3>3, <4>1
    <3>4. QED
      BY <3>2, <3>3
  <2>3. \A i \in j .. hi : prev'[q[i]] = NoThread
    BY <1>5, <1>11, <2>1 DEF Walks
  <2>4. QED
    BY <1>2, <1>5, <1>9, <1>10, <2>2, <2>3 DEF Walks
<1>17. pc[t] \in Scanning /\ pc'[t] \in Scanning
  BY <1>2 DEF Scanning
<1>18. QED
  BY <1>1, <1>3, <1>13, <1>14, <1>15, <1>16, <1>17, WalkerGoesOn

\* At its end the head knows the tail.
LEMMA WalkEndQueue ==
    ASSUME IInv, IInv', QueueInv, NEW t \in Threads, WalkEnd(t)
    PROVE  QueueInv'
<1>1. Alone(t)
  BY StepsAlone DEF UnlockFullNext
<1>2. /\ pc[t] = "walk" /\ pc'[t] = "decide" /\ expected' = expected
      /\ UNCHANGED <<state, next, prev, shouldPark>>
      /\ tail[current[t]] # NoThread /\ last'[t] = tail[current[t]]
      /\ tail' = [tail EXCEPT ![expected[t].head] = tail[current[t]]]
  BY DEF WalkEnd, Goto, IInv, TypeOK
<1>3. PICK q, lo, hi : Queue(q, lo, hi)
  BY DEF QueueInv
<1>4. PICK m \in lo .. hi : \E j \in m .. hi : Marked(q, lo, hi, m) /\ Walks(t, q, lo, hi, m, j)
  BY <1>2, <1>3, OneScans DEF Scanning
<1>5. PICK j \in m .. hi : Marked(q, lo, hi, m) /\ Walks(t, q, lo, hi, m, j)
  BY <1>4
<1>6. PICK c \in m .. j : current[t] = q[c] /\ \A i \in c .. j - 1 : prev[q[i]] = q[i + 1]
  BY <1>2, <1>5 DEF Walks
<1>7. lo \in Int /\ hi \in Int /\ \A i \in lo .. hi : q[i] \in Threads
  BY <1>3 DEF Queue, Line
<1>8. c = m
  <2>1. c # m => c \in m + 1 .. hi
    BY <1>7
  <2>2. QED
    BY <1>2, <1>5, <1>6, <2>1 DEF Marked, Known
<1>9. last'[t] = q[lo] /\ tail' = [tail EXCEPT ![q[j]] = q[lo]]
  BY <1>2, <1>5, <1>6, <1>8 DEF Marked, Known, Walks
<1>10. Line(q, lo, hi)' /\ Parked(q, lo, hi)'
  BY <1>1, <1>2, <1>3, LineStays
<1>11. j \in lo .. hi /\ lo \in lo .. hi /\ \A i \in j + 1 .. hi : i \in m + 1 .. hi /\ i \in lo .. hi /\ i # j
  BY <1>7
<1>12. Known(q, lo, hi, j)'
  <2>1. tail'[q[j]] = q[lo]
    BY <1>7, <1>9, <1>11 DEF IInv, TypeOK
  <2>2. \A i \in j + 1 .. hi : tail'[q[i]] = NoThread
    <3> TAKE i \in j + 1 .. hi
    <3>1. q[i] # q[j]
      BY <1>3, <1>11 DEF Queue, Line
    <3>2. tail[q[i]] = NoThread
      BY <1>5, <1>11 DEF Marked, Known
    <3>3. QED
      BY <1>7, <1>9, <1>11, <3>1, <3>2 DEF IInv, TypeOK
  <2>3. \A i \in lo .. j - 1 : prev[q[i]] = q[i + 1]
    <3> TAKE i \in lo .. j - 1
    <3>1. i \in lo .. m - 1 \/ i \in m .. j - 1
      BY <1>7
    <3>2. QED
      BY <1>5, <1>6, <1>8, <3>1 DEF Marked, Known
  <2>4. QED
    BY <1>2, <1>11, <2>1, <2>2, <2>3 DEF Known
<1>13. Walks(t, q, lo, hi, j, j)'
  <2>1. j \in j .. hi
    BY <1>7
  <2>2. QED
    BY <1>2, <1>5, <1>9, <2>1 DEF Walks
<1>14. pc[t] \in Scanning /\ pc'[t] \in Scanning
  BY <1>2 DEF Scanning
<1>15. j \in j .. hi
  BY <1>7
<1>16. QED
  BY <1>1, <1>3, <1>10, <1>11, <1>12, <1>13, <1>14, <1>15, WalkerGoesOn

\* The queue is emptied only when the tail is the one node in it.
LEMMA ClearQueueQueue ==
    ASSUME IInv, IInv', QueueInv, NEW t \in Threads, ClearQueue(t)
    PROVE  QueueInv'
<1>1. Alone(t)
  BY StepsAlone DEF UnlockFullNext
<1>2. /\ pc[t] = "decide" /\ pc'[t] = "unpark" /\ last' = last
      /\ UNCHANGED <<next, prev, tail, shouldPark>>
      /\ prev[last[t]] = NoThread /\ state = expected[t]
  BY DEF ClearQueue, Clearing, CasSucceeds, node, walker, IInv, TypeOK, QueueInv
<1>3. state'.head = NoThread
  BY WordOps DEF ClearQueue, CasSucceeds, IInv, TypeOK
<1>4. PICK q, lo, hi : Queue(q, lo, hi)
  BY DEF QueueInv
<1>5. PICK m \in lo .. hi : \E j \in m .. hi : Marked(q, lo, hi, m) /\ Walks(t, q, lo, hi, m, j)
  BY <1>2, <1>4, OneScans DEF Scanning
<1>6. PICK j \in m .. hi : Marked(q, lo, hi, m) /\ Walks(t, q, lo, hi, m, j)
  BY <1>5
<1>7. lo \in Int /\ hi \in Int /\ \A i \in lo .. hi : q[i] \in Threads
  BY <1>4 DEF Queue, Line
<1>8. m = j /\ last[t] = q[lo] /\ lo \in lo .. hi /\ hi \in lo .. hi /\ j \in lo .. hi
  BY <1>2, <1>6, <1>7 DEF Walks
<1>9. j = hi
  <2>1. q[j] = q[hi]
    BY <1>2, <1>4, <1>6, <1>7, <1>8 DEF Queue, Line, Walks
  <2>2. QED
    BY <1>4, <1>8, <2>1 DEF Queue, Line
<1>10. lo = hi
  <2>1. lo # hi => lo \in lo .. m - 1 /\ lo + 1 \in lo .. hi
    BY <1>7, <1>8, <1>9
  <2>2. lo # hi => prev[q[lo]] = q[lo + 1] /\ q[lo + 1] \in Threads
    BY <1>6, <1>7, <2>1 DEF Marked, Known
  <2>3. QED
    BY <1>2, <1>8, <2>2, NoThreadAssumption
<1>11. \A i \in hi + 1 .. hi : FALSE
  BY <1>7
<1>12. \A i \in lo .. hi : i = lo
  BY <1>7, <1>10
<1>13. \A u \in Threads : Sleeping(u)' <=> Sleeping(u)
  BY <1>1, <1>2 DEF Sleeping, Alone
<1>14. Line(q, hi + 1, hi)'
  <2>1. \A i \in hi + 2 .. hi : FALSE
    BY <1>7
  <2>2. hi + 1 + 1 = hi + 2 /\ hi + 1 <= hi + 1 /\ ~(hi + 1 <= hi)
    BY <1>7
  <2>3. QED
    BY <1>3, <1>11, <2>1, <2>2 DEF Line
<1>15. Parked(q, hi + 1, hi)'
  <2>1. ASSUME NEW u \in Threads, Sleeping(u)' PROVE \E v \in Threads : pc'[v] = "unpark" /\ last'[v] = u
    <3>1. Sleeping(u)
      BY <1>13, <2>1
    <3>2. CASE \E i \in lo .. hi : q[i] = u
      <4>1. u = last[t]
        BY <1>8, <1>12, <3>2
      <4>2. QED
        BY <1>2, <4>1
    <3>3. CASE \E v \in Threads : pc[v] = "unpark" /\ last[v] = u
      <4>1. PICK v \in Threads : pc[v] = "unpark" /\ last[v] = u
        BY <3>3
      <4>2. v # t
        BY <1>2, <4>1
      <4>3. QED
        BY <1>1, <4>1, <4>2 DEF Alone
    <3>4. QED
      BY <1>4, <3>1, <3>2, <3>3 DEF Queue, Parked
  <2>2. ASSUME NEW u \in Threads, pc'[u] = "unpark"
        PROVE  Sleeping(last[u])' /\ \A v \in Threads : pc'[v] = "unpark" /\ last'[v] = last'[u] => v = u
    <3>0. last[t] \in Threads /\ \A v \in Threads : pc[v] = "unpark" => last[v] \in Threads
      BY <1>2 DEF IInv, WalkOnNodes
    <3>1. Sleeping(last[t]) /\ \A v \in Threads : pc[v] = "unpark" => last[v] # last[t]
      BY <1>4, <1>8 DEF Queue, Line, Parked
    <3>2. \A v \in Threads : pc'[v] = "unpark" => v = t \/ pc[v] = "unpark"
      BY <1>1 DEF Alone
    <3>3. Sleeping(last[u]) /\ last[u] \in Threads
      BY <1>4, <2>2, <3>0, <3>1, <3>2 DEF Queue, Parked
    <3>4. \A v \in Threads : pc'[v] = "unpark" /\ last[v] = last[u] => v = u
      <4> TAKE v \in Threads
      <4> HAVE pc'[v] = "unpark" /\ last[v] = last[u]
      <4>1. CASE u = t
        BY <3>1, <3>2, <4>1
      <4>2. CASE u # t
        BY <1>4, <2>2, <3>1, <3>2, <4>2 DEF Queue, Parked
      <4>3. QED
        BY <4>1, <4>2
    <3>5. QED
      BY <1>2, <1>13, <3>3, <3>4
  <2>3. QED
    BY <1>11, <2>1, <2>2 DEF Parked
<1>16. Queue(q, hi + 1, hi)'
  <2>1. ~(hi + 1 <= hi) /\ hi + 1 \in Int
    BY <1>7
  <2>2. QED
    BY <1>4, <1>14, <1>15, <2>1 DEF Queue, Node
<1>17. \A u \in Threads : pc'[u] # "clear"
  BY <1>1, <1>2 DEF Alone, QueueInv
<1>18. QED
  BY <1>16, <1>17 DEF QueueInv

\* The tail leaves; the head now knows the one before it.
LEMMA PopTailQueue ==
    ASSUME IInv, IInv', QueueInv, NEW t \in Threads, PopTail(t)
    PROVE  QueueInv'
<1>1. Alone(t)
  BY StepsAlone DEF UnlockFullNext
<1>2. /\ pc[t] = "decide" /\ pc'[t] = "unpark" /\ last' = last
      /\ UNCHANGED <<next, prev, shouldPark>>
      /\ prev[last[t]] # NoThread
      /\ tail' = [tail EXCEPT ![expected[t].head] = prev[last[t]]]
  BY DEF PopTail, Goto, walker, IInv, TypeOK
<1>3. state'.head = state.head
  BY WordOps DEF PopTail, IInv, TypeOK
<1>4. PICK q, lo, hi : Queue(q, lo, hi)
  BY DEF QueueInv
<1>5. PICK m \in lo .. hi : \E j \in m .. hi : Marked(q, lo, hi, m) /\ Walks(t, q, lo, hi, m, j)
  BY <1>2, <1>4, OneScans DEF Scanning
<1>6. PICK j \in m .. hi : Marked(q, lo, hi, m) /\ Walks(t, q, lo, hi, m, j)
  BY <1>5
<1>7. lo \in Int /\ hi \in Int /\ \A i \in lo .. hi : q[i] \in Threads
  BY <1>4 DEF Queue, Line
<1>8. m = j /\ last[t] = q[lo] /\ lo \in lo .. hi /\ j \in lo .. hi /\ lo <= hi
  BY <1>2, <1>6, <1>7 DEF Walks
<1>9. lo < j
  <2>1. lo = j => prev[q[lo]] = NoThread
    BY <1>6, <1>7, <1>8 DEF Walks
  <2>2. QED
    BY <1>2, <1>7, <1>8, <2>1
<1>10. prev[last[t]] = q[lo + 1] /\ lo + 1 <= hi /\ lo + 1 \in lo .. hi
  <2>1. lo \in lo .. m - 1 /\ lo + 1 <= hi /\ lo + 1 \in lo .. hi
    BY <1>7, <1>8, <1>9
  <2>2. QED
    BY <1>6, <1>8, <2>1 DEF Marked, Known
<1>11. tail' = [tail EXCEPT ![q[j]] = q[lo + 1]]
  BY <1>2, <1>6, <1>10 DEF Walks
<1>12. \A i \in lo + 1 .. hi : i \in lo .. hi /\ i # lo /\ q[i] # q[lo]
  <2> TAKE i \in lo + 1 .. hi
  <2>1. i \in lo .. hi /\ i # lo
    BY <1>7
  <2>2. QED
    BY <1>4, <1>8, <2>1 DEF Queue, Line
<1>13. \A u \in Threads : Sleeping(u)' <=> Sleeping(u)
  BY <1>1, <1>2 DEF Sleeping, Alone
<1>14. Line(q, lo + 1, hi)'
  <2>1. \A i \in lo + 1 + 1 .. hi : i \in lo + 1 .. hi
    BY <1>7
  <2>2. lo + 1 <= hi + 1 /\ ~(lo + 1 > hi)
    BY <1>7, <1>10
  <2>3. QED
    BY <1>2, <1>3, <1>4, <1>7, <1>8, <1>12, <1>13, <2>1, <2>2 DEF Queue, Line
<1>15. Parked(q, lo + 1, hi)'
  <2>1. ASSUME NEW u \in Threads, Sleeping(u)'
        PROVE  (\E i \in lo + 1 .. hi : q[i] = u) \/ \E v \in Threads : pc'[v] = "unpark" /\ last'[v] = u
    <3>1. Sleeping(u)
      BY <1>13, <2>1
    <3>2. CASE \E i \in lo .. hi : q[i] = u
      <4>1. PICK i \in lo .. hi : q[i] = u
        BY <3>2
      <4>2. i = lo \/ i \in lo + 1 .. hi
        BY <1>7
      <4>3. QED
        BY <1>2, <1>8, <4>1, <4>2
    <3>3. CASE \E v \in Threads : pc[v] = "unpark" /\ last[v] = u
      <4>1. PICK v \in Threads : pc[v] = "unpark" /\ last[v] = u
        BY <3>3
      <4>2. v # t
        BY <1>2, <4>1
      <4>3. QED
        BY <1>1, <4>1, <4>2 DEF Alone
    <3>4. QED
      BY <1>4, <3>1, <3>2, <3>3 DEF Queue, Parked
  <2>2. ASSUME NEW u \in Threads, pc'[u] = "unpark"
        PROVE  Sleeping(last[u])' /\ (\A i \in lo + 1 .. hi : q[i] # last[u])
               /\ \A v \in Threads : pc'[v] = "unpark" /\ last'[v] = last'[u] => v = u
    <3>0. last[t] \in Threads /\ \A v \in Threads : pc[v] = "unpark" => last[v] \in Threads
      BY <1>2 DEF IInv, WalkOnNodes
    <3>1. Sleeping(last[t]) /\ \A v \in Threads : pc[v] = "unpark" => last[v] # last[t]
      BY <1>4, <1>8 DEF Queue, Line, Parked
    <3>2. \A v \in Threads : pc'[v] = "unpark" => v = t \/ pc[v] = "unpark"
      BY <1>1 DEF Alone
    <3>3. Sleeping(last[u]) /\ last[u] \in Threads
      BY <1>4, <2>2, <3>0, <3>1, <3>2 DEF Queue, Parked
    <3>4. \A v \in Threads : pc'[v] = "unpark" /\ last[v] = last[u] => v = u
      <4> TAKE v \in Threads
      <4> HAVE pc'[v] = "unpark" /\ last[v] = last[u]
      <4>1. CASE u = t
        BY <3>1, <3>2, <4>1
      <4>2. CASE u # t
        BY <1>4, <2>2, <3>1, <3>2, <4>2 DEF Queue, Parked
      <4>3. QED
        BY <4>1, <4>2
    <3>5. \A i \in lo + 1 .. hi : q[i] # last[u]
      <4>1. CASE u = t
        BY <1>8, <1>12, <4>1
      <4>2. CASE u # t
        <5>1. pc[u] = "unpark"
          BY <2>2, <3>2, <4>2
        <5>2. QED
          BY <1>4, <1>12, <5>1 DEF Queue, Parked
      <4>3. QED
        BY <4>1, <4>2
    <3>6. QED
      BY <1>2, <1>13, <3>3, <3>4, <3>5
  <2>3. QED
    BY <1>2, <2>1, <2>2 DEF Parked
<1>16. Known(q, lo + 1, hi, j)'
  <2>1. j \in lo + 1 .. hi
    BY <1>7, <1>8, <1>9
  <2>2. tail'[q[j]] = q[lo + 1]
    BY <1>7, <1>8, <1>11 DEF IInv, TypeOK
  <2>3. \A i \in j + 1 .. hi : tail'[q[i]] = NoThread
    <3> TAKE i \in j + 1 .. hi
    <3>1. i \in lo .. hi /\ i # j
      BY <1>7, <1>8
    <3>2. q[i] # q[j]
      BY <1>4, <1>8, <3>1 DEF Queue, Line
    <3>3. tail[q[i]] = NoThread
      BY <1>6, <1>8 DEF Marked, Known
    <3>4. QED
      BY <1>7, <1>8, <1>11, <3>1, <3>2, <3>3 DEF IInv, TypeOK
  <2>4. \A i \in lo + 1 .. j - 1 : prev[q[i]] = q[i + 1]
    <3> TAKE i \in lo + 1 .. j - 1
    <3>1. i \in lo .. m - 1
      BY <1>7, <1>8
    <3>2. QED
      BY <1>6, <3>1 DEF Marked, Known
  <2>5. QED
    BY <1>2, <2>1, <2>2, <2>3, <2>4 DEF Known
<1>17. \A u \in Threads : pc'[u] \notin Scanning /\ pc'[u] # "clear"
  BY <1>1, <1>2, <1>4, OneScans DEF Alone, QueueInv, Scanning
<1>18. Queue(q, lo + 1, hi)'
  <2>1. lo + 1 \in Int /\ j \in lo + 1 .. hi
    BY <1>7, <1>8, <1>9
  <2>2. Marked(q, lo + 1, hi, j)'
    BY <1>16, <1>17 DEF Marked
  <2>3. QED
    BY <1>4, <1>14, <1>15, <2>1, <2>2 DEF Queue, Node
<1>19. QED
  BY <1>17, <1>18 DEF QueueInv

\* The one that was taken off wakes, and nobody else.
LEMMA UnparkQueue ==
    ASSUME IInv, IInv', QueueInv, NEW t \in Threads, Unpark(t)
    PROVE  QueueInv'
<1>1. Alone(t)
  BY StepsAlone DEF UnlockFullNext
<1>2. /\ pc[t] = "unpark" /\ pc'[t] = "idle" /\ last[t] \in Threads /\ expected' = expected
      /\ UNCHANGED <<state, next, prev, tail, current>>
      /\ shouldPark' = [shouldPark EXCEPT ![last[t]] = FALSE]
  BY DEF Unpark, Goto, node, IInv, TypeOK, WalkOnNodes
<1>3. PICK q, lo, hi : Queue(q, lo, hi)
  BY DEF QueueInv
<1>4. Sleeping(last[t]) /\ (\A i \in lo .. hi : q[i] # last[t])
      /\ \A v \in Threads : pc[v] = "unpark" /\ last[v] = last[t] => v = t
  BY <1>2, <1>3 DEF Queue, Parked
<1>5. \A u \in Threads : Sleeping(u)' <=> Sleeping(u) /\ u # last[t]
  <2> TAKE u \in Threads
  <2>1. CASE u = last[t]
    BY <1>2, <2>1 DEF Sleeping, IInv, TypeOK
  <2>2. CASE u # last[t]
    <3>1. shouldPark'[u] = shouldPark[u]
      BY <1>2, <2>2 DEF IInv, TypeOK
    <3>2. pc'[u] = "park" <=> pc[u] = "park"
      BY <1>1, <1>2 DEF Alone
    <3>3. QED
      BY <2>2, <3>1, <3>2 DEF Sleeping
  <2>3. QED
    BY <2>1, <2>2
<1>6. Line(q, lo, hi)'
  BY <1>2, <1>3, <1>4, <1>5 DEF Queue, Line
<1>7. \A v \in Threads : pc'[v] = "unpark" <=> pc[v] = "unpark" /\ v # t
  BY <1>1, <1>2 DEF Alone
<1>8. \A v \in Threads \ {t} : last'[v] = last[v]
  BY <1>1 DEF Alone
<1>9. Parked(q, lo, hi)'
  <2>1. ASSUME NEW u \in Threads, Sleeping(u)'
        PROVE  (\E i \in lo .. hi : q[i] = u) \/ \E v \in Threads : pc'[v] = "unpark" /\ last'[v] = u
    <3>1. Sleeping(u) /\ u # last[t]
      BY <1>5, <2>1
    <3>2. CASE \E v \in Threads : pc[v] = "unpark" /\ last[v] = u
      BY <1>7, <1>8, <3>1, <3>2
    <3>3. QED
      BY <1>3, <3>1, <3>2 DEF Queue, Parked
  <2>2. ASSUME NEW u \in Threads, pc'[u] = "unpark"
        PROVE  Sleeping(last[u])' /\ (\A i \in lo .. hi : q[i] # last'[u])
               /\ \A v \in Threads : pc'[v] = "unpark" /\ last'[v] = last'[u] => v = u
    <3>1. pc[u] = "unpark" /\ u # t /\ last'[u] = last[u] /\ last[u] \in Threads
      BY <1>7, <1>8, <2>2 DEF IInv, WalkOnNodes
    <3>2. last[u] # last[t] /\ Sleeping(last[u]) /\ \A i \in lo .. hi : q[i] # last[u]
      BY <1>3, <1>4, <3>1 DEF Queue, Parked
    <3>3. \A v \in Threads : pc'[v] = "unpark" /\ last'[v] = last'[u] => v = u
      BY <1>3, <1>7, <1>8, <3>1 DEF Queue, Parked
    <3>4. Sleeping(last[u])'
      <4>1. PICK w \in Threads : w = last[u]
        BY <3>1
      <4>2. Sleeping(w)'
        BY <1>5, <3>2, <4>1
      <4>3. pc'[w] = "park" /\ shouldPark'[w]
        BY <4>2 DEF Sleeping
      <4>4. QED
        BY <3>1, <4>1, <4>3 DEF Sleeping
    <3>5. QED
      BY <3>1, <3>2, <3>3, <3>4 DEF Sleeping
  <2>3. QED
    BY <2>1, <2>2 DEF Parked, Sleeping
<1>10. ASSUME NEW m \in lo .. hi, Marked(q, lo, hi, m) PROVE Marked(q, lo, hi, m)'
  <2>1. Known(q, lo, hi, m)'
    BY <1>2, <1>10 DEF Marked, Known
  <2>2. ASSUME NEW u \in Threads, pc'[u] \in Scanning PROVE \E j \in m .. hi : Walks(u, q, lo, hi, m, j)'
    <3>1. u # t /\ pc[u] \in Scanning
      BY <1>1, <1>2, <2>2 DEF Alone, Scanning
    <3>2. PICK j \in m .. hi : Walks(u, q, lo, hi, m, j)
      BY <1>10, <3>1 DEF Marked
    <3>3. QED
      BY <1>1, <1>2, <3>1, <3>2, WalksStay
  <2>3. QED
    BY <2>1, <2>2 DEF Marked
<1>11. Queue(q, lo, hi)'
  BY <1>3, <1>6, <1>9, <1>10 DEF Queue, Node
<1>12. \A u \in Threads : pc'[u] # "clear"
  BY <1>1, <1>2 DEF Alone, QueueInv
<1>13. QED
  BY <1>11, <1>12 DEF QueueInv

\* A thread joins at the head.
LEMMA EnqueueQueue ==
    ASSUME IInv, IInv', QueueInv, NEW t \in Threads, LockFullEnqueue(t)
    PROVE  QueueInv'
<1> DEFINE head == state.head
<1>1. Alone(t)
  BY StepsAlone DEF LockNext
<1>2. /\ pc[t] = "loop" /\ pc'[t] = "park" /\ last' = last /\ expected[t] = state
  BY DEF LockFullEnqueue, Goto, CasSucceeds, walker, IInv, TypeOK
<1>3. /\ shouldPark' = [shouldPark EXCEPT ![t] = TRUE]
      /\ next' = [next EXCEPT ![t] = head]
      /\ prev' = [prev EXCEPT ![t] = NoThread]
      /\ tail' = [tail EXCEPT ![t] = IF head = NoThread THEN t ELSE NoThread]
  BY <1>2 DEF LockFullEnqueue, FreshNode
<1>4. state'.head = t
  <2>1. state' = Pushed(expected[t], t) /\ expected[t] \in Word
    BY DEF LockFullEnqueue, CasSucceeds, IInv, TypeOK
  <2>2. QED
    BY <2>1 DEF Pushed, Word
<1>5. PICK q, lo, hi : Queue(q, lo, hi)
  BY DEF QueueInv
<1>6. lo \in Int /\ hi \in Int /\ q \in [Int -> Node] /\ lo <= hi + 1
      /\ \A i \in lo .. hi : q[i] \in Threads /\ q[i] # t
  BY <1>2, <1>5 DEF Queue, Line, Sleeping
<1>7. PICK r : r = [q EXCEPT ![hi + 1] = t]
  OBVIOUS
<1>8. r \in [Int -> Node] /\ r[hi + 1] = t /\ \A i \in lo .. hi : r[i] = q[i]
  BY <1>6, <1>7 DEF Node
<1>9. \A u \in Threads \ {t} : next'[u] = next[u] /\ prev'[u] = prev[u] /\ tail'[u] = tail[u]
                               /\ shouldPark'[u] = shouldPark[u] /\ pc'[u] = pc[u]
  BY <1>1, <1>3 DEF Alone, IInv, TypeOK
<1>10. next'[t] = head /\ prev'[t] = NoThread /\ tail'[t] = (IF head = NoThread THEN t ELSE NoThread) /\ shouldPark'[t]
  BY <1>3 DEF IInv, TypeOK
<1>11. Sleeping(t)' /\ ~Sleeping(t) /\ \A u \in Threads \ {t} : Sleeping(u)' <=> Sleeping(u)
  BY <1>2, <1>9, <1>10 DEF Sleeping
<1>12. \A i \in lo .. hi + 1 : i \in lo .. hi \/ i = hi + 1
  BY <1>6
<1>13. Line(r, lo, hi + 1)'
  <2>1. ASSUME NEW i \in lo .. hi + 1 PROVE r[i] \in Threads /\ Sleeping(r[i])'
    <3>1. CASE i = hi + 1
      BY <1>8, <1>11, <3>1
    <3>2. CASE i \in lo .. hi
      <4>1. PICK u \in Threads \ {t} : u = q[i]
        BY <1>6, <3>2
      <4>2. Sleeping(u) /\ r[i] = u
        BY <1>5, <1>8, <3>2, <4>1 DEF Queue, Line
      <4>3. QED
        BY <1>11, <4>2
    <3>3. QED
      BY <1>12, <3>1, <3>2
  <2>2. ASSUME NEW i \in lo .. hi + 1, NEW k \in lo .. hi + 1, r[i] = r[k] PROVE i = k
    <3>1. \A l \in lo .. hi : r[l] # r[hi + 1]
      BY <1>6, <1>8
    <3>2. \A l, n \in lo .. hi : r[l] = r[n] => l = n
      BY <1>5, <1>8 DEF Queue, Line
    <3>3. QED
      BY <1>12, <2>2, <3>1, <3>2
  <2>3. ASSUME NEW i \in lo + 1 .. hi + 1 PROVE next'[r[i]] = r[i - 1]
    <3>1. CASE i = hi + 1
      <4>1. lo <= hi /\ hi \in lo .. hi /\ i - 1 = hi
        BY <1>6, <3>1
      <4>2. head = q[hi]
        BY <1>5, <4>1 DEF Queue, Line
      <4>3. QED
        BY <1>8, <1>10, <3>1, <4>1, <4>2
    <3>2. CASE i # hi + 1
      <4>1. i \in lo + 1 .. hi /\ i \in lo .. hi /\ i - 1 \in lo .. hi
        BY <1>6, <3>2
      <4>2. next[q[i]] = q[i - 1]
        BY <1>5, <4>1 DEF Queue, Line
      <4>3. QED
        BY <1>6, <1>8, <1>9, <4>1, <4>2
    <3>3. QED
      BY <3>1, <3>2
  <2>4. lo <= hi + 1 + 1 /\ ~(lo > hi + 1)
    BY <1>6
  <2>5. QED
    BY <1>4, <1>8, <1>10, <2>1, <2>2, <2>3, <2>4 DEF Line, Sleeping
<1>14. \A v \in Threads : pc'[v] = "unpark" <=> pc[v] = "unpark"
  BY <1>2, <1>9
<1>15. Parked(r, lo, hi + 1)'
  <2>1. ASSUME NEW u \in Threads, Sleeping(u)'
        PROVE  (\E i \in lo .. hi + 1 : r[i] = u) \/ \E v \in Threads : pc'[v] = "unpark" /\ last'[v] = u
    <3>1. CASE u = t
      <4>1. hi + 1 \in lo .. hi + 1
        BY <1>6
      <4>2. QED
        BY <1>8, <3>1, <4>1
    <3>2. CASE u # t
      <4>1. Sleeping(u)
        BY <1>11, <2>1, <3>2
      <4>2. \A i \in lo .. hi : i \in lo .. hi + 1
        BY <1>6
      <4>3. QED
        BY <1>2, <1>5, <1>8, <1>14, <4>1, <4>2 DEF Queue, Parked
    <3>3. QED
      BY <3>1, <3>2
  <2>2. ASSUME NEW u \in Threads, pc'[u] = "unpark"
        PROVE  Sleeping(last[u])' /\ (\A i \in lo .. hi + 1 : r[i] # last[u])
               /\ \A v \in Threads : pc'[v] = "unpark" /\ last[v] = last[u] => v = u
    <3>1. pc[u] = "unpark" /\ last[u] \in Threads
      BY <1>14, <2>2 DEF IInv, WalkOnNodes
    <3>2. Sleeping(last[u]) /\ (\A i \in lo .. hi : q[i] # last[u])
          /\ \A v \in Threads : pc[v] = "unpark" /\ last[v] = last[u] => v = u
      BY <1>5, <3>1 DEF Queue, Parked
    <3>3. last[u] # t
      BY <1>11, <3>2
    <3>4. PICK w \in Threads \ {t} : w = last[u]
      BY <3>1, <3>3
    <3>5. pc'[w] = "park" /\ shouldPark'[w]
      BY <1>11, <3>2, <3>4 DEF Sleeping
    <3>6. \A i \in lo .. hi + 1 : r[i] # last[u]
      BY <1>8, <1>12, <3>2, <3>3
    <3>7. QED
      BY <1>2, <1>14, <3>2, <3>4, <3>5, <3>6 DEF Sleeping
  <2>3. QED
    BY <1>2, <2>1, <2>2 DEF Parked, Sleeping
<1>16. \E m \in lo .. hi + 1 : Marked(r, lo, hi + 1, m)'
  <2>1. CASE lo > hi
    <3>1. lo = hi + 1 /\ head = NoThread /\ \A i \in hi + 1 .. hi : FALSE
      BY <1>5, <1>6, <2>1 DEF Queue, Line
    <3>2. \A u \in Threads : pc[u] \notin Scanning
      <4>1. ~(lo <= hi)
        BY <1>6, <2>1
      <4>2. QED
        BY <1>5, <4>1, OneScans
    <3>3. \A u \in Threads : pc'[u] \notin Scanning
      BY <1>2, <1>9, <3>2 DEF Scanning
    <3>4. Known(r, lo, hi + 1, lo)'
      <4>1. lo \in lo .. hi + 1 /\ (\A i \in lo + 1 .. hi + 1 : FALSE) /\ \A i \in lo .. lo - 1 : FALSE
        BY <1>6, <3>1
      <4>2. QED
        BY <1>8, <1>10, <3>1, <4>1 DEF Known
    <3>5. lo \in lo .. hi + 1
      BY <1>6, <3>1
    <3>6. QED
      BY <3>3, <3>4, <3>5 DEF Marked
  <2>2. CASE lo <= hi
    <3>1. PICK m \in lo .. hi : Marked(q, lo, hi, m)
      BY <1>5, <2>2 DEF Queue
    <3>2. head # NoThread
      <4>1. hi \in lo .. hi
        BY <1>6, <2>2
      <4>2. QED
        BY <1>5, <1>6, <2>2, <4>1, NoThreadAssumption DEF Queue, Line
    <3>3. m \in lo .. hi + 1 /\ lo \in lo .. hi /\ \A i \in lo .. m - 1 : i \in lo .. hi /\ i + 1 \in lo .. hi
      BY <1>6, <2>2
    <3>4. Known(r, lo, hi + 1, m)'
      <4>1. \A i \in m + 1 .. hi + 1 : tail'[r[i]] = NoThread
        <5> TAKE i \in m + 1 .. hi + 1
        <5>1. CASE i = hi + 1
          BY <1>8, <1>10, <3>2, <5>1
        <5>2. CASE i # hi + 1
          <6>1. i \in m + 1 .. hi /\ i \in lo .. hi
            BY <1>6, <5>2
          <6>2. tail[q[i]] = NoThread
            BY <3>1, <6>1 DEF Marked, Known
          <6>3. QED
            BY <1>6, <1>8, <1>9, <6>1, <6>2
        <5>3. QED
          BY <5>1, <5>2
      <4>2. \A i \in lo .. m - 1 : prev'[r[i]] = r[i + 1]
        BY <1>6, <1>8, <1>9, <3>1, <3>3 DEF Marked, Known
      <4>3. tail'[r[m]] = r[lo]
        BY <1>6, <1>8, <1>9, <3>1, <3>3 DEF Marked, Known
      <4>4. QED
        BY <3>3, <4>1, <4>2, <4>3 DEF Known
    <3>5. ASSUME NEW u \in Threads, pc'[u] \in Scanning PROVE \E j \in m .. hi + 1 : Walks(u, r, lo, hi + 1, m, j)'
      <4>1. u # t /\ pc'[u] = pc[u] /\ expected'[u] = expected[u] /\ current'[u] = current[u] /\ last'[u] = last[u]
        BY <1>1, <1>2, <3>5 DEF Alone, Scanning
      <4>2. PICK j \in m .. hi : Walks(u, q, lo, hi, m, j)
        BY <3>1, <3>5, <4>1 DEF Marked
      <4>3. j \in m .. hi + 1 /\ j \in lo .. hi
        BY <1>6
      <4>4. \A i \in j .. hi + 1 : prev'[r[i]] = NoThread
        <5> TAKE i \in j .. hi + 1
        <5>1. CASE i = hi + 1
          BY <1>8, <1>10, <5>1
        <5>2. CASE i # hi + 1
          <6>1. i \in j .. hi /\ i \in lo .. hi
            BY <1>6, <5>2
          <6>2. prev[q[i]] = NoThread
            BY <4>2, <6>1 DEF Walks
          <6>3. QED
            BY <1>6, <1>8, <1>9, <6>1, <6>2
        <5>3. QED
          BY <5>1, <5>2
      <4>5. pc[u] = "walk" => \E c \in m .. j : current[u] = r[c] /\ \A i \in c .. j - 1 : prev'[r[i]] = r[i + 1]
        <5> HAVE pc[u] = "walk"
        <5>1. PICK c \in m .. j : current[u] = q[c] /\ \A i \in c .. j - 1 : prev[q[i]] = q[i + 1]
          BY <4>2 DEF Walks
        <5>2. c \in lo .. hi /\ \A i \in c .. j - 1 : i \in lo .. hi /\ i + 1 \in lo .. hi
          BY <1>6
        <5>3. \A i \in c .. j - 1 : prev'[r[i]] = r[i + 1]
          BY <1>6, <1>8, <1>9, <5>1, <5>2
        <5>4. QED
          BY <1>8, <5>1, <5>2, <5>3
      <4>6. Walks(u, r, lo, hi + 1, m, j)'
        BY <1>8, <3>3, <4>1, <4>2, <4>3, <4>4, <4>5 DEF Walks
      <4>7. QED
        BY <4>3, <4>6
    <3>6. QED
      BY <3>3, <3>4, <3>5 DEF Marked
  <2>3. QED
    BY <1>6, <2>1, <2>2
<1>17. Queue(r, lo, hi + 1)'
  BY <1>6, <1>8, <1>13, <1>15, <1>16 DEF Queue, Node
<1>18. \A u \in Threads : pc'[u] # "clear"
  BY <1>1, <1>2 DEF Alone, QueueInv
<1>19. QED
  BY <1>17, <1>18 DEF QueueInv

\* Every step keeps the queue.
LEMMA NextQueue ==
    ASSUME IInv, IInv', QueueInv, [Next]_vars
    PROVE  QueueInv'
<1>1. CASE UNCHANGED vars
  <2>1. PICK q, lo, hi : Queue(q, lo, hi)
    BY DEF QueueInv
  <2>2. UNCHANGED <<state, pc, expected, shouldPark, next, prev, tail, current, last>>
    BY <1>1 DEF vars
  <2>3. Line(q, lo, hi)' /\ Parked(q, lo, hi)'
    BY <2>1, <2>2 DEF Queue, Line, Parked, Sleeping
  <2>4. \A m : Marked(q, lo, hi, m)' <=> Marked(q, lo, hi, m)
    BY <2>2 DEF Marked, Known, Walks
  <2>5. Queue(q, lo, hi)'
    BY <2>1, <2>3, <2>4 DEF Queue, Node
  <2>6. QED
    BY <2>2, <2>5 DEF QueueInv
<1>2. ASSUME NEW t \in Threads, LockNext(t) PROVE QueueInv'
  BY <1>2, LockFrame, EnqueueQueue
<1>3. ASSUME NEW t \in Threads, UnlockFullNext(t) PROVE QueueInv'
  BY <1>3, UnlockFrame, RescanSteps, ScanStartQueue, WalkStepQueue, WalkEndQueue, ClearQueueQueue, PopTailQueue, UnparkQueue
     DEF UnlockFullNext
<1>4. QED
  BY <1>1, <1>2, <1>3, UnlockFrame DEF Next

-----------------------------------------------------------------------------
(* What is reached from the head is the queue *)

\* After n nodes.
Seen(q, lo, hi, m, n) ==
    [seen |-> {q[i] : i \in {k \in lo .. hi : k > hi - n}},
     at   |-> IF lo <= hi - n THEN q[hi - n] ELSE NoThread,
     end  |-> IF lo <= hi /\ m > hi - n THEN q[lo] ELSE NoThread]

Queued(q, lo, hi, m) ==
    /\ q \in [Int -> Node] /\ lo \in Int /\ hi \in Int /\ m \in Int
    /\ Line(q, lo, hi)
    /\ lo <= hi => Known(q, lo, hi, m)

\* One node more.
LEMMA SeenAdvances ==
    ASSUME IInv, NEW q, NEW lo, NEW hi, NEW m, Queued(q, lo, hi, m), NEW n \in Nat, n # 0
    PROVE  Seen(q, lo, hi, m, n) = Advance(Seen(q, lo, hi, m, n - 1))
<1>1. lo \in Int /\ hi \in Int /\ m \in Int /\ NoThread \notin Threads
      /\ (\A i \in lo .. hi : q[i] \in Threads) /\ (\A i, k \in lo .. hi : q[i] = q[k] => i = k)
      /\ \A i \in lo + 1 .. hi : next[q[i]] = q[i - 1]
  BY NoThreadAssumption DEF Queued, Line
<1>2. PICK k \in Int : k = hi - (n - 1) /\ hi - n = k - 1 /\ k <= hi
  <2>1. hi - (n - 1) \in Int /\ hi - n = hi - (n - 1) - 1 /\ hi - (n - 1) <= hi
    BY <1>1
  <2>2. QED
    BY <2>1
<1>3. PICK r : r = Seen(q, lo, hi, m, n - 1)
  OBVIOUS
<1>4. /\ r.seen = {q[i] : i \in {l \in lo .. hi : l > k}}
      /\ r.at = (IF lo <= k THEN q[k] ELSE NoThread)
      /\ r.end = (IF lo <= hi /\ m > k THEN q[lo] ELSE NoThread)
  BY <1>2, <1>3 DEF Seen
<1>5. CASE lo > k
  <2>1. r.at = NoThread
    BY <1>1, <1>2, <1>4, <1>5
  <2>2. lo <= hi => m \in lo .. hi
    BY DEF Queued, Known
  <2>3. {l \in lo .. hi : l > k} = {l \in lo .. hi : l > k - 1}
    BY <1>1, <1>2, <1>5
  <2>4. ~(lo <= k) /\ ~(lo <= k - 1) /\ ((lo <= hi /\ m > k) <=> (lo <= hi /\ m > k - 1))
    BY <1>1, <1>2, <1>5, <2>2
  <2>5. Seen(q, lo, hi, m, n) = r
    BY <1>2, <1>3, <2>3, <2>4 DEF Seen
  <2>6. Advance(r) = r
    BY <2>1 DEF Advance
  <2>7. QED
    BY <1>3, <2>5, <2>6
<1>6. CASE lo <= k
  <2>0. k \in lo .. hi /\ lo \in lo .. hi /\ lo <= hi
    BY <1>1, <1>2, <1>6
  <2>1. r.at = q[k] /\ q[k] \in Threads /\ q[k] # NoThread /\ q[lo] # NoThread
    BY <1>1, <1>4, <1>6, <2>0
  <2>2. PICK end : end = IF r.end # NoThread THEN r.end ELSE tail[r.at]
    OBVIOUS
  <2>3. end = IF m > k - 1 THEN q[lo] ELSE NoThread
    <3>1. CASE m > k
      <4>1. r.end = q[lo] /\ m > k - 1
        BY <1>1, <1>2, <1>4, <2>0, <3>1
      <4>2. QED
        BY <2>1, <2>2, <4>1
    <3>2. CASE m = k
      <4>1. r.end = NoThread /\ m > k - 1
        BY <1>1, <1>2, <1>4, <3>2
      <4>2. tail[q[k]] = q[lo]
        BY <2>0, <3>2 DEF Queued, Known
      <4>3. QED
        BY <2>1, <2>2, <4>1, <4>2
    <3>3. CASE m < k
      <4>1. r.end = NoThread /\ ~(m > k - 1) /\ k \in m + 1 .. hi
        BY <1>1, <1>2, <1>4, <2>0, <3>3
      <4>2. tail[q[k]] = NoThread
        BY <2>0, <4>1 DEF Queued, Known
      <4>3. QED
        BY <2>1, <2>2, <4>1, <4>2
    <3>4. m > k \/ m = k \/ m < k
      BY <1>1, <1>2
    <3>5. QED
      BY <3>1, <3>2, <3>3, <3>4, Zenon
  <2>4. (IF r.at = end THEN NoThread ELSE next[r.at]) = (IF lo <= k - 1 THEN q[k - 1] ELSE NoThread)
    <3>1. CASE k = lo
      <4>1. m \in lo .. hi
        BY <2>0 DEF Queued, Known
      <4>2. m > k - 1 /\ ~(lo <= k - 1)
        BY <1>1, <3>1, <4>1
      <4>3. QED
        BY <2>1, <2>3, <3>1, <4>2
    <3>2. CASE k # lo
      <4>1. lo <= k - 1 /\ k \in lo + 1 .. hi
        BY <1>1, <1>2, <2>0, <3>2
      <4>2. q[k] # q[lo] /\ next[q[k]] = q[k - 1]
        BY <1>1, <2>0, <3>2, <4>1
      <4>3. r.at # end
        BY <2>1, <2>3, <4>2
      <4>4. QED
        BY <2>1, <4>1, <4>2, <4>3
    <3>3. QED
      BY <3>1, <3>2
  <2>5. r.seen \union {r.at} = {q[i] : i \in {l \in lo .. hi : l > k - 1}}
    <3>1. {l \in lo .. hi : l > k - 1} = {l \in lo .. hi : l > k} \union {k}
      BY <1>1, <1>2, <2>0
    <3>2. QED
      BY <1>4, <2>1, <3>1
  <2>6. Advance(r) = [seen |-> r.seen \union {r.at}, at |-> IF r.at = end THEN NoThread ELSE next[r.at], end |-> end]
    BY <2>1, <2>2 DEF Advance
  <2>7. Seen(q, lo, hi, m, n) = [seen |-> {q[i] : i \in {l \in lo .. hi : l > k - 1}},
                                 at |-> IF lo <= k - 1 THEN q[k - 1] ELSE NoThread,
                                 end |-> IF m > k - 1 THEN q[lo] ELSE NoThread]
    BY <1>2, <2>0 DEF Seen
  <2>8. QED
    BY <1>3, <2>3, <2>4, <2>5, <2>6, <2>7
<1>7. lo > k \/ lo <= k
  BY <1>1, <1>2
<1>8. QED
  BY <1>5, <1>6, <1>7, Zenon

\* A set of numbers that is not empty has a least one.
LEMMA LeastExists ==
    ASSUME NEW S, S \subseteq Nat, S # {}
    PROVE  \E x \in S : \A y \in S : x <= y
<1>1. PICK x \in S : \A y \in S : <<y, x>> \notin OpToRel(<, Nat)
  BY NatLessThanWellFounded, WFMin, Zenon
<1>2. \A y \in S : ~ (y < x)
  BY <1>1, Zenon DEF OpToRel
<1>3. QED
  BY <1>2

\* What Reach is defined by.
Reaches(f) ==
    f = [n \in 0 .. Cardinality(Threads) |->
            IF n = 0 THEN [seen |-> {}, at |-> state.head, end |-> NoThread] ELSE Advance(f[n - 1])]

\* It goes through the queue.
LEMMA ReachIsSeen ==
    ASSUME IInv, IsFiniteSet(Threads), NEW q, NEW lo, NEW hi, NEW m, Queued(q, lo, hi, m)
    PROVE  \A n \in 0 .. Cardinality(Threads) : Reach[n] = Seen(q, lo, hi, m, n)
<1> DEFINE N == Cardinality(Threads)
           S(n) == Seen(q, lo, hi, m, n)
<1>1. N \in Nat
  BY FS_CardinalityType
<1>2. S(0) = [seen |-> {}, at |-> state.head, end |-> NoThread]
  <2>1. lo \in Int /\ hi \in Int /\ m \in Int /\ hi - 0 = hi /\ (lo <= hi => m \in lo .. hi)
    BY DEF Queued, Known
  <2>2. (IF lo <= hi THEN q[hi] ELSE NoThread) = state.head
    BY <2>1 DEF Queued, Line
  <2>3. {k \in lo .. hi : k > hi} = {}
    BY <2>1
  <2>4. ~(lo <= hi /\ m > hi)
    BY <2>1
  <2>5. QED
    BY <2>1, <2>2, <2>3, <2>4 DEF Seen
<1>3. \A n \in 1 .. N : S(n) = Advance(S(n - 1))
  BY SeenAdvances
<1> HIDE DEF S, N
<1>4. PICK f : f = [n \in 0 .. N |-> S(n)]
  OBVIOUS
<1>5. Reaches(f)
  <2>1. \A n \in 0 .. N : S(n) = IF n = 0 THEN [seen |-> {}, at |-> state.head, end |-> NoThread] ELSE Advance(f[n - 1])
    <3> TAKE n \in 0 .. N
    <3>1. CASE n = 0
      BY <1>2, <3>1
    <3>2. CASE n # 0
      <4>1. n \in 1 .. N /\ n - 1 \in 0 .. N
        BY <1>1, <3>2
      <4>2. f[n - 1] = S(n - 1)
        BY <1>4, <4>1
      <4>3. QED
        BY <1>3, <3>2, <4>1, <4>2
    <3>3. QED
      BY <3>1, <3>2
  <2>2. f = [n \in 0 .. N |-> IF n = 0 THEN [seen |-> {}, at |-> state.head, end |-> NoThread] ELSE Advance(f[n - 1])]
    BY <1>4, <2>1, Zenon
  <2>3. QED
    BY <2>2, Zenon DEF Reaches, N
<1>6. Reach = CHOOSE g : Reaches(g)
  BY Zenon DEF Reach, Reaches
<1>7. PICK g : g = Reach /\ Reaches(g)
  BY <1>5, <1>6, Zenon
<1>8. \A n \in 0 .. N : g[n] = IF n = 0 THEN [seen |-> {}, at |-> state.head, end |-> NoThread] ELSE Advance(g[n - 1])
  <2>1. g = [n \in 0 .. N |-> IF n = 0 THEN [seen |-> {}, at |-> state.head, end |-> NoThread] ELSE Advance(g[n - 1])]
    BY <1>7, Zenon DEF Reaches, N
  <2>2. QED
    BY <2>1, Zenon
<1> DEFINE T == {n \in 0 .. N : g[n] # S(n)}
<1>9. T = {}
  <2> SUFFICES ASSUME T # {} PROVE FALSE
    OBVIOUS
  <2>1. T \subseteq Nat
    BY <1>1
  <2>2. PICK n \in T : \A y \in T : n <= y
    BY <2>1, LeastExists
  <2>3. n # 0
    <3>1. 0 \in 0 .. N
      BY <1>1
    <3>2. g[0] = S(0)
      BY <1>2, <1>8, <3>1
    <3>3. QED
      BY <3>2
  <2>4. n \in 1 .. N /\ n - 1 \in 0 .. N /\ n - 1 \notin T
    BY <1>1, <2>2, <2>3
  <2>5. g[n - 1] = S(n - 1)
    BY <2>4
  <2>6. g[n] = S(n)
    BY <1>3, <1>8, <2>3, <2>4, <2>5
  <2>7. QED
    BY <2>6
<1>10. \A n \in 0 .. N : g[n] = S(n)
  BY <1>9
<1>11. QED
  BY <1>7, <1>10 DEF S, N

\* The queue has room among the threads.
LEMMA QueueFits ==
    ASSUME IsFiniteSet(Threads), NEW q, NEW lo, NEW hi, NEW m, Queued(q, lo, hi, m)
    PROVE  Cardinality(Threads) \in Nat /\ \A i \in lo .. hi : i > hi - Cardinality(Threads)
<1>1. lo \in Int /\ hi \in Int /\ (\A i \in lo .. hi : q[i] \in Threads) /\ (\A i, k \in lo .. hi : q[i] = q[k] => i = k)
  BY DEF Queued, Line
<1>2. PICK f : f = [i \in lo .. hi |-> q[i]]
  OBVIOUS
<1>3. f \in Injection(lo .. hi, Threads)
  BY <1>1, <1>2 DEF Injection, IsInjective
<1>4. Cardinality(Threads) \in Nat
  BY FS_CardinalityType
<1>5. PICK L : L = lo .. hi
  OBVIOUS
<1>6. Cardinality(L) <= Cardinality(Threads)
  BY <1>3, <1>5, FS_Injection
<1>7. lo <= hi => Cardinality(L) = hi - lo + 1
  BY <1>1, <1>5, FS_Interval
<1>8. QED
  BY <1>1, <1>4, <1>6, <1>7

\* All of it is reached.
LEMMA ReachedIsQueue ==
    ASSUME IInv, IsFiniteSet(Threads), NEW q, NEW lo, NEW hi, NEW m, Queued(q, lo, hi, m)
    PROVE  \A i \in lo .. hi : q[i] \in Reached
<1>1. PICK n \in Nat : n = Cardinality(Threads)
  BY QueueFits
<1>2. Reach[n] = Seen(q, lo, hi, m, n)
  <2>1. n \in 0 .. Cardinality(Threads)
    BY <1>1
  <2>2. QED
    BY <2>1, ReachIsSeen
<1>3. Reached = Seen(q, lo, hi, m, n).seen
  BY <1>1, <1>2 DEF Reached
<1>4. \A i \in lo .. hi : i > hi - n
  BY <1>1, QueueFits
<1>5. QED
  BY <1>3, <1>4 DEF Seen

-----------------------------------------------------------------------------
(* Theorems about the queue *)

\* The invariants hold of every reachable state.
LEMMA QueueInvariant == Spec => [](IInv /\ QueueInv)
<1>1. Init => IInv /\ QueueInv
  BY InitIInv, InitQueue
<1>2. IInv /\ QueueInv /\ [Next]_vars => (IInv /\ QueueInv)'
  <2> SUFFICES ASSUME IInv, QueueInv, [Next]_vars PROVE IInv' /\ QueueInv'
    OBVIOUS
  <2>1. IInv'
    BY NextTypeOK, NextMutualExclusion, NextQueueExclusion, NextWalkOnNodes DEF IInv
  <2>2. QED
    BY <2>1, NextQueue
<1>3. QED
  BY <1>1, <1>2, PTL DEF Spec

\* unlock_full follows its pointers into the nodes of threads that are still parked, and
\* unparks such a thread: none of them is read or written after its frame is gone.
THEOREM NodesOutlive == Spec => []NodesOutliveTheirUse
<1>1. IInv /\ QueueInv => NodesOutliveTheirUse
  <2> SUFFICES ASSUME IInv, QueueInv, NEW t \in Threads
               PROVE  /\ pc[t] = "walk" => Sleeping(current[t])
                      /\ pc[t] \in {"decide", "unpark"} => Sleeping(last[t])
                      /\ pc[t] \in {"scan", "walk", "decide"} => Sleeping(expected[t].head)
    BY DEF NodesOutliveTheirUse
  <2>1. PICK q, lo, hi : Queue(q, lo, hi)
    BY DEF QueueInv
  <2>2. lo \in Int /\ hi \in Int /\ (\A i \in lo .. hi : Sleeping(q[i]))
        /\ (pc[t] = "unpark" => Sleeping(last[t]))
    BY <2>1 DEF Queue, Line, Parked
  <2>3. ASSUME pc[t] \in Scanning
        PROVE  /\ pc[t] = "walk" => Sleeping(current[t])
               /\ pc[t] = "decide" => Sleeping(last[t])
               /\ Sleeping(expected[t].head)
    <3>1. PICK m \in lo .. hi : \E j \in m .. hi : Marked(q, lo, hi, m) /\ Walks(t, q, lo, hi, m, j)
      BY <2>1, <2>3, OneScans
    <3>2. PICK j \in m .. hi : Walks(t, q, lo, hi, m, j)
      BY <3>1
    <3>3. j \in lo .. hi /\ lo \in lo .. hi /\ \A c \in m .. j : c \in lo .. hi
      BY <2>2
    <3>4. QED
      BY <2>2, <3>2, <3>3 DEF Walks
  <2>4. QED
    BY <2>2, <2>3 DEF Scanning
<1>2. QED
  BY <1>1, QueueInvariant, PTL

\* No thread asleep in lock_full is forgotten: it is between the head and the tail of the
\* queue, or has been taken off it by a thread that is about to wake it.
THEOREM SleepersQueued == ASSUME IsFiniteSet(Threads) PROVE Spec => []SleepersAreQueued
<1>1. IInv /\ QueueInv => SleepersAreQueued
  <2> SUFFICES ASSUME IInv, QueueInv, NEW t \in Threads, Sleeping(t),
                      ~\E u \in Threads : pc[u] = "unpark" /\ last[u] = t
               PROVE  t \in Reached
    BY DEF SleepersAreQueued
  <2>1. PICK q, lo, hi : Queue(q, lo, hi)
    BY DEF QueueInv
  <2>2. PICK i \in lo .. hi : q[i] = t
    BY <2>1 DEF Queue, Parked
  <2>3. lo \in Int /\ hi \in Int /\ lo <= hi
    BY <2>1, <2>2 DEF Queue
  <2>4. PICK m \in lo .. hi : Marked(q, lo, hi, m)
    BY <2>1, <2>3 DEF Queue
  <2>5. Queued(q, lo, hi, m)
    BY <2>1, <2>3, <2>4 DEF Queue, Marked, Queued
  <2>6. QED
    BY <2>2, <2>5, ReachedIsQueue
<1>2. QED
  BY <1>1, QueueInvariant, PTL
=============================================================================
