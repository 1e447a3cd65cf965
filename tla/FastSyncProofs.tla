--------------------------- MODULE FastSyncProofs ---------------------------
(***************************************************************************)
(* Proofs about FastSync, for any threads, mutexes, conditions and hash:   *)
(* the mutexes exclude, nobody asleep at a mutex or a condition is         *)
(* forgotten, unparks reach sleepers, broadcasts do not deadlock, and      *)
(* every mutex implements the abstract lock.                               *)
(*                                                                         *)
(* The inductive invariant has one part per piece of state: what a         *)
(* thread's locals are, which buckets it owns, which lists it is in, what  *)
(* the condition words and the mutex words say.  The buckets order the     *)
(* rest: what a thread has checked under a bucket lock is still so when it *)
(* acts on it.                                                             *)
(***************************************************************************)
EXTENDS FastSync, TLAPS

\* Which call a thread is in: wait() from the moment it is listed until it is
\* woken, unlock(), signal() or broadcast().
InWait(t) ==
    \/ pc[t] = "sleep"
    \/ pc[t] \in UnlockPcs \union {"release", "wake"} /\ return[t] = "sleep"
InUnlock(t) ==
    \/ pc[t] \in UnlockPcs
    \/ pc[t] \in {"release", "wake"} /\ condition[t] = NoCond
InNotify(t) ==
    \/ pc[t] \in SignalPcs \union BcastPcs
    \/ pc[t] \in {"release", "wake"} /\ ~InUnlock(t) /\ ~InWait(t)

\* The locals of a thread, by the call it is in.
Local(t) ==
    /\ pc[t] \in {"held"} \union LockPcs \union WaitPcs => mutex[t] \in Mutexes
    /\ InWait(t) \/ InUnlock(t) => mutex[t] \in Mutexes
    /\ InNotify(t) => return[t] \in {"out", "held"}
    /\ InNotify(t) /\ return[t] = "held" => mutex[t] \in Mutexes
    /\ pc[t] \in UnlockPcs /\ return[t] # "sleep" => return[t] = "out" /\ condition[t] = NoCond
    /\ pc[t] \in {"release", "wake"} /\ condition[t] = NoCond => return[t] = "out"
    /\ pc[t] \in {"out", "held"} \union LockPcs => condition[t] = NoCond
    /\ pc[t] \in WaitPcs \/ InWait(t) \/ InNotify(t) => condition[t] \in Conds
    /\ pc[t] \in BcastPcs \ {"bcast"} => target[t] \in Mutexes
    /\ wakeOne[t] => pc[t] = "bcastMove"
    /\ wakee[t] # NoThread => pc[t] \in {"release", "wake"}
    /\ pc[t] = "wake" => wakee[t] # NoThread
LocalInv == \A t \in Threads : Local(t)

\* The buckets a thread owns, by where it is.
OwnerPcs == {"parkValidate", "parkEnqueue", "unparkPick", "waitValidate", "waitEnqueue", "signalPick",
             "bcastSecond", "bcastValidate", "bcastMake", "bcastMove", "release"}
MovingPcs == {"bcastMake", "bcastMove"}
CondPcs == {"waitValidate", "waitEnqueue", "signalPick", "bcastValidate"} \union MovingPcs

Owning(t) ==
    /\ pc[t] \in {"parkValidate", "parkEnqueue", "unparkPick"} => bucketOwner[BucketOf[mutex[t]]] = t
    /\ pc[t] \in CondPcs => bucketOwner[BucketOf[condition[t]]] = t
    /\ pc[t] \in {"bcastValidate"} \union MovingPcs => bucketOwner[BucketOf[target[t]]] = t
    /\ pc[t] = "bcastSecond" =>
           /\ FirstBucket(t) < SecondBucket(t)
           /\ \A b \in Buckets : bucketOwner[b] = t <=> b = FirstBucket(t)
    /\ pc[t] \notin OwnerPcs => \A b \in Buckets : bucketOwner[b] # t
BucketInv == \A t \in Threads : Owning(t)

\* A listed thread sleeps, or is about to, at its own mutex or condition.
Listed(t) ==
    /\ shouldPark[t] => pc[t] = "parked" \/ InWait(t)
    /\ parkedOn[t] # Nowhere => shouldPark[t]
    /\ parkedOn[t] \in Mutexes => parkedOn[t] = mutex[t]
    /\ parkedOn[t] \in Conds => parkedOn[t] = condition[t] /\ InWait(t)
ListInv == \A t \in Threads : Listed(t)

\* A condition names the mutex of its waiters, and of one that is about to be
\* listed; a broadcast that is moving them has untied it, and moves them to their
\* mutex.
Moving(t) == pc[t] \in MovingPcs
Tied(t) == parkedOn[t] \in Conds =>
    \/ cond[parkedOn[t]] = mutex[t]
    \/ \E u \in Threads : Moving(u) /\ condition[u] = parkedOn[t]
Untied(t) == Moving(t) =>
    /\ cond[condition[t]] = NoMutex
    /\ \A u \in Threads : parkedOn[u] = condition[t] => mutex[u] = target[t]
Validated(t) == pc[t] = "waitEnqueue" => cond[condition[t]] = mutex[t]
OnCond(t) == Tied(t) /\ Untied(t) /\ Validated(t)
CondInv == \A t \in Threads : OnCond(t)

\* The word of a mutex with sleepers, or at which sleepers are being listed, has
\* its parked bit.
Announced(t) ==
    /\ parkedOn[t] \in Mutexes => word[parkedOn[t]].parked
    /\ pc[t] = "parkEnqueue" => word[mutex[t]] = HeldAndParked
    /\ pc[t] = "bcastMove" /\ ~wakeOne[t] => word[target[t]] = HeldAndParked
WordInv == \A t \in Threads : Announced(t)

IInv ==
    /\ TypeOK /\ LocalInv /\ BucketInv /\ ListInv /\ CondInv /\ WordInv
    /\ MutualExclusion /\ NoStrandedSleeper /\ WakesSleepers

\* The words of the mutexes are words; the one with both bits is HeldAndParked.
LEMMA WordValues ==
  ASSUME NEW w \in Word
  PROVE  /\ Free \in Word /\ Held \in Word /\ HeldAndParked \in Word
         /\ w.locked \in BOOLEAN /\ w.parked \in BOOLEAN
         /\ w.locked /\ w.parked => w = HeldAndParked
<1>1. w = [locked |-> w.locked, parked |-> w.parked] /\ w.locked \in BOOLEAN /\ w.parked \in BOOLEAN
  BY DEF Word
<1>2. w.locked /\ w.parked => w = HeldAndParked
  BY <1>1 DEF HeldAndParked
<1> QED
  BY <1>1, <1>2 DEF Word, Free, Held, HeldAndParked

\* Setting a bit sets it, and leaves the other one as it is.
LEMMA SetBits ==
  ASSUME NEW w \in Word
  PROVE  /\ [w EXCEPT !.locked = TRUE] \in Word
         /\ [w EXCEPT !.locked = TRUE].locked
         /\ [w EXCEPT !.locked = TRUE].parked = w.parked
         /\ [w EXCEPT !.parked = TRUE] \in Word
         /\ [w EXCEPT !.parked = TRUE].parked
         /\ [w EXCEPT !.parked = TRUE].locked = w.locked
  BY DEF Word

\* lock_full takes a free mutex and leaves its parked bit.
LEMMA TakeEffect ==
  ASSUME TypeOK, LocalInv, NEW t \in Threads, LockFullTake(t)
  PROVE  /\ mutex[t] \in Mutexes
         /\ word' \in [Mutexes -> Word]
         /\ ~word[mutex[t]].locked
         /\ word'[mutex[t]].locked /\ word'[mutex[t]].parked = word[mutex[t]].parked
         /\ \A m \in Mutexes : m # mutex[t] => word'[m] = word[m]
<1> DEFINE w == [expected[t] EXCEPT !.locked = TRUE]
<1>1. mutex[t] \in Mutexes /\ expected[t] \in Word
  BY DEF LockFullTake, Goto, LocalInv, Local, LockPcs, TypeOK
<1>2. w \in Word /\ w.locked /\ w.parked = expected[t].parked
  BY <1>1, SetBits
<1>3. word' = [word EXCEPT ![mutex[t]] = w] /\ expected[t] = word[mutex[t]] /\ ~expected[t].locked
  BY DEF LockFullTake, SetWord, CanTake
<1> HIDE DEF w
<1> QED
  BY <1>1, <1>2, <1>3 DEF TypeOK

\* Setting the parked bit of one mutex leaves all lock bits and the other words.
LEMMA ParkEffect ==
  ASSUME TypeOK, NEW m \in Mutexes, word' = [word EXCEPT ![m].parked = TRUE]
  PROVE  /\ word' \in [Mutexes -> Word]
         /\ word'[m].parked
         /\ word'[m].locked = word[m].locked
         /\ \A n \in Mutexes : n # m => word'[n] = word[n]
<1> DEFINE w == [word[m] EXCEPT !.parked = TRUE]
<1>1. w \in Word /\ w.parked /\ w.locked = word[m].locked
  BY SetBits DEF TypeOK
<1>2. word' = [word EXCEPT ![m] = w]
  OBVIOUS
<1> HIDE DEF w
<1> QED
  BY <1>1, <1>2 DEF TypeOK

\* make_parked_if_locked: the parked bit is set exactly if the mutex is held, and
\* otherwise one waiter will be woken.
LEMMA MakeParkedEffect ==
  ASSUME TypeOK, LocalInv, NEW t \in Threads, BcastMakeParked(t)
  PROVE  /\ target[t] \in Mutexes
         /\ word' \in [Mutexes -> Word]
         /\ \A m \in Mutexes :
               /\ word'[m].locked = word[m].locked
               /\ word[m].parked => word'[m].parked
               /\ word[m] = HeldAndParked => word'[m] = HeldAndParked
         /\ ~wakeOne'[t] => word'[target[t]] = HeldAndParked
<1>1. target[t] \in Mutexes
  BY DEF BcastMakeParked, Goto, LocalInv, Local, BcastPcs
<1>2. wakeOne'[t] = ~word[target[t]].locked
  BY DEF BcastMakeParked, TypeOK
<1>3. CASE word[target[t]].locked
  <2>1. word' = [word EXCEPT ![target[t]].parked = TRUE]
    BY <1>3 DEF BcastMakeParked
  <2>2. /\ word' \in [Mutexes -> Word]
        /\ word'[target[t]].parked /\ word'[target[t]].locked = word[target[t]].locked
        /\ \A n \in Mutexes : n # target[t] => word'[n] = word[n]
    BY <1>1, <1>3, <2>1, ParkEffect
  <2>3. word'[target[t]] = HeldAndParked
    BY <1>1, <1>3, <2>2, WordValues
  <2> QED
    BY <1>1, <1>2, <1>3, <2>2, <2>3
<1>4. CASE ~word[target[t]].locked
  BY <1>1, <1>2, <1>4 DEF BcastMakeParked, TypeOK
<1> QED
  BY <1>3, <1>4

\* unpark_requeue: every lock bit stays; the mutex that threads are moved to has
\* its parked bit, set now if one of them is woken and before if none is.
LEMMA MoveEffect ==
  ASSUME TypeOK, LocalInv, NEW t \in Threads, NEW u \in Threads \union {NoThread}, BcastMove(t, u)
  PROVE  /\ target[t] \in Mutexes /\ condition[t] \in Conds
         /\ word' \in [Mutexes -> Word]
         /\ \A m \in Mutexes :
               /\ word'[m].locked = word[m].locked
               /\ word[m].parked => word'[m].parked
               /\ word[m] = HeldAndParked => word'[m] = HeldAndParked
         /\ wakeOne[t] /\ Sleepers(condition[t]) \ {u} # {} => word'[target[t]].parked
<1> DEFINE moved == Sleepers(condition[t]) \ {u}
<1>1. target[t] \in Mutexes /\ condition[t] \in Conds
  BY DEF BcastMove, Goto, LocalInv, Local, BcastPcs, InNotify
<1>2. word' = IF wakeOne[t] /\ moved # {} THEN [word EXCEPT ![target[t]].parked = TRUE] ELSE word
  BY DEF BcastMove, Requeue
<1> HIDE DEF moved
<1>3. CASE wakeOne[t] /\ moved # {}
  <2>1. /\ word' \in [Mutexes -> Word]
        /\ word'[target[t]].parked
        /\ word'[target[t]].locked = word[target[t]].locked
        /\ \A n \in Mutexes : n # target[t] => word'[n] = word[n]
    BY <1>1, <1>2, <1>3, ParkEffect
  <2>2. word[target[t]] = HeldAndParked => word'[target[t]] = HeldAndParked
    BY <1>1, <2>1, WordValues DEF HeldAndParked
  <2> QED
    BY <1>1, <2>1, <2>2
<1>4. CASE ~(wakeOne[t] /\ moved # {})
  BY <1>1, <1>2, <1>4 DEF TypeOK, moved
<1> QED
  BY <1>3, <1>4

\* unpark_requeue: the waiters of the condition, and nobody else, leave its list, for
\* that of the mutex, but for the one that is woken.
LEMMA MoveLists ==
  ASSUME NEW t \in Threads, NEW u \in Threads \union {NoThread}, BcastMove(t, u), NEW v \in Threads
  PROVE  /\ parkedOn[v] # condition[t] => parkedOn'[v] = parkedOn[v]
         /\ parkedOn[v] = condition[t] => parkedOn'[v] = IF v = u THEN Nowhere ELSE target[t]
<1>1. v \in Sleepers(condition[t]) <=> parkedOn[v] = condition[t]
  BY DEF Sleepers
<1>2. parkedOn'[v] = IF v \in Sleepers(condition[t]) \ {u} THEN target[t]
                     ELSE IF v \in Sleepers(condition[t]) THEN Nowhere ELSE parkedOn[v]
  BY DEF BcastMove, Requeue
<1> QED
  BY <1>1, <1>2

\* An unpark returns into unlock() or into signal() or broadcast().
LEMMA Returning ==
  ASSUME NEW t \in Threads, ReturnFromUnpark(t)
  PROVE  \/ /\ return[t] = "sleep" \/ condition[t] = NoCond
            /\ ReturnFromUnlock(t)
            /\ UNCHANGED condition
         \/ /\ return[t] # "sleep" /\ condition[t] # NoCond
            /\ ReturnFromNotify(t)
            /\ UNCHANGED mutex
  BY DEF ReturnFromUnpark

\* lock_bucket_pair locks the two buckets, the smaller one first.
LEMMA Ordered ==
  ASSUME NEW t \in Threads, condition[t] \in Addresses, target[t] \in Addresses
  PROVE  /\ FirstBucket(t) \in Buckets /\ SecondBucket(t) \in Buckets
         /\ FirstBucket(t) \in Nat /\ SecondBucket(t) \in Nat
         /\ FirstBucket(t) <= SecondBucket(t)
         /\ BucketOf[condition[t]] \in {FirstBucket(t), SecondBucket(t)}
         /\ BucketOf[target[t]] \in {FirstBucket(t), SecondBucket(t)}
<1>1. \A a \in Addresses : BucketOf[a] \in Buckets /\ BucketOf[a] \in Nat
  BY BucketAssumption DEF Buckets
<1>2. CASE BucketOf[condition[t]] <= BucketOf[target[t]]
  BY <1>1, <1>2 DEF FirstBucket, SecondBucket, InOrder
<1>3. CASE ~(BucketOf[condition[t]] <= BucketOf[target[t]])
  BY <1>1, <1>3 DEF FirstBucket, SecondBucket, InOrder
<1> QED
  BY <1>2, <1>3

\* What a step of another thread leaves alone: the locals, and the buckets owned.
Same(v) ==
    /\ pc'[v] = pc[v] /\ mutex'[v] = mutex[v] /\ condition'[v] = condition[v]
    /\ expected'[v] = expected[v] /\ target'[v] = target[v] /\ wakeOne'[v] = wakeOne[v]
    /\ wakee'[v] = wakee[v] /\ return'[v] = return[v]
    /\ \A b \in Buckets : bucketOwner'[b] = v <=> bucketOwner[b] = v

\* The addresses hash to buckets, which are numbers.
LEMMA Hashed ==
  ASSUME NEW a \in Addresses
  PROVE  BucketOf[a] \in Buckets /\ BucketOf[a] \in Nat
  BY BucketAssumption DEF Buckets

\* Every step keeps the variables in their types.
LEMMA NextTypeOK ==
  ASSUME TypeOK, LocalInv, [Next]_vars
  PROVE  TypeOK'
<1> USE NullAssumption DEF TypeOK, Addresses, Goto, shared, notify, Pcs, LockPcs, UnlockPcs, WaitPcs,
      SignalPcs, BcastPcs
<1>1. CASE UNCHANGED vars
  BY <1>1 DEF vars
<1>2. ASSUME NEW t \in Threads, Client(t) \/ Library(t) PROVE TypeOK'
  <2>1. ASSUME NEW n \in Mutexes, CallLock(t, n) PROVE TypeOK'
    BY <2>1 DEF CallLock
  <2>2. CASE CallUnlock(t)
    BY <2>2 DEF CallUnlock
  <2>3. ASSUME NEW c \in Conds, CallWait(t, c) PROVE TypeOK'
    BY <2>3 DEF CallWait
  <2>4. ASSUME NEW c \in Conds, NEW operation \in {"signal", "bcast"}, CallNotify(t, operation, c) PROVE TypeOK'
    BY <2>4 DEF CallNotify
  <2>5. CASE LockFast(t)
    BY <2>5, WordValues DEF LockFast, SetWord, Free, Held
  <2>6. CASE LockFastFails(t)
    BY <2>6 DEF LockFastFails
  <2>7. CASE LockFullLoad(t)
    BY <2>7 DEF LockFullLoad, ReadWord, LocalInv, Local
  <2>8. CASE LockFullTake(t)
    BY <2>8, TakeEffect, WordValues DEF LockFullTake, TypeOK
  <2>9. CASE LockFullAgain(t)
    BY <2>9 DEF LockFullAgain, ReadWord, LocalInv, Local
  <2>10. CASE LockFullSetParked(t)
    BY <2>10 DEF LockFullSetParked, SetWord, Free, Held, HeldAndParked, Word
  <2>11. CASE LockFullSeesParked(t)
    BY <2>11 DEF LockFullSeesParked, Free, HeldAndParked, Word, Held
  <2>12. CASE ParkLockBucket(t)
    BY <2>12 DEF ParkLockBucket, LockBucket
  <2>13. CASE ParkValidates(t)
    BY <2>13 DEF ParkValidates, ParkIsValid, HeldAndParked
  <2>14. CASE ParkIsInvalid(t)
    BY <2>14 DEF ParkIsInvalid, UnlockBuckets, ParkIsValid, HeldAndParked
  <2>15. CASE ParkEnqueue(t)
    BY <2>15 DEF ParkEnqueue, UnlockBuckets, Sleepers, Enqueue, LocalInv, Local
  <2>16. CASE ParkReturns(t)
    BY <2>16 DEF ParkReturns
  <2>17. CASE UnlockFast(t)
    BY <2>17 DEF UnlockFast, SetWord, ReturnFromUnlock, Free, Held, Word, HeldAndParked
  <2>18. CASE UnlockFastFails(t)
    BY <2>18 DEF UnlockFastFails
  <2>19. CASE UnlockFullFails(t)
    BY <2>19 DEF UnlockFullFails, Held
  <2>20. CASE UnparkLockBucket(t)
    BY <2>20 DEF UnparkLockBucket, LockBucket
  <2>21. ASSUME NEW u \in Threads, UnparkPick(t, u) PROVE TypeOK'
    BY <2>21 DEF UnparkPick, SetWord, Sleepers, TakeOne, MoreWaiters, Word, Free, Held, HeldAndParked
  <2>22. CASE UnparkNobody(t)
    BY <2>22 DEF UnparkNobody, SetWord, Sleepers, Free, Word, Held, HeldAndParked
  <2>23. CASE WaitLockBucket(t)
    BY <2>23 DEF WaitLockBucket, LockBucket
  <2>24. CASE WaitValidates(t)
    BY <2>24 DEF WaitValidates, SetCond
  <2>25. CASE WaitIsInvalid(t)
    BY <2>25 DEF WaitIsInvalid, UnlockBuckets
  <2>26. CASE WaitEnqueue(t)
    BY <2>26 DEF WaitEnqueue, UnlockBuckets, Sleepers, Enqueue, LocalInv, Local
  <2>27. CASE WaitReturns(t)
    BY <2>27 DEF WaitReturns
  <2>28. CASE NotifyNobody(t)
    BY <2>28 DEF NotifyNobody, ReturnFromNotify
  <2>29. CASE SignalLoad(t)
    BY <2>29 DEF SignalLoad
  <2>30. CASE SignalLockBucket(t)
    BY <2>30 DEF SignalLockBucket, LockBucket
  <2>31. ASSUME NEW u \in Threads, SignalPick(t, u) PROVE TypeOK'
    BY <2>31 DEF SignalPick, SetCond, Sleepers, TakeOne, MoreWaiters
  <2>32. CASE SignalFindsNobody(t)
    BY <2>32 DEF SignalFindsNobody, SetCond, Sleepers
  <2>33. CASE BcastLoad(t)
    BY <2>33 DEF BcastLoad, LocalInv, Local, InWait, InUnlock, InNotify
  <2>34. CASE BcastLockFirst(t)
    BY <2>34 DEF BcastLockFirst, LockBucket
  <2>35. CASE BcastLockSecond(t)
    BY <2>35 DEF BcastLockSecond, LockBucket
  <2>36. CASE BcastIsInvalid(t)
    BY <2>36 DEF BcastIsInvalid
  <2>37. CASE BcastValidates(t)
    BY <2>37 DEF BcastValidates, SetCond
  <2>38. CASE BcastMakeParked(t)
    BY <2>38, MakeParkedEffect DEF BcastMakeParked
  <2>39. ASSUME NEW u \in Threads \union {NoThread}, BcastMove(t, u) PROVE TypeOK'
    <3>1. target[t] \in Mutexes /\ word' \in [Mutexes -> Word]
      BY <2>39, MoveEffect
    <3>2. parkedOn' \in [Threads -> Addresses \union {Nowhere}]
      BY <2>39, <3>1 DEF BcastMove, Requeue
    <3>3. ahead' \in [Threads -> SUBSET Threads]
      BY <2>39 DEF BcastMove, Requeue, Sleepers
    <3> QED
      BY <2>39, <3>1, <3>2, <3>3 DEF BcastMove
  <2>40. CASE Release(t)
    <3>1. CASE wakee[t] # NoThread
      BY <2>40, <3>1 DEF Release, UnlockBuckets
    <3>2. CASE wakee[t] = NoThread /\ ReturnFromUnlock(t) /\ UNCHANGED condition
      BY <2>40, <3>2 DEF Release, UnlockBuckets, ReturnFromUnlock
    <3>3. CASE wakee[t] = NoThread /\ ReturnFromNotify(t) /\ UNCHANGED mutex
      BY <2>40, <3>3 DEF Release, UnlockBuckets, ReturnFromNotify
    <3> QED
      BY <2>40, <3>1, <3>2, <3>3, Returning DEF Release
  <2>41. CASE Wake(t)
    <3>1. CASE ReturnFromUnlock(t) /\ UNCHANGED condition
      BY <2>41, <3>1 DEF Wake, ReturnFromUnlock
    <3>2. CASE ReturnFromNotify(t) /\ UNCHANGED mutex
      BY <2>41, <3>2 DEF Wake, ReturnFromNotify
    <3> QED
      BY <2>41, <3>1, <3>2, Returning DEF Wake
  <2> QED
    BY <1>2, <2>1, <2>2, <2>3, <2>4, <2>5, <2>6, <2>7, <2>8, <2>9, <2>10, <2>11, <2>12, <2>13, <2>14,
       <2>15, <2>16, <2>17, <2>18, <2>19, <2>20, <2>21, <2>22, <2>23, <2>24, <2>25, <2>26, <2>27, <2>28,
       <2>29, <2>30, <2>31, <2>32, <2>33, <2>34, <2>35, <2>36, <2>37, <2>38, <2>39, <2>40, <2>41 DEF Client,
       Library, LockNext, UnlockNext, WaitNext, NotifyNext
<1> QED
  BY <1>1, <1>2 DEF Next

\* Every step keeps the locals of the threads as their calls need them.
LEMMA NextLocalInv ==
  ASSUME TypeOK, LocalInv, [Next]_vars
  PROVE  LocalInv'
<1> USE NullAssumption DEF TypeOK, LocalInv, Local, Goto, shared, notify, Pcs, LockPcs, UnlockPcs,
      WaitPcs, SignalPcs, BcastPcs, InWait, InUnlock, InNotify
<1>1. CASE UNCHANGED vars
  BY <1>1 DEF vars
<1>2. ASSUME NEW t \in Threads, Client(t) \/ Library(t) PROVE LocalInv'
  <2>1. ASSUME NEW n \in Mutexes, CallLock(t, n) PROVE LocalInv'
    BY <2>1 DEF CallLock
  <2>2. CASE CallUnlock(t)
    BY <2>2 DEF CallUnlock
  <2>3. ASSUME NEW c \in Conds, CallWait(t, c) PROVE LocalInv'
    BY <2>3 DEF CallWait
  <2>4. ASSUME NEW c \in Conds, NEW operation \in {"signal", "bcast"}, CallNotify(t, operation, c) PROVE LocalInv'
    BY <2>4 DEF CallNotify
  <2>5. CASE LockFast(t)
    BY <2>5 DEF LockFast, SetWord, Free, Held
  <2>6. CASE LockFastFails(t)
    BY <2>6 DEF LockFastFails
  <2>7. CASE LockFullLoad(t)
    BY <2>7 DEF LockFullLoad, ReadWord
  <2>8. CASE LockFullTake(t)
    BY <2>8 DEF LockFullTake, SetWord, CanTake, Free
  <2>9. CASE LockFullAgain(t)
    BY <2>9 DEF LockFullAgain, ReadWord
  <2>10. CASE LockFullSetParked(t)
    BY <2>10 DEF LockFullSetParked, SetWord, Free, Held, HeldAndParked
  <2>11. CASE LockFullSeesParked(t)
    BY <2>11 DEF LockFullSeesParked, Free, HeldAndParked
  <2>12. CASE ParkLockBucket(t)
    BY <2>12 DEF ParkLockBucket, LockBucket
  <2>13. CASE ParkValidates(t)
    BY <2>13 DEF ParkValidates, ParkIsValid, HeldAndParked
  <2>14. CASE ParkIsInvalid(t)
    BY <2>14 DEF ParkIsInvalid, UnlockBuckets, ParkIsValid, HeldAndParked
  <2>15. CASE ParkEnqueue(t)
    BY <2>15 DEF ParkEnqueue, UnlockBuckets, Sleepers, Enqueue
  <2>16. CASE ParkReturns(t)
    BY <2>16 DEF ParkReturns
  <2>17. CASE UnlockFast(t)
    BY <2>17 DEF UnlockFast, SetWord, ReturnFromUnlock, Free, Held
  <2>18. CASE UnlockFastFails(t)
    BY <2>18 DEF UnlockFastFails
  <2>19. CASE UnlockFullFails(t)
    BY <2>19 DEF UnlockFullFails, Held
  <2>20. CASE UnparkLockBucket(t)
    BY <2>20 DEF UnparkLockBucket, LockBucket
  <2>21. ASSUME NEW u \in Threads, UnparkPick(t, u) PROVE LocalInv'
    BY <2>21 DEF UnparkPick, SetWord, Sleepers, TakeOne, MoreWaiters
  <2>22. CASE UnparkNobody(t)
    BY <2>22 DEF UnparkNobody, SetWord, Sleepers, Free
  <2>23. CASE WaitLockBucket(t)
    BY <2>23 DEF WaitLockBucket, LockBucket
  <2>24. CASE WaitValidates(t)
    BY <2>24 DEF WaitValidates, SetCond
  <2>25. CASE WaitIsInvalid(t)
    BY <2>25 DEF WaitIsInvalid, UnlockBuckets
  <2>26. CASE WaitEnqueue(t)
    BY <2>26 DEF WaitEnqueue, UnlockBuckets, Sleepers, Enqueue
  <2>27. CASE WaitReturns(t)
    BY <2>27 DEF WaitReturns
  <2>28. CASE NotifyNobody(t)
    BY <2>28 DEF NotifyNobody, ReturnFromNotify
  <2>29. CASE SignalLoad(t)
    BY <2>29 DEF SignalLoad
  <2>30. CASE SignalLockBucket(t)
    BY <2>30 DEF SignalLockBucket, LockBucket
  <2>31. ASSUME NEW u \in Threads, SignalPick(t, u) PROVE LocalInv'
    BY <2>31 DEF SignalPick, SetCond, Sleepers, TakeOne, MoreWaiters
  <2>32. CASE SignalFindsNobody(t)
    BY <2>32 DEF SignalFindsNobody, SetCond, Sleepers
  <2>33. CASE BcastLoad(t)
    BY <2>33 DEF BcastLoad
  <2>34. CASE BcastLockFirst(t)
    BY <2>34 DEF BcastLockFirst, LockBucket
  <2>35. CASE BcastLockSecond(t)
    BY <2>35 DEF BcastLockSecond, LockBucket
  <2>36. CASE BcastIsInvalid(t)
    BY <2>36 DEF BcastIsInvalid
  <2>37. CASE BcastValidates(t)
    BY <2>37 DEF BcastValidates, SetCond
  <2>38. CASE BcastMakeParked(t)
    BY <2>38 DEF BcastMakeParked
  <2>39. ASSUME NEW u \in Threads \union {NoThread}, BcastMove(t, u) PROVE LocalInv'
    BY <2>39 DEF BcastMove, Sleepers, Requeue
  <2>40. CASE Release(t)
    BY <2>40 DEF Release, UnlockBuckets, ReturnFromUnlock, ReturnFromNotify, ReturnFromUnpark
  <2>41. CASE Wake(t)
    BY <2>41 DEF Wake, ReturnFromUnlock, ReturnFromNotify, ReturnFromUnpark
  <2> QED
    BY <1>2, <2>1, <2>2, <2>3, <2>4, <2>5, <2>6, <2>7, <2>8, <2>9, <2>10, <2>11, <2>12, <2>13, <2>14,
       <2>15, <2>16, <2>17, <2>18, <2>19, <2>20, <2>21, <2>22, <2>23, <2>24, <2>25, <2>26, <2>27, <2>28,
       <2>29, <2>30, <2>31, <2>32, <2>33, <2>34, <2>35, <2>36, <2>37, <2>38, <2>39, <2>40, <2>41 DEF Client,
       Library, LockNext, UnlockNext, WaitNext, NotifyNext
<1> QED
  BY <1>1, <1>2 DEF Next

\* A step of one thread leaves the locals of the others alone, and the buckets they own.
LEMMA Others ==
  ASSUME TypeOK, LocalInv, NEW t \in Threads, Client(t) \/ Library(t), NEW v \in Threads, v # t
  PROVE  Same(v)
<1> USE NullAssumption DEF TypeOK, Same, Goto, shared, notify
<1>1. ASSUME NEW n \in Mutexes, CallLock(t, n) PROVE Same(v)
  BY <1>1 DEF CallLock
<1>2. CASE CallUnlock(t)
  BY <1>2 DEF CallUnlock
<1>3. ASSUME NEW c \in Conds, CallWait(t, c) PROVE Same(v)
  BY <1>3 DEF CallWait
<1>4. ASSUME NEW c \in Conds, NEW operation \in {"signal", "bcast"}, CallNotify(t, operation, c) PROVE Same(v)
  BY <1>4 DEF CallNotify
<1>5. CASE LockFast(t)
  BY <1>5 DEF LockFast, SetWord, Free, Held
<1>6. CASE LockFastFails(t)
  BY <1>6 DEF LockFastFails
<1>7. CASE LockFullLoad(t)
  BY <1>7 DEF LockFullLoad, ReadWord
<1>8. CASE LockFullTake(t)
  BY <1>8 DEF LockFullTake, SetWord, CanTake, Free
<1>9. CASE LockFullAgain(t)
  BY <1>9 DEF LockFullAgain, ReadWord
<1>10. CASE LockFullSetParked(t)
  BY <1>10 DEF LockFullSetParked, SetWord, Free, Held, HeldAndParked
<1>11. CASE LockFullSeesParked(t)
  BY <1>11 DEF LockFullSeesParked, Free, HeldAndParked
<1>12. CASE ParkLockBucket(t)
  BY <1>12 DEF ParkLockBucket, LockBucket
<1>13. CASE ParkValidates(t)
  BY <1>13 DEF ParkValidates, ParkIsValid, HeldAndParked
<1>14. CASE ParkIsInvalid(t)
  BY <1>14 DEF ParkIsInvalid, UnlockBuckets, ParkIsValid, HeldAndParked
<1>15. CASE ParkEnqueue(t)
  BY <1>15 DEF ParkEnqueue, UnlockBuckets, Sleepers, Enqueue
<1>16. CASE ParkReturns(t)
  BY <1>16 DEF ParkReturns
<1>17. CASE UnlockFast(t)
  BY <1>17 DEF UnlockFast, SetWord, ReturnFromUnlock, Free, Held
<1>18. CASE UnlockFastFails(t)
  BY <1>18 DEF UnlockFastFails
<1>19. CASE UnlockFullFails(t)
  BY <1>19 DEF UnlockFullFails, Held
<1>20. CASE UnparkLockBucket(t)
  BY <1>20 DEF UnparkLockBucket, LockBucket
<1>21. ASSUME NEW u \in Threads, UnparkPick(t, u) PROVE Same(v)
  BY <1>21 DEF UnparkPick, SetWord, Sleepers, TakeOne, MoreWaiters
<1>22. CASE UnparkNobody(t)
  BY <1>22 DEF UnparkNobody, SetWord, Sleepers, Free
<1>23. CASE WaitLockBucket(t)
  BY <1>23 DEF WaitLockBucket, LockBucket
<1>24. CASE WaitValidates(t)
  BY <1>24 DEF WaitValidates, SetCond
<1>25. CASE WaitIsInvalid(t)
  BY <1>25 DEF WaitIsInvalid, UnlockBuckets
<1>26. CASE WaitEnqueue(t)
  BY <1>26 DEF WaitEnqueue, UnlockBuckets, Sleepers, Enqueue
<1>27. CASE WaitReturns(t)
  BY <1>27 DEF WaitReturns
<1>28. CASE NotifyNobody(t)
  BY <1>28 DEF NotifyNobody, ReturnFromNotify
<1>29. CASE SignalLoad(t)
  BY <1>29 DEF SignalLoad
<1>30. CASE SignalLockBucket(t)
  BY <1>30 DEF SignalLockBucket, LockBucket
<1>31. ASSUME NEW u \in Threads, SignalPick(t, u) PROVE Same(v)
  BY <1>31 DEF SignalPick, SetCond, Sleepers, TakeOne, MoreWaiters
<1>32. CASE SignalFindsNobody(t)
  BY <1>32 DEF SignalFindsNobody, SetCond, Sleepers
<1>33. CASE BcastLoad(t)
  BY <1>33 DEF BcastLoad
<1>34. CASE BcastLockFirst(t)
  BY <1>34 DEF BcastLockFirst, LockBucket
<1>35. CASE BcastLockSecond(t)
  BY <1>35 DEF BcastLockSecond, LockBucket
<1>36. CASE BcastIsInvalid(t)
  BY <1>36 DEF BcastIsInvalid
<1>37. CASE BcastValidates(t)
  BY <1>37 DEF BcastValidates, SetCond
<1>38. CASE BcastMakeParked(t)
  BY <1>38 DEF BcastMakeParked
<1>39. ASSUME NEW u \in Threads \union {NoThread}, BcastMove(t, u) PROVE Same(v)
  BY <1>39 DEF BcastMove, Sleepers, Requeue
<1>40. CASE Release(t)
  BY <1>40 DEF Release, UnlockBuckets, ReturnFromUnlock, ReturnFromNotify, ReturnFromUnpark
<1>41. CASE Wake(t)
  BY <1>41 DEF Wake, ReturnFromUnlock, ReturnFromNotify, ReturnFromUnpark
<1> QED
  BY <1>1, <1>2, <1>3, <1>4, <1>5, <1>6, <1>7, <1>8, <1>9, <1>10, <1>11, <1>12, <1>13, <1>14, <1>15, <1>16,
     <1>17, <1>18, <1>19, <1>20, <1>21, <1>22, <1>23, <1>24, <1>25, <1>26, <1>27, <1>28, <1>29, <1>30, <1>31,
     <1>32, <1>33, <1>34, <1>35, <1>36, <1>37, <1>38, <1>39, <1>40, <1>41 DEF Client, Library, LockNext,
     UnlockNext, WaitNext, NotifyNext

\* Every step keeps the buckets with those that own them.
LEMMA NextBucketInv ==
  ASSUME TypeOK, LocalInv, BucketInv, [Next]_vars
  PROVE  BucketInv'
<1>1. CASE UNCHANGED vars
  BY <1>1 DEF vars, BucketInv, Owning, FirstBucket, SecondBucket
<1>2. ASSUME NEW t \in Threads, Client(t) \/ Library(t) PROVE BucketInv'
  <2>1. ASSUME NEW v \in Threads, v # t PROVE Owning(v)'
    <3>1. Same(v) /\ Owning(v)
      BY <1>2, <2>1, Others DEF BucketInv
    <3>2. FirstBucket(v)' = FirstBucket(v) /\ SecondBucket(v)' = SecondBucket(v)
      BY <3>1 DEF Same, FirstBucket, SecondBucket
    <3>3. /\ pc[v] \in {"parkValidate", "parkEnqueue", "unparkPick"} => BucketOf[mutex[v]] \in Buckets
          /\ pc[v] \in CondPcs => BucketOf[condition[v]] \in Buckets
          /\ pc[v] \in {"bcastValidate"} \union MovingPcs => BucketOf[target[v]] \in Buckets
      BY Hashed DEF LocalInv, Local, Addresses, CondPcs, MovingPcs, LockPcs, UnlockPcs, WaitPcs,
                    SignalPcs, BcastPcs, InUnlock, InNotify
    <3> QED
      BY <3>1, <3>2, <3>3 DEF Owning, Same
  <2>2. Owning(t)'
    <3> USE NullAssumption, Hashed DEF TypeOK, Owning, Local, Goto, shared, notify, OwnerPcs, CondPcs,
            MovingPcs, Pcs, LockPcs, UnlockPcs, WaitPcs, SignalPcs, BcastPcs, InWait, InUnlock, InNotify
    <3> Owning(t) /\ Local(t)
      BY DEF BucketInv, LocalInv
    <3>1. ASSUME NEW n \in Mutexes, CallLock(t, n) PROVE Owning(t)'
      BY <3>1 DEF CallLock
    <3>2. CASE CallUnlock(t)
      BY <3>2 DEF CallUnlock
    <3>3. ASSUME NEW c \in Conds, CallWait(t, c) PROVE Owning(t)'
      BY <3>3 DEF CallWait
    <3>4. ASSUME NEW c \in Conds, NEW operation \in {"signal", "bcast"}, CallNotify(t, operation, c) PROVE Owning(t)'
      BY <3>4 DEF CallNotify
    <3>5. CASE LockFast(t)
      BY <3>5 DEF LockFast, SetWord, Free, Held
    <3>6. CASE LockFastFails(t)
      BY <3>6 DEF LockFastFails
    <3>7. CASE LockFullLoad(t)
      BY <3>7 DEF LockFullLoad, ReadWord
    <3>8. CASE LockFullTake(t)
      BY <3>8 DEF LockFullTake, SetWord, CanTake, Free
    <3>9. CASE LockFullAgain(t)
      BY <3>9 DEF LockFullAgain, ReadWord
    <3>10. CASE LockFullSetParked(t)
      BY <3>10 DEF LockFullSetParked, SetWord, Free, Held, HeldAndParked
    <3>11. CASE LockFullSeesParked(t)
      BY <3>11 DEF LockFullSeesParked, Free, HeldAndParked
    <3>12. CASE ParkLockBucket(t)
      <4>1. mutex[t] \in Addresses /\ BucketOf[mutex[t]] \in Buckets
        BY <3>12, Hashed DEF ParkLockBucket, LockBucket, Addresses
      <4>2. bucketOwner'[BucketOf[mutex[t]]] = t
        BY <3>12, <4>1 DEF ParkLockBucket, LockBucket
      <4> QED
        BY <3>12, <4>2 DEF ParkLockBucket, LockBucket
    <3>13. CASE ParkValidates(t)
      BY <3>13 DEF ParkValidates, ParkIsValid, HeldAndParked
    <3>14. CASE ParkIsInvalid(t)
      BY <3>14 DEF ParkIsInvalid, UnlockBuckets, ParkIsValid, HeldAndParked
    <3>15. CASE ParkEnqueue(t)
      BY <3>15 DEF ParkEnqueue, UnlockBuckets, Sleepers, Enqueue
    <3>16. CASE ParkReturns(t)
      BY <3>16 DEF ParkReturns
    <3>17. CASE UnlockFast(t)
      BY <3>17 DEF UnlockFast, SetWord, ReturnFromUnlock, Free, Held
    <3>18. CASE UnlockFastFails(t)
      BY <3>18 DEF UnlockFastFails
    <3>19. CASE UnlockFullFails(t)
      BY <3>19 DEF UnlockFullFails, Held
    <3>20. CASE UnparkLockBucket(t)
      <4>1. mutex[t] \in Addresses /\ BucketOf[mutex[t]] \in Buckets
        BY <3>20, Hashed DEF UnparkLockBucket, LockBucket, Addresses
      <4>2. bucketOwner'[BucketOf[mutex[t]]] = t
        BY <3>20, <4>1 DEF UnparkLockBucket, LockBucket
      <4> QED
        BY <3>20, <4>2 DEF UnparkLockBucket, LockBucket
    <3>21. ASSUME NEW u \in Threads, UnparkPick(t, u) PROVE Owning(t)'
      BY <3>21 DEF UnparkPick, SetWord, Sleepers, TakeOne, MoreWaiters
    <3>22. CASE UnparkNobody(t)
      BY <3>22 DEF UnparkNobody, SetWord, Sleepers, Free
    <3>23. CASE WaitLockBucket(t)
      <4>1. condition[t] \in Addresses /\ BucketOf[condition[t]] \in Buckets
        BY <3>23, Hashed DEF WaitLockBucket, LockBucket, Addresses
      <4>2. bucketOwner'[BucketOf[condition[t]]] = t
        BY <3>23, <4>1 DEF WaitLockBucket, LockBucket
      <4> QED
        BY <3>23, <4>2 DEF WaitLockBucket, LockBucket
    <3>24. CASE WaitValidates(t)
      BY <3>24 DEF WaitValidates, SetCond
    <3>25. CASE WaitIsInvalid(t)
      BY <3>25 DEF WaitIsInvalid, UnlockBuckets
    <3>26. CASE WaitEnqueue(t)
      BY <3>26 DEF WaitEnqueue, UnlockBuckets, Sleepers, Enqueue
    <3>27. CASE WaitReturns(t)
      BY <3>27 DEF WaitReturns
    <3>28. CASE NotifyNobody(t)
      BY <3>28 DEF NotifyNobody, ReturnFromNotify
    <3>29. CASE SignalLoad(t)
      BY <3>29 DEF SignalLoad
    <3>30. CASE SignalLockBucket(t)
      <4>1. condition[t] \in Addresses /\ BucketOf[condition[t]] \in Buckets
        BY <3>30, Hashed DEF SignalLockBucket, LockBucket, Addresses
      <4>2. bucketOwner'[BucketOf[condition[t]]] = t
        BY <3>30, <4>1 DEF SignalLockBucket, LockBucket
      <4> QED
        BY <3>30, <4>2 DEF SignalLockBucket, LockBucket
    <3>31. ASSUME NEW u \in Threads, SignalPick(t, u) PROVE Owning(t)'
      BY <3>31 DEF SignalPick, SetCond, Sleepers, TakeOne, MoreWaiters
    <3>32. CASE SignalFindsNobody(t)
      BY <3>32 DEF SignalFindsNobody, SetCond, Sleepers
    <3>33. CASE BcastLoad(t)
      BY <3>33 DEF BcastLoad
    <3>34. CASE BcastLockFirst(t)
      <4>1. condition[t] \in Addresses /\ target[t] \in Addresses
        BY <3>34 DEF BcastLockFirst, LockBucket, Addresses
      <4>2. FirstBucket(t)' = FirstBucket(t) /\ SecondBucket(t)' = SecondBucket(t)
        BY <3>34 DEF BcastLockFirst, LockBucket, FirstBucket, SecondBucket
      <4>3. \A b \in Buckets : bucketOwner'[b] = t <=> b = FirstBucket(t)
        BY <3>34, <4>1, Ordered DEF BcastLockFirst, LockBucket
      <4>4. CASE FirstBucket(t) = SecondBucket(t)
        <5>1. pc'[t] = "bcastValidate"
          BY <3>34, <4>4 DEF BcastLockFirst, LockBucket
        <5>2. bucketOwner'[BucketOf[condition[t]]] = t /\ bucketOwner'[BucketOf[target[t]]] = t
          BY <4>1, <4>3, <4>4, Ordered, Hashed
        <5> QED
          BY <3>34, <5>1, <5>2 DEF BcastLockFirst
      <4>5. CASE FirstBucket(t) # SecondBucket(t)
        <5>1. pc'[t] = "bcastSecond"
          BY <3>34, <4>5 DEF BcastLockFirst, LockBucket
        <5>2. FirstBucket(t) < SecondBucket(t)
          BY <4>1, <4>5, Ordered
        <5> QED
          BY <3>34, <4>2, <4>3, <5>1, <5>2
      <4> QED
        BY <4>4, <4>5
    <3>35. CASE BcastLockSecond(t)
      <4>1. condition[t] \in Addresses /\ target[t] \in Addresses
        BY <3>35 DEF BcastLockSecond, LockBucket, Addresses
      <4>2. FirstBucket(t)' = FirstBucket(t) /\ SecondBucket(t)' = SecondBucket(t)
        BY <3>35 DEF BcastLockSecond, LockBucket, FirstBucket, SecondBucket
      <4>3. bucketOwner'[FirstBucket(t)] = t /\ bucketOwner'[SecondBucket(t)] = t
        BY <3>35, <4>1, Ordered DEF BcastLockSecond, LockBucket
      <4>4. bucketOwner'[BucketOf[condition[t]]] = t /\ bucketOwner'[BucketOf[target[t]]] = t
        BY <4>1, <4>3, Ordered
      <4> QED
        BY <3>35, <4>4 DEF BcastLockSecond, LockBucket
    <3>36. CASE BcastIsInvalid(t)
      BY <3>36 DEF BcastIsInvalid
    <3>37. CASE BcastValidates(t)
      BY <3>37 DEF BcastValidates, SetCond
    <3>38. CASE BcastMakeParked(t)
      BY <3>38 DEF BcastMakeParked
    <3>39. ASSUME NEW u \in Threads \union {NoThread}, BcastMove(t, u) PROVE Owning(t)'
      BY <3>39 DEF BcastMove, Sleepers, Requeue
    <3>40. CASE Release(t)
      BY <3>40 DEF Release, UnlockBuckets, ReturnFromUnlock, ReturnFromNotify, ReturnFromUnpark
    <3>41. CASE Wake(t)
      BY <3>41 DEF Wake, ReturnFromUnlock, ReturnFromNotify, ReturnFromUnpark
    <3> QED
      BY <1>2, <3>1, <3>2, <3>3, <3>4, <3>5, <3>6, <3>7, <3>8, <3>9, <3>10, <3>11, <3>12, <3>13, <3>14, <3>15,
         <3>16, <3>17, <3>18, <3>19, <3>20, <3>21, <3>22, <3>23, <3>24, <3>25, <3>26, <3>27, <3>28, <3>29,
         <3>30, <3>31, <3>32, <3>33, <3>34, <3>35, <3>36, <3>37, <3>38, <3>39, <3>40, <3>41 DEF Client,
         Library, LockNext, UnlockNext, WaitNext, NotifyNext
  <2> QED
    BY <2>1, <2>2 DEF BucketInv
<1> QED
  BY <1>1, <1>2 DEF Next

\* Every step lists a thread only where it sleeps: at its own mutex or condition.
LEMMA NextListInv ==
  ASSUME TypeOK, LocalInv, ListInv, CondInv, WakesSleepers, [Next]_vars
  PROVE  ListInv'
<1> SUFFICES ASSUME NEW v \in Threads PROVE Listed(v)'
  BY DEF ListInv
<1>1. CASE UNCHANGED vars
  BY <1>1 DEF vars, ListInv, Listed, InWait
<1>2. ASSUME NEW t \in Threads, Client(t) \/ Library(t) PROVE Listed(v)'
  <2> USE NullAssumption, CondAssumption DEF TypeOK, Addresses, Listed, Local, Same, Goto, shared,
        notify, Pcs, LockPcs, UnlockPcs, WaitPcs, SignalPcs, BcastPcs, InWait, InUnlock, InNotify
  <2> /\ Listed(v) /\ Local(v) /\ Listed(t) /\ Local(t)
      /\ v # t => Same(v)
    BY <1>2, Others DEF ListInv, LocalInv
  <2>1. ASSUME NEW n \in Mutexes, CallLock(t, n) PROVE Listed(v)'
    BY <2>1 DEF CallLock
  <2>2. CASE CallUnlock(t)
    BY <2>2 DEF CallUnlock
  <2>3. ASSUME NEW c \in Conds, CallWait(t, c) PROVE Listed(v)'
    BY <2>3 DEF CallWait
  <2>4. ASSUME NEW c \in Conds, NEW operation \in {"signal", "bcast"}, CallNotify(t, operation, c) PROVE Listed(v)'
    BY <2>4 DEF CallNotify
  <2>5. CASE LockFast(t)
    BY <2>5 DEF LockFast, SetWord, Free, Held
  <2>6. CASE LockFastFails(t)
    BY <2>6 DEF LockFastFails
  <2>7. CASE LockFullLoad(t)
    BY <2>7 DEF LockFullLoad, ReadWord
  <2>8. CASE LockFullTake(t)
    BY <2>8 DEF LockFullTake, SetWord, CanTake, Free
  <2>9. CASE LockFullAgain(t)
    BY <2>9 DEF LockFullAgain, ReadWord
  <2>10. CASE LockFullSetParked(t)
    BY <2>10 DEF LockFullSetParked, SetWord, Free, Held, HeldAndParked
  <2>11. CASE LockFullSeesParked(t)
    BY <2>11 DEF LockFullSeesParked, Free, HeldAndParked
  <2>12. CASE ParkLockBucket(t)
    BY <2>12 DEF ParkLockBucket, LockBucket
  <2>13. CASE ParkValidates(t)
    BY <2>13 DEF ParkValidates, ParkIsValid, HeldAndParked
  <2>14. CASE ParkIsInvalid(t)
    BY <2>14 DEF ParkIsInvalid, UnlockBuckets, ParkIsValid, HeldAndParked
  <2>15. CASE ParkEnqueue(t)
    BY <2>15 DEF ParkEnqueue, UnlockBuckets, Sleepers, Enqueue
  <2>16. CASE ParkReturns(t)
    BY <2>16 DEF ParkReturns
  <2>17. CASE UnlockFast(t)
    BY <2>17 DEF UnlockFast, SetWord, ReturnFromUnlock, Free, Held
  <2>18. CASE UnlockFastFails(t)
    BY <2>18 DEF UnlockFastFails
  <2>19. CASE UnlockFullFails(t)
    BY <2>19 DEF UnlockFullFails, Held
  <2>20. CASE UnparkLockBucket(t)
    BY <2>20 DEF UnparkLockBucket, LockBucket
  <2>21. ASSUME NEW u \in Threads, UnparkPick(t, u) PROVE Listed(v)'
    <3>1. parkedOn' = [parkedOn EXCEPT ![u] = Nowhere]
      BY <2>21 DEF UnparkPick, TakeOne
    <3>2. pc[t] = "unparkPick" /\ pc'[t] = "release"
      BY <2>21 DEF UnparkPick
    <3>3. CASE v = t
      BY <2>21, <3>1, <3>2, <3>3 DEF UnparkPick
    <3>4. CASE v # t
      BY <2>21, <3>1, <3>4 DEF UnparkPick
    <3> QED
      BY <3>3, <3>4
  <2>22. CASE UnparkNobody(t)
    BY <2>22 DEF UnparkNobody, SetWord, Sleepers, Free
  <2>23. CASE WaitLockBucket(t)
    BY <2>23 DEF WaitLockBucket, LockBucket
  <2>24. CASE WaitValidates(t)
    BY <2>24 DEF WaitValidates, SetCond
  <2>25. CASE WaitIsInvalid(t)
    BY <2>25 DEF WaitIsInvalid, UnlockBuckets
  <2>26. CASE WaitEnqueue(t)
    BY <2>26 DEF WaitEnqueue, UnlockBuckets, Sleepers, Enqueue
  <2>27. CASE WaitReturns(t)
    BY <2>27 DEF WaitReturns
  <2>28. CASE NotifyNobody(t)
    BY <2>28 DEF NotifyNobody, ReturnFromNotify
  <2>29. CASE SignalLoad(t)
    BY <2>29 DEF SignalLoad
  <2>30. CASE SignalLockBucket(t)
    BY <2>30 DEF SignalLockBucket, LockBucket
  <2>31. ASSUME NEW u \in Threads, SignalPick(t, u) PROVE Listed(v)'
    <3>1. parkedOn' = [parkedOn EXCEPT ![u] = Nowhere]
      BY <2>31 DEF SignalPick, TakeOne
    <3>2. CASE v = t
      BY <2>31, <3>1, <3>2 DEF SignalPick
    <3>3. CASE v # t
      BY <2>31, <3>1, <3>3 DEF SignalPick
    <3> QED
      BY <3>2, <3>3
  <2>32. CASE SignalFindsNobody(t)
    BY <2>32 DEF SignalFindsNobody, SetCond, Sleepers
  <2>33. CASE BcastLoad(t)
    BY <2>33 DEF BcastLoad
  <2>34. CASE BcastLockFirst(t)
    BY <2>34 DEF BcastLockFirst, LockBucket
  <2>35. CASE BcastLockSecond(t)
    BY <2>35 DEF BcastLockSecond, LockBucket
  <2>36. CASE BcastIsInvalid(t)
    BY <2>36 DEF BcastIsInvalid
  <2>37. CASE BcastValidates(t)
    BY <2>37 DEF BcastValidates, SetCond
  <2>38. CASE BcastMakeParked(t)
    BY <2>38 DEF BcastMakeParked
  <2>39. ASSUME NEW u \in Threads \union {NoThread}, BcastMove(t, u) PROVE Listed(v)'
    <3>1. target[t] \in Mutexes
      BY <2>39 DEF BcastMove
    <3>2. parkedOn[v] = condition[t] => mutex[v] = target[t]
      BY <2>39 DEF BcastMove, CondInv, OnCond, Untied, Moving, MovingPcs
    <3>3. /\ parkedOn[v] # condition[t] => parkedOn'[v] = parkedOn[v]
          /\ parkedOn[v] = condition[t] => parkedOn'[v] \in {Nowhere, target[t]}
      BY <2>39, MoveLists
    <3>4. parkedOn[v] = condition[t] => parkedOn[v] # Nowhere
      BY <2>39 DEF BcastMove
    <3>5. CASE v = t
      BY <2>39, <3>1, <3>2, <3>3, <3>4, <3>5 DEF BcastMove
    <3>6. CASE v # t
      BY <2>39, <3>1, <3>2, <3>3, <3>4, <3>6 DEF BcastMove
    <3> QED
      BY <3>5, <3>6
  <2>40. CASE Release(t)
    <3>1. CASE v # t
      BY <2>40, <3>1 DEF Release
    <3>2. CASE v = t /\ wakee[t] # NoThread
      BY <2>40, <3>2 DEF Release
    <3>3. CASE v = t /\ wakee[t] = NoThread /\ ReturnFromUnlock(t) /\ UNCHANGED condition
      BY <2>40, <3>3 DEF Release, ReturnFromUnlock
    <3>4. CASE v = t /\ wakee[t] = NoThread /\ ReturnFromNotify(t) /\ UNCHANGED mutex
      BY <2>40, <3>4, Returning, ZenonT(60) DEF Release, ReturnFromNotify
    <3> QED
      BY <2>40, <3>1, <3>2, <3>3, <3>4, Returning DEF Release
  <2>41. CASE Wake(t)
    <3>1. wakee[t] \in Threads /\ parkedOn[wakee[t]] = Nowhere
      BY <2>41 DEF Wake, WakesSleepers
    <3>2. CASE v # t
      BY <2>41, <3>1, <3>2 DEF Wake
    <3>3. CASE v = t /\ ReturnFromUnlock(t) /\ UNCHANGED condition
      BY <2>41, <3>1, <3>3 DEF Wake, ReturnFromUnlock
    <3>4. CASE v = t /\ return[t] # "sleep" /\ condition[t] # NoCond
                     /\ ReturnFromNotify(t) /\ UNCHANGED mutex
      <4>1. ~shouldPark[t]
        BY <2>41, <3>4 DEF Wake
      <4> QED
        BY <2>41, <3>1, <3>4, <4>1 DEF Wake, ReturnFromNotify
    <3> QED
      BY <2>41, <3>2, <3>3, <3>4, Returning DEF Wake
  <2> QED
    BY <1>2, <2>1, <2>2, <2>3, <2>4, <2>5, <2>6, <2>7, <2>8, <2>9, <2>10, <2>11, <2>12, <2>13, <2>14, <2>15,
       <2>16, <2>17, <2>18, <2>19, <2>20, <2>21, <2>22, <2>23, <2>24, <2>25, <2>26, <2>27, <2>28, <2>29,
       <2>30, <2>31, <2>32, <2>33, <2>34, <2>35, <2>36, <2>37, <2>38, <2>39, <2>40, <2>41 DEF Client, Library,
       LockNext, UnlockNext, WaitNext, NotifyNext
<1> QED
  BY <1>1, <1>2 DEF Next

\* Two threads never act on the list of one condition at a time.
LEMMA Alone ==
  ASSUME BucketInv, NEW t \in Threads, NEW u \in Threads, t # u, pc[t] \in CondPcs, pc[u] \in CondPcs
  PROVE  condition[t] # condition[u]
  BY DEF BucketInv, Owning

\* A step that puts nobody in the list of a condition and leaves the conditions and
\* the threads that act on them alone.
LEMMA CondFrame ==
  ASSUME LocalInv, CondInv, NEW t \in Threads, \A w \in Threads \ {t} : Same(w),
         UNCHANGED cond, ~Moving(t), pc'[t] \notin MovingPcs \union {"waitEnqueue"},
         \A w \in Threads : parkedOn'[w] \in Conds =>
             parkedOn'[w] = parkedOn[w] /\ mutex'[w] = mutex[w]
  PROVE  CondInv'
<1> SUFFICES ASSUME NEW v \in Threads PROVE OnCond(v)'
  BY DEF CondInv
<1>1. OnCond(v)
  BY DEF CondInv
<1>2. Tied(v)'
  <2>1. CASE parkedOn'[v] \in Conds
    <3>1. parkedOn[v] \in Conds /\ mutex'[v] = mutex[v] /\ parkedOn'[v] = parkedOn[v]
      BY <2>1
    <3>2. CASE cond[parkedOn[v]] = mutex[v]
      BY <3>1, <3>2 DEF Tied
    <3>3. ASSUME NEW u \in Threads, Moving(u) /\ condition[u] = parkedOn[v] PROVE Tied(v)'
      BY <3>1, <3>3 DEF Tied, Moving, Same
    <3> QED
      BY <1>1, <3>1, <3>2, <3>3 DEF OnCond, Tied
  <2>2. CASE parkedOn'[v] \notin Conds
    BY <2>2 DEF Tied
  <2> QED
    BY <2>1, <2>2
<1>3. Untied(v)'
  <2>1. Moving(v) => condition[v] \in Conds
    BY DEF Moving, MovingPcs, LocalInv, Local, InNotify, BcastPcs
  <2> QED
    BY <1>1, <2>1 DEF OnCond, Untied, Moving, Same
<1>4. Validated(v)'
  BY <1>1 DEF OnCond, Validated, Same
<1> QED
  BY <1>2, <1>3, <1>4 DEF OnCond

\* Every step keeps a condition tied to the mutex of its waiters.
LEMMA NextCondInv ==
  ASSUME TypeOK, LocalInv, BucketInv, ListInv, CondInv, [Next]_vars
  PROVE  CondInv'
<1>1. CASE UNCHANGED vars
  BY <1>1 DEF vars, CondInv, OnCond, Tied, Untied, Validated, Moving
<1>2. ASSUME NEW t \in Threads, Client(t) \/ Library(t) PROVE CondInv'
  <2>0. /\ \A w \in Threads \ {t} : Same(w)
        /\ \A w \in Threads : Local(w) /\ Listed(w) /\ OnCond(w)
    BY <1>2, Others DEF LocalInv, ListInv, CondInv
  <2> USE <2>0, NullAssumption, CondAssumption DEF TypeOK, Addresses, Local, Listed, Same, Moving,
        MovingPcs, CondPcs, Goto, shared, notify, Pcs, LockPcs, UnlockPcs, WaitPcs, SignalPcs, BcastPcs,
        InWait, InUnlock, InNotify
  <2>1. ASSUME NEW n \in Mutexes, CallLock(t, n) PROVE CondInv'
    <3>1. ~Moving(t) /\ pc'[t] \notin MovingPcs \union {"waitEnqueue"} /\ UNCHANGED cond
      BY <2>1 DEF CallLock
    <3>2. \A w \in Threads : parkedOn'[w] \in Conds => parkedOn'[w] = parkedOn[w] /\ mutex'[w] = mutex[w]
      BY <2>1 DEF CallLock
    <3> QED
      BY <2>0, <3>1, <3>2, CondFrame
  <2>2. CASE CallUnlock(t)
    <3>1. ~Moving(t) /\ pc'[t] \notin MovingPcs \union {"waitEnqueue"} /\ UNCHANGED cond
      BY <2>2 DEF CallUnlock
    <3>2. \A w \in Threads : parkedOn'[w] \in Conds => parkedOn'[w] = parkedOn[w] /\ mutex'[w] = mutex[w]
      BY <2>2 DEF CallUnlock
    <3> QED
      BY <2>0, <3>1, <3>2, CondFrame
  <2>3. ASSUME NEW c \in Conds, CallWait(t, c) PROVE CondInv'
    <3>1. ~Moving(t) /\ pc'[t] \notin MovingPcs \union {"waitEnqueue"} /\ UNCHANGED cond
      BY <2>3 DEF CallWait
    <3>2. \A w \in Threads : parkedOn'[w] \in Conds => parkedOn'[w] = parkedOn[w] /\ mutex'[w] = mutex[w]
      BY <2>3 DEF CallWait
    <3> QED
      BY <2>0, <3>1, <3>2, CondFrame
  <2>4. ASSUME NEW c \in Conds, NEW operation \in {"signal", "bcast"}, CallNotify(t, operation, c) PROVE CondInv'
    <3>1. ~Moving(t) /\ pc'[t] \notin MovingPcs \union {"waitEnqueue"} /\ UNCHANGED cond
      BY <2>4 DEF CallNotify
    <3>2. \A w \in Threads : parkedOn'[w] \in Conds => parkedOn'[w] = parkedOn[w] /\ mutex'[w] = mutex[w]
      BY <2>4 DEF CallNotify
    <3> QED
      BY <2>0, <3>1, <3>2, CondFrame
  <2>5. CASE LockFast(t)
    <3>1. ~Moving(t) /\ pc'[t] \notin MovingPcs \union {"waitEnqueue"} /\ UNCHANGED cond
      BY <2>5 DEF LockFast, SetWord, Free, Held
    <3>2. \A w \in Threads : parkedOn'[w] \in Conds => parkedOn'[w] = parkedOn[w] /\ mutex'[w] = mutex[w]
      BY <2>5 DEF LockFast, SetWord, Free, Held
    <3> QED
      BY <2>0, <3>1, <3>2, CondFrame
  <2>6. CASE LockFastFails(t)
    <3>1. ~Moving(t) /\ pc'[t] \notin MovingPcs \union {"waitEnqueue"} /\ UNCHANGED cond
      BY <2>6 DEF LockFastFails
    <3>2. \A w \in Threads : parkedOn'[w] \in Conds => parkedOn'[w] = parkedOn[w] /\ mutex'[w] = mutex[w]
      BY <2>6 DEF LockFastFails
    <3> QED
      BY <2>0, <3>1, <3>2, CondFrame
  <2>7. CASE LockFullLoad(t)
    <3>1. ~Moving(t) /\ pc'[t] \notin MovingPcs \union {"waitEnqueue"} /\ UNCHANGED cond
      BY <2>7 DEF LockFullLoad, ReadWord
    <3>2. \A w \in Threads : parkedOn'[w] \in Conds => parkedOn'[w] = parkedOn[w] /\ mutex'[w] = mutex[w]
      BY <2>7 DEF LockFullLoad, ReadWord
    <3> QED
      BY <2>0, <3>1, <3>2, CondFrame
  <2>8. CASE LockFullTake(t)
    <3>1. ~Moving(t) /\ pc'[t] \notin MovingPcs \union {"waitEnqueue"} /\ UNCHANGED cond
      BY <2>8 DEF LockFullTake, SetWord, CanTake, Free
    <3>2. \A w \in Threads : parkedOn'[w] \in Conds => parkedOn'[w] = parkedOn[w] /\ mutex'[w] = mutex[w]
      BY <2>8 DEF LockFullTake, SetWord, CanTake, Free
    <3> QED
      BY <2>0, <3>1, <3>2, CondFrame
  <2>9. CASE LockFullAgain(t)
    <3>1. ~Moving(t) /\ pc'[t] \notin MovingPcs \union {"waitEnqueue"} /\ UNCHANGED cond
      BY <2>9 DEF LockFullAgain, ReadWord
    <3>2. \A w \in Threads : parkedOn'[w] \in Conds => parkedOn'[w] = parkedOn[w] /\ mutex'[w] = mutex[w]
      BY <2>9 DEF LockFullAgain, ReadWord
    <3> QED
      BY <2>0, <3>1, <3>2, CondFrame
  <2>10. CASE LockFullSetParked(t)
    <3>1. ~Moving(t) /\ pc'[t] \notin MovingPcs \union {"waitEnqueue"} /\ UNCHANGED cond
      BY <2>10 DEF LockFullSetParked, SetWord, Free, Held, HeldAndParked
    <3>2. \A w \in Threads : parkedOn'[w] \in Conds => parkedOn'[w] = parkedOn[w] /\ mutex'[w] = mutex[w]
      BY <2>10 DEF LockFullSetParked, SetWord, Free, Held, HeldAndParked
    <3> QED
      BY <2>0, <3>1, <3>2, CondFrame
  <2>11. CASE LockFullSeesParked(t)
    <3>1. ~Moving(t) /\ pc'[t] \notin MovingPcs \union {"waitEnqueue"} /\ UNCHANGED cond
      BY <2>11 DEF LockFullSeesParked, Free, HeldAndParked
    <3>2. \A w \in Threads : parkedOn'[w] \in Conds => parkedOn'[w] = parkedOn[w] /\ mutex'[w] = mutex[w]
      BY <2>11 DEF LockFullSeesParked, Free, HeldAndParked
    <3> QED
      BY <2>0, <3>1, <3>2, CondFrame
  <2>12. CASE ParkLockBucket(t)
    <3>1. ~Moving(t) /\ pc'[t] \notin MovingPcs \union {"waitEnqueue"} /\ UNCHANGED cond
      BY <2>12 DEF ParkLockBucket, LockBucket
    <3>2. \A w \in Threads : parkedOn'[w] \in Conds => parkedOn'[w] = parkedOn[w] /\ mutex'[w] = mutex[w]
      BY <2>12 DEF ParkLockBucket, LockBucket
    <3> QED
      BY <2>0, <3>1, <3>2, CondFrame
  <2>13. CASE ParkValidates(t)
    <3>1. ~Moving(t) /\ pc'[t] \notin MovingPcs \union {"waitEnqueue"} /\ UNCHANGED cond
      BY <2>13 DEF ParkValidates, ParkIsValid, HeldAndParked
    <3>2. \A w \in Threads : parkedOn'[w] \in Conds => parkedOn'[w] = parkedOn[w] /\ mutex'[w] = mutex[w]
      BY <2>13 DEF ParkValidates, ParkIsValid, HeldAndParked
    <3> QED
      BY <2>0, <3>1, <3>2, CondFrame
  <2>14. CASE ParkIsInvalid(t)
    <3>1. ~Moving(t) /\ pc'[t] \notin MovingPcs \union {"waitEnqueue"} /\ UNCHANGED cond
      BY <2>14 DEF ParkIsInvalid, UnlockBuckets, ParkIsValid, HeldAndParked
    <3>2. \A w \in Threads : parkedOn'[w] \in Conds => parkedOn'[w] = parkedOn[w] /\ mutex'[w] = mutex[w]
      BY <2>14 DEF ParkIsInvalid, UnlockBuckets, ParkIsValid, HeldAndParked
    <3> QED
      BY <2>0, <3>1, <3>2, CondFrame
  <2>15. CASE ParkEnqueue(t)
    <3>1. ~Moving(t) /\ pc'[t] \notin MovingPcs \union {"waitEnqueue"} /\ UNCHANGED cond
      BY <2>15 DEF ParkEnqueue, UnlockBuckets, Sleepers, Enqueue
    <3>2. \A w \in Threads : parkedOn'[w] \in Conds => parkedOn'[w] = parkedOn[w] /\ mutex'[w] = mutex[w]
      BY <2>15 DEF ParkEnqueue, UnlockBuckets, Sleepers, Enqueue
    <3> QED
      BY <2>0, <3>1, <3>2, CondFrame
  <2>16. CASE ParkReturns(t)
    <3>1. ~Moving(t) /\ pc'[t] \notin MovingPcs \union {"waitEnqueue"} /\ UNCHANGED cond
      BY <2>16 DEF ParkReturns
    <3>2. \A w \in Threads : parkedOn'[w] \in Conds => parkedOn'[w] = parkedOn[w] /\ mutex'[w] = mutex[w]
      BY <2>16 DEF ParkReturns
    <3> QED
      BY <2>0, <3>1, <3>2, CondFrame
  <2>17. CASE UnlockFast(t)
    <3>1. ~Moving(t) /\ pc'[t] \notin MovingPcs \union {"waitEnqueue"} /\ UNCHANGED cond
      BY <2>17, Returning DEF UnlockFast, SetWord, ReturnFromUnlock, Free, Held
    <3>2. \A w \in Threads : parkedOn'[w] \in Conds => parkedOn'[w] = parkedOn[w] /\ mutex'[w] = mutex[w]
      BY <2>17, Returning DEF UnlockFast, SetWord, ReturnFromUnlock, Free, Held
    <3> QED
      BY <2>0, <3>1, <3>2, CondFrame
  <2>18. CASE UnlockFastFails(t)
    <3>1. ~Moving(t) /\ pc'[t] \notin MovingPcs \union {"waitEnqueue"} /\ UNCHANGED cond
      BY <2>18 DEF UnlockFastFails
    <3>2. \A w \in Threads : parkedOn'[w] \in Conds => parkedOn'[w] = parkedOn[w] /\ mutex'[w] = mutex[w]
      BY <2>18 DEF UnlockFastFails
    <3> QED
      BY <2>0, <3>1, <3>2, CondFrame
  <2>19. CASE UnlockFullFails(t)
    <3>1. ~Moving(t) /\ pc'[t] \notin MovingPcs \union {"waitEnqueue"} /\ UNCHANGED cond
      BY <2>19 DEF UnlockFullFails, Held
    <3>2. \A w \in Threads : parkedOn'[w] \in Conds => parkedOn'[w] = parkedOn[w] /\ mutex'[w] = mutex[w]
      BY <2>19 DEF UnlockFullFails, Held
    <3> QED
      BY <2>0, <3>1, <3>2, CondFrame
  <2>20. CASE UnparkLockBucket(t)
    <3>1. ~Moving(t) /\ pc'[t] \notin MovingPcs \union {"waitEnqueue"} /\ UNCHANGED cond
      BY <2>20 DEF UnparkLockBucket, LockBucket
    <3>2. \A w \in Threads : parkedOn'[w] \in Conds => parkedOn'[w] = parkedOn[w] /\ mutex'[w] = mutex[w]
      BY <2>20 DEF UnparkLockBucket, LockBucket
    <3> QED
      BY <2>0, <3>1, <3>2, CondFrame
  <2>21. ASSUME NEW u \in Threads, UnparkPick(t, u) PROVE CondInv'
    <3>1. ~Moving(t) /\ pc'[t] \notin MovingPcs \union {"waitEnqueue"} /\ UNCHANGED cond
      BY <2>21 DEF UnparkPick, SetWord, Sleepers, TakeOne, MoreWaiters
    <3>2. \A w \in Threads : parkedOn'[w] \in Conds => parkedOn'[w] = parkedOn[w] /\ mutex'[w] = mutex[w]
      BY <2>21 DEF UnparkPick, SetWord, Sleepers, TakeOne, MoreWaiters
    <3> QED
      BY <2>0, <3>1, <3>2, CondFrame
  <2>22. CASE UnparkNobody(t)
    <3>1. ~Moving(t) /\ pc'[t] \notin MovingPcs \union {"waitEnqueue"} /\ UNCHANGED cond
      BY <2>22 DEF UnparkNobody, SetWord, Sleepers, Free
    <3>2. \A w \in Threads : parkedOn'[w] \in Conds => parkedOn'[w] = parkedOn[w] /\ mutex'[w] = mutex[w]
      BY <2>22 DEF UnparkNobody, SetWord, Sleepers, Free
    <3> QED
      BY <2>0, <3>1, <3>2, CondFrame
  <2>23. CASE WaitLockBucket(t)
    <3>1. ~Moving(t) /\ pc'[t] \notin MovingPcs \union {"waitEnqueue"} /\ UNCHANGED cond
      BY <2>23 DEF WaitLockBucket, LockBucket
    <3>2. \A w \in Threads : parkedOn'[w] \in Conds => parkedOn'[w] = parkedOn[w] /\ mutex'[w] = mutex[w]
      BY <2>23 DEF WaitLockBucket, LockBucket
    <3> QED
      BY <2>0, <3>1, <3>2, CondFrame
  <2>24. CASE WaitValidates(t)
    <3>1. condition[t] \in Conds /\ pc[t] \in CondPcs /\ cond' = [cond EXCEPT ![condition[t]] = mutex[t]]
      BY <2>24 DEF WaitValidates, SetCond
    <3>2. ASSUME NEW w \in Threads, parkedOn[w] = condition[t]
          PROVE  mutex[w] = mutex[t]
      <4>1. \A u \in Threads : ~(Moving(u) /\ condition[u] = parkedOn[w])
        BY <2>24, <3>1, <3>2, Alone DEF WaitValidates
      <4>2. cond[condition[t]] = mutex[w] /\ mutex[w] # NoMutex
        BY <3>1, <3>2, <4>1 DEF OnCond, Tied
      <4> QED
        BY <2>24, <4>2 DEF WaitValidates
    <3>3. ASSUME NEW v \in Threads PROVE Tied(v)'
      BY <2>24, <2>0, <3>1, <3>2, <3>3 DEF WaitValidates, OnCond, Tied
    <3>4. ASSUME NEW v \in Threads PROVE Untied(v)'
      BY <2>24, <2>0, <3>1, <3>4, Alone DEF WaitValidates, OnCond, Untied
    <3>5. ASSUME NEW v \in Threads PROVE Validated(v)'
      BY <2>24, <2>0, <3>1, <3>5, Alone DEF WaitValidates, OnCond, Validated
    <3> QED
      BY <3>3, <3>4, <3>5 DEF CondInv, OnCond
  <2>25. CASE WaitIsInvalid(t)
    <3>1. ~Moving(t) /\ pc'[t] \notin MovingPcs \union {"waitEnqueue"} /\ UNCHANGED cond
      BY <2>25 DEF WaitIsInvalid, UnlockBuckets
    <3>2. \A w \in Threads : parkedOn'[w] \in Conds => parkedOn'[w] = parkedOn[w] /\ mutex'[w] = mutex[w]
      BY <2>25 DEF WaitIsInvalid, UnlockBuckets
    <3> QED
      BY <2>0, <3>1, <3>2, CondFrame
  <2>26. CASE WaitEnqueue(t)
    <3>1. condition[t] \in Conds /\ pc[t] \in CondPcs /\ cond[condition[t]] = mutex[t]
      BY <2>26 DEF WaitEnqueue, OnCond, Validated
    <3>2. parkedOn' = [parkedOn EXCEPT ![t] = condition[t]] /\ UNCHANGED <<cond, mutex, condition>>
      BY <2>26 DEF WaitEnqueue, Enqueue
    <3>3. ASSUME NEW v \in Threads PROVE Tied(v)'
      BY <2>26, <2>0, <3>1, <3>2, <3>3 DEF WaitEnqueue, OnCond, Tied
    <3>4. ASSUME NEW v \in Threads PROVE Untied(v)'
      <4>1. CASE v = t
        BY <2>26, <4>1 DEF WaitEnqueue, Untied
      <4>2. CASE v # t
        BY <2>0, <3>1, <3>2, <4>2, Alone DEF OnCond, Untied
      <4> QED
        BY <4>1, <4>2
    <3>5. ASSUME NEW v \in Threads PROVE Validated(v)'
      BY <2>26, <2>0, <3>2, <3>5 DEF WaitEnqueue, OnCond, Validated
    <3> QED
      BY <3>3, <3>4, <3>5 DEF CondInv, OnCond
  <2>27. CASE WaitReturns(t)
    <3>1. ~Moving(t) /\ pc'[t] \notin MovingPcs \union {"waitEnqueue"} /\ UNCHANGED cond
      BY <2>27 DEF WaitReturns
    <3>2. \A w \in Threads : parkedOn'[w] \in Conds => parkedOn'[w] = parkedOn[w] /\ mutex'[w] = mutex[w]
      BY <2>27 DEF WaitReturns
    <3> QED
      BY <2>0, <3>1, <3>2, CondFrame
  <2>28. CASE NotifyNobody(t)
    <3>1. ~Moving(t) /\ pc'[t] \notin MovingPcs \union {"waitEnqueue"} /\ UNCHANGED cond
      BY <2>28 DEF NotifyNobody, ReturnFromNotify
    <3>2. \A w \in Threads : parkedOn'[w] \in Conds => parkedOn'[w] = parkedOn[w] /\ mutex'[w] = mutex[w]
      BY <2>28 DEF NotifyNobody, ReturnFromNotify
    <3> QED
      BY <2>0, <3>1, <3>2, CondFrame
  <2>29. CASE SignalLoad(t)
    <3>1. ~Moving(t) /\ pc'[t] \notin MovingPcs \union {"waitEnqueue"} /\ UNCHANGED cond
      BY <2>29 DEF SignalLoad
    <3>2. \A w \in Threads : parkedOn'[w] \in Conds => parkedOn'[w] = parkedOn[w] /\ mutex'[w] = mutex[w]
      BY <2>29 DEF SignalLoad
    <3> QED
      BY <2>0, <3>1, <3>2, CondFrame
  <2>30. CASE SignalLockBucket(t)
    <3>1. ~Moving(t) /\ pc'[t] \notin MovingPcs \union {"waitEnqueue"} /\ UNCHANGED cond
      BY <2>30 DEF SignalLockBucket, LockBucket
    <3>2. \A w \in Threads : parkedOn'[w] \in Conds => parkedOn'[w] = parkedOn[w] /\ mutex'[w] = mutex[w]
      BY <2>30 DEF SignalLockBucket, LockBucket
    <3> QED
      BY <2>0, <3>1, <3>2, CondFrame
  <2>31. ASSUME NEW u \in Threads, SignalPick(t, u) PROVE CondInv'
    <3>1. condition[t] \in Conds /\ pc[t] \in CondPcs /\ pc'[t] = "release" /\ UNCHANGED mutex
      BY <2>31 DEF SignalPick
    <3>2. \A w \in Threads : parkedOn'[w] \in Conds => parkedOn'[w] = parkedOn[w]
      BY <2>31 DEF SignalPick, TakeOne
    <3>3. CASE UNCHANGED cond
      BY <2>0, <3>1, <3>2, <3>3, <2>31, CondFrame DEF SignalPick
    <3>4. CASE /\ cond' = [cond EXCEPT ![condition[t]] = NoMutex]
               /\ \A w \in Threads : parkedOn'[w] # condition[t]
      <4>1. ASSUME NEW v \in Threads PROVE Tied(v)'
        BY <2>0, <3>1, <3>2, <3>4, <4>1, <2>31, SMTT(30) DEF SignalPick, OnCond, Tied
      <4>2. ASSUME NEW v \in Threads PROVE Untied(v)'
        BY <2>0, <3>1, <3>2, <3>4, <4>2, Alone DEF OnCond, Untied
      <4>3. ASSUME NEW v \in Threads PROVE Validated(v)'
        BY <2>0, <3>1, <3>4, <4>3, Alone DEF OnCond, Validated
      <4> QED
        BY <4>1, <4>2, <4>3 DEF CondInv, OnCond
    <3> QED
      BY <2>31, <3>1, <3>3, <3>4 DEF SignalPick, SetCond, TakeOne, MoreWaiters, Sleepers
  <2>32. CASE SignalFindsNobody(t)
    <3>1. condition[t] \in Conds /\ pc[t] \in CondPcs /\ pc'[t] = "release" /\ UNCHANGED mutex
      BY <2>32 DEF SignalFindsNobody
    <3>2. \A w \in Threads : parkedOn'[w] \in Conds => parkedOn'[w] = parkedOn[w]
      BY <2>32 DEF SignalFindsNobody
    <3>3. CASE UNCHANGED cond
      BY <2>0, <3>1, <3>2, <3>3, <2>32, CondFrame DEF SignalFindsNobody
    <3>4. CASE /\ cond' = [cond EXCEPT ![condition[t]] = NoMutex]
               /\ \A w \in Threads : parkedOn'[w] # condition[t]
      <4>1. ASSUME NEW v \in Threads PROVE Tied(v)'
        BY <2>0, <3>1, <3>2, <3>4, <4>1, <2>32 DEF SignalFindsNobody, OnCond, Tied
      <4>2. ASSUME NEW v \in Threads PROVE Untied(v)'
        BY <2>0, <3>1, <3>2, <3>4, <4>2, Alone DEF OnCond, Untied
      <4>3. ASSUME NEW v \in Threads PROVE Validated(v)'
        BY <2>0, <3>1, <3>4, <4>3, Alone DEF OnCond, Validated
      <4> QED
        BY <4>1, <4>2, <4>3 DEF CondInv, OnCond
    <3> QED
      BY <2>32, <3>1, <3>3, <3>4 DEF SignalFindsNobody, SetCond, Sleepers
  <2>33. CASE BcastLoad(t)
    <3>1. ~Moving(t) /\ pc'[t] \notin MovingPcs \union {"waitEnqueue"} /\ UNCHANGED cond
      BY <2>33 DEF BcastLoad
    <3>2. \A w \in Threads : parkedOn'[w] \in Conds => parkedOn'[w] = parkedOn[w] /\ mutex'[w] = mutex[w]
      BY <2>33 DEF BcastLoad
    <3> QED
      BY <2>0, <3>1, <3>2, CondFrame
  <2>34. CASE BcastLockFirst(t)
    <3>1. ~Moving(t) /\ pc'[t] \notin MovingPcs \union {"waitEnqueue"} /\ UNCHANGED cond
      BY <2>34 DEF BcastLockFirst, LockBucket
    <3>2. \A w \in Threads : parkedOn'[w] \in Conds => parkedOn'[w] = parkedOn[w] /\ mutex'[w] = mutex[w]
      BY <2>34 DEF BcastLockFirst, LockBucket
    <3> QED
      BY <2>0, <3>1, <3>2, CondFrame
  <2>35. CASE BcastLockSecond(t)
    <3>1. ~Moving(t) /\ pc'[t] \notin MovingPcs \union {"waitEnqueue"} /\ UNCHANGED cond
      BY <2>35 DEF BcastLockSecond, LockBucket
    <3>2. \A w \in Threads : parkedOn'[w] \in Conds => parkedOn'[w] = parkedOn[w] /\ mutex'[w] = mutex[w]
      BY <2>35 DEF BcastLockSecond, LockBucket
    <3> QED
      BY <2>0, <3>1, <3>2, CondFrame
  <2>36. CASE BcastIsInvalid(t)
    <3>1. ~Moving(t) /\ pc'[t] \notin MovingPcs \union {"waitEnqueue"} /\ UNCHANGED cond
      BY <2>36 DEF BcastIsInvalid
    <3>2. \A w \in Threads : parkedOn'[w] \in Conds => parkedOn'[w] = parkedOn[w] /\ mutex'[w] = mutex[w]
      BY <2>36 DEF BcastIsInvalid
    <3> QED
      BY <2>0, <3>1, <3>2, CondFrame
  <2>37. CASE BcastValidates(t)
    <3>1. /\ condition[t] \in Conds /\ pc[t] \in CondPcs /\ target[t] \in Mutexes
          /\ cond[condition[t]] = target[t] /\ cond' = [cond EXCEPT ![condition[t]] = NoMutex]
          /\ UNCHANGED <<parkedOn, mutex, condition, target>>
      BY <2>37 DEF BcastValidates, SetCond
    <3>2. \A u \in Threads : Moving(u) => condition[u] # condition[t]
      BY <2>37, <3>1, Alone DEF BcastValidates
    <3>3. Moving(t)' /\ \A u \in Threads : Moving(u) => Moving(u)'
      BY <2>37, <2>0 DEF BcastValidates
    <3>4. ASSUME NEW v \in Threads PROVE Tied(v)'
      BY <3>1, <3>3, <3>4 DEF OnCond, Tied
    <3>5. ASSUME NEW v \in Threads PROVE Untied(v)'
      <4>1. CASE v = t
        BY <3>1, <3>2, <3>5, <4>1 DEF OnCond, Tied, Untied
      <4>2. CASE v # t
        BY <2>0, <3>1, <3>2, <3>5, <4>2 DEF OnCond, Untied
      <4> QED
        BY <4>1, <4>2
    <3>6. ASSUME NEW v \in Threads PROVE Validated(v)'
      BY <2>37, <2>0, <3>1, <3>6, Alone DEF BcastValidates, OnCond, Validated
    <3> QED
      BY <3>4, <3>5, <3>6 DEF CondInv, OnCond
  <2>38. CASE BcastMakeParked(t)
    <3>1. /\ UNCHANGED <<cond, parkedOn, mutex, condition, target>>
          /\ \A v \in Threads : Moving(v) <=> Moving(v)'
      BY <2>38, <2>0 DEF BcastMakeParked
    <3>2. ASSUME NEW v \in Threads PROVE Tied(v)'
      BY <3>1, <3>2 DEF OnCond, Tied
    <3>3. ASSUME NEW v \in Threads PROVE Untied(v)'
      BY <3>1, <3>3 DEF OnCond, Untied
    <3>4. ASSUME NEW v \in Threads PROVE Validated(v)'
      BY <2>38, <2>0, <3>1, <3>4 DEF BcastMakeParked, OnCond, Validated
    <3> QED
      BY <3>2, <3>3, <3>4 DEF CondInv, OnCond
  <2>39. ASSUME NEW u \in Threads \union {NoThread}, BcastMove(t, u) PROVE CondInv'
    <3>1. /\ condition[t] \in Conds /\ target[t] \in Mutexes /\ pc[t] \in CondPcs /\ pc'[t] = "release"
          /\ UNCHANGED <<cond, mutex, condition>>
      BY <2>39 DEF BcastMove
    <3>2. ASSUME NEW w \in Threads, parkedOn'[w] \in Conds
          PROVE  parkedOn'[w] = parkedOn[w] /\ parkedOn'[w] # condition[t]
      <4>1. /\ parkedOn[w] # condition[t] => parkedOn'[w] = parkedOn[w]
            /\ parkedOn[w] = condition[t] => parkedOn'[w] \in {Nowhere, target[t]}
        BY <2>39, MoveLists
      <4> QED
        BY <3>1, <3>2, <4>1
    <3>3. ASSUME NEW v \in Threads PROVE Tied(v)'
      BY <2>0, <3>1, <3>2, <3>3 DEF OnCond, Tied
    <3>4. ASSUME NEW v \in Threads PROVE Untied(v)'
      BY <2>0, <3>1, <3>2, <3>4 DEF OnCond, Untied
    <3>5. ASSUME NEW v \in Threads PROVE Validated(v)'
      BY <2>0, <3>1, <3>5 DEF OnCond, Validated
    <3> QED
      BY <3>3, <3>4, <3>5 DEF CondInv, OnCond
  <2>40. CASE Release(t)
    <3>1. ~Moving(t) /\ pc'[t] \notin MovingPcs \union {"waitEnqueue"} /\ UNCHANGED cond
      BY <2>40, Returning DEF Release, UnlockBuckets, ReturnFromUnlock, ReturnFromNotify, ReturnFromUnpark
    <3>2. \A w \in Threads : parkedOn'[w] \in Conds => parkedOn'[w] = parkedOn[w] /\ mutex'[w] = mutex[w]
      BY <2>40, Returning DEF Release, UnlockBuckets, ReturnFromUnlock, ReturnFromNotify, ReturnFromUnpark
    <3> QED
      BY <2>0, <3>1, <3>2, CondFrame
  <2>41. CASE Wake(t)
    <3>1. ~Moving(t) /\ pc'[t] \notin MovingPcs \union {"waitEnqueue"} /\ UNCHANGED cond
      BY <2>41, Returning DEF Wake, ReturnFromUnlock, ReturnFromNotify, ReturnFromUnpark
    <3>2. \A w \in Threads : parkedOn'[w] \in Conds => parkedOn'[w] = parkedOn[w] /\ mutex'[w] = mutex[w]
      BY <2>41, Returning DEF Wake, ReturnFromUnlock, ReturnFromNotify, ReturnFromUnpark
    <3> QED
      BY <2>0, <3>1, <3>2, CondFrame
  <2> QED
    BY <1>2, <2>1, <2>2, <2>3, <2>4, <2>5, <2>6, <2>7, <2>8, <2>9, <2>10, <2>11, <2>12, <2>13, <2>14, <2>15,
       <2>16, <2>17, <2>18, <2>19, <2>20, <2>21, <2>22, <2>23, <2>24, <2>25, <2>26, <2>27, <2>28, <2>29,
       <2>30, <2>31, <2>32, <2>33, <2>34, <2>35, <2>36, <2>37, <2>38, <2>39, <2>40, <2>41 DEF Client, Library,
       LockNext, UnlockNext, WaitNext, NotifyNext
<1> QED
  BY <1>1, <1>2 DEF Next

\* Every step keeps the parked bits of the mutexes that need it.
LEMMA NextWordInv ==
  ASSUME TypeOK, LocalInv, BucketInv, ListInv, WordInv, [Next]_vars
  PROVE  WordInv'
<1> SUFFICES ASSUME NEW v \in Threads PROVE Announced(v)'
  BY DEF WordInv
<1>1. CASE UNCHANGED vars
  BY <1>1 DEF vars, WordInv, Announced
<1>2. ASSUME NEW t \in Threads, Client(t) \/ Library(t) PROVE Announced(v)'
  <2> USE NullAssumption, CondAssumption DEF TypeOK, Addresses, Local, Listed, Announced, Same, Goto,
        shared, notify, Pcs, LockPcs, UnlockPcs, WaitPcs, SignalPcs, BcastPcs, InWait, InUnlock, InNotify
  <2> /\ Listed(v) /\ Local(v) /\ Listed(t) /\ Local(t) /\ Announced(v) /\ Announced(t)
      /\ v # t => Same(v)
    BY <1>2, Others DEF ListInv, LocalInv, WordInv
  <2>1. ASSUME NEW n \in Mutexes, CallLock(t, n) PROVE Announced(v)'
    BY <2>1 DEF CallLock
  <2>2. CASE CallUnlock(t)
    BY <2>2 DEF CallUnlock
  <2>3. ASSUME NEW c \in Conds, CallWait(t, c) PROVE Announced(v)'
    BY <2>3 DEF CallWait
  <2>4. ASSUME NEW c \in Conds, NEW operation \in {"signal", "bcast"}, CallNotify(t, operation, c) PROVE Announced(v)'
    BY <2>4 DEF CallNotify
  <2>5. CASE LockFast(t)
    <3>1. UNCHANGED <<parkedOn, target, wakeOne>> /\ pc'[t] \notin {"parkEnqueue", "bcastMove"}
      BY <2>5 DEF LockFast, SetWord, Free, Held
    <3>2. mutex[t] \in Mutexes /\ ~word[mutex[t]].parked /\ word[mutex[t]] # HeldAndParked
          /\ \A m \in Mutexes : m # mutex[t] => word'[m] = word[m]
      BY <2>5 DEF LockFast, SetWord, Free, Held, HeldAndParked
    <3>3. CASE v = t
      BY <3>1, <3>2, <3>3
    <3>4. CASE v # t
      BY <3>1, <3>2, <3>4
    <3> QED
      BY <3>3, <3>4
  <2>6. CASE LockFastFails(t)
    BY <2>6 DEF LockFastFails
  <2>7. CASE LockFullLoad(t)
    BY <2>7 DEF LockFullLoad, ReadWord
  <2>8. CASE LockFullTake(t)
    <3>1. UNCHANGED <<parkedOn, mutex>> /\ pc'[t] = "held"
      BY <2>8 DEF LockFullTake
    <3>2. mutex[t] \in Mutexes /\ ~word[mutex[t]].locked /\ word'[mutex[t]].parked = word[mutex[t]].parked
          /\ \A m \in Mutexes : m # mutex[t] => word'[m] = word[m]
      BY <2>8, TakeEffect
    <3>3. word[mutex[t]] # HeldAndParked
      BY <3>2 DEF HeldAndParked
    <3>4. CASE v = t
      BY <2>8, <3>1, <3>2, <3>4
    <3>5. CASE v # t
      BY <3>1, <3>2, <3>3, <3>5
    <3> QED
      BY <3>4, <3>5
  <2>9. CASE LockFullAgain(t)
    BY <2>9 DEF LockFullAgain, ReadWord
  <2>10. CASE LockFullSetParked(t)
    BY <2>10 DEF LockFullSetParked, SetWord, Free, Held, HeldAndParked
  <2>11. CASE LockFullSeesParked(t)
    BY <2>11 DEF LockFullSeesParked, Free, HeldAndParked
  <2>12. CASE ParkLockBucket(t)
    BY <2>12 DEF ParkLockBucket, LockBucket
  <2>13. CASE ParkValidates(t)
    BY <2>13 DEF ParkValidates, ParkIsValid, HeldAndParked
  <2>14. CASE ParkIsInvalid(t)
    BY <2>14 DEF ParkIsInvalid, UnlockBuckets, ParkIsValid, HeldAndParked
  <2>15. CASE ParkEnqueue(t)
    <3>1. mutex[t] \in Mutexes /\ word[mutex[t]].parked
      BY <2>15 DEF ParkEnqueue, HeldAndParked
    <3>2. /\ parkedOn' = [parkedOn EXCEPT ![t] = mutex[t]] /\ pc'[t] = "parked"
          /\ UNCHANGED <<word, mutex, target, wakeOne>>
      BY <2>15 DEF ParkEnqueue, Enqueue
    <3>3. CASE v = t
      BY <3>1, <3>2, <3>3
    <3>4. CASE v # t
      BY <3>2, <3>4
    <3> QED
      BY <3>3, <3>4
  <2>16. CASE ParkReturns(t)
    BY <2>16 DEF ParkReturns
  <2>17. CASE UnlockFast(t)
    <3>1. UNCHANGED <<parkedOn, target, wakeOne>> /\ pc'[t] \notin {"parkEnqueue", "bcastMove"}
      BY <2>17 DEF UnlockFast, SetWord, ReturnFromUnlock, Free, Held
    <3>2. mutex[t] \in Mutexes /\ ~word[mutex[t]].parked /\ word[mutex[t]] # HeldAndParked
          /\ \A m \in Mutexes : m # mutex[t] => word'[m] = word[m]
      BY <2>17 DEF UnlockFast, SetWord, ReturnFromUnlock, Free, Held, HeldAndParked
    <3>3. CASE v = t
      BY <3>1, <3>2, <3>3
    <3>4. CASE v # t
      BY <3>1, <3>2, <3>4
    <3> QED
      BY <3>3, <3>4
  <2>18. CASE UnlockFastFails(t)
    BY <2>18 DEF UnlockFastFails
  <2>19. CASE UnlockFullFails(t)
    BY <2>19 DEF UnlockFullFails, Held
  <2>20. CASE UnparkLockBucket(t)
    BY <2>20 DEF UnparkLockBucket, LockBucket
  <2>21. ASSUME NEW u \in Threads, UnparkPick(t, u) PROVE Announced(v)'
    <3>1. /\ mutex[t] \in Mutexes /\ pc'[t] = "release" /\ UNCHANGED <<mutex, target, wakeOne>>
          /\ parkedOn' = [parkedOn EXCEPT ![u] = Nowhere]
          /\ word' = [word EXCEPT ![mutex[t]] = [locked |-> FALSE, parked |-> Sleepers(mutex[t]) # {u}]]
      BY <2>21 DEF UnparkPick, TakeOne, SetWord, MoreWaiters
    <3>2. parkedOn'[v] = mutex[t] => word'[mutex[t]].parked
      <4>1. parkedOn'[v] = mutex[t] => v \in Sleepers(mutex[t]) /\ v # u
        BY <3>1 DEF Sleepers
      <4> QED
        BY <3>1, <4>1
    <3>3. v # t => /\ pc[v] = "parkEnqueue" => mutex[v] # mutex[t]
                   /\ pc[v] = "bcastMove" => target[v] # mutex[t]
      BY <2>21 DEF UnparkPick, BucketInv, Owning, MovingPcs
    <3>4. CASE v = t
      BY <3>1, <3>2, <3>4
    <3>5. CASE v # t
      BY <3>1, <3>2, <3>3, <3>5
    <3> QED
      BY <3>4, <3>5
  <2>22. CASE UnparkNobody(t)
    <3>1. /\ mutex[t] \in Mutexes /\ pc'[t] = "release" /\ UNCHANGED <<parkedOn, mutex, target, wakeOne>>
          /\ word' = [word EXCEPT ![mutex[t]] = Free]
      BY <2>22 DEF UnparkNobody, SetWord
    <3>2. parkedOn[v] # mutex[t]
      BY <2>22 DEF UnparkNobody, Sleepers
    <3>3. v # t => /\ pc[v] = "parkEnqueue" => mutex[v] # mutex[t]
                   /\ pc[v] = "bcastMove" => target[v] # mutex[t]
      BY <2>22 DEF UnparkNobody, BucketInv, Owning, MovingPcs
    <3>4. CASE v = t
      BY <3>1, <3>2, <3>4
    <3>5. CASE v # t
      BY <3>1, <3>2, <3>3, <3>5
    <3> QED
      BY <3>4, <3>5
  <2>23. CASE WaitLockBucket(t)
    BY <2>23 DEF WaitLockBucket, LockBucket
  <2>24. CASE WaitValidates(t)
    BY <2>24 DEF WaitValidates, SetCond
  <2>25. CASE WaitIsInvalid(t)
    BY <2>25 DEF WaitIsInvalid, UnlockBuckets
  <2>26. CASE WaitEnqueue(t)
    BY <2>26 DEF WaitEnqueue, UnlockBuckets, Sleepers, Enqueue
  <2>27. CASE WaitReturns(t)
    BY <2>27 DEF WaitReturns
  <2>28. CASE NotifyNobody(t)
    BY <2>28 DEF NotifyNobody, ReturnFromNotify
  <2>29. CASE SignalLoad(t)
    BY <2>29 DEF SignalLoad
  <2>30. CASE SignalLockBucket(t)
    BY <2>30 DEF SignalLockBucket, LockBucket
  <2>31. ASSUME NEW u \in Threads, SignalPick(t, u) PROVE Announced(v)'
    BY <2>31 DEF SignalPick, SetCond, Sleepers, TakeOne, MoreWaiters
  <2>32. CASE SignalFindsNobody(t)
    BY <2>32 DEF SignalFindsNobody, SetCond, Sleepers
  <2>33. CASE BcastLoad(t)
    BY <2>33 DEF BcastLoad
  <2>34. CASE BcastLockFirst(t)
    BY <2>34 DEF BcastLockFirst, LockBucket
  <2>35. CASE BcastLockSecond(t)
    BY <2>35 DEF BcastLockSecond, LockBucket
  <2>36. CASE BcastIsInvalid(t)
    BY <2>36 DEF BcastIsInvalid
  <2>37. CASE BcastValidates(t)
    BY <2>37 DEF BcastValidates, SetCond
  <2>38. CASE BcastMakeParked(t)
    <3>1. UNCHANGED <<parkedOn, mutex, target>> /\ pc'[t] = "bcastMove"
      BY <2>38 DEF BcastMakeParked
    <3>2. /\ \A m \in Mutexes : /\ word[m].parked => word'[m].parked
                                /\ word[m] = HeldAndParked => word'[m] = HeldAndParked
          /\ ~wakeOne'[t] => word'[target[t]] = HeldAndParked
      BY <2>38, MakeParkedEffect
    <3>3. CASE v = t
      BY <3>1, <3>2, <3>3
    <3>4. CASE v # t
      BY <3>1, <3>2, <3>4
    <3> QED
      BY <3>3, <3>4
  <2>39. ASSUME NEW u \in Threads \union {NoThread}, BcastMove(t, u) PROVE Announced(v)'
    <3>1. /\ UNCHANGED mutex /\ pc[t] = "bcastMove" /\ pc'[t] = "release"
          /\ condition[t] \in Conds /\ target[t] \in Mutexes
      BY <2>39 DEF BcastMove
    <3>2. /\ \A m \in Mutexes : /\ word[m].parked => word'[m].parked
                                /\ word[m] = HeldAndParked => word'[m] = HeldAndParked
          /\ wakeOne[t] /\ Sleepers(condition[t]) \ {u} # {} => word'[target[t]].parked
      BY <2>39, MoveEffect
    <3>3. parkedOn'[v] \in Mutexes => word'[parkedOn'[v]].parked
      <4>1. CASE parkedOn[v] # condition[t]
        BY <2>39, <3>2, <4>1, MoveLists
      <4>2. CASE parkedOn[v] = condition[t] /\ v = u
        BY <2>39, <4>2, MoveLists
      <4>3. CASE parkedOn[v] = condition[t] /\ v # u
        <5>1. parkedOn'[v] = target[t] /\ v \in Sleepers(condition[t]) \ {u}
          BY <2>39, <4>3, MoveLists DEF Sleepers
        <5>2. word'[target[t]].parked
          BY <3>1, <3>2, <5>1 DEF HeldAndParked
        <5> QED
          BY <5>1, <5>2
      <4> QED
        BY <4>1, <4>2, <4>3
    <3>4. CASE v = t
      BY <3>1, <3>3, <3>4
    <3>5. CASE v # t
      BY <3>1, <3>2, <3>3, <3>5
    <3> QED
      BY <3>4, <3>5
  <2>40. CASE Release(t)
    BY <2>40 DEF Release, UnlockBuckets, ReturnFromUnlock, ReturnFromNotify, ReturnFromUnpark
  <2>41. CASE Wake(t)
    BY <2>41 DEF Wake, ReturnFromUnlock, ReturnFromNotify, ReturnFromUnpark
  <2> QED
    BY <1>2, <2>1, <2>2, <2>3, <2>4, <2>5, <2>6, <2>7, <2>8, <2>9, <2>10, <2>11, <2>12, <2>13, <2>14, <2>15,
       <2>16, <2>17, <2>18, <2>19, <2>20, <2>21, <2>22, <2>23, <2>24, <2>25, <2>26, <2>27, <2>28, <2>29,
       <2>30, <2>31, <2>32, <2>33, <2>34, <2>35, <2>36, <2>37, <2>38, <2>39, <2>40, <2>41 DEF Client, Library,
       LockNext, UnlockNext, WaitNext, NotifyNext
<1> QED
  BY <1>1, <1>2 DEF Next

\* Who is taken from a list sleeps, out of it, until the one that took him wakes him.
Woken(t) == wakee[t] # NoThread =>
    /\ shouldPark[wakee[t]]
    /\ parkedOn[wakee[t]] = Nowhere
    /\ \A u \in Threads : wakee[u] = wakee[t] => u = t

\* Every step leaves the threads that are about to be woken asleep.
LEMMA NextWakesSleepers ==
  ASSUME TypeOK, LocalInv, ListInv, WakesSleepers, [Next]_vars
  PROVE  WakesSleepers'
<1> SUFFICES ASSUME NEW v \in Threads PROVE Woken(v)'
  BY DEF WakesSleepers, Woken
<1>1. CASE UNCHANGED vars
  BY <1>1 DEF vars, WakesSleepers, Woken
<1>2. ASSUME NEW t \in Threads, Client(t) \/ Library(t) PROVE Woken(v)'
  <2> USE NullAssumption, CondAssumption DEF TypeOK, Addresses, Local, Listed, Same, Woken, Goto,
        shared, notify, Pcs, LockPcs, UnlockPcs, WaitPcs, SignalPcs, BcastPcs, InWait, InUnlock, InNotify
  <2> /\ \A w \in Threads \ {t} : Same(w)
      /\ \A w \in Threads : Local(w) /\ Listed(w) /\ Woken(w)
    BY <1>2, Others DEF LocalInv, ListInv, WakesSleepers, Woken
  <2>1. ASSUME NEW n \in Mutexes, CallLock(t, n) PROVE Woken(v)'
    BY <2>1 DEF CallLock
  <2>2. CASE CallUnlock(t)
    BY <2>2 DEF CallUnlock
  <2>3. ASSUME NEW c \in Conds, CallWait(t, c) PROVE Woken(v)'
    BY <2>3 DEF CallWait
  <2>4. ASSUME NEW c \in Conds, NEW operation \in {"signal", "bcast"}, CallNotify(t, operation, c) PROVE Woken(v)'
    BY <2>4 DEF CallNotify
  <2>5. CASE LockFast(t)
    BY <2>5 DEF LockFast, SetWord, Free, Held
  <2>6. CASE LockFastFails(t)
    BY <2>6 DEF LockFastFails
  <2>7. CASE LockFullLoad(t)
    BY <2>7 DEF LockFullLoad, ReadWord
  <2>8. CASE LockFullTake(t)
    BY <2>8 DEF LockFullTake, SetWord, CanTake, Free
  <2>9. CASE LockFullAgain(t)
    BY <2>9 DEF LockFullAgain, ReadWord
  <2>10. CASE LockFullSetParked(t)
    BY <2>10 DEF LockFullSetParked, SetWord, Free, Held, HeldAndParked
  <2>11. CASE LockFullSeesParked(t)
    BY <2>11 DEF LockFullSeesParked, Free, HeldAndParked
  <2>12. CASE ParkLockBucket(t)
    BY <2>12 DEF ParkLockBucket, LockBucket
  <2>13. CASE ParkValidates(t)
    BY <2>13 DEF ParkValidates, ParkIsValid, HeldAndParked
  <2>14. CASE ParkIsInvalid(t)
    BY <2>14 DEF ParkIsInvalid, UnlockBuckets, ParkIsValid, HeldAndParked
  <2>15. CASE ParkEnqueue(t)
    BY <2>15 DEF ParkEnqueue, UnlockBuckets, Sleepers, Enqueue
  <2>16. CASE ParkReturns(t)
    BY <2>16 DEF ParkReturns
  <2>17. CASE UnlockFast(t)
    BY <2>17 DEF UnlockFast, SetWord, ReturnFromUnlock, Free, Held
  <2>18. CASE UnlockFastFails(t)
    BY <2>18 DEF UnlockFastFails
  <2>19. CASE UnlockFullFails(t)
    BY <2>19 DEF UnlockFullFails, Held
  <2>20. CASE UnparkLockBucket(t)
    BY <2>20 DEF UnparkLockBucket, LockBucket
  <2>21. ASSUME NEW u \in Threads, UnparkPick(t, u) PROVE Woken(v)'
    BY <2>21 DEF UnparkPick, SetWord, Sleepers, TakeOne, MoreWaiters
  <2>22. CASE UnparkNobody(t)
    BY <2>22 DEF UnparkNobody, SetWord, Sleepers, Free
  <2>23. CASE WaitLockBucket(t)
    BY <2>23 DEF WaitLockBucket, LockBucket
  <2>24. CASE WaitValidates(t)
    BY <2>24 DEF WaitValidates, SetCond
  <2>25. CASE WaitIsInvalid(t)
    BY <2>25 DEF WaitIsInvalid, UnlockBuckets
  <2>26. CASE WaitEnqueue(t)
    BY <2>26 DEF WaitEnqueue, UnlockBuckets, Sleepers, Enqueue
  <2>27. CASE WaitReturns(t)
    BY <2>27 DEF WaitReturns
  <2>28. CASE NotifyNobody(t)
    BY <2>28 DEF NotifyNobody, ReturnFromNotify
  <2>29. CASE SignalLoad(t)
    BY <2>29 DEF SignalLoad
  <2>30. CASE SignalLockBucket(t)
    BY <2>30 DEF SignalLockBucket, LockBucket
  <2>31. ASSUME NEW u \in Threads, SignalPick(t, u) PROVE Woken(v)'
    BY <2>31 DEF SignalPick, SetCond, Sleepers, TakeOne, MoreWaiters
  <2>32. CASE SignalFindsNobody(t)
    BY <2>32 DEF SignalFindsNobody, SetCond, Sleepers
  <2>33. CASE BcastLoad(t)
    BY <2>33 DEF BcastLoad
  <2>34. CASE BcastLockFirst(t)
    BY <2>34 DEF BcastLockFirst, LockBucket
  <2>35. CASE BcastLockSecond(t)
    BY <2>35 DEF BcastLockSecond, LockBucket
  <2>36. CASE BcastIsInvalid(t)
    BY <2>36 DEF BcastIsInvalid
  <2>37. CASE BcastValidates(t)
    BY <2>37 DEF BcastValidates, SetCond
  <2>38. CASE BcastMakeParked(t)
    BY <2>38 DEF BcastMakeParked
  <2>39. ASSUME NEW u \in Threads \union {NoThread}, BcastMove(t, u) PROVE Woken(v)'
    BY <2>39 DEF BcastMove, Sleepers, Requeue
  <2>40. CASE Release(t)
    BY <2>40 DEF Release, UnlockBuckets, ReturnFromUnlock, ReturnFromNotify, ReturnFromUnpark
  <2>41. CASE Wake(t)
    BY <2>41 DEF Wake, ReturnFromUnlock, ReturnFromNotify, ReturnFromUnpark
  <2> QED
    BY <1>2, <2>1, <2>2, <2>3, <2>4, <2>5, <2>6, <2>7, <2>8, <2>9, <2>10, <2>11, <2>12, <2>13, <2>14, <2>15,
       <2>16, <2>17, <2>18, <2>19, <2>20, <2>21, <2>22, <2>23, <2>24, <2>25, <2>26, <2>27, <2>28, <2>29,
       <2>30, <2>31, <2>32, <2>33, <2>34, <2>35, <2>36, <2>37, <2>38, <2>39, <2>40, <2>41 DEF Client, Library,
       LockNext, UnlockNext, WaitNext, NotifyNext
<1> QED
  BY <1>1, <1>2 DEF Next

\* A step that changes no lock bit, and not who holds which mutex.
LEMMA HoldFrame ==
  ASSUME MutualExclusion, NEW t \in Threads, \A w \in Threads \ {t} : Same(w),
         \A m \in Mutexes : word'[m].locked = word[m].locked,
         Holding(t)' <=> Holding(t), Holding(t) => mutex'[t] = mutex[t]
  PROVE  MutualExclusion'
<1>1. ASSUME NEW m \in Mutexes PROVE Holders(m)' = Holders(m)
  <2>1. ASSUME NEW w \in Threads PROVE (Holding(w) /\ mutex[w] = m)' <=> (Holding(w) /\ mutex[w] = m)
    <3>1. CASE w = t
      BY <3>1
    <3>2. CASE w # t
      BY <3>2 DEF Same, Holding
    <3> QED
      BY <3>1, <3>2
  <2> QED
    BY <2>1 DEF Holders
<1> QED
  BY <1>1 DEF MutualExclusion

\* A step that takes a free mutex.
LEMMA HoldMore ==
  ASSUME MutualExclusion, NEW t \in Threads, \A w \in Threads \ {t} : Same(w),
         NEW m \in Mutexes, ~word[m].locked, word'[m].locked,
         \A n \in Mutexes \ {m} : word'[n].locked = word[n].locked,
         ~Holding(t), Holding(t)', mutex'[t] = m
  PROVE  MutualExclusion'
<1>1. ASSUME NEW w \in Threads \ {t} PROVE (Holding(w)' <=> Holding(w)) /\ mutex'[w] = mutex[w]
  BY <1>1 DEF Same, Holding
<1>2. Holders(m) = {} /\ Holders(m)' = {t}
  BY <1>1 DEF MutualExclusion, Holders
<1>3. ASSUME NEW n \in Mutexes \ {m} PROVE Holders(n)' = Holders(n)
  BY <1>1 DEF Holders
<1> QED
  BY <1>2, <1>3 DEF MutualExclusion

\* A step that frees the mutex it holds.
LEMMA HoldLess ==
  ASSUME MutualExclusion, NEW t \in Threads, \A w \in Threads \ {t} : Same(w),
         NEW m \in Mutexes, ~word'[m].locked,
         \A n \in Mutexes \ {m} : word'[n].locked = word[n].locked,
         Holding(t), ~Holding(t)', mutex[t] = m
  PROVE  MutualExclusion'
<1>1. ASSUME NEW w \in Threads \ {t} PROVE (Holding(w)' <=> Holding(w)) /\ mutex'[w] = mutex[w]
  BY <1>1 DEF Same, Holding
<1>2. Holders(m) = {t} /\ Holders(m)' = {}
  BY <1>1 DEF MutualExclusion, Holders
<1>3. ASSUME NEW n \in Mutexes \ {m} PROVE Holders(n)' = Holders(n)
  BY <1>1 DEF Holders
<1> QED
  BY <1>2, <1>3 DEF MutualExclusion

\* Every step keeps the lock bit of a mutex with its one holder.
LEMMA NextMutualExclusion ==
  ASSUME TypeOK, LocalInv, MutualExclusion, [Next]_vars
  PROVE  MutualExclusion'
<1>1. CASE UNCHANGED vars
  BY <1>1 DEF vars, MutualExclusion, Holders, Holding
<1>2. ASSUME NEW t \in Threads, Client(t) \/ Library(t) PROVE MutualExclusion'
  <2>0. \A w \in Threads \ {t} : Same(w)
    BY <1>2, Others
  <2> Local(t)
    BY DEF LocalInv
  <2> USE NullAssumption DEF TypeOK, Local, NotifyPcs, Goto, shared, notify, Pcs, LockPcs, UnlockPcs,
        WaitPcs, SignalPcs, BcastPcs, InWait, InUnlock, InNotify
  <2>1. ASSUME NEW n \in Mutexes, CallLock(t, n) PROVE MutualExclusion'
    <3>1. \A m \in Mutexes : word'[m].locked = word[m].locked
      BY <2>1 DEF CallLock
    <3>2. (Holding(t)' <=> Holding(t)) /\ (Holding(t) => mutex'[t] = mutex[t])
      BY <2>1 DEF CallLock, Holding
    <3> QED
      BY <2>0, <3>1, <3>2, HoldFrame
  <2>2. CASE CallUnlock(t)
    <3>1. \A m \in Mutexes : word'[m].locked = word[m].locked
      BY <2>2 DEF CallUnlock
    <3>2. (Holding(t)' <=> Holding(t)) /\ (Holding(t) => mutex'[t] = mutex[t])
      BY <2>2 DEF CallUnlock, Holding
    <3> QED
      BY <2>0, <3>1, <3>2, HoldFrame
  <2>3. ASSUME NEW c \in Conds, CallWait(t, c) PROVE MutualExclusion'
    <3>1. \A m \in Mutexes : word'[m].locked = word[m].locked
      BY <2>3 DEF CallWait
    <3>2. (Holding(t)' <=> Holding(t)) /\ (Holding(t) => mutex'[t] = mutex[t])
      BY <2>3 DEF CallWait, Holding
    <3> QED
      BY <2>0, <3>1, <3>2, HoldFrame
  <2>4. ASSUME NEW c \in Conds, NEW operation \in {"signal", "bcast"}, CallNotify(t, operation, c) PROVE MutualExclusion'
    <3>1. \A m \in Mutexes : word'[m].locked = word[m].locked
      BY <2>4 DEF CallNotify
    <3>2. (Holding(t)' <=> Holding(t)) /\ (Holding(t) => mutex'[t] = mutex[t])
      BY <2>4 DEF CallNotify, Holding
    <3> QED
      BY <2>0, <3>1, <3>2, HoldFrame
  <2>5. CASE LockFast(t)
    <3>1. mutex[t] \in Mutexes /\ ~word[mutex[t]].locked /\ word'[mutex[t]].locked
          /\ \A n \in Mutexes \ {mutex[t]} : word'[n].locked = word[n].locked
      BY <2>5 DEF LockFast, SetWord, Free, Held
    <3>2. ~Holding(t) /\ Holding(t)' /\ mutex'[t] = mutex[t]
      BY <2>5 DEF LockFast, SetWord, Free, Held, Holding
    <3> QED
      BY <2>0, <3>1, <3>2, HoldMore
  <2>6. CASE LockFastFails(t)
    <3>1. \A m \in Mutexes : word'[m].locked = word[m].locked
      BY <2>6 DEF LockFastFails
    <3>2. (Holding(t)' <=> Holding(t)) /\ (Holding(t) => mutex'[t] = mutex[t])
      BY <2>6 DEF LockFastFails, Holding
    <3> QED
      BY <2>0, <3>1, <3>2, HoldFrame
  <2>7. CASE LockFullLoad(t)
    <3>1. \A m \in Mutexes : word'[m].locked = word[m].locked
      BY <2>7 DEF LockFullLoad, ReadWord
    <3>2. (Holding(t)' <=> Holding(t)) /\ (Holding(t) => mutex'[t] = mutex[t])
      BY <2>7 DEF LockFullLoad, ReadWord, Holding
    <3> QED
      BY <2>0, <3>1, <3>2, HoldFrame
  <2>8. CASE LockFullTake(t)
    <3>1. mutex[t] \in Mutexes /\ ~word[mutex[t]].locked /\ word'[mutex[t]].locked
          /\ \A n \in Mutexes \ {mutex[t]} : word'[n].locked = word[n].locked
      BY <2>8, TakeEffect
    <3>2. ~Holding(t) /\ Holding(t)' /\ mutex'[t] = mutex[t]
      BY <2>8 DEF LockFullTake, SetWord, CanTake, Free, Holding
    <3> QED
      BY <2>0, <3>1, <3>2, HoldMore
  <2>9. CASE LockFullAgain(t)
    <3>1. \A m \in Mutexes : word'[m].locked = word[m].locked
      BY <2>9 DEF LockFullAgain, ReadWord
    <3>2. (Holding(t)' <=> Holding(t)) /\ (Holding(t) => mutex'[t] = mutex[t])
      BY <2>9 DEF LockFullAgain, ReadWord, Holding
    <3> QED
      BY <2>0, <3>1, <3>2, HoldFrame
  <2>10. CASE LockFullSetParked(t)
    <3>1. \A m \in Mutexes : word'[m].locked = word[m].locked
      <4>1. word[mutex[t]] = Held /\ word' = [word EXCEPT ![mutex[t]] = HeldAndParked]
        BY <2>10 DEF LockFullSetParked, SetWord
      <4>2. Held.locked = HeldAndParked.locked
        BY DEF Held, HeldAndParked
      <4> QED
        BY <4>1, <4>2
    <3>2. (Holding(t)' <=> Holding(t)) /\ (Holding(t) => mutex'[t] = mutex[t])
      BY <2>10 DEF LockFullSetParked, Holding
    <3> QED
      BY <2>0, <3>1, <3>2, HoldFrame
  <2>11. CASE LockFullSeesParked(t)
    <3>1. \A m \in Mutexes : word'[m].locked = word[m].locked
      BY <2>11 DEF LockFullSeesParked, Free, HeldAndParked
    <3>2. (Holding(t)' <=> Holding(t)) /\ (Holding(t) => mutex'[t] = mutex[t])
      BY <2>11 DEF LockFullSeesParked, Free, HeldAndParked, Holding
    <3> QED
      BY <2>0, <3>1, <3>2, HoldFrame
  <2>12. CASE ParkLockBucket(t)
    <3>1. \A m \in Mutexes : word'[m].locked = word[m].locked
      BY <2>12 DEF ParkLockBucket, LockBucket
    <3>2. (Holding(t)' <=> Holding(t)) /\ (Holding(t) => mutex'[t] = mutex[t])
      BY <2>12 DEF ParkLockBucket, LockBucket, Holding
    <3> QED
      BY <2>0, <3>1, <3>2, HoldFrame
  <2>13. CASE ParkValidates(t)
    <3>1. \A m \in Mutexes : word'[m].locked = word[m].locked
      BY <2>13 DEF ParkValidates, ParkIsValid, HeldAndParked
    <3>2. (Holding(t)' <=> Holding(t)) /\ (Holding(t) => mutex'[t] = mutex[t])
      BY <2>13 DEF ParkValidates, ParkIsValid, HeldAndParked, Holding
    <3> QED
      BY <2>0, <3>1, <3>2, HoldFrame
  <2>14. CASE ParkIsInvalid(t)
    <3>1. \A m \in Mutexes : word'[m].locked = word[m].locked
      BY <2>14 DEF ParkIsInvalid, UnlockBuckets, ParkIsValid, HeldAndParked
    <3>2. (Holding(t)' <=> Holding(t)) /\ (Holding(t) => mutex'[t] = mutex[t])
      BY <2>14 DEF ParkIsInvalid, UnlockBuckets, ParkIsValid, HeldAndParked, Holding
    <3> QED
      BY <2>0, <3>1, <3>2, HoldFrame
  <2>15. CASE ParkEnqueue(t)
    <3>1. \A m \in Mutexes : word'[m].locked = word[m].locked
      BY <2>15 DEF ParkEnqueue, UnlockBuckets, Sleepers, Enqueue
    <3>2. (Holding(t)' <=> Holding(t)) /\ (Holding(t) => mutex'[t] = mutex[t])
      BY <2>15 DEF ParkEnqueue, UnlockBuckets, Sleepers, Enqueue, Holding
    <3> QED
      BY <2>0, <3>1, <3>2, HoldFrame
  <2>16. CASE ParkReturns(t)
    <3>1. \A m \in Mutexes : word'[m].locked = word[m].locked
      BY <2>16 DEF ParkReturns
    <3>2. (Holding(t)' <=> Holding(t)) /\ (Holding(t) => mutex'[t] = mutex[t])
      BY <2>16 DEF ParkReturns, Holding
    <3> QED
      BY <2>0, <3>1, <3>2, HoldFrame
  <2>17. CASE UnlockFast(t)
    <3>1. mutex[t] \in Mutexes /\ ~word'[mutex[t]].locked
          /\ \A n \in Mutexes \ {mutex[t]} : word'[n].locked = word[n].locked
      BY <2>17 DEF UnlockFast, SetWord, ReturnFromUnlock, Free, Held
    <3>2. Holding(t) /\ ~Holding(t)'
      BY <2>17 DEF UnlockFast, SetWord, ReturnFromUnlock, Free, Held, Holding
    <3> QED
      BY <2>0, <3>1, <3>2, HoldLess
  <2>18. CASE UnlockFastFails(t)
    <3>1. \A m \in Mutexes : word'[m].locked = word[m].locked
      BY <2>18 DEF UnlockFastFails
    <3>2. (Holding(t)' <=> Holding(t)) /\ (Holding(t) => mutex'[t] = mutex[t])
      BY <2>18 DEF UnlockFastFails, Holding
    <3> QED
      BY <2>0, <3>1, <3>2, HoldFrame
  <2>19. CASE UnlockFullFails(t)
    <3>1. \A m \in Mutexes : word'[m].locked = word[m].locked
      BY <2>19 DEF UnlockFullFails, Held
    <3>2. (Holding(t)' <=> Holding(t)) /\ (Holding(t) => mutex'[t] = mutex[t])
      BY <2>19 DEF UnlockFullFails, Held, Holding
    <3> QED
      BY <2>0, <3>1, <3>2, HoldFrame
  <2>20. CASE UnparkLockBucket(t)
    <3>1. \A m \in Mutexes : word'[m].locked = word[m].locked
      BY <2>20 DEF UnparkLockBucket, LockBucket
    <3>2. (Holding(t)' <=> Holding(t)) /\ (Holding(t) => mutex'[t] = mutex[t])
      BY <2>20 DEF UnparkLockBucket, LockBucket, Holding
    <3> QED
      BY <2>0, <3>1, <3>2, HoldFrame
  <2>21. ASSUME NEW u \in Threads, UnparkPick(t, u) PROVE MutualExclusion'
    <3>1. mutex[t] \in Mutexes /\ ~word'[mutex[t]].locked
          /\ \A n \in Mutexes \ {mutex[t]} : word'[n].locked = word[n].locked
      BY <2>21 DEF UnparkPick, SetWord, Sleepers, TakeOne, MoreWaiters
    <3>2. Holding(t) /\ ~Holding(t)'
      BY <2>21 DEF UnparkPick, SetWord, Sleepers, TakeOne, MoreWaiters, Holding
    <3> QED
      BY <2>0, <3>1, <3>2, HoldLess
  <2>22. CASE UnparkNobody(t)
    <3>1. mutex[t] \in Mutexes /\ ~word'[mutex[t]].locked
          /\ \A n \in Mutexes \ {mutex[t]} : word'[n].locked = word[n].locked
      BY <2>22 DEF UnparkNobody, SetWord, Sleepers, Free
    <3>2. Holding(t) /\ ~Holding(t)'
      BY <2>22 DEF UnparkNobody, SetWord, Sleepers, Free, Holding
    <3> QED
      BY <2>0, <3>1, <3>2, HoldLess
  <2>23. CASE WaitLockBucket(t)
    <3>1. \A m \in Mutexes : word'[m].locked = word[m].locked
      BY <2>23 DEF WaitLockBucket, LockBucket
    <3>2. (Holding(t)' <=> Holding(t)) /\ (Holding(t) => mutex'[t] = mutex[t])
      BY <2>23 DEF WaitLockBucket, LockBucket, Holding
    <3> QED
      BY <2>0, <3>1, <3>2, HoldFrame
  <2>24. CASE WaitValidates(t)
    <3>1. \A m \in Mutexes : word'[m].locked = word[m].locked
      BY <2>24 DEF WaitValidates, SetCond
    <3>2. (Holding(t)' <=> Holding(t)) /\ (Holding(t) => mutex'[t] = mutex[t])
      BY <2>24 DEF WaitValidates, SetCond, Holding
    <3> QED
      BY <2>0, <3>1, <3>2, HoldFrame
  <2>25. CASE WaitIsInvalid(t)
    <3>1. \A m \in Mutexes : word'[m].locked = word[m].locked
      BY <2>25 DEF WaitIsInvalid, UnlockBuckets
    <3>2. (Holding(t)' <=> Holding(t)) /\ (Holding(t) => mutex'[t] = mutex[t])
      BY <2>25 DEF WaitIsInvalid, UnlockBuckets, Holding
    <3> QED
      BY <2>0, <3>1, <3>2, HoldFrame
  <2>26. CASE WaitEnqueue(t)
    <3>1. \A m \in Mutexes : word'[m].locked = word[m].locked
      BY <2>26 DEF WaitEnqueue, UnlockBuckets, Sleepers, Enqueue
    <3>2. (Holding(t)' <=> Holding(t)) /\ (Holding(t) => mutex'[t] = mutex[t])
      BY <2>26 DEF WaitEnqueue, UnlockBuckets, Sleepers, Enqueue, Holding
    <3> QED
      BY <2>0, <3>1, <3>2, HoldFrame
  <2>27. CASE WaitReturns(t)
    <3>1. \A m \in Mutexes : word'[m].locked = word[m].locked
      BY <2>27 DEF WaitReturns
    <3>2. (Holding(t)' <=> Holding(t)) /\ (Holding(t) => mutex'[t] = mutex[t])
      BY <2>27 DEF WaitReturns, Holding
    <3> QED
      BY <2>0, <3>1, <3>2, HoldFrame
  <2>28. CASE NotifyNobody(t)
    <3>1. \A m \in Mutexes : word'[m].locked = word[m].locked
      BY <2>28 DEF NotifyNobody, ReturnFromNotify
    <3>2. (Holding(t)' <=> Holding(t)) /\ (Holding(t) => mutex'[t] = mutex[t])
      BY <2>28 DEF NotifyNobody, ReturnFromNotify, Holding
    <3> QED
      BY <2>0, <3>1, <3>2, HoldFrame
  <2>29. CASE SignalLoad(t)
    <3>1. \A m \in Mutexes : word'[m].locked = word[m].locked
      BY <2>29 DEF SignalLoad
    <3>2. (Holding(t)' <=> Holding(t)) /\ (Holding(t) => mutex'[t] = mutex[t])
      BY <2>29 DEF SignalLoad, Holding
    <3> QED
      BY <2>0, <3>1, <3>2, HoldFrame
  <2>30. CASE SignalLockBucket(t)
    <3>1. \A m \in Mutexes : word'[m].locked = word[m].locked
      BY <2>30 DEF SignalLockBucket, LockBucket
    <3>2. (Holding(t)' <=> Holding(t)) /\ (Holding(t) => mutex'[t] = mutex[t])
      BY <2>30 DEF SignalLockBucket, LockBucket, Holding
    <3> QED
      BY <2>0, <3>1, <3>2, HoldFrame
  <2>31. ASSUME NEW u \in Threads, SignalPick(t, u) PROVE MutualExclusion'
    <3>1. \A m \in Mutexes : word'[m].locked = word[m].locked
      BY <2>31 DEF SignalPick, SetCond, Sleepers, TakeOne, MoreWaiters
    <3>2. (Holding(t)' <=> Holding(t)) /\ (Holding(t) => mutex'[t] = mutex[t])
      BY <2>31 DEF SignalPick, SetCond, Sleepers, TakeOne, MoreWaiters, Holding
    <3> QED
      BY <2>0, <3>1, <3>2, HoldFrame
  <2>32. CASE SignalFindsNobody(t)
    <3>1. \A m \in Mutexes : word'[m].locked = word[m].locked
      BY <2>32 DEF SignalFindsNobody, SetCond, Sleepers
    <3>2. (Holding(t)' <=> Holding(t)) /\ (Holding(t) => mutex'[t] = mutex[t])
      BY <2>32 DEF SignalFindsNobody, SetCond, Sleepers, Holding
    <3> QED
      BY <2>0, <3>1, <3>2, HoldFrame
  <2>33. CASE BcastLoad(t)
    <3>1. \A m \in Mutexes : word'[m].locked = word[m].locked
      BY <2>33 DEF BcastLoad
    <3>2. (Holding(t)' <=> Holding(t)) /\ (Holding(t) => mutex'[t] = mutex[t])
      BY <2>33 DEF BcastLoad, Holding
    <3> QED
      BY <2>0, <3>1, <3>2, HoldFrame
  <2>34. CASE BcastLockFirst(t)
    <3>1. \A m \in Mutexes : word'[m].locked = word[m].locked
      BY <2>34 DEF BcastLockFirst, LockBucket
    <3>2. (Holding(t)' <=> Holding(t)) /\ (Holding(t) => mutex'[t] = mutex[t])
      BY <2>34 DEF BcastLockFirst, LockBucket, Holding
    <3> QED
      BY <2>0, <3>1, <3>2, HoldFrame
  <2>35. CASE BcastLockSecond(t)
    <3>1. \A m \in Mutexes : word'[m].locked = word[m].locked
      BY <2>35 DEF BcastLockSecond, LockBucket
    <3>2. (Holding(t)' <=> Holding(t)) /\ (Holding(t) => mutex'[t] = mutex[t])
      BY <2>35 DEF BcastLockSecond, LockBucket, Holding
    <3> QED
      BY <2>0, <3>1, <3>2, HoldFrame
  <2>36. CASE BcastIsInvalid(t)
    <3>1. \A m \in Mutexes : word'[m].locked = word[m].locked
      BY <2>36 DEF BcastIsInvalid
    <3>2. (Holding(t)' <=> Holding(t)) /\ (Holding(t) => mutex'[t] = mutex[t])
      BY <2>36 DEF BcastIsInvalid, Holding
    <3> QED
      BY <2>0, <3>1, <3>2, HoldFrame
  <2>37. CASE BcastValidates(t)
    <3>1. \A m \in Mutexes : word'[m].locked = word[m].locked
      BY <2>37 DEF BcastValidates, SetCond
    <3>2. (Holding(t)' <=> Holding(t)) /\ (Holding(t) => mutex'[t] = mutex[t])
      BY <2>37 DEF BcastValidates, SetCond, Holding
    <3> QED
      BY <2>0, <3>1, <3>2, HoldFrame
  <2>38. CASE BcastMakeParked(t)
    <3>1. \A m \in Mutexes : word'[m].locked = word[m].locked
      BY <2>38, MakeParkedEffect
    <3>2. (Holding(t)' <=> Holding(t)) /\ (Holding(t) => mutex'[t] = mutex[t])
      BY <2>38 DEF BcastMakeParked, Holding
    <3> QED
      BY <2>0, <3>1, <3>2, HoldFrame
  <2>39. ASSUME NEW u \in Threads \union {NoThread}, BcastMove(t, u) PROVE MutualExclusion'
    <3>1. \A m \in Mutexes : word'[m].locked = word[m].locked
      BY <2>39, MoveEffect
    <3>2. (Holding(t)' <=> Holding(t)) /\ (Holding(t) => mutex'[t] = mutex[t])
      BY <2>39 DEF BcastMove, Sleepers, Requeue, Holding
    <3> QED
      BY <2>0, <3>1, <3>2, HoldFrame
  <2>40. CASE Release(t)
    <3>1. \A m \in Mutexes : word'[m].locked = word[m].locked
      BY <2>40 DEF Release, UnlockBuckets, ReturnFromUnlock, ReturnFromNotify, ReturnFromUnpark
    <3>2. (Holding(t)' <=> Holding(t)) /\ (Holding(t) => mutex'[t] = mutex[t])
      BY <2>40, Returning DEF Release, UnlockBuckets, ReturnFromUnlock, ReturnFromNotify, ReturnFromUnpark, Holding
    <3> QED
      BY <2>0, <3>1, <3>2, HoldFrame
  <2>41. CASE Wake(t)
    <3>1. \A m \in Mutexes : word'[m].locked = word[m].locked
      BY <2>41 DEF Wake, ReturnFromUnlock, ReturnFromNotify, ReturnFromUnpark
    <3>2. (Holding(t)' <=> Holding(t)) /\ (Holding(t) => mutex'[t] = mutex[t])
      BY <2>41, Returning DEF Wake, ReturnFromUnlock, ReturnFromNotify, ReturnFromUnpark, Holding
    <3> QED
      BY <2>0, <3>1, <3>2, HoldFrame
  <2> QED
    BY <1>2, <2>1, <2>2, <2>3, <2>4, <2>5, <2>6, <2>7, <2>8, <2>9, <2>10, <2>11, <2>12, <2>13, <2>14, <2>15,
       <2>16, <2>17, <2>18, <2>19, <2>20, <2>21, <2>22, <2>23, <2>24, <2>25, <2>26, <2>27, <2>28, <2>29,
       <2>30, <2>31, <2>32, <2>33, <2>34, <2>35, <2>36, <2>37, <2>38, <2>39, <2>40, <2>41 DEF Client, Library,
       LockNext, UnlockNext, WaitNext, NotifyNext
<1> QED
  BY <1>1, <1>2 DEF Next

\* A step after which every mutex that was held is held or without sleepers, nobody
\* new sleeps, and
\* whoever was about to take a mutex still is, or has it.
LEMMA StrandFrame ==
  ASSUME NoStrandedSleeper,
         \A m \in Mutexes : word[m].locked =>
             word'[m].locked \/ \A w \in Threads : parkedOn'[w] # m,
         \A w \in Threads : parkedOn'[w] \in Mutexes => parkedOn[w] = parkedOn'[w],
         \A w \in Threads : WillLock(w) /\ mutex[w] \in Mutexes =>
             word'[mutex[w]].locked \/ (WillLock(w)' /\ mutex'[w] = mutex[w])
  PROVE  NoStrandedSleeper'
<1> SUFFICES ASSUME NEW m \in Mutexes, Sleepers(m)' # {}
             PROVE  word'[m].locked \/ \E w \in Threads : mutex'[w] = m /\ WillLock(w)'
  BY DEF NoStrandedSleeper
<1>1. Sleepers(m) # {}
  BY DEF Sleepers
<1>2. CASE word[m].locked
  BY <1>2 DEF Sleepers
<1>3. ASSUME NEW w \in Threads, mutex[w] = m, WillLock(w)
      PROVE  word'[m].locked \/ \E x \in Threads : mutex'[x] = m /\ WillLock(x)'
  BY <1>3
<1> QED
  BY <1>1, <1>2, <1>3 DEF NoStrandedSleeper

\* A thread asleep at a mutex that nobody holds is about to take it once it is out
\* of the list.
LEMMA SleeperWillLock ==
  ASSUME TypeOK, LocalInv, ListInv, MutualExclusion, NEW u \in Threads, NEW m \in Mutexes,
         shouldPark[u], mutex[u] = m, ~word[m].locked
  PROVE  pc[u] \in LockPcs \union {"sleep"} \/ (pc[u] \in {"release", "wake"} /\ return[u] = "sleep")
<1>1. ~Holding(u)
  BY DEF MutualExclusion, Holders
<1>2. pc[u] = "parked" \/ InWait(u)
  BY DEF ListInv, Listed
<1> QED
  BY <1>1, <1>2 DEF Holding, InWait, LockPcs

\* Every step keeps somebody in charge of those who sleep at a mutex.
LEMMA NextNoStrandedSleeper ==
  ASSUME IInv, [Next]_vars
  PROVE  NoStrandedSleeper'
<1> USE DEF IInv
<1>1. CASE UNCHANGED vars
  BY <1>1 DEF vars, NoStrandedSleeper, Sleepers, WillLock
<1>2. ASSUME NEW t \in Threads, Client(t) \/ Library(t) PROVE NoStrandedSleeper'
  <2>0. /\ \A w \in Threads \ {t} : Same(w)
        /\ \A w \in Threads : Local(w) /\ Listed(w)
    BY <1>2, Others DEF LocalInv, ListInv
  <2> USE <2>0, NullAssumption, CondAssumption DEF TypeOK, Addresses, Local, Listed, Same, Goto, shared,
        notify, Pcs, LockPcs, UnlockPcs, WaitPcs, SignalPcs, BcastPcs, InWait, InUnlock, InNotify
  <2>1. ASSUME NEW n \in Mutexes, CallLock(t, n) PROVE NoStrandedSleeper'
    <3>1. \A m \in Mutexes : word[m].locked => word'[m].locked
      BY <2>1 DEF CallLock
    <3>2. \A w \in Threads : parkedOn'[w] \in Mutexes => parkedOn[w] = parkedOn'[w]
      BY <2>1 DEF CallLock
    <3>3. \A w \in Threads : WillLock(w) /\ mutex[w] \in Mutexes =>
              word'[mutex[w]].locked \/ (WillLock(w)' /\ mutex'[w] = mutex[w])
      BY <2>1 DEF CallLock, WillLock
    <3> QED
      BY <3>1, <3>2, <3>3, StrandFrame
  <2>2. CASE CallUnlock(t)
    <3>1. \A m \in Mutexes : word[m].locked => word'[m].locked
      BY <2>2 DEF CallUnlock
    <3>2. \A w \in Threads : parkedOn'[w] \in Mutexes => parkedOn[w] = parkedOn'[w]
      BY <2>2 DEF CallUnlock
    <3>3. \A w \in Threads : WillLock(w) /\ mutex[w] \in Mutexes =>
              word'[mutex[w]].locked \/ (WillLock(w)' /\ mutex'[w] = mutex[w])
      BY <2>2 DEF CallUnlock, WillLock
    <3> QED
      BY <3>1, <3>2, <3>3, StrandFrame
  <2>3. ASSUME NEW c \in Conds, CallWait(t, c) PROVE NoStrandedSleeper'
    <3>1. \A m \in Mutexes : word[m].locked => word'[m].locked
      BY <2>3 DEF CallWait
    <3>2. \A w \in Threads : parkedOn'[w] \in Mutexes => parkedOn[w] = parkedOn'[w]
      BY <2>3 DEF CallWait
    <3>3. \A w \in Threads : WillLock(w) /\ mutex[w] \in Mutexes =>
              word'[mutex[w]].locked \/ (WillLock(w)' /\ mutex'[w] = mutex[w])
      BY <2>3 DEF CallWait, WillLock
    <3> QED
      BY <3>1, <3>2, <3>3, StrandFrame
  <2>4. ASSUME NEW c \in Conds, NEW operation \in {"signal", "bcast"}, CallNotify(t, operation, c) PROVE NoStrandedSleeper'
    <3>1. \A m \in Mutexes : word[m].locked => word'[m].locked
      BY <2>4 DEF CallNotify
    <3>2. \A w \in Threads : parkedOn'[w] \in Mutexes => parkedOn[w] = parkedOn'[w]
      BY <2>4 DEF CallNotify
    <3>3. \A w \in Threads : WillLock(w) /\ mutex[w] \in Mutexes =>
              word'[mutex[w]].locked \/ (WillLock(w)' /\ mutex'[w] = mutex[w])
      BY <2>4 DEF CallNotify, WillLock
    <3> QED
      BY <3>1, <3>2, <3>3, StrandFrame
  <2>5. CASE LockFast(t)
    <3>1. \A m \in Mutexes : word[m].locked => word'[m].locked
      BY <2>5 DEF LockFast, SetWord, Free, Held
    <3>2. \A w \in Threads : parkedOn'[w] \in Mutexes => parkedOn[w] = parkedOn'[w]
      BY <2>5 DEF LockFast, SetWord, Free, Held
    <3>3. \A w \in Threads : WillLock(w) /\ mutex[w] \in Mutexes =>
              word'[mutex[w]].locked \/ (WillLock(w)' /\ mutex'[w] = mutex[w])
      BY <2>5 DEF LockFast, SetWord, Free, Held, WillLock
    <3> QED
      BY <3>1, <3>2, <3>3, StrandFrame
  <2>6. CASE LockFastFails(t)
    <3>1. \A m \in Mutexes : word[m].locked => word'[m].locked
      BY <2>6 DEF LockFastFails
    <3>2. \A w \in Threads : parkedOn'[w] \in Mutexes => parkedOn[w] = parkedOn'[w]
      BY <2>6 DEF LockFastFails
    <3>3. \A w \in Threads : WillLock(w) /\ mutex[w] \in Mutexes =>
              word'[mutex[w]].locked \/ (WillLock(w)' /\ mutex'[w] = mutex[w])
      BY <2>6 DEF LockFastFails, WillLock
    <3> QED
      BY <3>1, <3>2, <3>3, StrandFrame
  <2>7. CASE LockFullLoad(t)
    <3>1. \A m \in Mutexes : word[m].locked => word'[m].locked
      BY <2>7 DEF LockFullLoad, ReadWord
    <3>2. \A w \in Threads : parkedOn'[w] \in Mutexes => parkedOn[w] = parkedOn'[w]
      BY <2>7 DEF LockFullLoad, ReadWord
    <3>3. \A w \in Threads : WillLock(w) /\ mutex[w] \in Mutexes =>
              word'[mutex[w]].locked \/ (WillLock(w)' /\ mutex'[w] = mutex[w])
      BY <2>7 DEF LockFullLoad, ReadWord, WillLock
    <3> QED
      BY <3>1, <3>2, <3>3, StrandFrame
  <2>8. CASE LockFullTake(t)
    <3>1. \A m \in Mutexes : word[m].locked => word'[m].locked
      BY <2>8, TakeEffect
    <3>2. \A w \in Threads : parkedOn'[w] \in Mutexes => parkedOn[w] = parkedOn'[w]
      BY <2>8 DEF LockFullTake, SetWord, CanTake, Free
    <3>3. \A w \in Threads : WillLock(w) /\ mutex[w] \in Mutexes =>
              word'[mutex[w]].locked \/ (WillLock(w)' /\ mutex'[w] = mutex[w])
      <4> SUFFICES ASSUME NEW w \in Threads, WillLock(w), mutex[w] \in Mutexes
                   PROVE  word'[mutex[w]].locked \/ (WillLock(w)' /\ mutex'[w] = mutex[w])
        OBVIOUS
      <4>1. CASE w = t
        BY <2>8, <4>1, TakeEffect
      <4>2. CASE w # t
        BY <2>8, <4>2 DEF LockFullTake, WillLock
      <4> QED
        BY <4>1, <4>2
    <3> QED
      BY <3>1, <3>2, <3>3, StrandFrame
  <2>9. CASE LockFullAgain(t)
    <3>1. \A m \in Mutexes : word[m].locked => word'[m].locked
      BY <2>9 DEF LockFullAgain, ReadWord
    <3>2. \A w \in Threads : parkedOn'[w] \in Mutexes => parkedOn[w] = parkedOn'[w]
      BY <2>9 DEF LockFullAgain, ReadWord
    <3>3. \A w \in Threads : WillLock(w) /\ mutex[w] \in Mutexes =>
              word'[mutex[w]].locked \/ (WillLock(w)' /\ mutex'[w] = mutex[w])
      BY <2>9 DEF LockFullAgain, ReadWord, WillLock
    <3> QED
      BY <3>1, <3>2, <3>3, StrandFrame
  <2>10. CASE LockFullSetParked(t)
    <3>1. \A m \in Mutexes : word[m].locked => word'[m].locked
      BY <2>10 DEF LockFullSetParked, SetWord, Free, Held, HeldAndParked
    <3>2. \A w \in Threads : parkedOn'[w] \in Mutexes => parkedOn[w] = parkedOn'[w]
      BY <2>10 DEF LockFullSetParked, SetWord, Free, Held, HeldAndParked
    <3>3. \A w \in Threads : WillLock(w) /\ mutex[w] \in Mutexes =>
              word'[mutex[w]].locked \/ (WillLock(w)' /\ mutex'[w] = mutex[w])
      BY <2>10 DEF LockFullSetParked, SetWord, Free, Held, HeldAndParked, WillLock
    <3> QED
      BY <3>1, <3>2, <3>3, StrandFrame
  <2>11. CASE LockFullSeesParked(t)
    <3>1. \A m \in Mutexes : word[m].locked => word'[m].locked
      BY <2>11 DEF LockFullSeesParked, Free, HeldAndParked
    <3>2. \A w \in Threads : parkedOn'[w] \in Mutexes => parkedOn[w] = parkedOn'[w]
      BY <2>11 DEF LockFullSeesParked, Free, HeldAndParked
    <3>3. \A w \in Threads : WillLock(w) /\ mutex[w] \in Mutexes =>
              word'[mutex[w]].locked \/ (WillLock(w)' /\ mutex'[w] = mutex[w])
      BY <2>11 DEF LockFullSeesParked, Free, HeldAndParked, WillLock
    <3> QED
      BY <3>1, <3>2, <3>3, StrandFrame
  <2>12. CASE ParkLockBucket(t)
    <3>1. \A m \in Mutexes : word[m].locked => word'[m].locked
      BY <2>12 DEF ParkLockBucket, LockBucket
    <3>2. \A w \in Threads : parkedOn'[w] \in Mutexes => parkedOn[w] = parkedOn'[w]
      BY <2>12 DEF ParkLockBucket, LockBucket
    <3>3. \A w \in Threads : WillLock(w) /\ mutex[w] \in Mutexes =>
              word'[mutex[w]].locked \/ (WillLock(w)' /\ mutex'[w] = mutex[w])
      BY <2>12 DEF ParkLockBucket, LockBucket, WillLock
    <3> QED
      BY <3>1, <3>2, <3>3, StrandFrame
  <2>13. CASE ParkValidates(t)
    <3>1. \A m \in Mutexes : word[m].locked => word'[m].locked
      BY <2>13 DEF ParkValidates, ParkIsValid, HeldAndParked
    <3>2. \A w \in Threads : parkedOn'[w] \in Mutexes => parkedOn[w] = parkedOn'[w]
      BY <2>13 DEF ParkValidates, ParkIsValid, HeldAndParked
    <3>3. \A w \in Threads : WillLock(w) /\ mutex[w] \in Mutexes =>
              word'[mutex[w]].locked \/ (WillLock(w)' /\ mutex'[w] = mutex[w])
      BY <2>13 DEF ParkValidates, ParkIsValid, HeldAndParked, WillLock
    <3> QED
      BY <3>1, <3>2, <3>3, StrandFrame
  <2>14. CASE ParkIsInvalid(t)
    <3>1. \A m \in Mutexes : word[m].locked => word'[m].locked
      BY <2>14 DEF ParkIsInvalid, UnlockBuckets, ParkIsValid, HeldAndParked
    <3>2. \A w \in Threads : parkedOn'[w] \in Mutexes => parkedOn[w] = parkedOn'[w]
      BY <2>14 DEF ParkIsInvalid, UnlockBuckets, ParkIsValid, HeldAndParked
    <3>3. \A w \in Threads : WillLock(w) /\ mutex[w] \in Mutexes =>
              word'[mutex[w]].locked \/ (WillLock(w)' /\ mutex'[w] = mutex[w])
      BY <2>14 DEF ParkIsInvalid, UnlockBuckets, ParkIsValid, HeldAndParked, WillLock
    <3> QED
      BY <3>1, <3>2, <3>3, StrandFrame
  <2>15. CASE ParkEnqueue(t)
    <3>1. /\ mutex[t] \in Mutexes /\ word'[mutex[t]].locked
          /\ parkedOn' = [parkedOn EXCEPT ![t] = mutex[t]] /\ UNCHANGED <<word, mutex>>
          /\ pc[t] = "parkEnqueue" /\ pc'[t] = "parked"
      BY <2>15 DEF ParkEnqueue, Enqueue, WordInv, Announced, HeldAndParked
    <3>2. \A w \in Threads \ {t} : WillLock(w) => WillLock(w)'
      BY <3>1 DEF WillLock
    <3>3. ASSUME NEW m \in Mutexes, m # mutex[t]
          PROVE  Sleepers(m)' # {} => word'[m].locked \/ \E w \in Threads : mutex'[w] = m /\ WillLock(w)'
      <4>1. \A w \in Threads \ {t} : parkedOn'[w] = parkedOn[w]
        BY <3>1
      <4>2. ~WillLock(t) \/ mutex[t] # m
        BY <3>3
      <4>3. \A w \in Threads : parkedOn'[w] = m => parkedOn[w] = m
        BY <3>1, <3>3
      <4> QED
        BY <3>1, <3>2, <4>2, <4>3 DEF NoStrandedSleeper, Sleepers
    <3> QED
      BY <3>1, <3>3 DEF NoStrandedSleeper
  <2>16. CASE ParkReturns(t)
    <3>1. \A m \in Mutexes : word[m].locked => word'[m].locked
      BY <2>16 DEF ParkReturns
    <3>2. \A w \in Threads : parkedOn'[w] \in Mutexes => parkedOn[w] = parkedOn'[w]
      BY <2>16 DEF ParkReturns
    <3>3. \A w \in Threads : WillLock(w) /\ mutex[w] \in Mutexes =>
              word'[mutex[w]].locked \/ (WillLock(w)' /\ mutex'[w] = mutex[w])
      BY <2>16 DEF ParkReturns, WillLock
    <3> QED
      BY <3>1, <3>2, <3>3, StrandFrame
  <2>17. CASE UnlockFast(t)
    <3>1. /\ mutex[t] \in Mutexes /\ ~word[mutex[t]].parked
          /\ \A n \in Mutexes \ {mutex[t]} : word'[n] = word[n]
      BY <2>17 DEF UnlockFast, SetWord, ReturnFromUnlock, Free, Held
    <3>2. UNCHANGED parkedOn
      BY <2>17 DEF UnlockFast
    <3>3. \A w \in Threads : parkedOn'[w] # mutex[t]
      BY <3>1, <3>2 DEF WordInv, Announced
    <3>4. \A w \in Threads : WillLock(w) => WillLock(w)' /\ mutex'[w] = mutex[w]
      BY <2>17 DEF UnlockFast, ReturnFromUnlock, WillLock
    <3>5. \A m \in Mutexes : word[m].locked =>
              word'[m].locked \/ \A w \in Threads : parkedOn'[w] # m
      BY <3>1, <3>3
    <3> QED
      BY <3>2, <3>4, <3>5, StrandFrame
  <2>18. CASE UnlockFastFails(t)
    <3>1. \A m \in Mutexes : word[m].locked => word'[m].locked
      BY <2>18 DEF UnlockFastFails
    <3>2. \A w \in Threads : parkedOn'[w] \in Mutexes => parkedOn[w] = parkedOn'[w]
      BY <2>18 DEF UnlockFastFails
    <3>3. \A w \in Threads : WillLock(w) /\ mutex[w] \in Mutexes =>
              word'[mutex[w]].locked \/ (WillLock(w)' /\ mutex'[w] = mutex[w])
      BY <2>18 DEF UnlockFastFails, WillLock
    <3> QED
      BY <3>1, <3>2, <3>3, StrandFrame
  <2>19. CASE UnlockFullFails(t)
    <3>1. \A m \in Mutexes : word[m].locked => word'[m].locked
      BY <2>19 DEF UnlockFullFails, Held
    <3>2. \A w \in Threads : parkedOn'[w] \in Mutexes => parkedOn[w] = parkedOn'[w]
      BY <2>19 DEF UnlockFullFails, Held
    <3>3. \A w \in Threads : WillLock(w) /\ mutex[w] \in Mutexes =>
              word'[mutex[w]].locked \/ (WillLock(w)' /\ mutex'[w] = mutex[w])
      BY <2>19 DEF UnlockFullFails, Held, WillLock
    <3> QED
      BY <3>1, <3>2, <3>3, StrandFrame
  <2>20. CASE UnparkLockBucket(t)
    <3>1. \A m \in Mutexes : word[m].locked => word'[m].locked
      BY <2>20 DEF UnparkLockBucket, LockBucket
    <3>2. \A w \in Threads : parkedOn'[w] \in Mutexes => parkedOn[w] = parkedOn'[w]
      BY <2>20 DEF UnparkLockBucket, LockBucket
    <3>3. \A w \in Threads : WillLock(w) /\ mutex[w] \in Mutexes =>
              word'[mutex[w]].locked \/ (WillLock(w)' /\ mutex'[w] = mutex[w])
      BY <2>20 DEF UnparkLockBucket, LockBucket, WillLock
    <3> QED
      BY <3>1, <3>2, <3>3, StrandFrame
  <2>21. ASSUME NEW u \in Threads, UnparkPick(t, u) PROVE NoStrandedSleeper'
    <3>1. /\ mutex[t] \in Mutexes /\ \A n \in Mutexes \ {mutex[t]} : word'[n] = word[n]
          /\ parkedOn' = [parkedOn EXCEPT ![u] = Nowhere]
          /\ UNCHANGED mutex
      BY <2>21 DEF UnparkPick, TakeOne, SetWord
    <3>2. WillLock(u)' /\ mutex'[u] = mutex[t]
      <4>1. shouldPark[u] /\ mutex[u] = mutex[t]
        BY <2>21, <3>1 DEF UnparkPick, TakeOne, Sleepers
      <4>2. CASE u = t
        BY <2>21, <3>1, <4>1, <4>2 DEF UnparkPick, WillLock
      <4>3. CASE u # t
        <5>1. ~Holding(u)
          BY <2>21, <3>1, <4>1, <4>3 DEF UnparkPick, MutualExclusion, Holders, Holding
        <5> QED
          BY <2>21, <3>1, <4>1, <4>3, <5>1 DEF UnparkPick, Holding, WillLock
      <4> QED
        BY <4>2, <4>3
    <3>3. \A w \in Threads : WillLock(w) => WillLock(w)'
      BY <2>21, <3>1 DEF UnparkPick, WillLock
    <3> QED
      BY <3>1, <3>2, <3>3 DEF NoStrandedSleeper, Sleepers
  <2>22. CASE UnparkNobody(t)
    <3>1. /\ mutex[t] \in Mutexes /\ \A n \in Mutexes \ {mutex[t]} : word'[n] = word[n]
          /\ UNCHANGED parkedOn /\ \A w \in Threads : parkedOn'[w] # mutex[t]
      BY <2>22 DEF UnparkNobody, SetWord, Sleepers
    <3>2. \A w \in Threads : WillLock(w) => WillLock(w)' /\ mutex'[w] = mutex[w]
      BY <2>22 DEF UnparkNobody, WillLock
    <3>3. \A m \in Mutexes : word[m].locked =>
              word'[m].locked \/ \A w \in Threads : parkedOn'[w] # m
      BY <3>1
    <3> QED
      BY <3>1, <3>2, <3>3, StrandFrame
  <2>23. CASE WaitLockBucket(t)
    <3>1. \A m \in Mutexes : word[m].locked => word'[m].locked
      BY <2>23 DEF WaitLockBucket, LockBucket
    <3>2. \A w \in Threads : parkedOn'[w] \in Mutexes => parkedOn[w] = parkedOn'[w]
      BY <2>23 DEF WaitLockBucket, LockBucket
    <3>3. \A w \in Threads : WillLock(w) /\ mutex[w] \in Mutexes =>
              word'[mutex[w]].locked \/ (WillLock(w)' /\ mutex'[w] = mutex[w])
      BY <2>23 DEF WaitLockBucket, LockBucket, WillLock
    <3> QED
      BY <3>1, <3>2, <3>3, StrandFrame
  <2>24. CASE WaitValidates(t)
    <3>1. \A m \in Mutexes : word[m].locked => word'[m].locked
      BY <2>24 DEF WaitValidates, SetCond
    <3>2. \A w \in Threads : parkedOn'[w] \in Mutexes => parkedOn[w] = parkedOn'[w]
      BY <2>24 DEF WaitValidates, SetCond
    <3>3. \A w \in Threads : WillLock(w) /\ mutex[w] \in Mutexes =>
              word'[mutex[w]].locked \/ (WillLock(w)' /\ mutex'[w] = mutex[w])
      BY <2>24 DEF WaitValidates, SetCond, WillLock
    <3> QED
      BY <3>1, <3>2, <3>3, StrandFrame
  <2>25. CASE WaitIsInvalid(t)
    <3>1. \A m \in Mutexes : word[m].locked => word'[m].locked
      BY <2>25 DEF WaitIsInvalid, UnlockBuckets
    <3>2. \A w \in Threads : parkedOn'[w] \in Mutexes => parkedOn[w] = parkedOn'[w]
      BY <2>25 DEF WaitIsInvalid, UnlockBuckets
    <3>3. \A w \in Threads : WillLock(w) /\ mutex[w] \in Mutexes =>
              word'[mutex[w]].locked \/ (WillLock(w)' /\ mutex'[w] = mutex[w])
      BY <2>25 DEF WaitIsInvalid, UnlockBuckets, WillLock
    <3> QED
      BY <3>1, <3>2, <3>3, StrandFrame
  <2>26. CASE WaitEnqueue(t)
    <3>1. \A m \in Mutexes : word[m].locked => word'[m].locked
      BY <2>26 DEF WaitEnqueue, UnlockBuckets, Sleepers, Enqueue
    <3>2. \A w \in Threads : parkedOn'[w] \in Mutexes => parkedOn[w] = parkedOn'[w]
      BY <2>26 DEF WaitEnqueue, UnlockBuckets, Sleepers, Enqueue
    <3>3. \A w \in Threads : WillLock(w) /\ mutex[w] \in Mutexes =>
              word'[mutex[w]].locked \/ (WillLock(w)' /\ mutex'[w] = mutex[w])
      BY <2>26 DEF WaitEnqueue, UnlockBuckets, Sleepers, Enqueue, WillLock
    <3> QED
      BY <3>1, <3>2, <3>3, StrandFrame
  <2>27. CASE WaitReturns(t)
    <3>1. \A m \in Mutexes : word[m].locked => word'[m].locked
      BY <2>27 DEF WaitReturns
    <3>2. \A w \in Threads : parkedOn'[w] \in Mutexes => parkedOn[w] = parkedOn'[w]
      BY <2>27 DEF WaitReturns
    <3>3. \A w \in Threads : WillLock(w) /\ mutex[w] \in Mutexes =>
              word'[mutex[w]].locked \/ (WillLock(w)' /\ mutex'[w] = mutex[w])
      BY <2>27 DEF WaitReturns, WillLock
    <3> QED
      BY <3>1, <3>2, <3>3, StrandFrame
  <2>28. CASE NotifyNobody(t)
    <3>1. \A m \in Mutexes : word[m].locked => word'[m].locked
      BY <2>28 DEF NotifyNobody, ReturnFromNotify
    <3>2. \A w \in Threads : parkedOn'[w] \in Mutexes => parkedOn[w] = parkedOn'[w]
      BY <2>28 DEF NotifyNobody, ReturnFromNotify
    <3>3. \A w \in Threads : WillLock(w) /\ mutex[w] \in Mutexes =>
              word'[mutex[w]].locked \/ (WillLock(w)' /\ mutex'[w] = mutex[w])
      BY <2>28 DEF NotifyNobody, ReturnFromNotify, WillLock
    <3> QED
      BY <3>1, <3>2, <3>3, StrandFrame
  <2>29. CASE SignalLoad(t)
    <3>1. \A m \in Mutexes : word[m].locked => word'[m].locked
      BY <2>29 DEF SignalLoad
    <3>2. \A w \in Threads : parkedOn'[w] \in Mutexes => parkedOn[w] = parkedOn'[w]
      BY <2>29 DEF SignalLoad
    <3>3. \A w \in Threads : WillLock(w) /\ mutex[w] \in Mutexes =>
              word'[mutex[w]].locked \/ (WillLock(w)' /\ mutex'[w] = mutex[w])
      BY <2>29 DEF SignalLoad, WillLock
    <3> QED
      BY <3>1, <3>2, <3>3, StrandFrame
  <2>30. CASE SignalLockBucket(t)
    <3>1. \A m \in Mutexes : word[m].locked => word'[m].locked
      BY <2>30 DEF SignalLockBucket, LockBucket
    <3>2. \A w \in Threads : parkedOn'[w] \in Mutexes => parkedOn[w] = parkedOn'[w]
      BY <2>30 DEF SignalLockBucket, LockBucket
    <3>3. \A w \in Threads : WillLock(w) /\ mutex[w] \in Mutexes =>
              word'[mutex[w]].locked \/ (WillLock(w)' /\ mutex'[w] = mutex[w])
      BY <2>30 DEF SignalLockBucket, LockBucket, WillLock
    <3> QED
      BY <3>1, <3>2, <3>3, StrandFrame
  <2>31. ASSUME NEW u \in Threads, SignalPick(t, u) PROVE NoStrandedSleeper'
    <3>1. \A m \in Mutexes : word[m].locked => word'[m].locked
      BY <2>31 DEF SignalPick, SetCond, Sleepers, TakeOne, MoreWaiters
    <3>2. \A w \in Threads : parkedOn'[w] \in Mutexes => parkedOn[w] = parkedOn'[w]
      BY <2>31 DEF SignalPick, SetCond, Sleepers, TakeOne, MoreWaiters
    <3>3. \A w \in Threads : WillLock(w) /\ mutex[w] \in Mutexes =>
              word'[mutex[w]].locked \/ (WillLock(w)' /\ mutex'[w] = mutex[w])
      BY <2>31 DEF SignalPick, SetCond, Sleepers, TakeOne, MoreWaiters, WillLock
    <3> QED
      BY <3>1, <3>2, <3>3, StrandFrame
  <2>32. CASE SignalFindsNobody(t)
    <3>1. \A m \in Mutexes : word[m].locked => word'[m].locked
      BY <2>32 DEF SignalFindsNobody, SetCond, Sleepers
    <3>2. \A w \in Threads : parkedOn'[w] \in Mutexes => parkedOn[w] = parkedOn'[w]
      BY <2>32 DEF SignalFindsNobody, SetCond, Sleepers
    <3>3. \A w \in Threads : WillLock(w) /\ mutex[w] \in Mutexes =>
              word'[mutex[w]].locked \/ (WillLock(w)' /\ mutex'[w] = mutex[w])
      BY <2>32 DEF SignalFindsNobody, SetCond, Sleepers, WillLock
    <3> QED
      BY <3>1, <3>2, <3>3, StrandFrame
  <2>33. CASE BcastLoad(t)
    <3>1. \A m \in Mutexes : word[m].locked => word'[m].locked
      BY <2>33 DEF BcastLoad
    <3>2. \A w \in Threads : parkedOn'[w] \in Mutexes => parkedOn[w] = parkedOn'[w]
      BY <2>33 DEF BcastLoad
    <3>3. \A w \in Threads : WillLock(w) /\ mutex[w] \in Mutexes =>
              word'[mutex[w]].locked \/ (WillLock(w)' /\ mutex'[w] = mutex[w])
      BY <2>33 DEF BcastLoad, WillLock
    <3> QED
      BY <3>1, <3>2, <3>3, StrandFrame
  <2>34. CASE BcastLockFirst(t)
    <3>1. \A m \in Mutexes : word[m].locked => word'[m].locked
      BY <2>34 DEF BcastLockFirst, LockBucket
    <3>2. \A w \in Threads : parkedOn'[w] \in Mutexes => parkedOn[w] = parkedOn'[w]
      BY <2>34 DEF BcastLockFirst, LockBucket
    <3>3. \A w \in Threads : WillLock(w) /\ mutex[w] \in Mutexes =>
              word'[mutex[w]].locked \/ (WillLock(w)' /\ mutex'[w] = mutex[w])
      BY <2>34 DEF BcastLockFirst, LockBucket, WillLock
    <3> QED
      BY <3>1, <3>2, <3>3, StrandFrame
  <2>35. CASE BcastLockSecond(t)
    <3>1. \A m \in Mutexes : word[m].locked => word'[m].locked
      BY <2>35 DEF BcastLockSecond, LockBucket
    <3>2. \A w \in Threads : parkedOn'[w] \in Mutexes => parkedOn[w] = parkedOn'[w]
      BY <2>35 DEF BcastLockSecond, LockBucket
    <3>3. \A w \in Threads : WillLock(w) /\ mutex[w] \in Mutexes =>
              word'[mutex[w]].locked \/ (WillLock(w)' /\ mutex'[w] = mutex[w])
      BY <2>35 DEF BcastLockSecond, LockBucket, WillLock
    <3> QED
      BY <3>1, <3>2, <3>3, StrandFrame
  <2>36. CASE BcastIsInvalid(t)
    <3>1. \A m \in Mutexes : word[m].locked => word'[m].locked
      BY <2>36 DEF BcastIsInvalid
    <3>2. \A w \in Threads : parkedOn'[w] \in Mutexes => parkedOn[w] = parkedOn'[w]
      BY <2>36 DEF BcastIsInvalid
    <3>3. \A w \in Threads : WillLock(w) /\ mutex[w] \in Mutexes =>
              word'[mutex[w]].locked \/ (WillLock(w)' /\ mutex'[w] = mutex[w])
      BY <2>36 DEF BcastIsInvalid, WillLock
    <3> QED
      BY <3>1, <3>2, <3>3, StrandFrame
  <2>37. CASE BcastValidates(t)
    <3>1. \A m \in Mutexes : word[m].locked => word'[m].locked
      BY <2>37 DEF BcastValidates, SetCond
    <3>2. \A w \in Threads : parkedOn'[w] \in Mutexes => parkedOn[w] = parkedOn'[w]
      BY <2>37 DEF BcastValidates, SetCond
    <3>3. \A w \in Threads : WillLock(w) /\ mutex[w] \in Mutexes =>
              word'[mutex[w]].locked \/ (WillLock(w)' /\ mutex'[w] = mutex[w])
      BY <2>37 DEF BcastValidates, SetCond, WillLock
    <3> QED
      BY <3>1, <3>2, <3>3, StrandFrame
  <2>38. CASE BcastMakeParked(t)
    <3>1. \A m \in Mutexes : word[m].locked => word'[m].locked
      BY <2>38, MakeParkedEffect
    <3>2. \A w \in Threads : parkedOn'[w] \in Mutexes => parkedOn[w] = parkedOn'[w]
      BY <2>38 DEF BcastMakeParked
    <3>3. \A w \in Threads : WillLock(w) /\ mutex[w] \in Mutexes =>
              word'[mutex[w]].locked \/ (WillLock(w)' /\ mutex'[w] = mutex[w])
      BY <2>38 DEF BcastMakeParked, WillLock
    <3> QED
      BY <3>1, <3>2, <3>3, StrandFrame
  <2>39. ASSUME NEW u \in Threads \union {NoThread}, BcastMove(t, u) PROVE NoStrandedSleeper'
    <3>1. /\ condition[t] \in Conds /\ target[t] \in Mutexes /\ UNCHANGED mutex
          /\ pc[t] = "bcastMove" /\ pc'[t] = "release"
      BY <2>39 DEF BcastMove
    <3>2. \A m \in Mutexes : word'[m].locked = word[m].locked
      BY <2>39, MoveEffect
    <3>3. ASSUME NEW w \in Threads, WillLock(w) PROVE WillLock(w)' /\ mutex'[w] = mutex[w]
      BY <2>39, <3>1, <3>3, MoveLists DEF WillLock
    <3>4. ASSUME NEW m \in Mutexes, m # target[t]
          PROVE  Sleepers(m)' # {} => word'[m].locked \/ \E w \in Threads : mutex'[w] = m /\ WillLock(w)'
      <4>1. \A w \in Threads : parkedOn'[w] = m => parkedOn[w] = m
        BY <2>39, <3>1, <3>4, MoveLists
      <4> QED
        BY <3>2, <3>3, <4>1, SMTT(30) DEF NoStrandedSleeper, Sleepers
    <3>5. (\E w \in Threads : parkedOn'[w] = target[t]) =>
              word'[target[t]].locked \/ \E w \in Threads : mutex'[w] = target[t] /\ WillLock(w)'
      <4>1. CASE ~wakeOne[t]
        BY <3>1, <3>2, <4>1 DEF WordInv, Announced, HeldAndParked
      <4>2. CASE wakeOne[t] /\ Sleepers(condition[t]) = {}
        <5>1. \A w \in Threads : parkedOn'[w] = parkedOn[w]
          BY <2>39, <4>2, MoveLists DEF Sleepers
        <5>2. NoStrandedSleeper'
          BY <3>2, <3>3, <5>1, StrandFrame
        <5> QED
          BY <3>1, <5>2 DEF NoStrandedSleeper, Sleepers
      <4>3. CASE wakeOne[t] /\ Sleepers(condition[t]) # {}
        <5>1. u \in Threads /\ parkedOn[u] = condition[t]
          BY <2>39, <4>3 DEF BcastMove, Sleepers
        <5>2. mutex[u] = target[t]
          BY <3>1, <5>1 DEF CondInv, OnCond, Untied, Moving, MovingPcs
        <5>3. parkedOn'[u] = Nowhere /\ shouldPark[u] /\ u # t
          BY <2>39, <3>1, <5>1, MoveLists
        <5>4. CASE ~word[target[t]].locked
          <6>1. pc[u] \in LockPcs \union {"sleep"} \/ (pc[u] \in {"release", "wake"} /\ return[u] = "sleep")
            BY <3>1, <5>1, <5>2, <5>3, <5>4, SleeperWillLock
          <6>2. WillLock(u)'
            BY <5>1, <5>3, <6>1 DEF WillLock
          <6> QED
            BY <3>1, <5>1, <5>2, <6>2
        <5> QED
          BY <3>1, <3>2, <5>4
      <4> QED
        BY <4>1, <4>2, <4>3
    <3> QED
      BY <3>4, <3>5 DEF NoStrandedSleeper, Sleepers
  <2>40. CASE Release(t)
    <3>1. \A m \in Mutexes : word[m].locked => word'[m].locked
      BY <2>40 DEF Release, UnlockBuckets, ReturnFromUnlock, ReturnFromNotify, ReturnFromUnpark
    <3>2. \A w \in Threads : parkedOn'[w] \in Mutexes => parkedOn[w] = parkedOn'[w]
      BY <2>40 DEF Release, UnlockBuckets, ReturnFromUnlock, ReturnFromNotify, ReturnFromUnpark
    <3>3. \A w \in Threads : WillLock(w) /\ mutex[w] \in Mutexes =>
              word'[mutex[w]].locked \/ (WillLock(w)' /\ mutex'[w] = mutex[w])
      BY <2>40, Returning DEF Release, UnlockBuckets, ReturnFromUnlock, ReturnFromNotify, ReturnFromUnpark, WillLock
    <3> QED
      BY <3>1, <3>2, <3>3, StrandFrame
  <2>41. CASE Wake(t)
    <3>1. \A m \in Mutexes : word[m].locked => word'[m].locked
      BY <2>41 DEF Wake, ReturnFromUnlock, ReturnFromNotify, ReturnFromUnpark
    <3>2. \A w \in Threads : parkedOn'[w] \in Mutexes => parkedOn[w] = parkedOn'[w]
      BY <2>41 DEF Wake, ReturnFromUnlock, ReturnFromNotify, ReturnFromUnpark
    <3>3. \A w \in Threads : WillLock(w) /\ mutex[w] \in Mutexes =>
              word'[mutex[w]].locked \/ (WillLock(w)' /\ mutex'[w] = mutex[w])
      BY <2>41, Returning DEF Wake, ReturnFromUnlock, ReturnFromNotify, ReturnFromUnpark, WillLock
    <3> QED
      BY <3>1, <3>2, <3>3, StrandFrame
  <2> QED
    BY <1>2, <2>1, <2>2, <2>3, <2>4, <2>5, <2>6, <2>7, <2>8, <2>9, <2>10, <2>11, <2>12, <2>13, <2>14, <2>15,
       <2>16, <2>17, <2>18, <2>19, <2>20, <2>21, <2>22, <2>23, <2>24, <2>25, <2>26, <2>27, <2>28, <2>29,
       <2>30, <2>31, <2>32, <2>33, <2>34, <2>35, <2>36, <2>37, <2>38, <2>39, <2>40, <2>41 DEF Client, Library,
       LockNext, UnlockNext, WaitNext, NotifyNext
<1> QED
  BY <1>1, <1>2 DEF Next

\* At first nobody is in a call, holds a mutex or sleeps.
LEMMA InitIInv == Init => IInv
<1> SUFFICES ASSUME Init PROVE IInv
  OBVIOUS
<1> USE NullAssumption
<1>1. TypeOK
  BY DEF Init, TypeOK, Word, Free, Pcs, Addresses
<1>2. LocalInv
  BY DEF Init, LocalInv, Local, InWait, InUnlock, InNotify, LockPcs, UnlockPcs, WaitPcs, SignalPcs, BcastPcs
<1>3. BucketInv
  BY DEF Init, BucketInv, Owning, OwnerPcs, CondPcs, MovingPcs
<1>4. ListInv
  BY DEF Init, ListInv, Listed, Addresses
<1>5. CondInv
  BY DEF Init, CondInv, OnCond, Tied, Untied, Validated, Moving, MovingPcs, Addresses
<1>6. WordInv
  BY DEF Init, WordInv, Announced, Addresses
<1>7. MutualExclusion
  <2>1. \A t \in Threads : ~Holding(t)
    BY DEF Init, Holding, NotifyPcs, UnlockPcs, WaitPcs, SignalPcs, BcastPcs
  <2>2. \A m \in Mutexes : ~word[m].locked
    BY DEF Init, Free
  <2> QED
    BY <2>1, <2>2 DEF MutualExclusion, Holders
<1>8. NoStrandedSleeper /\ WakesSleepers
  BY DEF Init, NoStrandedSleeper, Sleepers, WakesSleepers, Addresses
<1> QED
  BY <1>1, <1>2, <1>3, <1>4, <1>5, <1>6, <1>7, <1>8 DEF IInv

\* The parts of the invariant are kept together: each needs some of the others.
LEMMA NextIInv == IInv /\ [Next]_vars => IInv'
<1> SUFFICES ASSUME IInv, [Next]_vars PROVE IInv'
  OBVIOUS
<1>1. /\ TypeOK /\ LocalInv /\ BucketInv /\ ListInv /\ CondInv /\ WordInv
      /\ MutualExclusion /\ NoStrandedSleeper /\ WakesSleepers
  BY DEF IInv
<1>2. TypeOK' /\ LocalInv' /\ BucketInv' /\ ListInv'
  BY <1>1, NextTypeOK, NextLocalInv, NextBucketInv, NextListInv
<1>3. CondInv' /\ WordInv'
  BY <1>1, NextCondInv, NextWordInv
<1>4. MutualExclusion' /\ NoStrandedSleeper' /\ WakesSleepers'
  BY <1>1, NextMutualExclusion, NextNoStrandedSleeper, NextWakesSleepers
<1> QED
  BY <1>2, <1>3, <1>4 DEF IInv

\* The inductive invariant always holds.
LEMMA Invariance == Spec => []IInv
  BY InitIInv, NextIInv, PTL DEF Spec

\* Every variable stays in its type: no call leaves a thread where no line of the
\* code is, and every address a thread sleeps at is one of a mutex or a condition.
THEOREM TypeCorrect == Spec => []TypeOK
<1>1. IInv => TypeOK
  BY DEF IInv
<1> QED
  BY <1>1, Invariance, PTL

\* fast_mutex is a lock: the lock bit of every mutex is set exactly while one thread
\* holds it, across the fast paths, parking, and the waits of conditions.
THEOREM MutexesExclude == Spec => []MutualExclusion
<1>1. IInv => MutualExclusion
  BY DEF IInv
<1> QED
  BY <1>1, Invariance, PTL

\* No unlock takes the fast path past a sleeper: the parked bit of a mutex with sleepers
\* is set, whoever stored the word last.
THEOREM SleepersAnnounced == Spec => []SleepersAreAnnounced
<1>1. IInv => SleepersAreAnnounced
  BY DEF IInv, WordInv, Announced, SleepersAreAnnounced, Sleepers
<1> QED
  BY <1>1, Invariance, PTL

\* While threads sleep at a mutex somebody holds it, or is awake and about to take
\* it: no sleep of lock() or wait() is forgotten, whatever broadcast moves there.
THEOREM NobodyIsStranded == Spec => []NoStrandedSleeper
<1>1. IInv => NoStrandedSleeper
  BY DEF IInv
<1> QED
  BY <1>1, Invariance, PTL

\* An unpark touches the parker of a thread that still sleeps on it, and no two
\* unparks have taken the same thread.
THEOREM UnparksReachSleepers == Spec => []WakesSleepers
<1>1. IInv => WakesSleepers
  BY DEF IInv
<1> QED
  BY <1>1, Invariance, PTL

\* A condition whose bucket nobody owns names the mutex of all its waiters: the only
\* time it does not is inside a broadcast, which owns the bucket.
THEOREM ConditionsTrackWaiters == Spec => []CondTracksWaiters
<1>1. IInv => CondTracksWaiters
  <2> SUFFICES ASSUME IInv, NEW c \in Conds, bucketOwner[BucketOf[c]] = NoThread,
                      NEW t \in Threads, parkedOn[t] = c
               PROVE  cond[c] = mutex[t]
    BY DEF CondTracksWaiters, Sleepers
  <2>1. Tied(t)
    BY DEF IInv, CondInv, OnCond
  <2>2. ASSUME NEW u \in Threads, Moving(u), condition[u] = c PROVE FALSE
    <3>1. bucketOwner[BucketOf[c]] = u
      BY <2>2 DEF IInv, BucketInv, Owning, Moving, CondPcs
    <3> QED
      BY <3>1, NullAssumption
  <2> QED
    BY <2>1, <2>2 DEF Tied
<1> QED
  BY <1>1, Invariance, PTL

\* Broadcasts lock the buckets of their condition and their mutex in the order of the
\* hashes, so that two of them never wait for each other.
THEOREM BroadcastsDoNotDeadlock == Spec => []NoBucketDeadlock
<1>1. IInv => NoBucketDeadlock
  <2> SUFFICES ASSUME IInv, NEW t \in Threads, NEW u \in Threads,
                      pc[t] = "bcastSecond", bucketOwner[SecondBucket(t)] = u,
                      pc[u] = "bcastSecond", bucketOwner[SecondBucket(u)] = t
               PROVE  FALSE
    BY DEF NoBucketDeadlock
  <2>1. /\ condition[t] \in Addresses /\ target[t] \in Addresses
        /\ condition[u] \in Addresses /\ target[u] \in Addresses
    BY DEF IInv, LocalInv, Local, InNotify, InWait, InUnlock, BcastPcs, UnlockPcs, SignalPcs, Addresses
  <2>2. /\ SecondBucket(t) = FirstBucket(u) /\ FirstBucket(t) < SecondBucket(t)
        /\ SecondBucket(u) = FirstBucket(t) /\ FirstBucket(u) < SecondBucket(u)
    BY <2>1, Ordered DEF IInv, BucketInv, Owning
  <2>3. /\ FirstBucket(t) \in Nat /\ SecondBucket(t) \in Nat
        /\ FirstBucket(u) \in Nat /\ SecondBucket(u) \in Nat
    BY <2>1, Ordered
  <2> QED
    BY <2>2, <2>3
<1> QED
  BY <1>1, Invariance, PTL
-----------------------------------------------------------------------------
(* Every fast_mutex implements the abstract lock. *)

\* The lock that the clients of one mutex see.
Lock(m) == INSTANCE AbstractLock WITH owner <- Owner(m), waiting <- Waiting(m)
ImplementsLock(m) == Lock(m)!Spec

\* A thread has found that it cannot have its mutex at once.
Wanting(t) == pc[t] \in LockPcs \ {"lock"}

\* The steps that are seen at the abstract level, LockFastFails aside.
Takes(t) == LockFast(t) \/ LockFullTake(t)
Frees(t) == UnlockFast(t) \/ UnparkNobody(t) \/ \E u \in Threads : UnparkPick(t, u)

\* A free mutex is the free abstract lock.
LEMMA RefinesInit == ASSUME NEW m \in Mutexes PROVE Init => Lock(m)!Init
BY DEF Init, Lock!Init, Owner, Holders, Holding, Waiting, LockPcs, NotifyPcs, UnlockPcs, WaitPcs,
       SignalPcs, BcastPcs

\* The abstract owner is the one holder of the mutex, when it has one.
LEMMA OwnerIsHolder ==
  ASSUME MutualExclusion, NEW m \in Mutexes
  PROVE  /\ \A t \in Holders(m) : Owner(m) = t
         /\ ~word[m].locked => Owner(m) = NoThread
         /\ Owner(m) # NoThread => Owner(m) \in Holders(m)
BY DEF MutualExclusion, Owner

\* The other steps leave a thread what it is to its mutex: its holder, one of those that
\* wait for it, or neither.
LEMMA KeepsRole ==
  ASSUME TypeOK, LocalInv, NEW t \in Threads, Client(t) \/ Library(t),
         ~Takes(t), ~Frees(t), ~LockFastFails(t)
  PROVE  /\ Holding(t)' <=> Holding(t)
         /\ Wanting(t)' <=> Wanting(t)
         /\ Holding(t) \/ Wanting(t) => mutex'[t] = mutex[t]
<1> Local(t)
  BY DEF LocalInv
<1> USE NullAssumption DEF TypeOK, Local, Holding, Wanting, NotifyPcs, Goto, Pcs, LockPcs, UnlockPcs,
      WaitPcs, SignalPcs, BcastPcs, InWait, InUnlock, InNotify
<1>1. CASE Client(t)
  BY <1>1 DEF Client, CallLock, CallUnlock, CallWait, CallNotify
<1>2. CASE LockNext(t)
  <2>1. \/ LockFullLoad(t) \/ LockFullAgain(t) \/ LockFullSetParked(t) \/ LockFullSeesParked(t)
        \/ ParkLockBucket(t) \/ ParkValidates(t) \/ ParkIsInvalid(t) \/ ParkEnqueue(t) \/ ParkReturns(t)
    BY <1>2 DEF LockNext, Takes
  <2> QED
    BY <2>1 DEF LockFullLoad, LockFullAgain, LockFullSetParked, LockFullSeesParked, ParkLockBucket,
                ParkValidates, ParkIsInvalid, ParkEnqueue, ParkReturns
<1>3. CASE UnlockNext(t)
  <2>1. UnlockFastFails(t) \/ UnlockFullFails(t) \/ UnparkLockBucket(t)
    BY <1>3 DEF UnlockNext, Frees
  <2> QED
    BY <2>1 DEF UnlockFastFails, UnlockFullFails, UnparkLockBucket
<1>4. CASE WaitNext(t)
  BY <1>4 DEF WaitNext, WaitLockBucket, WaitValidates, WaitIsInvalid, WaitEnqueue, WaitReturns
<1>5. CASE NotifyNobody(t)
  BY <1>5 DEF NotifyNobody, ReturnFromNotify
<1>6. CASE NotifyNext(t) /\ ~NotifyNobody(t)
  <2>1. CASE SignalLoad(t) \/ SignalLockBucket(t) \/ (\E u \in Threads : SignalPick(t, u)) \/ SignalFindsNobody(t)
    BY <2>1 DEF SignalLoad, SignalLockBucket, SignalPick, SignalFindsNobody
  <2>2. CASE BcastLoad(t) \/ BcastLockSecond(t)
    BY <2>2 DEF BcastLoad, BcastLockSecond
  <2>3. CASE BcastLockFirst(t)
    BY <2>3 DEF BcastLockFirst
  <2>4. CASE BcastIsInvalid(t) \/ BcastValidates(t)
    BY <2>4 DEF BcastIsInvalid, BcastValidates
  <2>5. CASE BcastMakeParked(t)
    BY <2>5 DEF BcastMakeParked
  <2>6. CASE \E u \in Threads \union {NoThread} : BcastMove(t, u)
    BY <2>6 DEF BcastMove
  <2> QED
    BY <1>6, <2>1, <2>2, <2>3, <2>4, <2>5, <2>6 DEF NotifyNext
<1>7. CASE Release(t)
  BY <1>7, Returning DEF Release, ReturnFromUnlock, ReturnFromNotify, ReturnFromUnpark
<1>8. CASE Wake(t)
  BY <1>8, Returning DEF Wake, ReturnFromUnlock, ReturnFromNotify, ReturnFromUnpark
<1> QED
  BY <1>1, <1>2, <1>3, <1>4, <1>5, <1>6, <1>7, <1>8 DEF Library

\* What a step of t does to the holders and the waiters of a mutex is what it does to t's
\* own part in it.
LEMMA OthersKeepRole ==
  ASSUME NEW t \in Threads, \A w \in Threads \ {t} : Same(w), NEW m \in Mutexes
  PROVE  /\ Holders(m)' \ {t} = Holders(m) \ {t}
         /\ Waiting(m)' \ {t} = Waiting(m) \ {t}
         /\ (t \in Holders(m)' <=> t \in Holders(m)) => Holders(m)' = Holders(m)
         /\ (t \in Waiting(m)' <=> t \in Waiting(m)) => Waiting(m)' = Waiting(m)
<1>1. \A w \in Threads \ {t} : (Holding(w)' <=> Holding(w)) /\ mutex'[w] = mutex[w] /\ pc'[w] = pc[w]
  BY DEF Same, Holding
<1>2. \A w \in Threads \ {t} : w \in Holders(m)' <=> w \in Holders(m)
  BY <1>1 DEF Holders
<1>3. \A w \in Threads \ {t} : w \in Waiting(m)' <=> w \in Waiting(m)
  BY <1>1 DEF Waiting
<1>4. Holders(m) \subseteq Threads /\ Holders(m)' \subseteq Threads
      /\ Waiting(m) \subseteq Threads /\ Waiting(m)' \subseteq Threads
  BY DEF Holders, Waiting
<1> QED
  BY <1>2, <1>3, <1>4

\* A step that changes neither the holders nor the waiters is invisible.
LEMMA Invisible ==
  ASSUME NEW m \in Mutexes, Holders(m)' = Holders(m), Waiting(m)' = Waiting(m)
  PROVE  UNCHANGED Lock(m)!vars
BY DEF Lock!vars, Owner

\* A step is a step of the abstract lock, or leaves its owner and its waiters alone:
\* lock() requests or acquires, and the mutex is released when its bit is cleared, in
\* the fast path of unlock() or under the bucket lock.
LEMMA RefinesNext ==
  ASSUME NEW m \in Mutexes, IInv, IInv', [Next]_vars
  PROVE  [Lock(m)!Next]_(Lock(m)!vars)
<1> USE DEF IInv
<1>1. CASE UNCHANGED vars
  <2>1. Holders(m)' = Holders(m) /\ Waiting(m)' = Waiting(m)
    BY <1>1 DEF vars, Holders, Holding, Waiting
  <2> QED
    BY <2>1, Invisible
<1>2. ASSUME NEW t \in Threads, Client(t) \/ Library(t)
      PROVE  Lock(m)!Request(t) \/ Lock(m)!Acquire(t) \/ Lock(m)!Release(t) \/ UNCHANGED Lock(m)!vars
  <2>0. \A w \in Threads \ {t} : Same(w)
    BY <1>2, Others
  <2>1. Local(t)
    BY DEF LocalInv
  <2>2. CASE Takes(t)
    <3>1. /\ mutex'[t] = mutex[t] /\ mutex[t] \in Mutexes
          /\ ~word[mutex[t]].locked
          /\ ~Holding(t) /\ Holding(t)' /\ pc'[t] = "held"
      <4>1. CASE LockFast(t)
        BY <4>1, <2>1 DEF LockFast, Goto, Free, TypeOK, Local, LockPcs, Holding, NotifyPcs, UnlockPcs,
                   WaitPcs, SignalPcs, BcastPcs
      <4>2. CASE LockFullTake(t)
        <5>1. mutex[t] \in Mutexes /\ ~word[mutex[t]].locked
          BY <4>2, TakeEffect
        <5> QED
          BY <4>2, <5>1 DEF LockFullTake, Goto, TypeOK, Holding, NotifyPcs, UnlockPcs,
                     WaitPcs, SignalPcs, BcastPcs
      <4> QED
        BY <2>2, <4>1, <4>2 DEF Takes
    <3>2. t \notin Waiting(m)'
      BY <3>1 DEF Waiting, LockPcs
    <3>3. CASE mutex[t] = m
      <4>1. t \in Holders(m)' /\ ~word[m].locked
        BY <3>1, <3>3 DEF Holders
      <4>2. Waiting(m)' = Waiting(m) \ {t}
        BY <2>0, <3>2, OthersKeepRole
      <4>3. Owner(m) = NoThread
        BY <4>1, OwnerIsHolder
      <4>4. Owner(m)' = t
        BY <4>1 DEF MutualExclusion, Owner
      <4> QED
        BY <4>2, <4>3, <4>4 DEF Lock!Acquire
    <3>4. CASE mutex[t] # m
      <4>1. t \notin Holders(m) /\ t \notin Holders(m)' /\ t \notin Waiting(m)
        BY <3>1, <3>4 DEF Holders, Waiting
      <4> QED
        BY <2>0, <3>2, <4>1, OthersKeepRole, Invisible
    <3> QED
      BY <3>3, <3>4
  <2>3. CASE LockFastFails(t)
    <3>1. /\ mutex'[t] = mutex[t] /\ ~Holding(t) /\ ~Holding(t)'
          /\ ~Wanting(t) /\ Wanting(t)'
      BY <2>3 DEF LockFastFails, Goto, TypeOK, Holding, Wanting, LockPcs, NotifyPcs, UnlockPcs, WaitPcs,
                  SignalPcs, BcastPcs
    <3>2. t \notin Holders(m) /\ t \notin Holders(m)' /\ t \notin Waiting(m)
          /\ (t \in Waiting(m)' <=> mutex[t] = m)
      BY <3>1 DEF Holders, Waiting, Wanting
    <3>3. Holders(m)' = Holders(m)
      BY <2>0, <3>2, OthersKeepRole
    <3>4. CASE mutex[t] = m
      <4>1. Waiting(m)' = Waiting(m) \union {t}
        BY <2>0, <3>2, <3>4, OthersKeepRole
      <4>2. t # Owner(m)
        BY <3>2, OwnerIsHolder, NullAssumption
      <4>3. Owner(m)' = Owner(m)
        BY <3>3 DEF Owner
      <4> QED
        BY <3>2, <4>1, <4>2, <4>3 DEF Lock!Request
    <3>5. CASE mutex[t] # m
      BY <2>0, <3>2, <3>3, <3>5, OthersKeepRole, Invisible
    <3> QED
      BY <3>4, <3>5
  <2>4. CASE Frees(t)
    <3>1. /\ mutex[t] \in Mutexes /\ ~word'[mutex[t]].locked
          /\ Holding(t) /\ ~Holding(t)'
          /\ ~Wanting(t) /\ ~Wanting(t)'
      <4>1. CASE UnlockFast(t)
        BY <4>1, <2>1 DEF UnlockFast, SetWord, ReturnFromUnlock, Free, TypeOK, Local, Holding, Wanting, LockPcs,
                   NotifyPcs, UnlockPcs, WaitPcs, SignalPcs, BcastPcs, InUnlock
      <4>2. CASE UnparkNobody(t)
        BY <4>2, <2>1 DEF UnparkNobody, Goto, SetWord, Free, TypeOK, Local, Holding, Wanting, LockPcs,
                   NotifyPcs, UnlockPcs, WaitPcs, SignalPcs, BcastPcs, InUnlock
      <4>3. ASSUME NEW u \in Threads, UnparkPick(t, u)
            PROVE  /\ mutex[t] \in Mutexes /\ ~word'[mutex[t]].locked
                   /\ Holding(t) /\ ~Holding(t)'
                   /\ ~Wanting(t) /\ ~Wanting(t)'
        BY <4>3, <2>1 DEF UnparkPick, Goto, SetWord, TypeOK, Local, Holding, Wanting, LockPcs,
                   NotifyPcs, UnlockPcs, WaitPcs, SignalPcs, BcastPcs, InUnlock
      <4> QED
        BY <2>4, <4>1, <4>2, <4>3 DEF Frees
    <3>2. t \notin Holders(m)' /\ t \notin Waiting(m) /\ t \notin Waiting(m)'
      BY <3>1 DEF Holders, Waiting, Wanting
    <3>3. Waiting(m)' = Waiting(m)
      BY <2>0, <3>2, OthersKeepRole
    <3>4. CASE mutex[t] = m
      <4>1. Owner(m) = t
        BY <3>1, <3>4, OwnerIsHolder DEF Holders
      <4>2. Owner(m)' = NoThread
        BY <3>1, <3>4 DEF MutualExclusion, Owner
      <4> QED
        BY <3>3, <4>1, <4>2 DEF Lock!Release
    <3>5. CASE mutex[t] # m
      <4>1. t \notin Holders(m)
        BY <3>5 DEF Holders
      <4> QED
        BY <2>0, <3>2, <3>3, <4>1, OthersKeepRole, Invisible
    <3> QED
      BY <3>4, <3>5
  <2>5. CASE ~Takes(t) /\ ~Frees(t) /\ ~LockFastFails(t)
    <3>1. /\ Holding(t)' <=> Holding(t)
          /\ Wanting(t)' <=> Wanting(t)
          /\ Holding(t) \/ Wanting(t) => mutex'[t] = mutex[t]
      BY <1>2, <2>5, KeepsRole
    <3>2. (t \in Holders(m)' <=> t \in Holders(m)) /\ (t \in Waiting(m)' <=> t \in Waiting(m))
      BY <3>1 DEF Holders, Waiting, Wanting
    <3> QED
      BY <2>0, <3>2, OthersKeepRole, Invisible
  <2> QED
    BY <2>2, <2>3, <2>4, <2>5
<1> QED
  BY <1>1, <1>2 DEF Next, Lock!Next

\* fast_mutex is a lock, and each of them a lock of its own: its steps, parking, the
\* moves of broadcasts and the waits of conditions included, are those of the abstract
\* lock, or invisible.
THEOREM EveryMutexIsALock == ASSUME NEW m \in Mutexes PROVE Spec => ImplementsLock(m)
<1>1. Init => Lock(m)!Init
  BY RefinesInit
<1>2. IInv /\ IInv' /\ [Next]_vars => [Lock(m)!Next]_(Lock(m)!vars)
  BY RefinesNext
<1> QED
  BY <1>1, <1>2, Invariance, PTL DEF Spec, ImplementsLock, Lock!Spec
=============================================================================
