------------------------------ MODULE FastSync ------------------------------
(***************************************************************************)
(* fast_mutex and fast_cond over the parking lot: halide_mutex_lock,       *)
(* halide_mutex_unlock, halide_cond_wait, halide_cond_signal and           *)
(* halide_cond_broadcast (src/runtime/synchronization_common.h).           *)
(*                                                                         *)
(* A mutex is a word with a lock bit and a parked bit.  A condition        *)
(* variable is a word that names the mutex its waiters use, or no mutex.   *)
(* Threads that sleep are listed in the bucket their address hashes to,    *)
(* under the bucket's word_lock; here the bucket lock is the abstract lock *)
(* that WordLock is shown to implement.  Of a list, the model keeps the     *)
(* address each thread in it sleeps at, and who sleeps there before it.    *)
(*                                                                         *)
(* Grain: one action per access to a mutex or condition word; what a       *)
(* thread does to the lists while it owns their buckets is one action.     *)
(* The clients take at most one mutex at a time.                           *)
(***************************************************************************)
EXTENDS Naturals, FiniteSets

CONSTANTS Threads,     \* the client threads
          Mutexes,     \* the mutexes
          Conds,       \* the condition variables
          BucketOf,    \* the hash of every address; addresses may collide
          NoThread, NoMutex, NoCond, Nowhere

Addresses == Mutexes \union Conds
Buckets == {BucketOf[a] : a \in Addresses}

ASSUME CondAssumption == Conds \intersect Mutexes = {}
ASSUME BucketAssumption == BucketOf \in [Addresses -> Nat]
ASSUME NullAssumption ==
    /\ NoThread \notin Threads
    /\ NoMutex \notin Mutexes
    /\ NoCond \notin Conds
    /\ Nowhere \notin Addresses

VARIABLES
    word,         \* fast_mutex::state of every mutex
    cond,         \* fast_cond::state of every condition
    bucketOwner,  \* hash_bucket::mutex of every bucket
    parkedOn,     \* queue_data::sleep_address of the threads in a list
    ahead,        \* the threads before each thread in the list, at its address
    shouldPark,   \* thread_parker::should_park of every thread
    pc,           \* where each thread is
    mutex,        \* the mutex each thread uses
    condition,    \* the condition each thread waits on or notifies
    expected,     \* local copy of the mutex word in lock_full
    target,       \* the mutex a broadcast read from the condition word
    wakeOne,      \* validate_action::unpark_one of a broadcast
    wakee,        \* the thread an unpark is about to wake
    return        \* where unlock, signal or broadcast returns to

vars == <<word, cond, bucketOwner, parkedOn, ahead, shouldPark, pc, mutex, condition, expected,
          target, wakeOne, wakee, return>>

shared == <<word, cond, bucketOwner, parkedOn, ahead, shouldPark>>
notify == <<target, wakeOne>>

Word == [locked : BOOLEAN, parked : BOOLEAN]
Free == [locked |-> FALSE, parked |-> FALSE]
Held == [locked |-> TRUE, parked |-> FALSE]
HeldAndParked == [locked |-> TRUE, parked |-> TRUE]

LockPcs   == {"lock", "lockLoad", "lockLoop", "parkBucket", "parkValidate", "parkEnqueue", "parked"}
UnlockPcs == {"unlock", "unlockFull", "unparkBucket", "unparkPick"}
WaitPcs   == {"waitBucket", "waitValidate", "waitEnqueue"}
SignalPcs == {"signal", "signalBucket", "signalPick"}
BcastPcs  == {"bcast", "bcastFirst", "bcastSecond", "bcastValidate", "bcastMake", "bcastMove"}
Pcs == {"out", "held", "sleep", "release", "wake"}
       \union LockPcs \union UnlockPcs \union WaitPcs \union SignalPcs \union BcastPcs

Init ==
    /\ word = [m \in Mutexes |-> Free]
    /\ cond = [c \in Conds |-> NoMutex]
    /\ bucketOwner = [b \in Buckets |-> NoThread]
    /\ parkedOn = [t \in Threads |-> Nowhere]
    /\ ahead = [t \in Threads |-> {}]
    /\ shouldPark = [t \in Threads |-> FALSE]
    /\ pc = [t \in Threads |-> "out"]
    /\ mutex = [t \in Threads |-> NoMutex]
    /\ condition = [t \in Threads |-> NoCond]
    /\ expected = [t \in Threads |-> Free]
    /\ target = [t \in Threads |-> NoMutex]
    /\ wakeOne = [t \in Threads |-> FALSE]
    /\ wakee = [t \in Threads |-> NoThread]
    /\ return = [t \in Threads |-> "out"]

Goto(t, from, to) == pc[t] = from /\ pc' = [pc EXCEPT ![t] = to]
SetWord(m, w) == word' = [word EXCEPT ![m] = w]

\* lock_bucket; the bucket lock itself is the abstract lock.
LockBucket(t, b) ==
    /\ bucketOwner[b] = NoThread
    /\ bucketOwner' = [bucketOwner EXCEPT ![b] = t]

SetCond(t, m) == cond' = [cond EXCEPT ![condition[t]] = m]

UnlockBuckets(t) ==
    bucketOwner' = [b \in Buckets |-> IF bucketOwner[b] = t THEN NoThread ELSE bucketOwner[b]]

\* The threads in the list of a's bucket that sleep at a.
Sleepers(a) == {t \in Threads : parkedOn[t] = a}

\* The rest of park(): the thread goes to the end of the list and the bucket is
\* unlocked.
Enqueue(t, a) ==
    /\ parkedOn' = [parkedOn EXCEPT ![t] = a]
    /\ ahead' = [ahead EXCEPT ![t] = Sleepers(a)]
    /\ shouldPark' = [shouldPark EXCEPT ![t] = TRUE]
    /\ UnlockBuckets(t)

-----------------------------------------------------------------------------
(* fast_mutex::lock *)

CallLock(t, m) ==
    /\ Goto(t, "out", "lock")
    /\ mutex' = [mutex EXCEPT ![t] = m]
    /\ UNCHANGED <<shared, condition, expected, notify, wakee, return>>

LockFast(t) ==
    /\ Goto(t, "lock", "held")
    /\ word[mutex[t]] = Free
    /\ SetWord(mutex[t], Held)
    /\ UNCHANGED <<cond, bucketOwner, parkedOn, ahead, shouldPark, mutex, condition, expected, notify, wakee, return>>

\* The weak compare-and-swap may fail on a free mutex too.
LockFastFails(t) ==
    /\ Goto(t, "lock", "lockLoad")
    /\ UNCHANGED <<shared, mutex, condition, expected, notify, wakee, return>>

ReadWord(t) == expected' = [expected EXCEPT ![t] = word[mutex[t]]]

LockFullLoad(t) ==
    /\ Goto(t, "lockLoad", "lockLoop")
    /\ ReadWord(t)
    /\ UNCHANGED <<shared, mutex, condition, notify, wakee, return>>

\* Mutant: a store in place of the compare-and-swap.
CanTakeMutant(t) == ~expected[t].locked

CanTake(t) == ~expected[t].locked /\ word[mutex[t]] = expected[t]

LockFullTake(t) ==
    /\ Goto(t, "lockLoop", "held")
    /\ CanTake(t)
    /\ SetWord(mutex[t], [expected[t] EXCEPT !.locked = TRUE])
    /\ expected' = [expected EXCEPT ![t] = Free]
    /\ UNCHANGED <<cond, bucketOwner, parkedOn, ahead, shouldPark, mutex, condition, notify, wakee, return>>

\* The loop runs again with the word as it is now: a failed compare-and-swap, or
\* one more spin.  How often it spins before it parks is left open.
LockFullAgain(t) ==
    /\ Goto(t, "lockLoop", "lockLoop")
    /\ ReadWord(t)
    /\ UNCHANGED <<shared, mutex, condition, notify, wakee, return>>

LockFullSetParked(t) ==
    /\ Goto(t, "lockLoop", "parkBucket")
    /\ expected[t] = Held
    /\ word[mutex[t]] = expected[t]
    /\ SetWord(mutex[t], HeldAndParked)
    /\ expected' = [expected EXCEPT ![t] = Free]
    /\ UNCHANGED <<cond, bucketOwner, parkedOn, ahead, shouldPark, mutex, condition, notify, wakee, return>>

LockFullSeesParked(t) ==
    /\ Goto(t, "lockLoop", "parkBucket")
    /\ expected[t] = HeldAndParked
    /\ expected' = [expected EXCEPT ![t] = Free]
    /\ UNCHANGED <<shared, mutex, condition, notify, wakee, return>>

ParkLockBucket(t) ==
    /\ Goto(t, "parkBucket", "parkValidate")
    /\ LockBucket(t, BucketOf[mutex[t]])
    /\ UNCHANGED <<word, cond, parkedOn, ahead, shouldPark, mutex, condition, expected, notify, wakee, return>>

\* Mutant: the word is not looked at again under the bucket lock.
ParkIsValidMutant(t) == TRUE

\* mutex_parking_control::validate, under the bucket lock.
ParkIsValid(t) == word[mutex[t]] = HeldAndParked

ParkValidates(t) ==
    /\ Goto(t, "parkValidate", "parkEnqueue")
    /\ ParkIsValid(t)
    /\ UNCHANGED <<shared, mutex, condition, expected, notify, wakee, return>>

ParkIsInvalid(t) ==
    /\ Goto(t, "parkValidate", "lockLoad")
    /\ ~ParkIsValid(t)
    /\ UnlockBuckets(t)
    /\ UNCHANGED <<word, cond, parkedOn, ahead, shouldPark, mutex, condition, expected, notify, wakee, return>>

ParkEnqueue(t) ==
    /\ Goto(t, "parkEnqueue", "parked")
    /\ Enqueue(t, mutex[t])
    /\ UNCHANGED <<word, cond, mutex, condition, expected, notify, wakee, return>>

\* No unpark hands the mutex over, they all return 0: the thread tries again.
ParkReturns(t) ==
    /\ Goto(t, "parked", "lockLoad")
    /\ ~shouldPark[t]
    /\ UNCHANGED <<shared, mutex, condition, expected, notify, wakee, return>>

-----------------------------------------------------------------------------
(* fast_mutex::unlock *)

CallUnlock(t) ==
    /\ Goto(t, "held", "unlock")
    /\ return' = [return EXCEPT ![t] = "out"]
    /\ UNCHANGED <<shared, mutex, condition, expected, notify, wakee>>

\* unlock() returns: to the client, or to wait(), which goes to sleep.
ReturnFromUnlock(t) ==
    /\ pc' = [pc EXCEPT ![t] = return[t]]
    /\ mutex' = [mutex EXCEPT ![t] = IF return[t] = "out" THEN NoMutex ELSE @]
    /\ return' = [return EXCEPT ![t] = "out"]

\* The compare-and-swap of unlock(), or the second, strong one of unlock_full().
UnlockFast(t) ==
    /\ pc[t] \in {"unlock", "unlockFull"}
    /\ word[mutex[t]] = Held
    /\ SetWord(mutex[t], Free)
    /\ ReturnFromUnlock(t)
    /\ UNCHANGED <<cond, bucketOwner, parkedOn, ahead, shouldPark, condition, expected, notify, wakee>>

UnlockFastFails(t) ==
    /\ Goto(t, "unlock", "unlockFull")
    /\ UNCHANGED <<shared, mutex, condition, expected, notify, wakee, return>>

UnlockFullFails(t) ==
    /\ Goto(t, "unlockFull", "unparkBucket")
    /\ word[mutex[t]] # Held
    /\ UNCHANGED <<shared, mutex, condition, expected, notify, wakee, return>>

UnparkLockBucket(t) ==
    /\ Goto(t, "unparkBucket", "unparkPick")
    /\ LockBucket(t, BucketOf[mutex[t]])
    /\ UNCHANGED <<word, cond, parkedOn, ahead, shouldPark, mutex, condition, expected, notify, wakee, return>>

\* Mutant: the sleeper is woken and left in the list.
TakeOneMutant(t, a, u) ==
    /\ u \in Sleepers(a)
    /\ ahead[u] = {}
    /\ UNCHANGED <<parkedOn, ahead>>
    /\ wakee' = [wakee EXCEPT ![t] = u]

\* unpark_one takes the first sleeper at the address out of the list;
\* more_waiters says whether it leaves others behind.
TakeOne(t, a, u) ==
    /\ u \in Sleepers(a)
    /\ ahead[u] = {}
    /\ ahead' = [v \in Threads |-> ahead[v] \ {u}]
    /\ parkedOn' = [parkedOn EXCEPT ![u] = Nowhere]
    /\ wakee' = [wakee EXCEPT ![t] = u]

\* Mutant: the sleepers left behind are not looked for.
MoreWaitersMutant(a, u) == FALSE

MoreWaiters(a, u) == Sleepers(a) # {u}

\* mutex_parking_control::unpark frees the mutex, whoever is woken or not.
UnparkPick(t, u) ==
    /\ Goto(t, "unparkPick", "release")
    /\ TakeOne(t, mutex[t], u)
    /\ SetWord(mutex[t], [locked |-> FALSE, parked |-> MoreWaiters(mutex[t], u)])
    /\ UNCHANGED <<cond, bucketOwner, shouldPark, mutex, condition, expected, notify, return>>

UnparkNobody(t) ==
    /\ Goto(t, "unparkPick", "release")
    /\ Sleepers(mutex[t]) = {}
    /\ SetWord(mutex[t], Free)
    /\ UNCHANGED <<cond, bucketOwner, parkedOn, ahead, shouldPark, mutex, condition, expected, notify, wakee, return>>

-----------------------------------------------------------------------------
(* fast_cond::wait *)

CallWait(t, c) ==
    /\ Goto(t, "held", "waitBucket")
    /\ condition' = [condition EXCEPT ![t] = c]
    /\ UNCHANGED <<shared, mutex, expected, notify, wakee, return>>

WaitLockBucket(t) ==
    /\ Goto(t, "waitBucket", "waitValidate")
    /\ LockBucket(t, BucketOf[condition[t]])
    /\ UNCHANGED <<word, cond, parkedOn, ahead, shouldPark, mutex, condition, expected, notify, wakee, return>>

\* wait_parking_control::validate ties an unused condition to the mutex.
WaitValidates(t) ==
    /\ Goto(t, "waitValidate", "waitEnqueue")
    /\ cond[condition[t]] \in {NoMutex, mutex[t]}
    /\ SetCond(t, mutex[t])
    /\ UNCHANGED <<word, bucketOwner, parkedOn, ahead, shouldPark, mutex, condition, expected, notify, wakee, return>>

\* The condition is in use with another mutex: wait returns at once, still
\* holding its own.
WaitIsInvalid(t) ==
    /\ Goto(t, "waitValidate", "held")
    /\ cond[condition[t]] \notin {NoMutex, mutex[t]}
    /\ UnlockBuckets(t)
    /\ condition' = [condition EXCEPT ![t] = NoCond]
    /\ UNCHANGED <<word, cond, parkedOn, ahead, shouldPark, mutex, expected, notify, wakee, return>>

\* before_sleep unlocks the mutex once the thread is in the list.
WaitEnqueue(t) ==
    /\ Goto(t, "waitEnqueue", "unlock")
    /\ Enqueue(t, condition[t])
    /\ return' = [return EXCEPT ![t] = "sleep"]
    /\ UNCHANGED <<word, cond, mutex, condition, expected, notify, wakee>>

\* The woken waiter locks the mutex again before wait() returns.
WaitReturns(t) ==
    /\ Goto(t, "sleep", "lock")
    /\ ~shouldPark[t]
    /\ condition' = [condition EXCEPT ![t] = NoCond]
    /\ UNCHANGED <<shared, mutex, expected, notify, wakee, return>>

-----------------------------------------------------------------------------
(* fast_cond::signal and fast_cond::broadcast, with or without the mutex *)

CallNotify(t, operation, c) ==
    /\ pc[t] \in {"out", "held"}
    /\ condition' = [condition EXCEPT ![t] = c]
    /\ return' = [return EXCEPT ![t] = pc[t]]
    /\ pc' = [pc EXCEPT ![t] = operation]
    /\ UNCHANGED <<shared, mutex, expected, notify, wakee>>

ReturnFromNotify(t) ==
    /\ pc' = [pc EXCEPT ![t] = return[t]]
    /\ return' = [return EXCEPT ![t] = "out"]
    /\ condition' = [condition EXCEPT ![t] = NoCond]

\* The word is 0: there are no waiters, the call is over.
NotifyNobody(t) ==
    /\ pc[t] \in {"signal", "bcast"}
    /\ cond[condition[t]] = NoMutex
    /\ ReturnFromNotify(t)
    /\ UNCHANGED <<shared, mutex, expected, notify, wakee>>

SignalLoad(t) ==
    /\ Goto(t, "signal", "signalBucket")
    /\ cond[condition[t]] # NoMutex
    /\ UNCHANGED <<shared, mutex, condition, expected, notify, wakee, return>>

SignalLockBucket(t) ==
    /\ Goto(t, "signalBucket", "signalPick")
    /\ LockBucket(t, BucketOf[condition[t]])
    /\ UNCHANGED <<word, cond, parkedOn, ahead, shouldPark, mutex, condition, expected, notify, wakee, return>>

\* signal_parking_control::unpark unties the condition with its last waiter.
SignalPick(t, u) ==
    /\ Goto(t, "signalPick", "release")
    /\ TakeOne(t, condition[t], u)
    /\ IF MoreWaiters(condition[t], u) THEN UNCHANGED cond ELSE SetCond(t, NoMutex)
    /\ UNCHANGED <<word, bucketOwner, shouldPark, mutex, condition, expected, notify, return>>

SignalFindsNobody(t) ==
    /\ Goto(t, "signalPick", "release")
    /\ Sleepers(condition[t]) = {}
    /\ SetCond(t, NoMutex)
    /\ UNCHANGED <<word, bucketOwner, parkedOn, ahead, shouldPark, mutex, condition, expected, notify, wakee, return>>

BcastLoad(t) ==
    /\ Goto(t, "bcast", "bcastFirst")
    /\ cond[condition[t]] # NoMutex
    /\ target' = [target EXCEPT ![t] = cond[condition[t]]]
    /\ UNCHANGED <<shared, mutex, condition, expected, wakeOne, wakee, return>>

\* lock_bucket_pair: the smaller hash first, and only one lock when they collide.
\* Mutant: the condition's bucket first, whatever the hashes.
InOrderMutant(from, to) == <<from, to>>

InOrder(from, to) == IF from <= to THEN <<from, to>> ELSE <<to, from>>
FirstBucket(t)  == InOrder(BucketOf[condition[t]], BucketOf[target[t]])[1]
SecondBucket(t) == InOrder(BucketOf[condition[t]], BucketOf[target[t]])[2]

BcastLockFirst(t) ==
    /\ Goto(t, "bcastFirst",
            IF FirstBucket(t) = SecondBucket(t) THEN "bcastValidate" ELSE "bcastSecond")
    /\ LockBucket(t, FirstBucket(t))
    /\ UNCHANGED <<word, cond, parkedOn, ahead, shouldPark, mutex, condition, expected, notify, wakee, return>>

BcastLockSecond(t) ==
    /\ Goto(t, "bcastSecond", "bcastValidate")
    /\ LockBucket(t, SecondBucket(t))
    /\ UNCHANGED <<word, cond, parkedOn, ahead, shouldPark, mutex, condition, expected, notify, wakee, return>>

\* broadcast_parking_control::validate: the condition may have moved on to
\* another mutex since it was read; otherwise it is untied ...
BcastIsInvalid(t) ==
    /\ Goto(t, "bcastValidate", "release")
    /\ cond[condition[t]] # target[t]
    /\ target' = [target EXCEPT ![t] = NoMutex]
    /\ UNCHANGED <<shared, mutex, condition, expected, wakeOne, wakee, return>>

BcastValidates(t) ==
    /\ Goto(t, "bcastValidate", "bcastMake")
    /\ cond[condition[t]] = target[t]
    /\ SetCond(t, NoMutex)
    /\ UNCHANGED <<word, bucketOwner, parkedOn, ahead, shouldPark, mutex, condition, expected, notify, wakee, return>>

\* ... and make_parked_if_locked decides whether one waiter has to be woken: a
\* mutex that is held gets its parked bit, and its holder will do it.
BcastMakeParked(t) ==
    /\ Goto(t, "bcastMake", "bcastMove")
    /\ wakeOne' = [wakeOne EXCEPT ![t] = ~word[target[t]].locked]
    /\ word' = IF word[target[t]].locked
               THEN [word EXCEPT ![target[t]].parked = TRUE] ELSE word
    /\ UNCHANGED <<cond, bucketOwner, parkedOn, ahead, shouldPark, mutex, condition, expected, target, wakee, return>>

\* Mutant: requeue_callback does not set the parked bit.
RequeueMutant(t, moved) ==
    /\ parkedOn' = [u \in Threads |-> IF u \in moved THEN target[t]
                                      ELSE IF u \in Sleepers(condition[t]) THEN Nowhere ELSE parkedOn[u]]
    /\ ahead' = [u \in Threads |-> IF u \in moved THEN Sleepers(target[t]) \union (ahead[u] \intersect moved)
                                   ELSE ahead[u]]
    /\ UNCHANGED word

\* unpark_requeue moves the waiters, all but the one it wakes, to the mutex, and
\* requeue_callback sets the parked bit for them.
Requeue(t, moved) ==
    /\ parkedOn' = [u \in Threads |-> IF u \in moved THEN target[t]
                                      ELSE IF u \in Sleepers(condition[t]) THEN Nowhere ELSE parkedOn[u]]
    /\ ahead' = [u \in Threads |-> IF u \in moved THEN Sleepers(target[t]) \union (ahead[u] \intersect moved)
                                   ELSE ahead[u]]
    /\ word' = IF wakeOne[t] /\ moved # {}
               THEN [word EXCEPT ![target[t]].parked = TRUE] ELSE word

BcastMove(t, u) ==
    /\ Goto(t, "bcastMove", "release")
    /\ IF wakeOne[t] /\ Sleepers(condition[t]) # {}
       THEN u \in Sleepers(condition[t]) /\ ahead[u] = {} ELSE u = NoThread
    /\ Requeue(t, Sleepers(condition[t]) \ {u})
    /\ wakee' = [wakee EXCEPT ![t] = u]
    /\ target' = [target EXCEPT ![t] = NoMutex]
    /\ wakeOne' = [wakeOne EXCEPT ![t] = FALSE]
    /\ UNCHANGED <<cond, bucketOwner, shouldPark, mutex, condition, expected, return>>

-----------------------------------------------------------------------------
(* The end of every unpark: the buckets are unlocked, then the thread taken    *)
(* from the list, if any, is woken.  Its parker stays locked in between.       *)

ReturnFromUnpark(t) ==
    IF return[t] = "sleep" \/ condition[t] = NoCond
    THEN ReturnFromUnlock(t) /\ UNCHANGED condition
    ELSE ReturnFromNotify(t) /\ UNCHANGED mutex

Release(t) ==
    /\ pc[t] = "release"
    /\ UnlockBuckets(t)
    /\ IF wakee[t] = NoThread THEN ReturnFromUnpark(t)
                              ELSE Goto(t, "release", "wake") /\ UNCHANGED <<mutex, condition, return>>
    /\ UNCHANGED <<word, cond, parkedOn, ahead, shouldPark, expected, notify, wakee>>

Wake(t) ==
    /\ pc[t] = "wake"
    /\ shouldPark' = [shouldPark EXCEPT ![wakee[t]] = FALSE]
    /\ wakee' = [wakee EXCEPT ![t] = NoThread]
    /\ ReturnFromUnpark(t)
    /\ UNCHANGED <<word, cond, bucketOwner, parkedOn, ahead, expected, notify>>

-----------------------------------------------------------------------------
Client(t) ==
    \/ \E m \in Mutexes : CallLock(t, m)
    \/ CallUnlock(t)
    \/ \E c \in Conds : CallWait(t, c) \/ CallNotify(t, "signal", c) \/ CallNotify(t, "bcast", c)

LockNext(t) ==
    \/ LockFast(t) \/ LockFastFails(t)
    \/ LockFullLoad(t) \/ LockFullTake(t) \/ LockFullAgain(t)
    \/ LockFullSetParked(t) \/ LockFullSeesParked(t)
    \/ ParkLockBucket(t) \/ ParkValidates(t) \/ ParkIsInvalid(t)
    \/ ParkEnqueue(t) \/ ParkReturns(t)

UnlockNext(t) ==
    \/ UnlockFast(t) \/ UnlockFastFails(t) \/ UnlockFullFails(t)
    \/ UnparkLockBucket(t) \/ (\E u \in Threads : UnparkPick(t, u)) \/ UnparkNobody(t)

WaitNext(t) ==
    \/ WaitLockBucket(t) \/ WaitValidates(t) \/ WaitIsInvalid(t)
    \/ WaitEnqueue(t) \/ WaitReturns(t)

NotifyNext(t) ==
    \/ NotifyNobody(t)
    \/ SignalLoad(t) \/ SignalLockBucket(t)
    \/ (\E u \in Threads : SignalPick(t, u)) \/ SignalFindsNobody(t)
    \/ BcastLoad(t) \/ BcastLockFirst(t) \/ BcastLockSecond(t)
    \/ BcastIsInvalid(t) \/ BcastValidates(t) \/ BcastMakeParked(t)
    \/ (\E u \in Threads \union {NoThread} : BcastMove(t, u))

Library(t) == LockNext(t) \/ UnlockNext(t) \/ WaitNext(t) \/ NotifyNext(t) \/ Release(t) \/ Wake(t)

Next == \E t \in Threads : Client(t) \/ Library(t)

Spec == Init /\ [][Next]_vars

\* A call that can go on does go on.  A compare-and-swap that could succeed again
\* and again does succeed, and a thread does not spin forever.  No client has to
\* call anything.
LeavesLoop(t) == LockFullTake(t) \/ LockFullSetParked(t) \/ LockFullSeesParked(t)

Fairness == \A t \in Threads : WF_vars(Library(t)) /\ SF_vars(LeavesLoop(t))

LiveSpec == Spec /\ Fairness

-----------------------------------------------------------------------------
(* Properties *)

TypeOK ==
    /\ word \in [Mutexes -> Word]
    /\ cond \in [Conds -> Mutexes \union {NoMutex}]
    /\ bucketOwner \in [Buckets -> Threads \union {NoThread}]
    /\ parkedOn \in [Threads -> Addresses \union {Nowhere}]
    /\ ahead \in [Threads -> SUBSET Threads]
    /\ shouldPark \in [Threads -> BOOLEAN]
    /\ pc \in [Threads -> Pcs]
    /\ mutex \in [Threads -> Mutexes \union {NoMutex}]
    /\ condition \in [Threads -> Conds \union {NoCond}]
    /\ expected \in [Threads -> Word]
    /\ target \in [Threads -> Mutexes \union {NoMutex}]
    /\ wakeOne \in [Threads -> BOOLEAN]
    /\ wakee \in [Threads -> Threads \union {NoThread}]
    /\ return \in [Threads -> {"out", "held", "sleep"}]

\* The threads between lock() and unlock(), those inside a notification or at
\* the start of wait() or unlock() included.
NotifyPcs == SignalPcs \union BcastPcs \union {"release", "wake"}

Holding(t) ==
    \/ pc[t] \in {"held"} \union UnlockPcs \union WaitPcs
    \/ pc[t] \in NotifyPcs /\ return[t] = "held"

Holders(m) == {t \in Threads : Holding(t) /\ mutex[t] = m}

\* The lock bit of a mutex is set exactly while one thread holds it, never two:
\* across the fast paths, the parking and the wait of a condition.
MutualExclusion ==
    \A m \in Mutexes :
        /\ word[m].locked <=> Holders(m) # {}
        /\ \A t, u \in Holders(m) : t = u

\* While threads sleep at a mutex its parked bit is set, so that no unlock takes
\* the fast path past them.
SleepersAreAnnounced ==
    \A m \in Mutexes : Sleepers(m) # {} => word[m].parked

\* While threads sleep at a mutex, either somebody holds it, who will wake one,
\* or somebody who has been woken or has just come is about to take it.
WillLock(t) ==
    /\ parkedOn[t] = Nowhere
    /\ \/ pc[t] \in LockPcs \union {"sleep"}
       \/ pc[t] \in {"release", "wake"} /\ return[t] = "sleep"

NoStrandedSleeper ==
    \A m \in Mutexes : Sleepers(m) # {} =>
        word[m].locked \/ \E t \in Threads : mutex[t] = m /\ WillLock(t)

\* Outside the bucket lock, a condition with waiters names the one mutex they
\* all use: a signal or broadcast that reads 0 has nobody to wake.
CondTracksWaiters ==
    \A c \in Conds : bucketOwner[BucketOf[c]] = NoThread =>
        \A t \in Sleepers(c) : cond[c] = mutex[t]

\* The thread an unpark wakes is still asleep on the parker that is touched.
WakesSleepers ==
    \A t \in Threads : wakee[t] # NoThread =>
        /\ shouldPark[wakee[t]]
        /\ parkedOn[wakee[t]] = Nowhere
        /\ \A u \in Threads : wakee[u] = wakee[t] => u = t

\* Two broadcasts never wait for each other's bucket.
NoBucketDeadlock ==
    \A t, u \in Threads :
        (/\ pc[t] = "bcastSecond" /\ bucketOwner[SecondBucket(t)] = u
         /\ pc[u] = "bcastSecond") => bucketOwner[SecondBucket(u)] # t

\* Once the clients stop calling, every call ends: each thread has returned,
\* waits for a notification, or sleeps at a mutex that a client still holds.
\* (While others go on calling, word_lock may keep a thread from a bucket.)
Settled ==
    \A t \in Threads :
        \/ pc[t] \in {"out", "held"}
        \/ pc[t] = "sleep" /\ parkedOn[t] \in Conds
        \/ /\ pc[t] \in {"sleep", "parked"}
           /\ parkedOn[t] = mutex[t]
           /\ \E u \in Holders(mutex[t]) : pc[u] = "held"

CallsEnd == []<><<\E t \in Threads : Client(t)>>_vars \/ <>[]Settled

\* What a mutex looks like to its clients.
Owner(m) == IF Holders(m) = {} THEN NoThread ELSE CHOOSE t \in Threads : t \in Holders(m)
Waiting(m) == {t \in Threads : pc[t] \in LockPcs \ {"lock"} /\ mutex[t] = m}
=============================================================================
