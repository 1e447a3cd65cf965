------------------------------ MODULE WordLock ------------------------------
(***************************************************************************)
(* word_lock, the lock of every bucket of the parking lot                  *)
(* (src/runtime/synchronization_common.h).  The whole lock is one machine  *)
(* word: a lock bit, a queue lock bit and a pointer to the node of the     *)
(* last thread that queued.  The nodes live on the stacks of the waiting   *)
(* threads, so a node is named by its thread.                              *)
(*                                                                         *)
(* Grain: one action per access to the shared word.  The accesses to the   *)
(* next, prev and tail pointers are actions of their own, or ride with the *)
(* access to the word that publishes them.  A weak compare-and-swap may    *)
(* fail although the word has the expected value.                          *)
(***************************************************************************)
EXTENDS Naturals, FiniteSets

CONSTANTS Threads,     \* the threads that use this lock
          NoThread,    \* the null node pointer
          SpinCount    \* what spin_control counts down from (40 in the code)

ASSUME NoThreadAssumption == NoThread \notin Threads
ASSUME SpinCountAssumption == SpinCount \in Nat

VARIABLES
    state,        \* the word: its two bits and the head of the queue
    pc,           \* where each thread is in lock() or unlock()
    expected,     \* each thread's local copy of the word
    spin,         \* each thread's spin_control
    shouldPark,   \* thread_parker::should_park of each thread's node
    next, prev, tail,   \* the pointers of each thread's node
    current,      \* local of unlock_full: the node the walk is at
    last          \* local of unlock_full: the tail the walk found

vars == <<state, pc, expected, spin, shouldPark, next, prev, tail, current, last>>

node == <<next, prev, tail>>
walker == <<current, last>>

Node == Threads \union {NoThread}
Word == [locked : BOOLEAN, queuing : BOOLEAN, head : Node]

\* The program counters, by the function they belong to.
LockPcs   == {"load", "loop", "park"}
WalkPcs   == {"scan", "walk", "decide", "clear"}
UnlockPcs == {"unlockLoad", "unlockLoop", "unpark"} \union WalkPcs
Pcs       == {"idle", "held"} \union LockPcs \union UnlockPcs

Zero == [locked |-> FALSE, queuing |-> FALSE, head |-> NoThread]

Init ==
    /\ state = Zero
    /\ pc = [t \in Threads |-> "idle"]
    /\ expected = [t \in Threads |-> Zero]
    /\ spin = [t \in Threads |-> SpinCount]
    /\ shouldPark = [t \in Threads |-> FALSE]
    /\ next = [t \in Threads |-> NoThread]
    /\ prev = [t \in Threads |-> NoThread]
    /\ tail = [t \in Threads |-> NoThread]
    /\ current = [t \in Threads |-> NoThread]
    /\ last = [t \in Threads |-> NoThread]

Goto(t, from, to) == pc[t] = from /\ pc' = [pc EXCEPT ![t] = to]

Locked(word)  == [word EXCEPT !.locked = TRUE]
Queuing(word) == [word EXCEPT !.queuing = TRUE]
\* Mutant: the queue lock bit is never given back.
QuietMutant(word) == word
Quiet(word)   == [word EXCEPT !.queuing = FALSE]
Unlocked(word) == [word EXCEPT !.locked = FALSE]
Pushed(word, t) == [word EXCEPT !.head = t]
Emptied(word) == [word EXCEPT !.queuing = FALSE, !.head = NoThread]

\* A local that the code will not read again goes back to its initial value:
\* states that differ in dead locals only are one state.
Discard(t) == expected' = [expected EXCEPT ![t] = Zero]

\* atomic_cas: the word goes from its expected to the desired value ...
CasSucceeds(t, desired) == state = expected[t] /\ state' = desired

\* ... or, for whatever reason, it does not, and is read into expected.
CasFails(t) ==
    /\ expected' = [expected EXCEPT ![t] = state]
    /\ UNCHANGED state

Load(t) == CasFails(t)

-----------------------------------------------------------------------------
(* lock() and lock_full() *)

LockFast(t) ==
    /\ Goto(t, "idle", "held")
    /\ state = Zero
    /\ state' = Locked(state)
    /\ UNCHANGED <<expected, spin, shouldPark, node, walker>>

LockFastFails(t) ==
    /\ Goto(t, "idle", "load")
    /\ UNCHANGED <<state, expected, spin, shouldPark, node, walker>>

LockFullLoad(t) ==
    /\ Goto(t, "load", "loop")
    /\ Load(t)
    /\ UNCHANGED <<spin, shouldPark, node, walker>>

LockFullTake(t) ==
    /\ Goto(t, "loop", "held")
    /\ ~expected[t].locked
    /\ CasSucceeds(t, Locked(expected[t]))
    /\ Discard(t)
    /\ spin' = [spin EXCEPT ![t] = SpinCount]
    /\ UNCHANGED <<shouldPark, node, walker>>

LockFullTakeFails(t) ==
    /\ Goto(t, "loop", "loop")
    /\ ~expected[t].locked
    /\ CasFails(t)
    /\ UNCHANGED <<spin, shouldPark, node, walker>>

\* spin_control::should_spin counts down first, and spins while not at zero.
ShouldSpin(t) == spin[t] > 1

LockFullSpin(t) ==
    /\ Goto(t, "loop", "loop")
    /\ expected[t].locked /\ expected[t].head # NoThread /\ ShouldSpin(t)
    /\ spin' = [spin EXCEPT ![t] = @ - 1]
    /\ Load(t)
    /\ UNCHANGED <<shouldPark, node, walker>>

\* Mutant: every node takes itself for the tail of the queue.
FreshNodeMutant(t) ==
    /\ shouldPark' = [shouldPark EXCEPT ![t] = TRUE]
    /\ next' = [next EXCEPT ![t] = expected[t].head]
    /\ prev' = [prev EXCEPT ![t] = NoThread]
    /\ tail' = [tail EXCEPT ![t] = t]

\* The new node.  It is its own tail only if the queue was empty; its prev is
\* left to the thread that will walk the queue.
FreshNode(t) ==
    LET head == expected[t].head
    IN  /\ shouldPark' = [shouldPark EXCEPT ![t] = TRUE]
        /\ next' = [next EXCEPT ![t] = head]
        /\ prev' = [prev EXCEPT ![t] = NoThread]
        /\ tail' = [tail EXCEPT ![t] = IF head = NoThread THEN t ELSE NoThread]

GivesUpSpinning(t) == expected[t].locked /\ (expected[t].head # NoThread => ~ShouldSpin(t))

\* The count starts afresh after park(); nobody else reads it before that.
LockFullEnqueue(t) ==
    /\ Goto(t, "loop", "park")
    /\ GivesUpSpinning(t)
    /\ FreshNode(t)
    /\ CasSucceeds(t, Pushed(expected[t], t))
    /\ Discard(t)
    /\ spin' = [spin EXCEPT ![t] = SpinCount]
    /\ UNCHANGED walker

\* The node is dropped and the loop runs again with the word just read.
LockFullEnqueueFails(t) ==
    /\ Goto(t, "loop", "loop")
    /\ GivesUpSpinning(t)
    /\ CasFails(t)
    /\ spin' = [spin EXCEPT ![t] = IF expected[t].head # NoThread THEN 0 ELSE @]
    /\ UNCHANGED <<shouldPark, node, walker>>

\* thread_parker::park returns once should_park is false; the node goes out of
\* scope with the iteration.
LockFullWake(t) ==
    /\ Goto(t, "park", "load")
    /\ ~shouldPark[t]
    /\ next' = [next EXCEPT ![t] = NoThread]
    /\ prev' = [prev EXCEPT ![t] = NoThread]
    /\ tail' = [tail EXCEPT ![t] = NoThread]
    /\ UNCHANGED <<state, expected, spin, shouldPark, walker>>

-----------------------------------------------------------------------------
(* unlock() and unlock_full() *)

Unlock(t) ==
    /\ pc[t] = "held"
    /\ state' = Unlocked(state)
    /\ pc' = [pc EXCEPT ![t] = IF ~state.queuing /\ state.head # NoThread
                               THEN "unlockLoad" ELSE "idle"]
    /\ UNCHANGED <<expected, spin, shouldPark, node, walker>>

UnlockFullLoad(t) ==
    /\ Goto(t, "unlockLoad", "unlockLoop")
    /\ Load(t)
    /\ UNCHANGED <<spin, shouldPark, node, walker>>

\* Another thread has the queue, or nobody is in it: nothing left to do.
UnlockFullLeave(t) ==
    /\ Goto(t, "unlockLoop", "idle")
    /\ expected[t].queuing \/ expected[t].head = NoThread
    /\ Discard(t)
    /\ UNCHANGED <<state, spin, shouldPark, node, walker>>

\* Mutant: the queue lock bit is not tested before it is taken.
WantsQueueMutant(t) == expected[t].head # NoThread

WantsQueue(t) == ~expected[t].queuing /\ expected[t].head # NoThread

\* expected keeps the value without the queue lock bit, as in the code: the
\* first compare-and-swap of the loop below then fails and reads it again.
UnlockFullTakeQueue(t) ==
    /\ Goto(t, "unlockLoop", "scan")
    /\ WantsQueue(t)
    /\ CasSucceeds(t, Queuing(expected[t]))
    /\ UNCHANGED <<expected, spin, shouldPark, node, walker>>

UnlockFullTakeQueueFails(t) ==
    /\ Goto(t, "unlockLoop", "unlockLoop")
    /\ WantsQueue(t)
    /\ CasFails(t)
    /\ UNCHANGED <<spin, shouldPark, node, walker>>

\* The walk from the head to the first node that knows its tail.
ScanStart(t) ==
    /\ Goto(t, "scan", "walk")
    /\ current' = [current EXCEPT ![t] = expected[t].head]
    /\ UNCHANGED <<state, expected, spin, shouldPark, node, last>>

\* The code aborts when the node ahead is null: the model then has no step.
WalkStep(t) ==
    /\ pc[t] = "walk"
    /\ tail[current[t]] = NoThread
    /\ next[current[t]] # NoThread
    /\ prev' = [prev EXCEPT ![next[current[t]]] = current[t]]
    /\ current' = [current EXCEPT ![t] = next[current[t]]]
    /\ UNCHANGED <<state, pc, expected, spin, shouldPark, next, tail, last>>

WalkEnd(t) ==
    /\ Goto(t, "walk", "decide")
    /\ tail[current[t]] # NoThread
    /\ last' = [last EXCEPT ![t] = tail[current[t]]]
    /\ tail' = [tail EXCEPT ![expected[t].head] = tail[current[t]]]
    /\ current' = [current EXCEPT ![t] = NoThread]
    /\ UNCHANGED <<state, expected, spin, shouldPark, next, prev>>

\* The lock is held: its holder will do the wake-up when it unlocks.
LeaveToHolder(t) ==
    /\ Goto(t, "decide", "idle")
    /\ expected[t].locked
    /\ CasSucceeds(t, Quiet(expected[t]))
    /\ Discard(t)
    /\ last' = [last EXCEPT ![t] = NoThread]
    /\ UNCHANGED <<spin, shouldPark, node, current>>

LeaveToHolderFails(t) ==
    /\ Goto(t, "decide", "scan")
    /\ expected[t].locked
    /\ CasFails(t)
    /\ UNCHANGED <<spin, shouldPark, node, walker>>

\* The tail is the only node: the queue becomes empty, in the inner loop.
Clearing(t) ==
    \/ pc[t] = "clear"
    \/ pc[t] = "decide" /\ ~expected[t].locked /\ prev[last[t]] = NoThread

ClearQueue(t) ==
    /\ Clearing(t)
    /\ CasSucceeds(t, Emptied(expected[t]))
    /\ Discard(t)
    /\ pc' = [pc EXCEPT ![t] = "unpark"]
    /\ UNCHANGED <<spin, shouldPark, node, walker>>

ClearQueueFails(t) ==
    /\ Clearing(t)
    /\ CasFails(t)
    /\ pc' = [pc EXCEPT ![t] = IF state.head = NoThread THEN "clear" ELSE "scan"]
    /\ UNCHANGED <<spin, shouldPark, node, walker>>

\* The tail leaves the queue; the store to the head's tail is published by the
\* release of the queue lock bit.
PopTail(t) ==
    /\ Goto(t, "decide", "unpark")
    /\ ~expected[t].locked /\ prev[last[t]] # NoThread
    /\ tail' = [tail EXCEPT ![expected[t].head] = prev[last[t]]]
    /\ state' = Quiet(state)
    /\ Discard(t)
    /\ UNCHANGED <<spin, shouldPark, next, prev, walker>>

Unpark(t) ==
    /\ Goto(t, "unpark", "idle")
    /\ shouldPark' = [shouldPark EXCEPT ![last[t]] = FALSE]
    /\ last' = [last EXCEPT ![t] = NoThread]
    /\ UNCHANGED <<state, expected, spin, node, current>>

-----------------------------------------------------------------------------
LockNext(t) ==
    \/ LockFast(t) \/ LockFastFails(t)
    \/ LockFullLoad(t)
    \/ LockFullTake(t) \/ LockFullTakeFails(t)
    \/ LockFullSpin(t)
    \/ LockFullEnqueue(t) \/ LockFullEnqueueFails(t)
    \/ LockFullWake(t)

UnlockFullNext(t) ==
    \/ UnlockFullLoad(t) \/ UnlockFullLeave(t)
    \/ UnlockFullTakeQueue(t) \/ UnlockFullTakeQueueFails(t)
    \/ ScanStart(t) \/ WalkStep(t) \/ WalkEnd(t)
    \/ LeaveToHolder(t) \/ LeaveToHolderFails(t)
    \/ ClearQueue(t) \/ ClearQueueFails(t)
    \/ PopTail(t) \/ Unpark(t)

Next == \E t \in Threads : LockNext(t) \/ Unlock(t) \/ UnlockFullNext(t)

Spec == Init /\ [][Next]_vars

\* A compare-and-swap that could succeed again and again does succeed.
SwapNext(t) ==
    \/ LockFullTake(t) \/ LockFullEnqueue(t)
    \/ UnlockFullTakeQueue(t) \/ LeaveToHolder(t) \/ ClearQueue(t)

\* The threads inside lock() or unlock() keep running.  Nobody has to call
\* lock(), and a holder need not call unlock().
Fairness ==
    \A t \in Threads :
        /\ WF_vars(pc[t] # "idle" /\ (LockNext(t) \/ UnlockFullNext(t)))
        /\ SF_vars(SwapNext(t))

LiveSpec == Spec /\ Fairness

-----------------------------------------------------------------------------
(* Properties *)

TypeOK ==
    /\ state \in Word
    /\ pc \in [Threads -> Pcs]
    /\ expected \in [Threads -> Word]
    /\ spin \in [Threads -> 0..SpinCount]
    /\ shouldPark \in [Threads -> BOOLEAN]
    /\ next \in [Threads -> Node]
    /\ prev \in [Threads -> Node]
    /\ tail \in [Threads -> Node]
    /\ current \in [Threads -> Node]
    /\ last \in [Threads -> Node]

Holders == {t \in Threads : pc[t] = "held"}
Walkers == {t \in Threads : pc[t] \in WalkPcs}

\* The lock bit is set exactly while one thread is between lock() and unlock(),
\* and never two.
MutualExclusion ==
    /\ state.locked <=> Holders # {}
    /\ \A t, u \in Holders : t = u

\* The same of the queue lock bit and the threads that process the queue, which
\* never process an empty one.
QueueExclusion ==
    /\ state.queuing <=> Walkers # {}
    /\ \A t, u \in Walkers : t = u
    /\ state.queuing => state.head # NoThread

\* The walk starts from a queue with nodes in it, stays on nodes, and ends with
\* one: it never follows a null pointer (the code aborts when next is null).
WalkOnNodes ==
    \A t \in Threads :
        /\ pc[t] \in {"scan", "walk", "decide"} => expected[t].head \in Threads
        /\ pc[t] = "walk" => current[t] \in Threads
        /\ pc[t] \in {"decide", "clear", "unpark"} => last[t] \in Threads

\* A node lives on the stack of a thread that is parked on it.  Whoever follows
\* a pointer to a node, or unparks it, does so before that thread has left.
Sleeping(t) == pc[t] = "park" /\ shouldPark[t]

NodesOutliveTheirUse ==
    \A t \in Threads :
        /\ pc[t] = "walk" => Sleeping(current[t])
        /\ pc[t] \in {"decide", "unpark"} => Sleeping(last[t])
        /\ pc[t] \in {"scan", "walk", "decide"} => Sleeping(expected[t].head)

\* A thread asleep in lock_full is in the queue, or somebody is about to wake
\* it: it is never forgotten by both.
\* (Reached: the nodes from the head to the tail.  The tail is the end, once it is
\* known; what is linked behind it has left the queue.)
Advance(r) ==
    LET end == IF r.end # NoThread THEN r.end ELSE tail[r.at]
    IN  IF r.at = NoThread THEN r
        ELSE [seen |-> r.seen \union {r.at},
              at |-> IF r.at = end THEN NoThread ELSE next[r.at],
              end |-> end]

Reach[n \in 0 .. Cardinality(Threads)] ==
    IF n = 0 THEN [seen |-> {}, at |-> state.head, end |-> NoThread] ELSE Advance(Reach[n - 1])

Reached == Reach[Cardinality(Threads)].seen

SleepersAreQueued ==
    \A t \in Threads : Sleeping(t) =>
        \/ t \in Reached
        \/ \E u \in Threads : pc[u] = "unpark" /\ last[u] = t

\* word_lock is a lock.
Owner == IF Holders = {} THEN NoThread ELSE CHOOSE t \in Threads : t \in Holders
Waiting == {t \in Threads : pc[t] \in LockPcs}

Lock == INSTANCE AbstractLock WITH owner <- Owner, waiting <- Waiting

ImplementsLock == Lock!Spec
ImplementsLiveLock == Lock!LiveSpec
=============================================================================
