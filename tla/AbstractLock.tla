---------------------------- MODULE AbstractLock ----------------------------
(***************************************************************************)
(* What a lock of the runtime promises its callers, whatever it is made    *)
(* of: one owner at a time, only the owner releases, and a lock that is    *)
(* free while somebody waits for it is eventually taken by somebody (no    *)
(* wake-up is lost).  It promises no order among the waiters: both         *)
(* word_lock and fast_mutex let a newcomer overtake a parked thread.       *)
(***************************************************************************)
CONSTANTS Threads,   \* the threads that may use the lock
          NoThread   \* the owner of a free lock

VARIABLES owner,     \* the thread that holds the lock, or NoThread
          waiting    \* the threads inside lock() that do not hold it yet

vars == <<owner, waiting>>

Init == owner = NoThread /\ waiting = {}

\* A thread enters lock() and finds that it cannot have the lock at once.
Request(t) ==
    /\ t # owner
    /\ t \notin waiting
    /\ waiting' = waiting \union {t}
    /\ UNCHANGED owner

\* A thread, one that waits or one that has just arrived, gets the free lock.
Acquire(t) ==
    /\ owner = NoThread
    /\ owner' = t
    /\ waiting' = waiting \ {t}

\* The owner gives the lock up.
Release(t) ==
    /\ owner = t
    /\ owner' = NoThread
    /\ UNCHANGED waiting

Next == \E t \in Threads : Request(t) \/ Acquire(t) \/ Release(t)

\* A lock that stays free while threads wait for it is acquired in the end.
Progress == WF_vars(\E t \in waiting : Acquire(t))

Spec == Init /\ [][Next]_vars

LiveSpec == Spec /\ Progress
=============================================================================
