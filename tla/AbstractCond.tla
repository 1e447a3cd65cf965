---------------------------- MODULE AbstractCond ----------------------------
(***************************************************************************)
(* What a mutex with a condition variable promises to its clients: wait()  *)
(* gives the mutex up and is released by the next broadcast, by nothing    *)
(* else and not later; it returns with the mutex.                          *)
(***************************************************************************)
CONSTANTS Threads, NoThread

VARIABLES owner,     \* who has the mutex
          waiting,   \* the threads in wait(), no broadcast since
          released   \* the threads in wait() that a broadcast has released

vars == <<owner, waiting, released>>

Init ==
    /\ owner = NoThread
    /\ waiting = {}
    /\ released = {}

Take(t) == owner = NoThread /\ owner' = t

Acquire(t) ==
    /\ t \notin waiting \union released
    /\ Take(t)
    /\ UNCHANGED <<waiting, released>>

Release(t) ==
    /\ owner = t
    /\ owner' = NoThread
    /\ UNCHANGED <<waiting, released>>

Wait(t) ==
    /\ owner = t
    /\ owner' = NoThread
    /\ waiting' = waiting \union {t}
    /\ UNCHANGED released

Broadcast(t) ==
    /\ owner = t
    /\ waiting' = {}
    /\ released' = released \union waiting
    /\ UNCHANGED owner

Return(t) ==
    /\ t \in released
    /\ Take(t)
    /\ released' = released \ {t}
    /\ UNCHANGED waiting

Next == \E t \in Threads : Acquire(t) \/ Release(t) \/ Wait(t) \/ Broadcast(t) \/ Return(t)

Spec == Init /\ [][Next]_vars
=============================================================================
