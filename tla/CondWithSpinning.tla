-------------------------- MODULE CondWithSpinning --------------------------
(***************************************************************************)
(* halide_cond_with_spinning (src/runtime/thread_pool_common.h): wait()    *)
(* spins on a counter, without the mutex, before it goes to sleep;         *)
(* broadcast() bumps the counter and wakes the sleepers.  The mutex and    *)
(* the condition below it are the ones FastSync models: one owner, and a   *)
(* broadcast reaches everybody asleep.                                     *)
(*                                                                         *)
(* The counter is a uintptr_t; a waiter that slept through 2^64 broadcasts *)
(* is out of reach, so it is a natural number here, capped by MaxCount.    *)
(***************************************************************************)
EXTENDS Naturals

CONSTANTS Threads, NoThread,
          SpinLimit,   \* the looks at the counter before sleeping, 40 in the code
          MaxCount     \* bound: the broadcasts of a behaviour

ASSUME NullThreadAssumption == NoThread \notin Threads
ASSUME BoundAssumption == SpinLimit \in Nat /\ MaxCount \in Nat

VARIABLES owner,      \* who holds the mutex
          counter,    \* halide_cond_with_spinning::counter
          sleeping,   \* the threads asleep at halide_cond_with_spinning::cond
          pc,
          initial,    \* the counter as wait() first read it
          spin        \* how often wait() has looked at it since

vars == <<owner, counter, sleeping, pc, initial, spin>>

WaitPcs == {"spin", "relock", "final", "sleep"}

Init ==
    /\ owner = NoThread
    /\ counter = 0
    /\ sleeping = {}
    /\ pc = [t \in Threads |-> "out"]
    /\ initial = [t \in Threads |-> 0]
    /\ spin = [t \in Threads |-> 0]

Goto(t, from, to) == pc[t] = from /\ pc' = [pc EXCEPT ![t] = to]

TakeMutex(t) == owner = NoThread /\ owner' = t

Lock(t) ==
    /\ Goto(t, "out", "held")
    /\ TakeMutex(t)
    /\ UNCHANGED <<counter, sleeping, initial, spin>>

Unlock(t) ==
    /\ Goto(t, "held", "out")
    /\ owner' = NoThread
    /\ UNCHANGED <<counter, sleeping, initial, spin>>

-----------------------------------------------------------------------------
(* wait *)

CallWait(t) ==
    /\ Goto(t, "held", "spin")
    /\ initial' = [initial EXCEPT ![t] = counter]
    /\ spin' = [spin EXCEPT ![t] = 0]
    /\ owner' = NoThread
    /\ UNCHANGED <<counter, sleeping>>

LooksLeft(t) == spin[t] < SpinLimit

Spin(t) ==
    /\ Goto(t, "spin", "spin")
    /\ LooksLeft(t)
    /\ counter = initial[t]
    /\ spin' = [spin EXCEPT ![t] = @ + 1]
    /\ UNCHANGED <<owner, counter, sleeping, initial>>

SpinSeesBump(t) ==
    /\ Goto(t, "spin", "relock")
    /\ LooksLeft(t)
    /\ counter # initial[t]
    /\ UNCHANGED <<owner, counter, sleeping, initial, spin>>

Relock(t) ==
    /\ Goto(t, "relock", "held")
    /\ TakeMutex(t)
    /\ UNCHANGED <<counter, sleeping, initial, spin>>

GiveUp(t) ==
    /\ Goto(t, "spin", "final")
    /\ ~LooksLeft(t)
    /\ TakeMutex(t)
    /\ UNCHANGED <<counter, sleeping, initial, spin>>

\* The last look, with the mutex held.
FinalSeesBump(t) ==
    /\ Goto(t, "final", "held")
    /\ counter # initial[t]
    /\ UNCHANGED <<owner, counter, sleeping, initial, spin>>

\* Mutant: no last look at the counter.
MaySleepMutant(t) == TRUE

MaySleep(t) == counter = initial[t]

Sleep(t) ==
    /\ Goto(t, "final", "sleep")
    /\ MaySleep(t)
    /\ sleeping' = sleeping \union {t}
    /\ owner' = NoThread
    /\ UNCHANGED <<counter, initial, spin>>

WaitReturns(t) ==
    /\ Goto(t, "sleep", "held")
    /\ t \notin sleeping
    /\ TakeMutex(t)
    /\ UNCHANGED <<counter, sleeping, initial, spin>>

-----------------------------------------------------------------------------
(* broadcast; every caller in the pool holds the mutex *)

\* Mutant: a broadcast that finds sleepers leaves the counter alone.
BumpMutant == counter' = IF sleeping = {} THEN counter + 1 ELSE counter

Bump == counter' = counter + 1

Broadcast(t) ==
    /\ Goto(t, "held", "broadcast")
    /\ counter < MaxCount
    /\ Bump
    /\ UNCHANGED <<owner, sleeping, initial, spin>>

WakeSleepers(t) ==
    /\ Goto(t, "broadcast", "held")
    /\ sleeping' = {}
    /\ UNCHANGED <<owner, counter, initial, spin>>

-----------------------------------------------------------------------------
Client(t) == Lock(t) \/ Unlock(t) \/ CallWait(t) \/ Broadcast(t)

Library(t) ==
    \/ Spin(t) \/ SpinSeesBump(t) \/ Relock(t)
    \/ GiveUp(t) \/ FinalSeesBump(t) \/ Sleep(t) \/ WaitReturns(t)
    \/ WakeSleepers(t)

Next == \E t \in Threads : Client(t) \/ Library(t)

Spec == Init /\ [][Next]_vars

\* A call that can go on does; no client has to call anything.
LiveSpec == Spec /\ \A t \in Threads : WF_vars(Library(t))

-----------------------------------------------------------------------------
(* Properties *)

TypeOK ==
    /\ owner \in Threads \union {NoThread}
    /\ counter \in 0 .. MaxCount
    /\ sleeping \subseteq Threads
    /\ pc \in [Threads -> {"out", "held", "broadcast"} \union WaitPcs]
    /\ initial \in [Threads -> 0 .. MaxCount]
    /\ spin \in [Threads -> 0 .. SpinLimit]

\* The threads inside wait() that no broadcast has released yet.
StillWaiting == {t \in Threads : pc[t] \in WaitPcs /\ initial[t] = counter}
Released == {t \in Threads : pc[t] \in WaitPcs /\ initial[t] # counter}

\* Nobody sleeps past a broadcast: with no broadcast under way, whoever is asleep
\* went to sleep after the last one.  This is what the final look at the counter,
\* with the lock held, is for.
NobodyOversleeps ==
    \A t \in sleeping :
        initial[t] = counter \/ \E u \in Threads : pc[u] = "broadcast"

\* To its clients the whole is a mutex with a condition variable; the mutex that
\* wait() takes for its last look does not show.
AbstractOwner ==
    IF owner # NoThread /\ pc[owner] = "final" THEN NoThread ELSE owner

Cond == INSTANCE AbstractCond
            WITH owner <- AbstractOwner, waiting <- StillWaiting, released <- Released

ImplementsCond == Cond!Spec

\* Once the clients stop calling, every wait that was broadcast to has returned,
\* unless a client keeps the mutex.
Settled ==
    \/ \E t \in Threads : pc[t] = "held"
    \/ \A t \in Threads : pc[t] = "out" \/ (pc[t] = "sleep" /\ t \in StillWaiting)

CallsEnd == []<><<\E t \in Threads : Client(t)>>_vars \/ <>[]Settled
=============================================================================
