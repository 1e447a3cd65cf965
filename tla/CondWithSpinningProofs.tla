----------------------- MODULE CondWithSpinningProofs -----------------------
(***************************************************************************)
(* Proofs about CondWithSpinning, for any threads and any bounds: nobody   *)
(* sleeps past a broadcast, and the whole implements a mutex with a        *)
(* condition variable.                                                     *)
(***************************************************************************)
EXTENDS CondWithSpinning, TLAPS

\* The mutex is owned by the one thread that is where its owner can be.
OwnerInv == \A t \in Threads : owner = t <=> pc[t] \in {"held", "broadcast", "final"}

\* Only threads that went to sleep are in the list of the condition.
SleepersSleep == \A t \in sleeping : pc[t] = "sleep"

\* No waiter is ahead of the counter, and those that go on without the mutex are
\* behind it: the ones that have seen it change, the ones that were woken, and
\* all of them while a broadcast is under way.
CounterInv ==
    \A t \in Threads : pc[t] \in WaitPcs =>
        /\ initial[t] <= counter
        /\ pc[t] = "relock" => initial[t] # counter
        /\ pc[t] = "sleep" /\ initial[t] = counter => t \in sleeping
        /\ \A u \in Threads : pc[u] = "broadcast" => initial[t] # counter

IInv == TypeOK /\ OwnerInv /\ SleepersSleep /\ CounterInv /\ NobodyOversleeps

\* The initial states satisfy the invariant.
LEMMA InitInv == Init => IInv
  BY NullThreadAssumption, BoundAssumption
     DEF Init, IInv, TypeOK, OwnerInv, SleepersSleep, CounterInv, NobodyOversleeps, WaitPcs

\* Every step preserves it.
LEMMA NextInv == IInv /\ [Next]_vars => IInv'
<1> SUFFICES ASSUME IInv, [Next]_vars PROVE IInv'
  OBVIOUS
<1> USE NullThreadAssumption, BoundAssumption
    DEF IInv, TypeOK, OwnerInv, SleepersSleep, CounterInv, NobodyOversleeps, WaitPcs, Goto
<1>1. CASE UNCHANGED vars
  BY <1>1 DEF vars
<1>2. ASSUME NEW t \in Threads, Client(t) \/ Library(t) PROVE IInv'
  <2>1. CASE Lock(t)
    BY <2>1 DEF Lock, TakeMutex
  <2>2. CASE Unlock(t)
    BY <2>2 DEF Unlock
  <2>3. CASE CallWait(t)
    BY <2>3 DEF CallWait
  <2>4. CASE Broadcast(t)
    BY <2>4 DEF Broadcast, Bump
  <2>5. CASE Spin(t)
    BY <2>5 DEF Spin, LooksLeft
  <2>6. CASE SpinSeesBump(t)
    BY <2>6 DEF SpinSeesBump
  <2>7. CASE Relock(t)
    BY <2>7 DEF Relock, TakeMutex
  <2>8. CASE GiveUp(t)
    BY <2>8 DEF GiveUp, TakeMutex
  <2>9. CASE FinalSeesBump(t)
    BY <2>9 DEF FinalSeesBump
  <2>10. CASE Sleep(t)
    BY <2>10 DEF Sleep, MaySleep
  <2>11. CASE WaitReturns(t)
    BY <2>11 DEF WaitReturns, TakeMutex
  <2>12. CASE WakeSleepers(t)
    BY <2>12 DEF WakeSleepers
  <2> QED
    BY <1>2, <2>1, <2>2, <2>3, <2>4, <2>5, <2>6, <2>7, <2>8, <2>9, <2>10, <2>11, <2>12
       DEF Client, Library
<1> QED
  BY <1>1, <1>2 DEF Next

\* The invariant holds of every reachable state.
LEMMA Invariant == Spec => []IInv
  BY InitInv, NextInv, PTL DEF Spec

\* Type correctness, for any number of threads, spins and broadcasts.
THEOREM TypeCorrect == Spec => []TypeOK
  BY Invariant, PTL DEF IInv

\* Nobody goes to sleep on a counter that a broadcast has bumped since wait()
\* read it: the last look under the lock closes the race.
THEOREM WaitersAreReached == Spec => []NobodyOversleeps
  BY Invariant, PTL DEF IInv

\* The initial states are initial states of the abstract condition.
LEMMA RefinesInit == Init => Cond!Init
  BY NullThreadAssumption DEF Init, Cond!Init, AbstractOwner, StillWaiting, Released, WaitPcs

\* Every step is a step of the abstract condition or changes nothing it shows.
LEMMA RefinesNext == IInv /\ IInv' /\ [Next]_vars => [Cond!Next]_(Cond!vars)
<1> SUFFICES ASSUME IInv, IInv', [Next]_vars PROVE [Cond!Next]_(Cond!vars)
  OBVIOUS
<1> USE NullThreadAssumption
    DEF IInv, TypeOK, OwnerInv, CounterInv, SleepersSleep, WaitPcs, Goto,
        AbstractOwner, StillWaiting, Released
<1>1. CASE UNCHANGED vars
  BY <1>1 DEF vars, Cond!vars
<1>2. ASSUME NEW t \in Threads, Client(t) \/ Library(t) PROVE [Cond!Next]_(Cond!vars)
  <2>1. CASE Lock(t)
    <3>1. Cond!Acquire(t)
      BY <2>1 DEF Lock, TakeMutex, Cond!Acquire, Cond!Take
    <3> QED BY <3>1 DEF Cond!Next
  <2>2. CASE Unlock(t)
    <3>1. Cond!Release(t)
      BY <2>2 DEF Unlock, Cond!Release
    <3> QED BY <3>1 DEF Cond!Next
  <2>3. CASE CallWait(t)
    <3>1. Cond!Wait(t)
      BY <2>3 DEF CallWait, Cond!Wait
    <3> QED BY <3>1 DEF Cond!Next
  <2>4. CASE Broadcast(t)
    <3>1. Cond!Broadcast(t)
      BY <2>4 DEF Broadcast, Bump, Cond!Broadcast
    <3> QED BY <3>1 DEF Cond!Next
  <2>5. CASE Spin(t)
    BY <2>5 DEF Spin, Cond!vars
  <2>6. CASE SpinSeesBump(t)
    BY <2>6 DEF SpinSeesBump, Cond!vars
  <2>7. CASE Relock(t)
    <3>1. Cond!Return(t)
      BY <2>7 DEF Relock, TakeMutex, Cond!Return, Cond!Take
    <3> QED BY <3>1 DEF Cond!Next
  <2>8. CASE GiveUp(t)
    BY <2>8 DEF GiveUp, TakeMutex, Cond!vars
  <2>9. CASE FinalSeesBump(t)
    <3>1. Cond!Return(t)
      BY <2>9 DEF FinalSeesBump, Cond!Return, Cond!Take
    <3> QED BY <3>1 DEF Cond!Next
  <2>10. CASE Sleep(t)
    BY <2>10 DEF Sleep, Cond!vars
  <2>11. CASE WaitReturns(t)
    <3>1. Cond!Return(t)
      BY <2>11 DEF WaitReturns, TakeMutex, Cond!Return, Cond!Take
    <3> QED BY <3>1 DEF Cond!Next
  <2>12. CASE WakeSleepers(t)
    BY <2>12 DEF WakeSleepers, Cond!vars
  <2> QED
    BY <1>2, <2>1, <2>2, <2>3, <2>4, <2>5, <2>6, <2>7, <2>8, <2>9, <2>10, <2>11, <2>12
       DEF Client, Library
<1> QED
  BY <1>1, <1>2 DEF Next

\* A waiter returns after a broadcast that came after its wait() began, and after
\* nothing else; a broadcast releases all of them, spinning or asleep.
THEOREM Refinement == Spec => ImplementsCond
  BY RefinesInit, RefinesNext, Invariant, PTL DEF Spec, ImplementsCond, Cond!Spec
=============================================================================
