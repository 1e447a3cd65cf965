---- MODULE MCFastSync ----
EXTENDS FastSync, TLC
CONSTANTS t1, t2, t3, m1, m2, c1
\* The condition shares a bucket with m2; m1 has one of its own.
Layout == m1 :> 1 @@ m2 :> 2 @@ c1 :> 2
\* The mutexes that the clients use: the condition changes its mutex with t3.
Uses == t1 :> {m1} @@ t2 :> {m1} @@ t3 :> {m1, m2}
MCNext == \E t \in Threads :
    \/ \E m \in Uses[t] : CallLock(t, m)
    \/ CallUnlock(t)
    \/ \E c \in Conds : CallWait(t, c) \/ CallNotify(t, "signal", c) \/ CallNotify(t, "bcast", c)
    \/ Library(t)
MCSpec == Init /\ [][MCNext]_vars /\ Fairness
\* The mutex m1 is a lock: it excludes, and is taken while it is wanted and free.
LockM1 == INSTANCE AbstractLock WITH owner <- Owner(m1), waiting <- Waiting(m1)
MutexIsALock == LockM1!LiveSpec
====
