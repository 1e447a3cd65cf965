-------------------------- MODULE FastSyncHistory --------------------------
(***************************************************************************)
(* FastSync with a memory of who waited on the condition when a thread     *)
(* called signal or broadcast, to say what those calls promise.            *)
(***************************************************************************)
EXTENDS FastSync

VARIABLES
    call,     \* the notification each thread is in
    called,   \* the waiters when it was called
    owed      \* those of them that are still on the condition

historyVars == <<vars, call, called, owed>>

Idle == {"out", "held"}

HistoryInit ==
    /\ Init
    /\ call = [t \in Threads |-> "none"]
    /\ called = [t \in Threads |-> {}]
    /\ owed = [t \in Threads |-> {}]

Starts(t) == pc[t] \in Idle /\ pc'[t] \in {"signal", "bcast"}
Returns(t) == pc[t] \notin Idle /\ pc'[t] \in Idle

\* When a thread calls, its waiters are noted; while it runs, those that leave
\* the condition are struck off.
HistoryNext ==
    /\ Next
    /\ call' = [t \in Threads |-> IF Starts(t) THEN pc'[t]
                                  ELSE IF Returns(t) THEN "none" ELSE call[t]]
    /\ called' = [t \in Threads |-> IF Starts(t) THEN Sleepers(condition'[t])
                                    ELSE IF Returns(t) THEN {} ELSE called[t]]
    /\ owed' = [t \in Threads |-> IF Starts(t) THEN Sleepers(condition'[t])
                                  ELSE IF Returns(t) THEN {}
                                  ELSE {u \in owed[t] : parkedOn'[u] = condition[t]}]

HistorySpec == HistoryInit /\ [][HistoryNext]_historyVars

\* A broadcast that has untied the condition and is about to move its waiters.
Moving(c) == \E t \in Threads : pc[t] \in {"bcastMake", "bcastMove"} /\ condition[t] = c

\* When a broadcast returns, no thread that waited on the condition at its call
\* still waits: it was woken or moved to the mutex, by this or another call,
\* whatever other signals, broadcasts and waits ran meanwhile; or a concurrent
\* broadcast that has taken them on is just doing it.  When a signal returns, at
\* least one of the threads that waited at its call, if any did, no longer waits,
\* with the same exception.
NotificationsReach ==
    [][\A t \in Threads : Returns(t) =>
          /\ call[t] = "bcast" => owed[t] = {} \/ Moving(condition[t])
          /\ call[t] = "signal" => called[t] = {} \/ owed[t] # called[t] \/ Moving(condition[t])]_historyVars
=============================================================================
