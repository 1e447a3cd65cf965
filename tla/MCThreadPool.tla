---- MODULE MCThreadPool ----
EXTENDS ThreadPool
CONSTANTS c1, c2, w1, w2, w3, w4

Symmetry == Permutations(Workers) \union Permutations(Clients)

release(s) == [op |-> "release", semaphore |-> s, count |-> 1]
call(c) == [op |-> "call", call |-> c]
acquire(s, n) == [semaphore |-> s, count |-> n]

\* The programs, by their outermost calls.
\*   "fork": a producer and a consumer with a folded buffer of one slot between.
\*   "rows": a parallel loop over such forks.
\*   "outers": a parallel loop in a parallel loop.
\*   "ys": a parallel loop in a parallel loop, over a fork that blocks.
MCCalls == {"fork", "rows", "outers", "inners", "ys", "xs", "pair", "batch"}
MCTasks == {"produce", "consume", "row", "outer", "inner", "y", "x", "first", "second", "make", "use"}
MCSemaphores == {"ready", "room"}

MCTasksOf ==
    [fork |-> <<"produce", "consume">>, rows |-> <<"row">>,
     outers |-> <<"outer">>, inners |-> <<"inner">>,
     ys |-> <<"y">>, xs |-> <<"x">>, pair |-> <<"first", "second">>,
     batch |-> <<"make", "use">>]

MCInitially == [c \in MCCalls |-> [ready |-> 0, room |-> IF c = "batch" THEN 2 ELSE 1]]

MCLoop ==
    [produce |-> "serial", consume |-> "serial", row |-> "parallel",
     outer |-> "parallel", inner |-> "parallel", y |-> "parallel", x |-> "parallel",
     first |-> "once", second |-> "once",
     make |-> "serial", use |-> "serial"]

MCExtent ==
    [produce |-> 2, consume |-> 2, row |-> 2, outer |-> 2, inner |-> 2, y |-> 2, x |-> 4,
     first |-> 1, second |-> 1, make |-> 4, use |-> 2]

MCAcquires ==
    [k \in MCTasks |->
        CASE k = "produce" -> <<acquire("room", 1)>>
          [] k \in {"consume", "second"} -> <<acquire("ready", 1)>>
          [] k = "make" -> <<acquire("room", 1)>>
          [] k = "use" -> <<acquire("ready", 2)>>
          [] OTHER -> <<>>]

MCBody ==
    [produce |-> <<release("ready")>>, consume |-> <<release("room")>>,
     row |-> <<call("fork")>>, outer |-> <<call("inners")>>, inner |-> <<>>,
     y |-> <<call("xs")>>, x |-> <<call("pair")>>,
     first |-> <<release("ready")>>, second |-> <<>>,
     make |-> <<release("ready")>>, use |-> <<release("room"), release("room")>>]

\* Which of these programs the theorems FailuresReachOwners and LoopsAreNeverStuck speak
\* of: those in which it is the producer that fails (its rows fail with it) and not
\* the consumer, and those of parallel loops alone.
ASSUME TheoremsAssumption ==
    /\ MayFail = {"produce"} => FailsFirst({"produce", "row"})
    /\ MayFail = {"consume"} => \A F \in SUBSET MCTasks : ~FailsFirst(F)
    /\ TopCalls = {"outers"} => NothingBlocks({"outers", "inners"})
    /\ "fork" \in TopCalls => \A C \in SUBSET MCCalls : ~NothingBlocks(C)
====
