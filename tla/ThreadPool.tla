----------------------------- MODULE ThreadPool -----------------------------
(***************************************************************************)
(* The task system: halide_do_par_for, halide_do_parallel_tasks, the work  *)
(* queue, its workers and the semaphores                                   *)
(* (src/runtime/thread_pool_common.h).                                     *)
(*                                                                         *)
(* A call of the task system puts its jobs on a stack all threads share    *)
(* and then works, itself, until its jobs are done.  Whoever works takes   *)
(* the first job of the stack he may run, and sleeps when there is none.   *)
(* A task may call the task system again.                                  *)
(*                                                                         *)
(* stack[t] holds the activations of worker_thread_already_locked on the   *)
(* thread, one frame each: a frame has the jobs of the call that owns it   *)
(* (none at the bottom of a worker's stack) and the task it runs.  A job   *)
(* is named by where it is: <<thread, depth, index>>.                      *)
(*                                                                         *)
(* The work queue's mutex and its condition variables are the ones that    *)
(* AbstractLock and AbstractCond specify.  One action per turn of a loop   *)
(* under the mutex; the mutex is taken exactly at the pcs of Locked.       *)
(*                                                                         *)
(* What the tasks are is a constant: the program.  The compiler's part in  *)
(* it is the number of threads a task needs (src/LowerParallelTasks.cpp).  *)
(***************************************************************************)
EXTENDS Integers, Sequences, FiniteSets, TLC, SequencesExt, FiniteSetsExt, Functions

CONSTANTS Clients, Workers,        \* Workers: at most MAX_THREADS threads are created
          NumThreads,              \* the values halide_set_num_threads is called with
          DefaultThreads,          \* default_desired_num_threads()
          Calls, Tasks, Semaphores,
          TopCalls,                \* the calls the clients make
          TasksOf,                 \* the tasks of each call
          Initially,               \* its semaphores' initial values
          Loop,                    \* "parallel", "serial" or "once", for each task
          Extent,                  \* task.extent
          Acquires,                \* task.semaphores
          Body,                    \* what one iteration does: releases and calls
          MayFail,                 \* the tasks that may return an error
          NoJob, NoCall

Threads == Clients \union Workers

ASSUME ProgramAssumption ==
    /\ Clients \intersect Workers = {}
    /\ TopCalls \subseteq Calls
    /\ TasksOf \in [Calls -> Seq(Tasks) \ {<<>>}]
    /\ Initially \in [Calls -> [Semaphores -> Nat]]
    /\ Loop \in [Tasks -> {"parallel", "serial", "once"}]
    /\ Extent \in [Tasks -> Nat \ {0}]
    /\ Acquires \in [Tasks -> Seq([semaphore : Semaphores, count : Nat])]
    /\ \A k \in Tasks :
        /\ Loop[k] = "parallel" => Acquires[k] = <<>>
        /\ Loop[k] = "serial" => Acquires[k] # <<>>
        /\ Loop[k] = "once" => Extent[k] = 1
    /\ Body \in [Tasks -> Seq([op : {"call"}, call : Calls]
                             \union [op : {"release"}, semaphore : Semaphores, count : Nat])]
    /\ MayFail \subseteq Tasks

ASSUME ThreadsAssumption ==
    /\ DefaultThreads \in Nat \ {0}
    /\ NumThreads \subseteq Nat \ {0}
    /\ IsFiniteSet(Threads)

ASSUME NullAssumption == NoCall \notin Calls /\ NoJob \notin Threads \X Nat \X Nat

VARIABLES stack,      \* the frames of every thread
          queue,      \* work_queue.jobs, top of the stack first
          reserved,   \* work_queue.threads_reserved
          target,     \* work_queue.target_a_team_size
          desired,    \* work_queue.desired_threads_working
          shutdown,   \* work_queue.shutdown
          cursor,     \* the job a scan of the queue has come to
          pc

vars == <<stack, queue, reserved, target, desired, shutdown, cursor, pc>>

-----------------------------------------------------------------------------
(* The program *)

CallsIn(k) == {step.call : step \in {s \in Range(Body[k]) : s.op = "call"}}

\* MinThreads of one branch of a fork, given what the calls need.
BranchNeeds(needs, k) ==
    LET body == Max({0} \union {needs[c] : c \in CallsIn(k)})
    IN  IF Loop[k] = "serial" \/ (Loop[k] = "parallel" /\ body > 0) THEN body + 1 ELSE body

\* The sum of the values of a function to the numbers, as the size of a set.
Total(f) == Cardinality(UNION {{x} \X (1 .. f[x]) : x \in DOMAIN f})
OverTasks(c, f) == Total([i \in DOMAIN TasksOf[c] |-> f[TasksOf[c][i]]])

CallNeeds[c \in Calls] ==
    LET total == OverTasks(c, [k \in Range(TasksOf[c]) |-> BranchNeeds(CallNeeds, k)])
        direct == \E k \in Range(TasksOf[c]) : Loop[k] = "once" /\ Acquires[k] # <<>>
    IN  IF Len(TasksOf[c]) = 1 THEN total + (IF direct THEN 1 ELSE 0)
        ELSE IF total = 0 /\ ~direct THEN 0 ELSE total + 1

\* task.min_threads: the threads the body of a task needs for the calls it makes.
MinThreads == [k \in Tasks |-> Max({0} \union {CallNeeds[c] : c \in CallsIn(k)})]

\* The tasks of a pipeline are nested, and not without end.
ASSUME NeedsAssumption == MinThreads \in [Tasks -> Nat]

\* The calls that are lowered to halide_do_par_for, which passes no parent on to
\* the calls below it.
IsParFor(c, parent) ==
    /\ parent = NoJob
    /\ Len(TasksOf[c]) = 1
    /\ MinThreads[TasksOf[c][1]] = 0
    /\ Acquires[TasksOf[c][1]] = <<>>

-----------------------------------------------------------------------------
(* Frames, jobs and threads *)

NoRun == [job |-> NoJob, iters |-> 0, total |-> 0, step |-> 1, failed |-> FALSE]

NewJob(k) == [extent |-> Extent[k], active |-> 0, failed |-> FALSE, reserved |-> 0,
              next |-> 1, ran |-> 0]   \* ran: history, the iterations that succeeded

NewFrame(c, parent) ==
    [call |-> c, parent |-> parent, joining |-> 1, failed |-> FALSE, run |-> NoRun,
     jobs |-> [i \in DOMAIN TasksOf[c] |-> NewJob(TasksOf[c][i])],
     semaphore |-> Initially[c]]

WorkerFrame == [call |-> NoCall, parent |-> NoJob, joining |-> 0, failed |-> FALSE,
                run |-> NoRun, jobs |-> <<>>, semaphore |-> <<>>]

Depth(t) == Len(stack[t])
Top(t) == stack[t][Depth(t)]
Frame(j) == stack[j[1]][j[2]]
Job(j) == Frame(j).jobs[j[3]]
Task(j) == TasksOf[Frame(j).call][j[3]]
Needs(j) == MinThreads[Task(j)]
Siblings(j) == {<<j[1], j[2], i>> : i \in DOMAIN Frame(j).jobs}
Owned(t) == IF Top(t).call = NoCall THEN NoJob ELSE <<t, Depth(t), Top(t).joining>>

\* Mutant: a job is over when its last iteration has been claimed.
RunningMutant(j) == Job(j).extent # 0

Running(j) == Job(j).extent # 0 \/ Job(j).active # 0

SetJob(s, j, job) == [s EXCEPT ![j[1]][j[2]].jobs[j[3]] = job]
SetRun(s, t, run) == [s EXCEPT ![t][Depth(t)].run = run]
Reserve(s, j, n) ==
    IF j = NoJob THEN s ELSE [s EXCEPT ![j[1]][j[2]].jobs[j[3]].reserved = @ + n]

\* worker_thread_idle and worker_thread_stall count the sleepers, until they have
\* the mutex again.
Locked == {"loop", "scan"}
Sleeping == {"sleepA", "sleepB", "sleepOwner"}
Awakened == {"wokenA", "wokenB", "wokenOwner"}
Awaken == [sleepA |-> "wokenA", sleepB |-> "wokenB", sleepOwner |-> "wokenOwner"]

LockFree == \A t \in Threads : pc[t] \notin Locked
Created == {w \in Workers : pc[w] # "off"}
threadsCreated == Cardinality(Created)
workersSleeping == Cardinality({w \in Workers : pc[w] \in {"sleepA", "wokenA", "sleepB", "wokenB"}})
ownersSleeping == Cardinality({t \in Threads : pc[t] \in {"sleepOwner", "wokenOwner"}})
aTeamSize == Cardinality({w \in Created : pc[w] \notin {"sleepB", "wokenB"}})
OwnerIsSleeping(j) == pc[j[1]] \in {"sleepOwner", "wokenOwner"} /\ Owned(j[1]) = j

\* broadcast: everybody asleep for one of the reasons wakes up.
Broadcast(p, reasons) ==
    [t \in Threads |-> IF p[t] \in reasons THEN Awaken[p[t]] ELSE p[t]]

Init ==
    /\ stack = [t \in Threads |-> <<>>]
    /\ queue = <<>>
    /\ reserved = 0
    /\ target = 0
    /\ desired = DefaultThreads
    /\ shutdown = FALSE
    /\ cursor = 1
    /\ pc = [t \in Threads |-> IF t \in Clients THEN "out" ELSE "off"]

pool == <<queue, reserved, target, desired, shutdown, cursor>>

-----------------------------------------------------------------------------
(* halide_do_par_for and halide_do_parallel_tasks *)

Call(t, c) ==
    /\ pc[t] = "out" /\ t \in Clients /\ ~shutdown
    /\ stack' = [stack EXCEPT ![t] = <<NewFrame(c, NoJob)>>]
    /\ pc' = [pc EXCEPT ![t] = "enqueue"]
    /\ UNCHANGED pool

\* The threads these jobs may keep waiting; one more for a call without a parent
\* that may block.
MayBlock(c) == \E k \in Range(TasksOf[c]) : MinThreads[k] > 0 \/ Acquires[k] # <<>>
ThreadsWanted(c, parent) ==
    OverTasks(c, MinThreads)
    + (IF parent = NoJob /\ MayBlock(c) THEN 1 ELSE 0)

WorkersToWake(c) == OverTasks(c, [k \in Tasks |-> IF Loop[k] = "serial" THEN 1 ELSE Extent[k]]) - 1
Stealable(c) == \E k \in Range(TasksOf[c]) : MinThreads[k] = 0

\* Threads are created up to the desired number, or as many as the call needs.
ThreadsToSpawn(c) ==
    LET needed == Max({threadsCreated, desired - 1, ThreadsWanted(c, NoJob) + reserved - 1})
    IN  Min({Cardinality(Workers), needed}) - threadsCreated

\* halide_abort_if_false(... "thread over commit"), for a call with a parent.
OverCommits(c, parent) ==
    parent # NoJob /\ ThreadsWanted(c, parent) > Needs(parent) * Job(parent).active - Job(parent).reserved

\* The target size of the A team once the workers are spawned, and who is woken.
NewTarget(c, created) ==
    IF ownersSleeping > 0 \/ workersSleeping < created \/ WorkersToWake(c) > workersSleeping
    THEN created ELSE WorkersToWake(c)

WokenBy(c, teamSize) ==
    {"sleepA"}
    \union (IF target' > teamSize THEN {"sleepB"} ELSE {})
    \union (IF target' > teamSize /\ Stealable(c) THEN {"sleepOwner"} ELSE {})

Push(t, c) == queue' = [i \in DOMAIN TasksOf[c] |-> <<t, Depth(t), i>>] \o queue

\* enqueue_work_already_locked; new are the workers it spawns.
Enqueue(t, new) ==
    LET c == Top(t).call
        parent == Top(t).parent
    IN  /\ pc[t] = "enqueue" /\ LockFree
        /\ Cardinality(new) = IF parent = NoJob THEN ThreadsToSpawn(c) ELSE 0
        /\ IF OverCommits(c, parent)
           THEN pc' = [pc EXCEPT ![t] = "aborted"] /\ UNCHANGED <<stack, pool>>
           ELSE /\ target' = NewTarget(c, threadsCreated + Cardinality(new))
                /\ Push(t, c)
                /\ LET awake == Broadcast(pc, WokenBy(c, aTeamSize + Cardinality(new)))
                   IN  pc' = [u \in Threads |-> IF u \in new THEN "start" ELSE IF u = t THEN "loop" ELSE awake[u]]
                /\ stack' = [u \in Threads |-> IF u \in new THEN <<WorkerFrame>> ELSE stack[u]]
                /\ UNCHANGED <<reserved, desired, shutdown, cursor>>

-----------------------------------------------------------------------------
(* worker_thread_already_locked: the head of the loop *)

Start(t) ==
    /\ pc[t] = "start" /\ LockFree
    /\ pc' = [pc EXCEPT ![t] = "loop"]
    /\ UNCHANGED <<stack, pool>>

WorkerExits(t) ==
    /\ pc[t] = "loop" /\ Owned(t) = NoJob
    /\ shutdown
    /\ pc' = [pc EXCEPT ![t] = "exited"]
    /\ UNCHANGED <<stack, pool>>

\* The owned job is done.  The caller goes on to the next of its jobs ...
Finished(t) == Owned(t) # NoJob /\ ~Running(Owned(t))

\* Mutant: only the failures of the jobs before count.
CallFailedMutant(t) == Top(t).failed

CallFailed(t) == Top(t).failed \/ Job(Owned(t)).failed

JoinNext(t) ==
    /\ pc[t] = "loop" /\ Finished(t)
    /\ Top(t).joining < Len(Top(t).jobs)
    /\ stack' = [stack EXCEPT ![t][Depth(t)].joining = @ + 1, ![t][Depth(t)].failed = CallFailed(t)]
    /\ UNCHANGED <<pc, pool>>

\* ... and returns after the last: to the client, or to the task that called,
\* which goes on or fails with the call.
Return(t) ==
    /\ pc[t] = "loop" /\ Finished(t)
    /\ Top(t).joining = Len(Top(t).jobs)
    /\ IF Depth(t) = 1
       THEN /\ stack' = [stack EXCEPT ![t] = <<>>]
            /\ pc' = [pc EXCEPT ![t] = "out"]
       ELSE LET run == stack[t][Depth(t) - 1].run
                back == [stack EXCEPT ![t] = Front(@)]
            IN  /\ stack' = [back EXCEPT ![t][Depth(t) - 1].run =
                                [run EXCEPT !.step = @ + 1, !.failed = CallFailed(t)]]
                /\ pc' = [pc EXCEPT ![t] = IF CallFailed(t) THEN "finish" ELSE "task"]
    /\ UNCHANGED pool

\* The search for a job in the queue has no other end than finding it.
Unlink(q, j) == RemoveAt(q, CHOOSE i \in DOMAIN q : q[i] = j)

\* The owned job has failed and nobody works on it: it is taken off the queue.
Cancels(t) == Job(Owned(t)).failed /\ Job(Owned(t)).active = 0

CancelOwned(t) ==
    /\ pc[t] = "loop" /\ Owned(t) # NoJob /\ Running(Owned(t))
    /\ Cancels(t)
    /\ queue' = Unlink(queue, Owned(t))
    /\ stack' = SetJob(stack, Owned(t), [Job(Owned(t)) EXCEPT !.extent = 0])
    /\ UNCHANGED <<pc, reserved, target, desired, shutdown, cursor>>

\* The parent has failed: so does the owned job.
Inherits(t) ==
    /\ ~Job(Owned(t)).failed
    /\ Top(t).parent # NoJob /\ Job(Top(t).parent).failed

InheritFailure(t) ==
    /\ pc[t] = "loop" /\ Owned(t) # NoJob /\ Running(Owned(t))
    /\ Inherits(t)
    /\ stack' = SetJob(stack, Owned(t), [Job(Owned(t)) EXCEPT !.failed = TRUE])
    /\ pc' = Broadcast(pc, {"sleepOwner"})
    /\ UNCHANGED pool

StartScan(t) ==
    /\ pc[t] = "loop"
    /\ IF Owned(t) = NoJob THEN ~shutdown
                           ELSE Running(Owned(t)) /\ ~Cancels(t) /\ ~Inherits(t)
    /\ cursor' = 1
    /\ pc' = [pc EXCEPT ![t] = "scan"]
    /\ UNCHANGED <<stack, queue, reserved, target, desired, shutdown>>

-----------------------------------------------------------------------------
(* The scan for a job to run *)

ThreadsAvailable(parent) ==
    IF parent = NoJob THEN threadsCreated + 1 - reserved
    ELSE Needs(parent) * Max({1, Job(parent).active}) - Job(parent).reserved

EnoughThreads(j) == ThreadsAvailable(Frame(j).parent) >= Needs(j)

CanUseThisStack(t, j) ==
    Owned(t) # NoJob /\ Needs(j) > 0 => j \in Siblings(Owned(t))

CanAddWorker(j) == Loop[Task(j)] = "serial" => Job(j).active = 0

Eligible(t, j) == EnoughThreads(j) /\ CanUseThisStack(t, j) /\ CanAddWorker(j)

\* make_runnable acquires the semaphores one by one, from the next one on, and
\* stops, keeping them, at the first that is too low.
FirstTooLow(j) ==
    LET acquires == Acquires[Task(j)]
    IN  Min({i \in Job(j).next .. Len(acquires) :
                Frame(j).semaphore[acquires[i].semaphore] < acquires[i].count}
            \union {Len(acquires) + 1})

Runnable(j) == FirstTooLow(j) = Len(Acquires[Task(j)]) + 1

MakeRunnable(s, j) ==
    LET acquires == Acquires[Task(j)]
        got == Job(j).next .. FirstTooLow(j) - 1
        taken(x) == Total([i \in {i \in got : acquires[i].semaphore = x} |-> acquires[i].count])
    IN  [s EXCEPT ![j[1]][j[2]].semaphore = [x \in Semaphores |-> @[x] - taken(x)],
                  ![j[1]][j[2]].jobs[j[3]].next = IF Runnable(j) THEN 1 ELSE FirstTooLow(j)]

PassOver(t) ==
    /\ pc[t] = "scan" /\ cursor <= Len(queue)
    /\ LET j == queue[cursor] IN
        \/ ~Eligible(t, j) /\ UNCHANGED stack
        \/ Eligible(t, j) /\ ~Runnable(j) /\ stack' = MakeRunnable(stack, j)
    /\ cursor' = cursor + 1
    /\ UNCHANGED <<pc, queue, reserved, target, desired, shutdown>>

\* Mutant: a job leaves the queue when its iterations are gone, not with the last.
LeavesQueueMutant(j, taken) == Loop[Task(j)] = "serial" \/ taken.extent < 0

LeavesQueue(j, taken) == Loop[Task(j)] = "serial" \/ taken.extent = 0

\* The job is runnable: the thread is one of its workers and reserves the threads
\* it needs.  A serial job leaves the queue while it is worked on, another one
\* with its last iteration.
Take(t) ==
    /\ pc[t] = "scan" /\ cursor <= Len(queue)
    /\ LET j == queue[cursor]
           serial == Loop[Task(j)] = "serial"
           parent == Frame(j).parent
           ready == MakeRunnable(stack, j)
           job == ready[j[1]][j[2]].jobs[j[3]]
           taken == [job EXCEPT !.active = @ + 1, !.extent = IF serial THEN @ ELSE @ - 1]
       IN  /\ Eligible(t, j) /\ Runnable(j)
           /\ stack' = SetRun(Reserve(SetJob(ready, j, taken), parent, Needs(j)), t,
                              [NoRun EXCEPT !.job = j, !.iters = 1])
           /\ reserved' = IF parent = NoJob THEN reserved + Needs(j) ELSE reserved
           /\ queue' = IF LeavesQueue(j, taken) THEN RemoveAt(queue, cursor) ELSE queue
           /\ pc' = [pc EXCEPT ![t] = IF serial THEN "claim" ELSE "task"]
    /\ cursor' = 1
    /\ UNCHANGED <<target, desired, shutdown>>

SleepPc(t) ==
    IF Owned(t) # NoJob THEN "sleepOwner"
    ELSE IF aTeamSize > target THEN "sleepB" ELSE "sleepA"

Sleep(t) ==
    /\ pc[t] = "scan" /\ cursor > Len(queue)
    /\ pc' = [pc EXCEPT ![t] = SleepPc(t)]
    /\ cursor' = 1
    /\ UNCHANGED <<stack, queue, reserved, target, desired, shutdown>>

WakeUp(t) ==
    /\ pc[t] \in Awakened /\ LockFree
    /\ pc' = [pc EXCEPT ![t] = "loop"]
    /\ UNCHANGED <<stack, pool>>

-----------------------------------------------------------------------------
(* A task runs, without the mutex *)

Run(t) == Top(t).run
Step(t) == Body[Task(Run(t).job)][Run(t).step]
InBody(t) == pc[t] = "task" /\ Run(t).step <= Len(Body[Task(Run(t).job)])

CallInTask(t) ==
    /\ InBody(t) /\ Step(t).op = "call"
    /\ LET j == Run(t).job
           parent == IF IsParFor(Frame(j).call, Frame(j).parent) THEN NoJob ELSE j
       IN  stack' = [stack EXCEPT ![t] = Append(@, NewFrame(Step(t).call, parent))]
    /\ pc' = [pc EXCEPT ![t] = "enqueue"]
    /\ UNCHANGED pool

Wakes(old) == old = 0

\* halide_default_semaphore_release, on a semaphore of the task's own call.
ReleaseSemaphore(t) ==
    /\ InBody(t) /\ Step(t).op = "release"
    /\ LET j == Run(t).job
           old == Frame(j).semaphore[Step(t).semaphore]
       IN  /\ stack' = SetRun([stack EXCEPT ![j[1]][j[2]].semaphore[Step(t).semaphore] = @ + Step(t).count],
                              t, [Run(t) EXCEPT !.step = @ + 1])
           /\ pc' = [pc EXCEPT ![t] = IF Wakes(old) THEN "wake" ELSE "task"]
    /\ UNCHANGED pool

WakeWaiters(t) ==
    /\ pc[t] = "wake" /\ LockFree
    /\ pc' = [Broadcast(pc, {"sleepA", "sleepOwner"}) EXCEPT ![t] = "task"]
    /\ UNCHANGED <<stack, pool>>

IterationEnds(t) ==
    /\ pc[t] = "task" /\ Run(t).step > Len(Body[Task(Run(t).job)])
    /\ stack' = SetRun(stack, t, [Run(t) EXCEPT !.step = 1, !.iters = @ - 1, !.total = @ + 1])
    /\ pc' = [pc EXCEPT ![t] = IF Run(t).iters > 1 THEN "task"
                               ELSE IF Loop[Task(Run(t).job)] = "serial" THEN "claim" ELSE "finish"]
    /\ UNCHANGED pool

TaskFails(t) ==
    /\ pc[t] = "task" /\ Task(Run(t).job) \in MayFail
    /\ stack' = SetRun(stack, t, [Run(t) EXCEPT !.failed = TRUE])
    /\ pc' = [pc EXCEPT ![t] = "finish"]
    /\ UNCHANGED pool

\* A serial job: as many iterations as can be had are claimed at once, run, and so
\* on until there are none.

MoreIterations(t) == Job(Run(t).job).extent - Run(t).total > Run(t).iters

Claim(t) ==
    /\ pc[t] = "claim" /\ MoreIterations(t) /\ Runnable(Run(t).job)
    /\ stack' = SetRun(MakeRunnable(stack, Run(t).job), t, [Run(t) EXCEPT !.iters = @ + 1])
    /\ UNCHANGED <<pc, pool>>

ClaimEnds(t) ==
    /\ pc[t] = "claim"
    /\ IF MoreIterations(t)
       THEN ~Runnable(Run(t).job) /\ stack' = MakeRunnable(stack, Run(t).job)
       ELSE UNCHANGED stack
    /\ pc' = [pc EXCEPT ![t] = IF Run(t).iters = 0 THEN "finish" ELSE "task"]
    /\ UNCHANGED pool

\* The thread has the mutex again.  A failure is passed on to the siblings; a job
\* that is over, or a sibling's failure, may wake an owner.  (The worker is still
\* counted when the siblings' owners are looked at.)
WakesSiblings(j) ==
    \E k \in Siblings(j) : ~Job(k).failed /\ Job(j).active = 0 /\ OwnerIsSleeping(k)

\* Mutant: the owner is only woken when the job has succeeded.
WakesOwnerMutant(j, after) ==
    after.active = 0 /\ after.extent = 0 /\ OwnerIsSleeping(j) /\ ~after.failed

\* Mutant: the owner is only woken when the job has failed.
WakesFailedOwnerMutant(j, after) ==
    after.active = 0 /\ after.failed /\ OwnerIsSleeping(j)

WakesOwner(j, after) ==
    after.active = 0 /\ (after.extent = 0 \/ after.failed) /\ OwnerIsSleeping(j)

\* Mutant: a failed task keeps its threads.
ReturnedMutant(j, run) == IF run.failed THEN 0 ELSE Needs(j)

Returned(j, run) == Needs(j)

Left(j, run) ==
    IF Loop[Task(j)] # "serial" THEN Job(j).extent
    ELSE IF run.failed THEN 0 ELSE Job(j).extent - run.total

FailWith(jobs, failed) == [i \in DOMAIN jobs |-> [jobs[i] EXCEPT !.failed = @ \/ failed]]

Finish(t) ==
    /\ pc[t] = "finish" /\ LockFree
    /\ LET run == Run(t)
           j == run.job
           serial == Loop[Task(j)] = "serial"
           after == [Job(j) EXCEPT !.active = @ - 1,
                                   !.extent = Left(j, run),
                                   !.failed = @ \/ run.failed,
                                   !.ran = @ + run.total]
           marked == [stack EXCEPT ![j[1]][j[2]].jobs = FailWith(@, run.failed)]
           back == Returned(j, run)
           parent == Frame(j).parent
       IN  /\ stack' = SetRun(Reserve(SetJob(marked, j, after), parent, -back), t, NoRun)
           /\ reserved' = IF parent = NoJob THEN reserved - back ELSE reserved
           /\ queue' = IF serial /\ after.extent > 0 THEN <<j>> \o queue ELSE queue
           /\ pc' = [IF (run.failed /\ WakesSiblings(j)) \/ WakesOwner(j, after)
                     THEN Broadcast(pc, {"sleepOwner"}) ELSE pc EXCEPT ![t] = "loop"]
    /\ UNCHANGED <<target, desired, shutdown, cursor>>

-----------------------------------------------------------------------------
(* halide_set_num_threads and halide_shutdown_thread_pool *)

SetNumThreads(t, n) ==
    /\ pc[t] = "out" /\ t \in Clients /\ LockFree
    /\ desired' = n
    /\ UNCHANGED <<stack, queue, reserved, target, shutdown, cursor, pc>>

\* The clients shut the pool down when none of them uses it.
Shutdown(t) ==
    /\ t \in Clients /\ ~shutdown /\ Created # {} /\ LockFree
    /\ \A u \in Clients : pc[u] = "out"
    /\ shutdown' = TRUE
    /\ pc' = [Broadcast(pc, Sleeping) EXCEPT ![t] = "join"]
    /\ UNCHANGED <<stack, queue, reserved, target, desired, cursor>>

\* Every thread has been joined: the queue is reset.
Reset(t) ==
    /\ pc[t] = "join"
    /\ \A w \in Created : pc[w] = "exited"
    /\ stack' = [u \in Threads |-> <<>>]
    /\ pc' = [u \in Threads |-> IF u \in Clients THEN "out" ELSE "off"]
    /\ queue' = <<>> /\ reserved' = 0 /\ target' = 0 /\ shutdown' = FALSE
    /\ UNCHANGED <<desired, cursor>>

-----------------------------------------------------------------------------
Client(t) ==
    \/ \E c \in TopCalls : Call(t, c)
    \/ \E n \in NumThreads : SetNumThreads(t, n)
    \/ Shutdown(t)

LoopNext(t) ==
    \/ WorkerExits(t) \/ JoinNext(t) \/ Return(t) \/ CancelOwned(t) \/ InheritFailure(t)
    \/ StartScan(t) \/ PassOver(t) \/ Take(t) \/ Sleep(t)

TaskNext(t) ==
    \/ CallInTask(t) \/ ReleaseSemaphore(t) \/ IterationEnds(t) \/ TaskFails(t)
    \/ Claim(t) \/ ClaimEnds(t)

LockNext(t) ==
    \/ (\E new \in SUBSET (Workers \ Created) : Enqueue(t, new))
    \/ Start(t) \/ WakeUp(t) \/ WakeWaiters(t) \/ Finish(t)

Library(t) == LoopNext(t) \/ TaskNext(t) \/ LockNext(t) \/ Reset(t)

Next ==
    /\ \A t \in Threads : pc[t] # "aborted"
    /\ \E t \in Threads : Client(t) \/ Library(t)

Spec == Init /\ [][Next]_vars

\* A thread that can go on does go on; no client has to call anything.
LiveSpec == Spec /\ \A t \in Threads : WF_vars(Library(t))

-----------------------------------------------------------------------------
(* Properties *)

Frames == UNION {{<<t, d>> : d \in 1 .. Depth(t)} : t \in Threads}
Live == UNION {{<<f[1], f[2], i>> : i \in DOMAIN stack[f[1]][f[2]].jobs} : f \in Frames}
RunsOf(j) == {f \in Frames : stack[f[1]][f[2]].run.job = j}

Pcs == {"out", "off", "start", "enqueue", "aborted", "loop", "scan", "exited", "task", "wake",
        "claim", "finish", "join"} \union Sleeping \union Awakened

TypeOK ==
    /\ pc \in [Threads -> Pcs]
    /\ queue \in Seq(Live)
    /\ reserved \in Nat
    /\ target \in Nat
    /\ desired \in NumThreads \union {DefaultThreads}
    /\ shutdown \in BOOLEAN
    /\ cursor \in 1 .. Len(queue) + 1
    /\ \A j \in Live : Job(j).extent \in 0 .. Extent[Task(j)] /\ Job(j).active \in Nat

\* The jobs somebody may still touch: those in the queue, those that are worked
\* on, and their parents.
Referenced ==
    Range(queue)
    \union {stack[f[1]][f[2]].run.job : f \in Frames}
    \union {stack[f[1]][f[2]].parent : f \in Frames}

\* The jobs live on their owner's stack; when a call returns nobody knows of them
\* any more.
Returns(t) == Len(stack'[t]) < Depth(t)

CallsLeaveNothingBehind ==
    [][\A t \in Threads : Returns(t) /\ pc[t] = "loop" =>
          \A j \in Siblings(<<t, Depth(t), 1>>) : j \notin Referenced']_vars

\* A call that succeeds has run every iteration of its tasks once, whoever ran it.
SuccessMeansDone ==
    [][\A t \in Threads : Returns(t) /\ pc[t] = "loop" /\ ~CallFailed(t) =>
          \A j \in Siblings(<<t, Depth(t), 1>>) : Job(j).ran = Extent[Task(j)]]_vars

\* The threads reserved on the pool and on each parent are those that the running
\* jobs below need, also after failures.
WorksOn(f) == stack[f[1]][f[2]].run.job
Below(parent) == {f \in Frames : WorksOn(f) # NoJob /\ Frame(WorksOn(f)).parent = parent}
NeedsBelow(parent) == Total([f \in Below(parent) |-> Needs(WorksOn(f))])

ReservationsBalance ==
    /\ reserved = NeedsBelow(NoJob)
    /\ \A j \in Live : Job(j).reserved = NeedsBelow(j) /\ Job(j).active = Cardinality(RunsOf(j))

\* A job is in the queue, once, exactly while it has iterations that nobody has
\* taken.  (The search for a failed job has no other end than finding it.)
Enqueued(j) == pc[j[1]] \notin {"enqueue", "aborted"} \/ j[2] < Depth(j[1])

QueueHoldsTheRest ==
    /\ TypeOK
    /\ IsInjective(queue)
    /\ \A j \in Live : j \in Range(queue) <=>
          /\ Enqueued(j)
          /\ Job(j).extent > 0
          /\ Loop[Task(j)] = "serial" => Job(j).active = 0

\* The pool is never stuck: while a call is under way, somebody is awake.
Idle == {"out", "off", "exited"} \union Sleeping
NeverStuck ==
    (\E t \in Clients : pc[t] # "out") => \E t \in Threads : pc[t] \notin Idle

\* What that takes of the program: the tasks of the calls in C acquire no semaphore,
\* need no threads and make no other calls.
NothingBlocks(C) ==
    /\ TopCalls \subseteq C /\ C \subseteq Calls
    /\ \A c \in C : \A k \in Range(TasksOf[c]) :
          Acquires[k] = <<>> /\ MinThreads[k] = 0 /\ CallsIn(k) \subseteq C

\* An owner does not sleep on a job that has failed and that nobody works on.
FailureReachesOwner ==
    \A t \in Threads : pc[t] = "sleepOwner" => ~Cancels(t)

\* What that takes of the program: F has the tasks that may come to fail, which are
\* those that return an error and those that call one of them, and each is the
\* first of its call.
FailsFirst(F) ==
    /\ MayFail \subseteq F
    /\ \A k \in Tasks : (\E c \in CallsIn(k) : Range(TasksOf[c]) \intersect F # {}) => k \in F
    /\ \A c \in Calls : \A i \in DOMAIN TasksOf[c] : TasksOf[c][i] \in F => i = 1

\* The check in enqueue_work_already_locked never fails.
NeverAborts == \A t \in Threads : pc[t] # "aborted"

\* Once the clients stop calling, every call returns.
CallsReturn == []<><<\E t \in Threads : Client(t)>>_vars \/ <>[](\A t \in Clients : pc[t] = "out")
=============================================================================
