--------------------------- MODULE ThreadPoolProofs ----------------------------
(***************************************************************************)
(* The inductive invariant of ThreadPool, what preserves it, and the       *)
(* theorems that follow from it.  First come lemmas about stacks whose     *)
(* frames and jobs are changed one by one, about the sums the pool keeps   *)
(* (a sum is the size of a set here), about the parts of the invariant     *)
(* that a step leaves alone, and the steps that neither take a job, end    *)
(* the work on one, make a call nor return from one; then those steps.     *)
(* The last two parts are about programs of one kind each: their failures  *)
(* are explained, and their sleepers wait for what is not over.            *)
(*                                                                         *)
(* A lemma about a change is stated for a state s and a state z after it,  *)
(* with the change itself under a name of its own: so it can be cited      *)
(* without anything being expanded.                                        *)
(***************************************************************************)
EXTENDS ThreadPool, FiniteSetTheorems, SequenceTheorems, WellFoundedInduction, TLAPS

JobsOf(c) == IF c = NoCall THEN {} ELSE DOMAIN TasksOf[c]
Names == Threads \X Nat \X Nat

IsJob(b, k) ==
    /\ b \in [extent : 0 .. Extent[k], active : Nat, failed : BOOLEAN, reserved : Nat,
              next : {b.next}, ran : Nat]
    /\ Acquires[k] = <<>> => b.next = 1

RunType == [job : Names \union {NoJob}, iters : Nat, total : Nat, step : Nat \ {0}, failed : BOOLEAN]

IsFrame(f) ==
    /\ f \in [call : Calls \union {NoCall}, parent : Names \union {NoJob}, joining : Nat,
              failed : BOOLEAN, run : RunType, jobs : {f.jobs}, semaphore : {f.semaphore}]
    /\ f.jobs = [i \in JobsOf(f.call) |-> f.jobs[i]]
    /\ \A i \in JobsOf(f.call) : IsJob(f.jobs[i], TasksOf[f.call][i])

IsStack(s) ==
    DOMAIN s = 1 .. Len(s) /\ Len(s) \in Nat /\ s = [d \in 1 .. Len(s) |-> s[d]] /\ \A d \in 1 .. Len(s) : IsFrame(s[d])

Stacks(s) == s = [t \in Threads |-> s[t]] /\ \A t \in Threads : IsStack(s[t])

At(s, j) == j \in Names /\ j[2] \in 1 .. Len(s[j[1]]) /\ j[3] \in JobsOf(s[j[1]][j[2]].call)
JobAt(s, j) == s[j[1]][j[2]].jobs[j[3]]

KeepsCalls(s, z) ==
    \A u \in Threads : Len(z[u]) = Len(s[u]) /\
        \A d \in 1 .. Len(s[u]) : z[u][d].call = s[u][d].call /\ z[u][d].parent = s[u][d].parent
KeepsJoins(s, z) ==
    \A u \in Threads : \A d \in 1 .. Len(s[u]) :
        z[u][d].joining = s[u][d].joining /\ z[u][d].failed = s[u][d].failed
KeepsRuns(s, z) == \A u \in Threads : \A d \in 1 .. Len(s[u]) : z[u][d].run = s[u][d].run
SameExtents(s, z) == \A j \in Names : At(s, j) => JobAt(z, j).extent = JobAt(s, j).extent
SameActive(s, z) == \A j \in Names : At(s, j) => JobAt(z, j).active = JobAt(s, j).active
SameFailed(s, z) == \A j \in Names : At(s, j) => JobAt(z, j).failed = JobAt(s, j).failed
SameReserved(s, z) == \A j \in Names : At(s, j) => JobAt(z, j).reserved = JobAt(s, j).reserved
SameRan(s, z) == \A j \in Names : At(s, j) => JobAt(z, j).ran = JobAt(s, j).ran
KeepsJobs(s, z) ==
    SameExtents(s, z) /\ SameActive(s, z) /\ SameFailed(s, z) /\ SameReserved(s, z) /\ SameRan(s, z)

\* z is s, but for one frame.
Changed(s, z, t, d, f) ==
    /\ Stacks(z)
    /\ \A u \in Threads : Len(z[u]) = Len(s[u])
    /\ z[t][d] = f
    /\ \A u \in Threads : \A e \in 1 .. Len(s[u]) : (u # t \/ e # d) => z[u][e] = s[u][e]

\* A frame is changed.
LEMMA FrameChange ==
  ASSUME NEW s, Stacks(s), NEW t \in Threads, NEW d \in 1 .. Len(s[t]), NEW f, IsFrame(f), NEW z,
         z = [s EXCEPT ![t][d] = f]
  PROVE  Changed(s, z, t, d, f)
<1>1. z[t] = [s[t] EXCEPT ![d] = f]
  BY DEF Stacks
<1>2. \A u \in Threads : u # t => z[u] = s[u]
  BY DEF Stacks
<1>3. z = [u \in Threads |-> z[u]]
  BY DEF Stacks
<1>4. IsStack(s[t])
  BY DEF Stacks
<1>5. Len(z[t]) = Len(s[t]) /\ DOMAIN z[t] = 1 .. Len(s[t]) /\ z[t] = [e \in 1 .. Len(s[t]) |-> z[t][e]]
  BY <1>1, <1>4, SMTT(30) DEF IsStack
<1>6. \A e \in 1 .. Len(s[t]) : z[t][e] = IF e = d THEN f ELSE s[t][e]
  BY <1>1, <1>4 DEF IsStack
<1>7. IsStack(z[t])
  BY <1>4, <1>5, <1>6 DEF IsStack
<1>8. Stacks(z)
  BY <1>2, <1>3, <1>7 DEF Stacks
<1>9. QED
  BY <1>2, <1>5, <1>6, <1>8 DEF Changed

\* What all changes of a frame that leave its call alone have in common.
LEMMA ChangedKeeps ==
  ASSUME NEW s, Stacks(s), NEW t \in Threads, NEW d \in 1 .. Len(s[t]), NEW f, NEW z, Changed(s, z, t, d, f)
  PROVE  /\ f.call = s[t][d].call /\ f.parent = s[t][d].parent => KeepsCalls(s, z)
         /\ f.joining = s[t][d].joining /\ f.failed = s[t][d].failed => KeepsJoins(s, z)
         /\ f.run = s[t][d].run => KeepsRuns(s, z)
         /\ f.jobs = s[t][d].jobs => KeepsJobs(s, z)
<1>1. \A j \in Names : At(s, j) => j[1] \in Threads /\ j[2] \in 1 .. Len(s[j[1]])
  BY DEF At, Names
<1>2. f.call = s[t][d].call /\ f.parent = s[t][d].parent => KeepsCalls(s, z)
  BY DEF Changed, KeepsCalls
<1>3. f.joining = s[t][d].joining /\ f.failed = s[t][d].failed => KeepsJoins(s, z)
  BY DEF Changed, KeepsJoins
<1>4. f.run = s[t][d].run => KeepsRuns(s, z)
  BY DEF Changed, KeepsRuns
<1>5. ASSUME f.jobs = s[t][d].jobs PROVE KeepsJobs(s, z)
  BY <1>1, <1>5 DEF Changed, KeepsJobs, JobAt, SameExtents, SameActive, SameFailed, SameReserved, SameRan
<1>6. QED
  BY <1>2, <1>3, <1>4, <1>5

\* The run of the top frame is set.
SetsRun(s, z, t, r) ==
    /\ Stacks(z) /\ KeepsCalls(s, z) /\ KeepsJoins(s, z) /\ KeepsJobs(s, z)
    /\ z[t][Len(s[t])].run = r
    /\ \A u \in Threads : \A d \in 1 .. Len(s[u]) : (u # t \/ d # Len(s[t])) => z[u][d].run = s[u][d].run

\* The run of the top frame is set.
LEMMA RunIsSet ==
  ASSUME NEW s, Stacks(s), NEW t \in Threads, Len(s[t]) > 0, NEW r \in RunType, NEW z,
         z = [s EXCEPT ![t][Len(s[t])].run = r]
  PROVE  SetsRun(s, z, t, r)
<1> DEFINE d == Len(s[t])
           f == [s[t][d] EXCEPT !.run = r]
<1>1. d \in 1 .. Len(s[t]) /\ IsFrame(s[t][d])
  BY SMTT(30) DEF Stacks, IsStack
<1>2. IsFrame(f) /\ f.run = r /\ f.call = s[t][d].call /\ f.parent = s[t][d].parent /\ f.jobs = s[t][d].jobs
      /\ f.joining = s[t][d].joining /\ f.failed = s[t][d].failed
  BY <1>1 DEF IsFrame
<1>3. z = [s EXCEPT ![t][d] = f]
  OBVIOUS
<1> HIDE DEF f, d
<1>4. Changed(s, z, t, d, f)
  BY <1>1, <1>2, <1>3, FrameChange
<1>5. KeepsCalls(s, z) /\ KeepsJoins(s, z) /\ KeepsJobs(s, z)
  BY <1>1, <1>2, <1>4, ChangedKeeps
<1>6. z[t][d].run = r /\ \A u \in Threads : \A e \in 1 .. Len(s[u]) : (u # t \/ e # d) => z[u][e].run = s[u][e].run
  BY <1>2, <1>4 DEF Changed
<1>7. QED
  BY <1>4, <1>5, <1>6 DEF SetsRun, Changed, d

\* One job is set.
SetsJob(s, z, j, b) ==
    /\ Stacks(z) /\ KeepsCalls(s, z) /\ KeepsJoins(s, z) /\ KeepsRuns(s, z)
    /\ JobAt(z, j) = b
    /\ \A k \in Names : At(s, k) /\ k # j => JobAt(z, k) = JobAt(s, k)

WithJob(g, i, b) == [g EXCEPT !.jobs[i] = b]

HasJob(g, f, i, b) ==
    /\ IsFrame(f) /\ f.run = g.run /\ f.call = g.call /\ f.parent = g.parent
    /\ f.joining = g.joining /\ f.failed = g.failed
    /\ f.jobs[i] = b /\ \A k \in JobsOf(g.call) : k # i => f.jobs[k] = g.jobs[k]

\* One job of a frame is set.
LEMMA JobsFrame ==
  ASSUME NEW g, IsFrame(g), NEW i \in JobsOf(g.call), NEW b, IsJob(b, TasksOf[g.call][i]),
         NEW f, f = WithJob(g, i, b)
  PROVE  HasJob(g, f, i, b)
<1>1. /\ f.run = g.run /\ f.call = g.call /\ f.parent = g.parent
      /\ f.joining = g.joining /\ f.failed = g.failed /\ f.semaphore = g.semaphore
      /\ f.jobs = [g.jobs EXCEPT ![i] = b]
  BY DEF IsFrame, WithJob
<1>2. f.jobs = [k \in JobsOf(f.call) |-> IF k = i THEN b ELSE g.jobs[k]]
  BY <1>1 DEF IsFrame
<1>3. f \in [call : Calls \union {NoCall}, parent : Names \union {NoJob}, joining : Nat,
              failed : BOOLEAN, run : RunType, jobs : {f.jobs}, semaphore : {f.semaphore}]
  BY <1>1 DEF IsFrame, WithJob
<1>4. f.jobs[i] = b /\ \A k \in JobsOf(g.call) : k # i => f.jobs[k] = g.jobs[k]
  BY <1>1, <1>2
<1>5. f.jobs = [k \in JobsOf(f.call) |-> f.jobs[k]]
  BY <1>2
<1>6. IsFrame(f)
  BY <1>1, <1>3, <1>4, <1>5 DEF IsFrame
<1>7. QED
  BY <1>1, <1>4, <1>6 DEF HasJob

\* A job's place has a thread, a depth and an index.
LEMMA Places ==
  ASSUME NEW s, NEW j \in Names, At(s, j)
  PROVE  j[1] \in Threads /\ j[2] \in Nat /\ j[2] \in 1 .. Len(s[j[1]]) /\ j[3] \in JobsOf(s[j[1]][j[2]].call)
  BY DEF At, Names

\* Places are the same when their parts are.
LEMMA SamePlace ==
  ASSUME NEW j \in Names, NEW k \in Names
  PROVE  j = k <=> j[1] = k[1] /\ j[2] = k[2] /\ j[3] = k[3]
  BY DEF Names

\* The job at a place is set.
LEMMA JobIsSet ==
  ASSUME NEW s, Stacks(s), NEW j \in Names, At(s, j), NEW b,
         IsJob(b, TasksOf[s[j[1]][j[2]].call][j[3]]), NEW z,
         z = SetJob(s, j, b)
  PROVE  SetsJob(s, z, j, b)
<1>1. PICK t, d, i : t \in Threads /\ d \in Nat /\ t = j[1] /\ d = j[2] /\ i = j[3]
  BY Places
<1>12. d \in 1 .. Len(s[t]) /\ i \in JobsOf(s[t][d].call)
  BY <1>1, Places
<1>2. d \in 1 .. Len(s[t]) /\ i \in JobsOf(s[t][d].call) /\ IsFrame(s[t][d])
  BY <1>1, <1>12 DEF Stacks, IsStack
<1>3. PICK f : f = WithJob(s[t][d], i, b)
  OBVIOUS
<1>4. z = [s EXCEPT ![t][d] = f]
  BY <1>1, <1>3, Zenon DEF WithJob, SetJob
<1>0. HasJob(s[t][d], f, i, b)
  BY <1>1, <1>2, <1>3, JobsFrame
<1>5. IsFrame(f) /\ f.run = s[t][d].run /\ f.call = s[t][d].call /\ f.parent = s[t][d].parent
      /\ f.joining = s[t][d].joining /\ f.failed = s[t][d].failed
  BY <1>0 DEF HasJob
<1>6. f.jobs[i] = b /\ \A k \in JobsOf(s[t][d].call) : k # i => f.jobs[k] = s[t][d].jobs[k]
  BY <1>0 DEF HasJob
<1>7. Changed(s, z, t, d, f)
  BY <1>1, <1>2, <1>4, <1>5, FrameChange
<1>8. KeepsCalls(s, z) /\ KeepsJoins(s, z) /\ KeepsRuns(s, z)
  BY <1>1, <1>2, <1>5, <1>7, ChangedKeeps
<1>9. JobAt(z, j) = b
  BY <1>1, <1>6, <1>7 DEF Changed, JobAt
<1>10. ASSUME NEW k \in Names, At(s, k), k # j PROVE JobAt(z, k) = JobAt(s, k)
  <2>1. k[1] \in Threads /\ k[2] \in 1 .. Len(s[k[1]]) /\ k[3] \in JobsOf(s[k[1]][k[2]].call)
    BY <1>10, Places
  <2>2. k[1] # t \/ k[2] # d \/ k[3] # i
    BY <1>1, <1>10, SamePlace
  <2>3. CASE k[1] = t /\ k[2] = d
    <3>1. f.jobs[k[3]] = s[t][d].jobs[k[3]]
      BY <2>1, <2>2, <2>3, <1>6
    <3>2. z[t][d] = f
      BY <1>7 DEF Changed
    <3>3. QED
      BY <2>3, <3>1, <3>2 DEF JobAt
  <2>4. CASE ~(k[1] = t /\ k[2] = d)
    BY <2>1, <2>4, <1>7, Zenon DEF Changed, JobAt
  <2>5. QED
    BY <2>3, <2>4
<1>11. QED
  BY <1>7, <1>8, <1>9, <1>10 DEF SetsJob, Changed

\* The places of a state are those of the state before.
LEMMA PlacesStay ==
  ASSUME NEW s, NEW z, KeepsCalls(s, z), NEW j \in Names
  PROVE  At(z, j) <=> At(s, j)
  BY DEF KeepsCalls, At, Names

Quiet(s, z) == Stacks(z) /\ KeepsCalls(s, z) /\ KeepsJoins(s, z) /\ KeepsRuns(s, z) /\ KeepsJobs(s, z)

\* The position among the semaphores is set.
LEMMA SemaphoreIsSet ==
  ASSUME NEW s, Stacks(s), NEW t \in Threads, NEW d \in 1 .. Len(s[t]), NEW w, NEW z,
         z = [s EXCEPT ![t][d].semaphore = w]
  PROVE  Quiet(s, z)
<1>1. IsFrame(s[t][d])
  BY DEF Stacks, IsStack
<1>2. PICK f : f = [s[t][d] EXCEPT !.semaphore = w]
  OBVIOUS
<1>3. IsFrame(f) /\ f.run = s[t][d].run /\ f.call = s[t][d].call /\ f.parent = s[t][d].parent
      /\ f.joining = s[t][d].joining /\ f.failed = s[t][d].failed /\ f.jobs = s[t][d].jobs
  BY <1>1, <1>2 DEF IsFrame
<1>4. z = [s EXCEPT ![t][d] = f]
  BY <1>2
<1>5. Changed(s, z, t, d, f)
  BY <1>3, <1>4, FrameChange
<1>6. KeepsCalls(s, z) /\ KeepsJoins(s, z) /\ KeepsRuns(s, z) /\ KeepsJobs(s, z)
  BY <1>3, <1>5, ChangedKeeps
<1>7. QED
  BY <1>5, <1>6 DEF Quiet, Changed

\* Only what the job's own semaphores tell is changed.
LEMMA QuietJob ==
  ASSUME NEW s, Stacks(s), NEW j \in Names, At(s, j), NEW b,
         IsJob(b, TasksOf[s[j[1]][j[2]].call][j[3]]), NEW z,
         SetsJob(s, z, j, b),
         b.extent = JobAt(s, j).extent, b.active = JobAt(s, j).active, b.failed = JobAt(s, j).failed,
         b.reserved = JobAt(s, j).reserved, b.ran = JobAt(s, j).ran
  PROVE  Quiet(s, z)
<1>1. KeepsJobs(s, z)
  BY DEF KeepsJobs, SetsJob, SameExtents, SameActive, SameFailed, SameReserved, SameRan
<1>2. QED
  BY <1>1 DEF Quiet, SetsJob

\* A job of the right type.
LEMMA JobsType ==
  ASSUME NEW s, Stacks(s), NEW j \in Names, At(s, j)
  PROVE  IsJob(JobAt(s, j), TasksOf[s[j[1]][j[2]].call][j[3]])
<1>1. j[1] \in Threads /\ j[2] \in 1 .. Len(s[j[1]]) /\ j[3] \in JobsOf(s[j[1]][j[2]].call)
  BY Places
<1>2. IsFrame(s[j[1]][j[2]])
  BY <1>1 DEF Stacks, IsStack
<1>3. QED
  BY <1>1, <1>2 DEF IsFrame, JobAt

\* Two quiet changes are one.
LEMMA QuietTrans ==
  ASSUME NEW s, NEW y, NEW z, Quiet(s, y), Quiet(y, z)
  PROVE  Quiet(s, z)
<1>1. KeepsCalls(s, z)
  BY DEF Quiet, KeepsCalls
<1>2. KeepsJoins(s, z)
  BY DEF Quiet, KeepsCalls, KeepsJoins
<1>3. KeepsRuns(s, z)
  BY DEF Quiet, KeepsCalls, KeepsRuns
<1>4. KeepsJobs(s, z)
  BY PlacesStay DEF Quiet, KeepsJobs, SameExtents, SameActive, SameFailed, SameReserved, SameRan
<1>5. QED
  BY <1>1, <1>2, <1>3, <1>4 DEF Quiet

\* A job without semaphores to acquire can be run.
LEMMA NothingToAcquire ==
  ASSUME Stacks(stack), NEW j \in Names, At(stack, j), Acquires[Task(j)] = <<>>
  PROVE  Runnable(j)
<1>1. Job(j).next = 1
  <2>1. IsJob(JobAt(stack, j), TasksOf[stack[j[1]][j[2]].call][j[3]])
    BY JobsType
  <2>2. Task(j) = TasksOf[stack[j[1]][j[2]].call][j[3]] /\ Job(j) = JobAt(stack, j)
    BY DEF Task, Job, JobAt, Frame
  <2>3. QED
    BY <2>1, <2>2 DEF IsJob
<1>2. PICK a : a = Acquires[Task(j)] /\ Len(a) = 0
  OBVIOUS
<1>3. {i \in Job(j).next .. Len(a) : Frame(j).semaphore[a[i].semaphore] < a[i].count} \union {Len(a) + 1} = {1}
  <2>1. Job(j).next .. Len(a) = {}
    BY <1>1, <1>2
  <2>2. QED
    BY <1>2, <2>1
<1>4. Min({1}) = 1
  BY DEF Min
<1>5. FirstTooLow(j) = 1
  BY <1>2, <1>3, <1>4 DEF FirstTooLow
<1>6. QED
  BY <1>2, <1>5 DEF Runnable

\* make_runnable changes the job's position among its semaphores, and them.
LEMMA MakeRunnableIsQuiet ==
  ASSUME NEW s, s = stack, Stacks(s), NEW j \in Names, At(s, j)
  PROVE  Quiet(s, MakeRunnable(s, j))
<1>1. PICK t, d, i : t \in Threads /\ d \in Nat /\ t = j[1] /\ d = j[2] /\ i = j[3]
  BY Places
<1>2. d \in 1 .. Len(s[t]) /\ i \in JobsOf(s[t][d].call) /\ IsFrame(s[t][d])
  BY <1>1, Places DEF Stacks, IsStack
<1>3. PICK v, w : /\ MakeRunnable(s, j) = [s EXCEPT ![t][d].semaphore = w, ![t][d].jobs[i].next = v]
                  /\ v = IF Runnable(j) THEN 1 ELSE FirstTooLow(j)
  BY <1>1, Zenon DEF MakeRunnable
<1>17. Acquires[Task(j)] = <<>> => v = 1
  BY <1>3, NothingToAcquire
<1>18. Task(j) = TasksOf[s[t][d].call][i]
  BY <1>1 DEF Task, Frame
<1>4. PICK y : y = [s EXCEPT ![t][d].semaphore = w]
  OBVIOUS
<1>5. MakeRunnable(s, j) = [y EXCEPT ![t][d].jobs[i].next = v]
  BY <1>3, <1>4
<1>6. Quiet(s, y)
  BY <1>1, <1>2, <1>4, SemaphoreIsSet
<1>0. Stacks(y) /\ KeepsCalls(s, y)
  BY <1>6 DEF Quiet
<1>15. At(y, j)
  BY <1>0, PlacesStay
<1>16. y[t][d].call = s[t][d].call
  BY <1>0, <1>1, <1>2 DEF KeepsCalls
<1>7. At(y, j) /\ Stacks(y) /\ y[t][d].call = s[t][d].call
  BY <1>0, <1>15, <1>16
<1>8. PICK b : b = [JobAt(y, j) EXCEPT !.next = v]
  OBVIOUS
<1>9. IsJob(JobAt(y, j), TasksOf[y[t][d].call][i])
  BY <1>1, <1>7, JobsType
<1>10. /\ IsJob(b, TasksOf[y[t][d].call][i]) /\ b.extent = JobAt(y, j).extent /\ b.active = JobAt(y, j).active
       /\ b.failed = JobAt(y, j).failed /\ b.reserved = JobAt(y, j).reserved /\ b.ran = JobAt(y, j).ran
  BY <1>7, <1>8, <1>9, <1>17, <1>18 DEF IsJob
<1>11. MakeRunnable(s, j) = SetJob(y, j, b)
  BY <1>1, <1>5, <1>8, Zenon DEF JobAt, SetJob
<1>12. SetsJob(y, MakeRunnable(s, j), j, b)
  BY <1>1, <1>7, <1>10, <1>11, JobIsSet, Zenon
<1>13. Quiet(y, MakeRunnable(s, j))
  BY <1>1, <1>7, <1>10, <1>12, QuietJob, Zenon
<1>14. QED
  BY <1>6, <1>13, QuietTrans

Reserves(s, z, j, n) ==
    /\ Stacks(z) /\ KeepsCalls(s, z) /\ KeepsJoins(s, z) /\ KeepsRuns(s, z)
    /\ j # NoJob => JobAt(z, j).reserved = JobAt(s, j).reserved + n
    /\ SameExtents(s, z) /\ SameActive(s, z) /\ SameFailed(s, z) /\ SameRan(s, z)
    /\ \A k \in Names : At(s, k) /\ k # j => JobAt(z, k).reserved = JobAt(s, k).reserved

\* Reserve changes what is reserved on its job, or in the pool.
LEMMA ReserveReserves ==
  ASSUME NEW s, Stacks(s), NEW n \in Int, NEW j,
         j # NoJob => j \in Names /\ At(s, j) /\ JobAt(s, j).reserved + n \in Nat
  PROVE  Reserves(s, Reserve(s, j, n), j, n)
<1>1. CASE j = NoJob
  BY <1>1, NullAssumption DEF Reserve, Reserves, KeepsCalls, KeepsJoins, KeepsRuns, Names, SameExtents, SameActive, SameFailed, SameReserved, SameRan
<1>2. CASE j # NoJob
  <2>1. PICK b : b = [JobAt(s, j) EXCEPT !.reserved = @ + n]
    OBVIOUS
  <2>2. IsJob(JobAt(s, j), TasksOf[s[j[1]][j[2]].call][j[3]])
    BY <1>2, JobsType
  <2>3. /\ IsJob(b, TasksOf[s[j[1]][j[2]].call][j[3]]) /\ b.reserved = JobAt(s, j).reserved + n
        /\ b.extent = JobAt(s, j).extent /\ b.active = JobAt(s, j).active
        /\ b.failed = JobAt(s, j).failed /\ b.ran = JobAt(s, j).ran
    BY <1>2, <2>1, <2>2 DEF IsJob
  <2>4. Reserve(s, j, n) = SetJob(s, j, b)
    BY <1>2, <2>1, Zenon DEF Reserve, JobAt, SetJob
  <2>5. SetsJob(s, Reserve(s, j, n), j, b)
    BY <1>2, <2>3, <2>4, JobIsSet, Zenon
  <2>6. QED
    BY <2>3, <2>5 DEF SetsJob, Reserves, SameExtents, SameActive, SameFailed, SameReserved, SameRan
<1>3. QED
  BY <1>1, <1>2

-----------------------------------------------------------------------------
(* The invariant *)

Busy == {"task", "wake", "claim", "finish"}

Locals ==
    /\ Stacks(stack)
    /\ pc \in [Threads -> Pcs] /\ target \in Nat /\ shutdown \in BOOLEAN
    /\ desired \in NumThreads \union {DefaultThreads}

\* Where a thread is in the code, and what its stack looks like then.
PcOk(t) ==
    /\ pc[t] \in {"out", "off", "join"} <=> Depth(t) = 0
    /\ pc[t] \in {"out", "join"} => t \in Clients
    /\ pc[t] \in {"off", "start", "exited"} => t \in Workers
    /\ pc[t] \in {"start", "exited"} => Depth(t) = 1
    /\ pc[t] \in {"enqueue", "aborted"} => Top(t).call # NoCall
    /\ pc[t] \in Busy <=> Depth(t) > 0 /\ Top(t).run.job # NoJob
    /\ pc[t] = "claim" => Loop[Task(Top(t).run.job)] = "serial"

PcInv == \A t \in Threads : PcOk(t)

\* A frame above another is a call made by the task that runs below.
NestOk(t, d) ==
    IF d = 1 THEN (stack[t][1].call = NoCall <=> t \in Workers) /\ stack[t][1].parent = NoJob
    ELSE /\ stack[t][d].call # NoCall /\ stack[t][d - 1].run.job # NoJob
         /\ stack[t][d].parent \in {NoJob, stack[t][d - 1].run.job}

NestInv == \A t \in Threads : \A d \in 1 .. Depth(t) : NestOk(t, d)

Serial(j) == Loop[Task(j)] = "serial"

\* A thread works on a job that is there, and has as much of it as it has claimed.
RunOk(t, d) ==
    LET r == stack[t][d].run
    IN  /\ r.job = NoJob => r = NoRun
        /\ r.job # NoJob =>
              /\ At(stack, r.job)
              /\ IF Serial(r.job) THEN r.iters + r.total <= Job(r.job).extent ELSE r.iters + r.total = 1
              /\ d < Depth(t) \/ pc[t] \in {"task", "wake"} => r.iters >= 1
              /\ pc[t] = "finish" /\ d = Depth(t) /\ ~r.failed => r.iters = 0

RunInv == \A t \in Threads : \A d \in 1 .. Depth(t) : RunOk(t, d)

ActiveInv ==
    /\ \A j \in Names : At(stack, j) => Job(j).active = Cardinality(RunsOf(j))
    /\ \A j \in Names : At(stack, j) /\ Serial(j) => Job(j).active <= 1

Waits(j) == Enqueued(j) /\ Job(j).extent > 0 /\ (Serial(j) => Job(j).active = 0)

QueueInv ==
    /\ queue \in Seq(Names) /\ IsInjective(queue)
    /\ \A i \in DOMAIN queue : At(stack, queue[i])
    /\ \A j \in Names : At(stack, j) => (j \in Range(queue) <=> Waits(j))

\* Nobody knows of the jobs that are yet to be enqueued.
FreshInv ==
    \A j \in Names : At(stack, j) /\ ~Enqueued(j) => Job(j).extent > 0 /\ Job(j).active = 0

\* What has been joined is over, and its failure is not forgotten.
JoinOk(f) ==
    f.call # NoCall =>
        /\ f.joining \in JobsOf(f.call)
        /\ \A i \in JobsOf(f.call) : i < f.joining =>
              /\ f.jobs[i].extent = 0 /\ f.jobs[i].active = 0
              /\ f.jobs[i].failed => f.failed \/ \A k \in JobsOf(f.call) : k >= f.joining => f.jobs[k].failed

JoinInv == \A t \in Threads : \A d \in 1 .. Depth(t) : JoinOk(stack[t][d])

\* Every iteration of a job that has not failed is to be had, under way, or done.
AccountInv ==
    \A j \in Names : At(stack, j) /\ ~Job(j).failed =>
        Job(j).extent + Job(j).ran + (IF Serial(j) THEN 0 ELSE Job(j).active) = Extent[Task(j)]

ShutInv ==
    \A t \in Threads : pc[t] = "join" => shutdown /\ \A u \in Clients : u # t => pc[u] = "out"

ScanInv ==
    /\ \A t, u \in Threads : pc[t] \in Locked /\ pc[u] \in Locked => t = u
    /\ cursor \in 1 .. Len(queue) + 1
    /\ (\A t \in Threads : pc[t] # "scan") => cursor = 1

BalanceInv ==
    /\ reserved = NeedsBelow(NoJob)
    /\ \A j \in Names : At(stack, j) => Job(j).reserved = NeedsBelow(j)

IInv ==
    /\ Locals /\ PcInv /\ NestInv /\ RunInv /\ ActiveInv /\ QueueInv /\ FreshInv
    /\ JoinInv /\ AccountInv /\ ShutInv /\ ScanInv /\ BalanceInv

-----------------------------------------------------------------------------
(* Sums *)

\* The image of a finite set is finite.
LEMMA ImageFinite ==
  ASSUME NEW g, IsFiniteSet(DOMAIN g), NEW R, \A y : y \in R <=> \E x \in DOMAIN g : y = g[x]
  PROVE  IsFiniteSet(R)
<1>1. PICK S : S = DOMAIN g
  OBVIOUS
<1>2. PICK h : h = [x \in S |-> g[x]]
  OBVIOUS
<1>3. h \in Surjection(S, R)
  BY <1>1, <1>2 DEF Surjection
<1>4. QED
  BY <1>1, <1>3, FS_Surjection

Slots(f) == UNION {{x} \X (1 .. f[x]) : x \in DOMAIN f}
IsCount(f) == IsFiniteSet(DOMAIN f) /\ \A x \in DOMAIN f : f[x] \in Nat

\* The slots of one summand.
LEMMA SlotsOfOne ==
  ASSUME NEW x, NEW n \in Nat
  PROVE  IsFiniteSet({x} \X (1 .. n)) /\ Cardinality({x} \X (1 .. n)) = n
<1>1. PICK S : S = {x}
  OBVIOUS
<1>2. PICK T : T = 1 .. n
  OBVIOUS
<1>3. IsFiniteSet(S) /\ Cardinality(S) = 1
  BY <1>1, FS_Singleton
<1>4. IsFiniteSet(T) /\ Cardinality(T) = n
  BY <1>2, FS_Interval
<1>5. IsFiniteSet(S \X T) /\ Cardinality(S \X T) = Cardinality(S) * Cardinality(T)
  BY <1>3, <1>4, FS_Product
<1>6. QED
  BY <1>1, <1>2, <1>3, <1>4, <1>5

\* The slots of finitely many summands are finitely many.
LEMMA SlotsFinite ==
  ASSUME NEW f, IsCount(f)
  PROVE  IsFiniteSet(Slots(f))
<1>1. PICK g : g = [x \in DOMAIN f |-> {x} \X (1 .. f[x])]
  OBVIOUS
<1>2. PICK R : R = {g[x] : x \in DOMAIN f}
  OBVIOUS
<1>3. IsFiniteSet(R)
  BY <1>1, <1>2, ImageFinite DEF IsCount
<1>4. \A T \in R : IsFiniteSet(T)
  <2>1. TAKE T \in R
  <2>2. PICK x \in DOMAIN f : T = {x} \X (1 .. f[x])
    BY <1>1, <1>2
  <2>3. QED
    BY <2>2, SlotsOfOne DEF IsCount
<1>5. IsFiniteSet(UNION R)
  BY <1>3, <1>4, FS_UNION
<1>6. Slots(f) = UNION R
  BY <1>1, <1>2 DEF Slots
<1>7. QED
  BY <1>5, <1>6

\* A sum is a number.
LEMMA TotalType ==
  ASSUME NEW f, IsCount(f)
  PROVE  Total(f) \in Nat
<1>1. Total(f) = Cardinality(Slots(f))
  BY DEF Total, Slots
<1>2. QED
  BY <1>1, SlotsFinite, FS_CardinalityType

\* One more summand.
LEMMA TotalGrows ==
  ASSUME NEW f, IsCount(f), NEW g, NEW x, x \notin DOMAIN f, DOMAIN g = DOMAIN f \union {x},
         g[x] \in Nat, \A y \in DOMAIN f : g[y] = f[y]
  PROVE  Total(g) = Total(f) + g[x]
<1>1. PICK T : T = {x} \X (1 .. g[x])
  OBVIOUS
<1>2. IsFiniteSet(T) /\ Cardinality(T) = g[x]
  BY <1>1, SlotsOfOne
<1>3. Slots(g) = Slots(f) \union T
  BY <1>1 DEF Slots
<1>4. Slots(f) \intersect T = {}
  BY <1>1 DEF Slots
<1>5. IsFiniteSet(Slots(f))
  BY SlotsFinite
<1>6. Cardinality(Slots(f) \union T) = Cardinality(Slots(f)) + Cardinality(T) - Cardinality(Slots(f) \intersect T)
  BY <1>2, <1>5, FS_Union
<1>7. Cardinality(Slots(f)) \in Nat /\ Cardinality(T) \in Nat
  BY <1>2, <1>5, FS_CardinalityType
<1>8. Cardinality(Slots(g)) = Cardinality(Slots(f)) + Cardinality(T)
  <2>1. Cardinality(Slots(f) \intersect T) = 0
    BY <1>4, FS_EmptySet
  <2>2. QED
    BY <1>3, <1>6, <1>7, <2>1
<1>9. QED
  BY <1>2, <1>8 DEF Total, Slots

\* A sum of positive numbers is one.
LEMMA TotalPositive ==
  ASSUME NEW f, IsCount(f), NEW x \in DOMAIN f, f[x] >= 1
  PROVE  Total(f) >= 1
<1>1. f[x] \in Nat
  BY DEF IsCount
<1>2. 1 \in 1 .. f[x]
  BY <1>1
<1>3. <<x, 1>> \in Slots(f)
  BY <1>2 DEF Slots
<1>4. Slots(f) # {}
  BY <1>3
<1>5. Cardinality(Slots(f)) # 0 /\ Cardinality(Slots(f)) \in Nat
  BY <1>4, SlotsFinite, FS_EmptySet, FS_CardinalityType
<1>6. QED
  BY <1>5 DEF Total, Slots

-----------------------------------------------------------------------------
(* Who works on what *)

\* The places of frames.
LEMMA FramesAre ==
  ASSUME NEW f
  PROVE  f \in Frames <=> \E t \in Threads : \E d \in 1 .. Depth(t) : f = <<t, d>>
  BY DEF Frames

\* There are finitely many frames.
LEMMA FramesFinite ==
  ASSUME Stacks(stack)
  PROVE  IsFiniteSet(Frames)
<1>1. PICK g : g = [t \in Threads |-> {t} \X (1 .. Depth(t))]
  OBVIOUS
<1>2. PICK R : R = {g[t] : t \in Threads}
  OBVIOUS
<1>3. IsFiniteSet(Threads)
  BY ThreadsAssumption
<1>4. IsFiniteSet(R)
  BY <1>1, <1>2, <1>3, ImageFinite
<1>5. \A T \in R : IsFiniteSet(T)
  <2>1. TAKE T \in R
  <2>2. PICK t \in Threads : T = {t} \X (1 .. Depth(t))
    BY <1>1, <1>2
  <2>3. Depth(t) \in Nat
    BY DEF Stacks, IsStack, Depth
  <2>4. QED
    BY <2>2, <2>3, SlotsOfOne
<1>6. IsFiniteSet(UNION R)
  BY <1>4, <1>5, FS_UNION
<1>7. Frames = UNION R
  <2>1. \A f : f \in UNION R <=> \E t \in Threads : \E d \in 1 .. Depth(t) : f = <<t, d>>
    BY <1>1, <1>2
  <2>2. QED
    BY <2>1, FramesAre
<1>8. QED
  BY <1>6, <1>7

\* The frames that work on a job.
LEMMA RunsAre ==
  ASSUME NEW j, NEW f
  PROVE  f \in RunsOf(j) <=> \E t \in Threads : \E d \in 1 .. Depth(t) : f = <<t, d>> /\ stack[t][d].run.job = j
  BY FramesAre DEF RunsOf

\* They are finitely many.
LEMMA RunsFinite ==
  ASSUME Stacks(stack), NEW j
  PROVE  IsFiniteSet(RunsOf(j)) /\ Cardinality(RunsOf(j)) \in Nat
<1>1. RunsOf(j) \in SUBSET Frames
  BY DEF RunsOf
<1>2. QED
  BY <1>1, FramesFinite, FS_Subset, FS_CardinalityType

\* Who works on a job is one of its workers, and if there is another it has two.
LEMMA RunsCounted ==
  ASSUME Stacks(stack), NEW j, NEW f \in RunsOf(j)
  PROVE  /\ Cardinality(RunsOf(j)) >= 1
         /\ \A g \in RunsOf(j) : g # f => Cardinality(RunsOf(j)) >= 2
<1>1. IsFiniteSet(RunsOf(j)) /\ Cardinality(RunsOf(j)) \in Nat
  BY RunsFinite
<1>2. PICK R : R = RunsOf(j) \ {f}
  OBVIOUS
<1>3. IsFiniteSet(R) /\ Cardinality(R) = Cardinality(RunsOf(j)) - 1
  BY <1>1, <1>2, FS_RemoveElement
<1>4. Cardinality(R) \in Nat /\ (Cardinality(R) = 0 => R = {})
  BY <1>3, FS_CardinalityType, FS_EmptySet
<1>5. QED
  BY <1>1, <1>2, <1>3, <1>4

\* The same for any stacks: where somebody works, on what, and what that needs.
WorksIn(s) == {f \in Threads \X Nat : f[2] \in 1 .. Len(s[f[1]]) /\ s[f[1]][f[2]].run.job # NoJob}
JobIn(s, f) == s[f[1]][f[2]].run.job
ParentIn(s, j) == s[j[1]][j[2]].parent
NeedIn(s, j) == MinThreads[TasksOf[s[j[1]][j[2]].call][j[3]]]
RunsIn(s, j) == {f \in WorksIn(s) : JobIn(s, f) = j}
BelowIn(s, p) == {f \in WorksIn(s) : ParentIn(s, JobIn(s, f)) = p}
NeedsIn(s, p) == Total([f \in BelowIn(s, p) |-> NeedIn(s, JobIn(s, f))])

FramesOf(s) == UNION {{<<t, d>> : d \in 1 .. Len(s[t])} : t \in Threads}

\* The frames of any stacks.
LEMMA FramesIn ==
  ASSUME NEW s, Stacks(s), NEW f
  PROVE  f \in FramesOf(s) <=> f \in Threads \X Nat /\ f[2] \in 1 .. Len(s[f[1]])
<1>1. \A t \in Threads : Len(s[t]) \in Nat
  BY DEF Stacks, IsStack
<1>2. \A t \in Threads : \A d \in 1 .. Len(s[t]) : d \in Nat
  BY <1>1
<1>3. QED
  BY <1>2 DEF FramesOf

\* The frames that work on a job, for the stacks of the state.
LEMMA RunsIsIn ==
  ASSUME Stacks(stack), NEW j, j # NoJob
  PROVE  RunsOf(j) = RunsIn(stack, j)
<1>1. Frames = FramesOf(stack)
  BY DEF Frames, FramesOf, Depth
<1>2. \A f : f \in FramesOf(stack) <=> f \in Threads \X Nat /\ f[2] \in 1 .. Len(stack[f[1]])
  BY FramesIn
<1>3. QED
  BY <1>1, <1>2 DEF RunsOf, RunsIn, WorksIn, JobIn

\* What the jobs below a parent need, for the stacks of the state.
LEMMA NeedsIsIn ==
  ASSUME Stacks(stack), NEW p
  PROVE  NeedsBelow(p) = NeedsIn(stack, p)
<1>1. Frames = FramesOf(stack)
  BY DEF Frames, FramesOf, Depth
<1>2. \A f : f \in FramesOf(stack) <=> f \in Threads \X Nat /\ f[2] \in 1 .. Len(stack[f[1]])
  BY FramesIn
<1>3. Below(p) = BelowIn(stack, p)
  BY <1>1, <1>2 DEF Below, BelowIn, WorksOn, JobIn, WorksIn, Frame, ParentIn
<1>4. \A f : Needs(WorksOn(f)) = NeedIn(stack, JobIn(stack, f))
  BY DEF Needs, Task, Frame, WorksOn, JobIn, NeedIn
<1>5. [f \in Below(p) |-> Needs(WorksOn(f))] = [f \in BelowIn(stack, p) |-> NeedIn(stack, JobIn(stack, f))]
  BY <1>3, <1>4
<1>6. QED
  BY <1>5 DEF NeedsBelow, NeedsIn

\* And after a step.
LEMMA RunsIsInNext ==
  ASSUME Stacks(stack)', NEW j, j # NoJob
  PROVE  RunsOf(j)' = RunsIn(stack', j)
<1>1. Frames' = FramesOf(stack')
  BY DEF Frames, FramesOf, Depth
<1>2. \A f : f \in FramesOf(stack') <=> f \in Threads \X Nat /\ f[2] \in 1 .. Len(stack'[f[1]])
  BY FramesIn
<1>3. QED
  BY <1>1, <1>2 DEF RunsOf, RunsIn, WorksIn, JobIn

\* And for those of the next state.
LEMMA NeedsIsInNext ==
  ASSUME Stacks(stack)', NEW p
  PROVE  NeedsBelow(p)' = NeedsIn(stack', p)
<1>1. Frames' = FramesOf(stack')
  BY DEF Frames, FramesOf, Depth
<1>2. \A f : f \in FramesOf(stack') <=> f \in Threads \X Nat /\ f[2] \in 1 .. Len(stack'[f[1]])
  BY FramesIn
<1>3. Below(p)' = BelowIn(stack', p)
  BY <1>1, <1>2 DEF Below, BelowIn, WorksOn, JobIn, WorksIn, Frame, ParentIn
<1>4. \A f : Needs(WorksOn(f))' = NeedIn(stack', JobIn(stack', f))
  BY DEF Needs, Task, Frame, WorksOn, JobIn, NeedIn
<1>5. [f \in Below(p) |-> Needs(WorksOn(f))]' = [f \in BelowIn(stack', p) |-> NeedIn(stack', JobIn(stack', f))]
  BY <1>3, <1>4
<1>6. QED
  BY <1>5 DEF NeedsBelow, NeedsIn

\* What somebody works on stays as it is.
WorkKept(s, z) ==
    \A f \in WorksIn(s) :
        /\ JobIn(z, f) = JobIn(s, f)
        /\ ParentIn(z, JobIn(s, f)) = ParentIn(s, JobIn(s, f))
        /\ NeedIn(z, JobIn(s, f)) = NeedIn(s, JobIn(s, f))

\* When the same frames work on the same jobs, each job has the same workers.
LEMMA RunsSame ==
  ASSUME NEW s, NEW z, WorksIn(z) = WorksIn(s), WorkKept(s, z), NEW j
  PROVE  RunsIn(z, j) = RunsIn(s, j)
  BY DEF RunsIn, WorkKept

\* And what they need is the same.
LEMMA NeedsSame ==
  ASSUME NEW s, NEW z, WorksIn(z) = WorksIn(s), WorkKept(s, z), NEW p
  PROVE  NeedsIn(z, p) = NeedsIn(s, p)
<1>1. BelowIn(z, p) = BelowIn(s, p)
  BY DEF BelowIn, WorkKept
<1>2. \A f \in BelowIn(s, p) : NeedIn(z, JobIn(z, f)) = NeedIn(s, JobIn(s, f))
  BY DEF BelowIn, WorkKept
<1>3. [f \in BelowIn(z, p) |-> NeedIn(z, JobIn(z, f))] = [f \in BelowIn(s, p) |-> NeedIn(s, JobIn(s, f))]
  BY <1>1, <1>2
<1>4. QED
  BY <1>3 DEF NeedsIn

\* A thread begins to work on job j at frame f.
WorkBegins(s, z, f, j) ==
    /\ f \notin WorksIn(s) /\ WorksIn(z) = WorksIn(s) \union {f}
    /\ WorkKept(s, z) /\ JobIn(z, f) = j

\* When one more frame works on j, j has one more worker, and no other job has.
LEMMA RunsGrow ==
  ASSUME NEW s, NEW z, NEW f, NEW j, WorkBegins(s, z, f, j), NEW k
  PROVE  /\ k = j => RunsIn(z, k) = RunsIn(s, k) \union {f} /\ f \notin RunsIn(s, k)
         /\ k # j => RunsIn(z, k) = RunsIn(s, k)
  BY DEF RunsIn, WorkKept, WorkBegins

\* And what is needed below the parent of j is more by what j needs.
LEMMA NeedsGrow ==
  ASSUME NEW s, NEW z, NEW f, NEW j, WorkBegins(s, z, f, j), NEW p, IsFiniteSet(WorksIn(s)),
         \A g \in WorksIn(z) : NeedIn(z, JobIn(z, g)) \in Nat
  PROVE  /\ p = ParentIn(z, j) => NeedsIn(z, p) = NeedsIn(s, p) + NeedIn(z, j)
         /\ p # ParentIn(z, j) => NeedsIn(z, p) = NeedsIn(s, p)
<1>1. PICK F : F = [g \in BelowIn(s, p) |-> NeedIn(s, JobIn(s, g))]
  OBVIOUS
<1>2. PICK G : G = [g \in BelowIn(z, p) |-> NeedIn(z, JobIn(z, g))]
  OBVIOUS
<1>3. \A g \in BelowIn(s, p) : g \in WorksIn(s) /\ g # f /\ NeedIn(z, JobIn(z, g)) = NeedIn(s, JobIn(s, g))
  BY DEF BelowIn, WorkKept, WorkBegins
<1>4. BelowIn(s, p) \in SUBSET WorksIn(s)
  BY DEF BelowIn
<1>5. IsFiniteSet(BelowIn(s, p))
  BY <1>4, FS_Subset
<1>6. IsCount(F)
  BY <1>1, <1>3, <1>5 DEF IsCount, WorkBegins
<1>7. ASSUME p = ParentIn(z, j) PROVE NeedsIn(z, p) = NeedsIn(s, p) + NeedIn(z, j)
  <2>1. BelowIn(z, p) = BelowIn(s, p) \union {f}
    BY <1>7 DEF BelowIn, WorkKept, WorkBegins
  <2>2. f \notin BelowIn(s, p) /\ f \in WorksIn(z)
    BY <1>3 DEF WorkBegins
  <2>3. f \notin DOMAIN F /\ DOMAIN G = DOMAIN F \union {f} /\ G[f] = NeedIn(z, j) /\ G[f] \in Nat
    BY <1>1, <1>2, <2>1, <2>2 DEF WorkBegins
  <2>4. \A g \in DOMAIN F : G[g] = F[g]
    BY <1>1, <1>2, <1>3, <2>1
  <2>5. Total(G) = Total(F) + G[f]
    BY <1>6, <2>3, <2>4, TotalGrows
  <2>6. QED
    BY <1>1, <1>2, <2>3, <2>5 DEF NeedsIn
<1>8. ASSUME p # ParentIn(z, j) PROVE NeedsIn(z, p) = NeedsIn(s, p)
  <2>1. BelowIn(z, p) = BelowIn(s, p)
    BY <1>8 DEF BelowIn, WorkKept, WorkBegins
  <2>2. G = F
    BY <1>1, <1>2, <1>3, <2>1
  <2>3. QED
    BY <1>1, <1>2, <2>2 DEF NeedsIn
<1>9. QED
  BY <1>7, <1>8

-----------------------------------------------------------------------------
(* What the actions do to the stacks *)

\* The tasks of a call are tasks of the program.
LEMMA TasksType ==
  ASSUME NEW c, NEW i \in JobsOf(c), c \in Calls \union {NoCall}
  PROVE  /\ c \in Calls /\ TasksOf[c][i] \in Tasks /\ JobsOf(c) = 1 .. Len(TasksOf[c]) /\ Len(TasksOf[c]) \in Nat
         /\ i \in Nat /\ Extent[TasksOf[c][i]] \in Nat /\ Extent[TasksOf[c][i]] >= 1
         /\ MinThreads[TasksOf[c][i]] \in Nat /\ Loop[TasksOf[c][i]] \in {"parallel", "serial", "once"}
         /\ Body[TasksOf[c][i]] \in Seq([op : {"call"}, call : Calls]
                                        \union [op : {"release"}, semaphore : Semaphores, count : Nat])
<1>1. c \in Calls /\ TasksOf[c] \in Seq(Tasks)
  BY ProgramAssumption DEF JobsOf
<1>2. TasksOf[c][i] \in Tasks /\ JobsOf(c) = 1 .. Len(TasksOf[c]) /\ Len(TasksOf[c]) \in Nat /\ i \in Nat
  BY <1>1 DEF JobsOf
<1>3. PICK k \in Tasks : k = TasksOf[c][i]
  BY <1>2
<1>4. Extent[k] \in Nat /\ Extent[k] >= 1 /\ MinThreads[k] \in Nat /\ Loop[k] \in {"parallel", "serial", "once"}
  BY ProgramAssumption, NeedsAssumption
<1>5. Body[k] \in Seq([op : {"call"}, call : Calls] \union [op : {"release"}, semaphore : Semaphores, count : Nat])
  BY ProgramAssumption
<1>6. QED
  BY <1>1, <1>2, <1>3, <1>4, <1>5

\* A call has at least one task.
LEMMA CallsTasks ==
  ASSUME NEW c \in Calls
  PROVE  JobsOf(c) = 1 .. Len(TasksOf[c]) /\ Len(TasksOf[c]) \in Nat /\ Len(TasksOf[c]) >= 1
  BY ProgramAssumption, NullAssumption DEF JobsOf

\* The frame of a new call.
LEMMA NewFrameType ==
  ASSUME NEW c \in Calls, NEW p \in Names \union {NoJob}, NEW f, f = NewFrame(c, p)
  PROVE  /\ IsFrame(f) /\ f.call = c /\ f.parent = p /\ f.run = NoRun /\ f.joining = 1
         /\ \A i \in JobsOf(c) : f.jobs[i] = NewJob(TasksOf[c][i])
<1>2. JobsOf(c) = DOMAIN TasksOf[c]
  BY NullAssumption DEF JobsOf
<1>3. f.call = c /\ f.parent = p /\ f.run = NoRun /\ f.joining = 1 /\ f.failed = FALSE
      /\ f.jobs = [i \in JobsOf(c) |-> NewJob(TasksOf[c][i])]
  BY <1>2 DEF NewFrame
<1>4. NoRun \in RunType
  BY DEF NoRun, RunType
<1>5. f \in [call : Calls \union {NoCall}, parent : Names \union {NoJob}, joining : Nat,
              failed : BOOLEAN, run : RunType, jobs : {f.jobs}, semaphore : {f.semaphore}]
  BY <1>3, <1>4 DEF NewFrame
<1>6. \A i \in JobsOf(c) : IsJob(NewJob(TasksOf[c][i]), TasksOf[c][i])
  BY TasksType DEF NewJob, IsJob
<1>7. IsFrame(f)
  BY <1>3, <1>5, <1>6 DEF IsFrame
<1>8. QED
  BY <1>3, <1>7

\* A frame is put on top of a stack.
Pushes(s, z, t, f) ==
    /\ Stacks(z)
    /\ \A u \in Threads : u # t => z[u] = s[u]
    /\ Len(z[t]) = Len(s[t]) + 1 /\ z[t][Len(s[t]) + 1] = f
    /\ \A d \in 1 .. Len(s[t]) : z[t][d] = s[t][d]

\* A frame is put on top of a stack.
LEMMA PushPushes ==
  ASSUME NEW s, Stacks(s), NEW t \in Threads, NEW f, IsFrame(f), NEW z, z = [s EXCEPT ![t] = Append(@, f)]
  PROVE  Pushes(s, z, t, f)
<1>1. z[t] = Append(s[t], f) /\ \A u \in Threads : u # t => z[u] = s[u]
  BY DEF Stacks
<1>2. z = [u \in Threads |-> z[u]]
  BY DEF Stacks
<1>3. IsStack(s[t])
  BY DEF Stacks
<1>4. s[t] \in Seq({s[t][d] : d \in 1 .. Len(s[t])} \union {f})
  BY <1>3 DEF IsStack
<1>5. /\ Len(z[t]) = Len(s[t]) + 1 /\ DOMAIN z[t] = 1 .. Len(z[t]) /\ z[t] = [d \in 1 .. Len(z[t]) |-> z[t][d]]
      /\ z[t][Len(s[t]) + 1] = f /\ \A d \in 1 .. Len(s[t]) : z[t][d] = s[t][d]
  BY <1>1, <1>3, <1>4 DEF IsStack
<1>6. \A d \in 1 .. Len(z[t]) : d \in 1 .. Len(s[t]) \/ d = Len(s[t]) + 1
  BY <1>3, <1>5 DEF IsStack
<1>7. \A d \in 1 .. Len(z[t]) : IsFrame(z[t][d])
  BY <1>3, <1>5, <1>6 DEF IsStack
<1>8. IsStack(z[t])
  BY <1>3, <1>5, <1>7 DEF IsStack
<1>9. Stacks(z)
  BY <1>1, <1>2, <1>8 DEF Stacks
<1>10. QED
  BY <1>1, <1>5, <1>9 DEF Pushes

\* The first n of a sequence.
LEMMA FirstOf ==
  ASSUME NEW S, NEW s, NEW n \in Nat, \A i \in 1 .. n : s[i] \in S
  PROVE  SubSeq(s, 1, n) \in Seq(S) /\ Len(SubSeq(s, 1, n)) = n /\ \A i \in 1 .. n : SubSeq(s, 1, n)[i] = s[i]
<1>1. PICK m \in Int : m = 1
  OBVIOUS
<1>2. n \in Int /\ \A i \in m .. n : s[i] \in S
  BY <1>1
<1>3. SubSeq(s, m, n) \in Seq(S) /\ Len(SubSeq(s, m, n)) = IF m <= n THEN n - m + 1 ELSE 0
  BY <1>2, SubSeqProperties
<1>4. \A i \in 1 .. n - m + 1 : SubSeq(s, m, n)[i] = s[m + i - 1]
  BY <1>2, SubSeqProperties
<1>5. QED
  BY <1>1, <1>3, <1>4

\* The top frame of a stack is taken off.
LEMMA PopPops ==
  ASSUME NEW s, Stacks(s), NEW t \in Threads, Len(s[t]) > 0, NEW z, z = [s EXCEPT ![t] = Front(@)]
  PROVE  Pushes(z, s, t, s[t][Len(s[t])]) /\ Stacks(z)
<1>1. z[t] = Front(s[t]) /\ \A u \in Threads : u # t => z[u] = s[u]
  BY DEF Stacks
<1>2. z = [u \in Threads |-> z[u]]
  BY DEF Stacks
<1>3. IsStack(s[t])
  BY DEF Stacks
<1>4. PICK n \in Nat : n = Len(s[t]) - 1
  BY <1>3 DEF IsStack
<1>5. PICK S : S = {s[t][d] : d \in 1 .. Len(s[t])}
  OBVIOUS
<1>6. \A i \in 1 .. n : s[t][i] \in S
  BY <1>3, <1>4, <1>5 DEF IsStack
<1>7. z[t] = SubSeq(s[t], 1, n)
  BY <1>1, <1>4 DEF Front
<1>8. z[t] \in Seq(S) /\ Len(z[t]) = n /\ \A i \in 1 .. n : z[t][i] = s[t][i]
  BY <1>4, <1>6, <1>7, FirstOf
<1>9. DOMAIN z[t] = 1 .. n /\ z[t] = [d \in 1 .. n |-> z[t][d]]
  BY <1>4, <1>8
<1>10. \A d \in 1 .. n : IsFrame(z[t][d])
  BY <1>3, <1>4, <1>8 DEF IsStack
<1>11. IsStack(z[t])
  BY <1>4, <1>8, <1>9, <1>10 DEF IsStack
<1>12. Stacks(z)
  BY <1>1, <1>2, <1>11 DEF Stacks
<1>13. QED
  BY <1>1, <1>3, <1>4, <1>8, <1>12 DEF Pushes, IsStack

-----------------------------------------------------------------------------
(* Queues *)

\* Two sequences without repetitions that share nothing make one.
LEMMA ConcatInjective ==
  ASSUME NEW S, NEW a \in Seq(S), NEW b \in Seq(S), IsInjective(a), IsInjective(b),
         \A x \in DOMAIN a : \A y \in DOMAIN b : a[x] # b[y]
  PROVE  /\ a \o b \in Seq(S) /\ IsInjective(a \o b) /\ Len(a \o b) = Len(a) + Len(b)
         /\ \A v : v \in Range(a \o b) <=> v \in Range(a) \/ v \in Range(b)
<1>1. PICK c : c = a \o b
  OBVIOUS
<1>2. /\ c \in Seq(S) /\ Len(c) = Len(a) + Len(b) /\ DOMAIN c = 1 .. Len(a) + Len(b)
      /\ Len(a) \in Nat /\ Len(b) \in Nat /\ DOMAIN a = 1 .. Len(a) /\ DOMAIN b = 1 .. Len(b)
  BY <1>1
<1>3. \A i \in 1 .. Len(a) : c[i] = a[i]
  BY <1>1
<1>4. \A i \in 1 .. Len(b) : c[Len(a) + i] = b[i]
  BY <1>1
<1>5. \A i \in DOMAIN c : i \in 1 .. Len(a) \/ (i - Len(a) \in 1 .. Len(b) /\ i = Len(a) + (i - Len(a)))
  BY <1>2
<1>6. IsInjective(c)
  <2>1. SUFFICES ASSUME NEW i \in DOMAIN c, NEW k \in DOMAIN c, c[i] = c[k] PROVE i = k
    BY DEF IsInjective
  <2>2. CASE i \in 1 .. Len(a) /\ k \in 1 .. Len(a)
    BY <2>1, <2>2, <1>2, <1>3 DEF IsInjective
  <2>3. CASE i \in 1 .. Len(a) /\ k \notin 1 .. Len(a)
    BY <2>1, <2>3, <1>2, <1>3, <1>4, <1>5
  <2>4. CASE i \notin 1 .. Len(a) /\ k \in 1 .. Len(a)
    BY <2>1, <2>4, <1>2, <1>3, <1>4, <1>5
  <2>5. CASE i \notin 1 .. Len(a) /\ k \notin 1 .. Len(a)
    <3>1. PICK x \in 1 .. Len(b), y \in 1 .. Len(b) : i = Len(a) + x /\ k = Len(a) + y
      BY <2>5, <1>5
    <3>2. b[x] = b[y]
      BY <2>1, <3>1, <1>4
    <3>3. x = y
      BY <3>1, <3>2, <1>2 DEF IsInjective
    <3>4. QED
      BY <3>1, <3>3
  <2>6. QED
    BY <2>2, <2>3, <2>4, <2>5
<1>7. ASSUME NEW v, v \in Range(c) PROVE v \in Range(a) \/ v \in Range(b)
  <2>1. PICK i \in DOMAIN c : v = c[i]
    BY <1>7 DEF Range
  <2>2. CASE i \in 1 .. Len(a)
    BY <2>1, <2>2, <1>2, <1>3 DEF Range
  <2>3. CASE i \notin 1 .. Len(a)
    <3>1. PICK x \in 1 .. Len(b) : i = Len(a) + x
      BY <2>1, <2>3, <1>5
    <3>2. v = b[x]
      BY <2>1, <3>1, <1>4
    <3>3. QED
      BY <3>1, <3>2, <1>2 DEF Range
  <2>4. QED
    BY <2>2, <2>3
<1>8. ASSUME NEW v, v \in Range(a) PROVE v \in Range(c)
  <2>1. PICK i \in DOMAIN a : v = a[i]
    BY <1>8 DEF Range
  <2>2. i \in DOMAIN c /\ v = c[i]
    BY <2>1, <1>2, <1>3
  <2>3. QED
    BY <2>2 DEF Range
<1>9. ASSUME NEW v, v \in Range(b) PROVE v \in Range(c)
  <2>1. PICK i \in DOMAIN b : v = b[i]
    BY <1>9 DEF Range
  <2>2. Len(a) + i \in DOMAIN c /\ v = c[Len(a) + i]
    BY <2>1, <1>2, <1>4
  <2>3. QED
    BY <2>2 DEF Range
<1>10. QED
  BY <1>1, <1>2, <1>6, <1>7, <1>8, <1>9

\* A part of a sequence.
LEMMA PartOf ==
  ASSUME NEW S, NEW s \in Seq(S), NEW m \in Nat \ {0}, NEW n \in Nat, n <= Len(s), IsInjective(s)
  PROVE  /\ SubSeq(s, m, n) \in Seq(S) /\ IsInjective(SubSeq(s, m, n))
         /\ Len(SubSeq(s, m, n)) = IF m <= n THEN n - m + 1 ELSE 0
         /\ \A v : v \in Range(SubSeq(s, m, n)) <=> \E i \in m .. n : v = s[i]
<1>1. PICK c : c = SubSeq(s, m, n)
  OBVIOUS
<1>2. m \in Int /\ n \in Int /\ Len(s) \in Nat /\ DOMAIN s = 1 .. Len(s) /\ \A i \in m .. n : i \in DOMAIN s /\ s[i] \in S
  OBVIOUS
<1>3. c \in Seq(S) /\ Len(c) = IF m <= n THEN n - m + 1 ELSE 0
  BY <1>1, <1>2, SubSeqProperties
<1>4. \A i \in 1 .. n - m + 1 : c[i] = s[m + i - 1]
  BY <1>1, <1>2, SubSeqProperties
<1>5. DOMAIN c = 1 .. Len(c)
  BY <1>3
<1>6. \A i \in DOMAIN c : i \in Int /\ m + i - 1 \in m .. n /\ c[i] = s[m + i - 1]
  BY <1>2, <1>3, <1>4, <1>5
<1>7. IsInjective(c)
  <2>1. SUFFICES ASSUME NEW i \in DOMAIN c, NEW k \in DOMAIN c, c[i] = c[k] PROVE i = k
    BY DEF IsInjective
  <2>2. m + i - 1 = m + k - 1
    BY <2>1, <1>2, <1>6 DEF IsInjective
  <2>3. QED
    BY <2>2, <1>6
<1>8. ASSUME NEW v, v \in Range(c) PROVE \E i \in m .. n : v = s[i]
  BY <1>6, <1>8 DEF Range
<1>9. ASSUME NEW i \in m .. n PROVE s[i] \in Range(c)
  <2>1. PICK k \in Int : k = i - m + 1
    OBVIOUS
  <2>2. k \in 1 .. n - m + 1 /\ m + k - 1 = i /\ m <= n
    BY <2>1
  <2>3. k \in DOMAIN c /\ c[k] = s[i]
    BY <2>2, <1>3, <1>4, <1>5
  <2>4. QED
    BY <2>3 DEF Range
<1>10. QED
  BY <1>1, <1>3, <1>7, <1>8, <1>9

\* An element is removed from a sequence without repetitions.
LEMMA RemoveAtRemoves ==
  ASSUME NEW S, NEW s \in Seq(S), NEW p \in DOMAIN s, IsInjective(s)
  PROVE  /\ RemoveAt(s, p) \in Seq(S) /\ IsInjective(RemoveAt(s, p)) /\ Len(RemoveAt(s, p)) = Len(s) - 1
         /\ \A v : v \in Range(RemoveAt(s, p)) <=> v \in Range(s) /\ v # s[p]
<1>1. DOMAIN s = 1 .. Len(s) /\ Len(s) \in Nat /\ p \in 1 .. Len(s)
  OBVIOUS
<1>2. PICK a : a = SubSeq(s, 1, p - 1)
  OBVIOUS
<1>3. PICK b : b = SubSeq(s, p + 1, Len(s))
  OBVIOUS
<1>4. PICK m \in Nat \ {0} : m = 1
  OBVIOUS
<1>5. PICK n \in Nat : n = p - 1
  BY <1>1
<1>6. a = SubSeq(s, m, n) /\ n <= Len(s)
  BY <1>1, <1>2, <1>4, <1>5
<1>7. /\ a \in Seq(S) /\ IsInjective(a) /\ Len(a) = IF m <= n THEN n - m + 1 ELSE 0
      /\ \A v : v \in Range(a) <=> \E i \in m .. n : v = s[i]
  BY <1>4, <1>5, <1>6, PartOf
<1>8. PICK k \in Nat \ {0} : k = p + 1
  BY <1>1
<1>9. PICK l \in Nat : l = Len(s)
  BY <1>1
<1>10. b = SubSeq(s, k, l) /\ l <= Len(s)
  BY <1>3, <1>8, <1>9
<1>11. /\ b \in Seq(S) /\ IsInjective(b) /\ Len(b) = IF k <= l THEN l - k + 1 ELSE 0
       /\ \A v : v \in Range(b) <=> \E i \in k .. l : v = s[i]
  <2>1. k \in Nat \ {0} /\ l \in Nat /\ l <= Len(s)
    BY <1>8, <1>9, <1>10
  <2>2. SubSeq(s, k, l) \in Seq(S) /\ IsInjective(SubSeq(s, k, l))
    BY <2>1, PartOf
  <2>3. Len(SubSeq(s, k, l)) = IF k <= l THEN l - k + 1 ELSE 0
    BY <2>1, PartOf
  <2>4. \A v : v \in Range(SubSeq(s, k, l)) <=> \E i \in k .. l : v = s[i]
    BY <2>1, PartOf
  <2>5. QED
    BY <1>10, <2>2, <2>3, <2>4
<1>12. \A x \in DOMAIN a : \A y \in DOMAIN b : a[x] # b[y]
  <2>1. TAKE x \in DOMAIN a
  <2>2. TAKE y \in DOMAIN b
  <2>3. PICK i \in m .. n : a[x] = s[i]
    BY <1>7 DEF Range
  <2>4. PICK j \in k .. l : b[y] = s[j]
    BY <1>11 DEF Range
  <2>5. i \in DOMAIN s /\ j \in DOMAIN s /\ i # j
    BY <1>1, <1>4, <1>5, <1>8, <1>9, <2>3, <2>4
  <2>6. QED
    BY <2>3, <2>4, <2>5 DEF IsInjective
<1>13. RemoveAt(s, p) = a \o b
  BY <1>2, <1>3 DEF RemoveAt
<1>14. /\ a \o b \in Seq(S) /\ IsInjective(a \o b) /\ Len(a \o b) = Len(a) + Len(b)
       /\ \A v : v \in Range(a \o b) <=> v \in Range(a) \/ v \in Range(b)
  BY <1>7, <1>11, <1>12, ConcatInjective
<1>15. Len(a) + Len(b) = Len(s) - 1
  <2>1. Len(a) = p - 1
    BY <1>1, <1>4, <1>5, <1>7
  <2>2. Len(b) = Len(s) - p
    BY <1>1, <1>8, <1>9, <1>11
  <2>3. QED
    BY <1>1, <2>1, <2>2
<1>16. \A v : v \in Range(s) /\ v # s[p] => v \in Range(a) \/ v \in Range(b)
  <2>1. SUFFICES ASSUME NEW v, v \in Range(s), v # s[p] PROVE v \in Range(a) \/ v \in Range(b)
    OBVIOUS
  <2>2. PICK i \in 1 .. Len(s) : v = s[i]
    BY <1>1, <2>1 DEF Range
  <2>3. i \in m .. n \/ i \in k .. l
    BY <1>1, <1>4, <1>5, <1>8, <1>9, <2>1, <2>2
  <2>4. QED
    BY <1>7, <1>11, <2>2, <2>3
<1>17. \A v : v \in Range(a) \/ v \in Range(b) => v \in Range(s) /\ v # s[p]
  <2>1. SUFFICES ASSUME NEW v, v \in Range(a) \/ v \in Range(b) PROVE v \in Range(s) /\ v # s[p]
    OBVIOUS
  <2>2. PICK i \in 1 .. Len(s) : i # p /\ v = s[i]
    BY <1>1, <1>4, <1>5, <1>7, <1>8, <1>9, <1>11, <2>1, SMTT(30)
  <2>3. QED
    BY <1>1, <2>2 DEF Range, IsInjective
<1>18. QED
  BY <1>13, <1>14, <1>15, <1>16, <1>17

-----------------------------------------------------------------------------
(* What a step that changes little leaves standing *)

SameWork(s, z) == \A u \in Threads : \A d \in 1 .. Len(s[u]) : z[u][d].run.job = s[u][d].run.job

\* Jobs that stay at their places stay what they are.
LEMMA CallsStay ==
  ASSUME KeepsCalls(stack, stack'), NEW j \in Names, At(stack, j)
  PROVE  /\ At(stack, j)' /\ Task(j)' = Task(j) /\ Frame(j).parent' = Frame(j).parent
         /\ Needs(j)' = Needs(j) /\ (Serial(j)' <=> Serial(j))
<1>1. j[1] \in Threads /\ j[2] \in 1 .. Len(stack[j[1]])
  BY Places
<1>2. stack'[j[1]][j[2]].call = stack[j[1]][j[2]].call /\ stack'[j[1]][j[2]].parent = stack[j[1]][j[2]].parent
  BY <1>1 DEF KeepsCalls
<1>3. At(stack', j)
  BY PlacesStay
<1>4. Task(j)' = Task(j)
  BY <1>2 DEF Task, Frame
<1>5. QED
  BY <1>2, <1>3, <1>4 DEF Frame, Needs, Serial

\* The places of the next state are places of this one.
LEMMA PlacesBack ==
  ASSUME KeepsCalls(stack, stack'), NEW j \in Names, At(stack, j)'
  PROVE  At(stack, j)
  BY PlacesStay

\* What a frame works on is there.
LEMMA WorkIsThere ==
  ASSUME RunInv, NEW f \in WorksIn(stack)
  PROVE  JobIn(stack, f) \in Names /\ At(stack, JobIn(stack, f))
<1>1. f[1] \in Threads /\ f[2] \in 1 .. Depth(f[1]) /\ stack[f[1]][f[2]].run.job # NoJob
  BY DEF WorksIn, Depth
<1>2. At(stack, stack[f[1]][f[2]].run.job)
  BY <1>1 DEF RunInv, RunOk
<1>3. QED
  BY <1>2 DEF JobIn, At

\* The same frames work on the same jobs.
LEMMA WorkIsSame ==
  ASSUME RunInv, KeepsCalls(stack, stack'), SameWork(stack, stack')
  PROVE  WorksIn(stack') = WorksIn(stack) /\ WorkKept(stack, stack')
<1>1. \A f \in Threads \X Nat : Len(stack'[f[1]]) = Len(stack[f[1]])
  BY DEF KeepsCalls
<1>2. \A f \in Threads \X Nat : f[2] \in 1 .. Len(stack[f[1]]) => stack'[f[1]][f[2]].run.job = stack[f[1]][f[2]].run.job
  BY DEF SameWork
<1>3. WorksIn(stack') = WorksIn(stack)
  BY <1>1, <1>2 DEF WorksIn
<1>4. ASSUME NEW f \in WorksIn(stack)
      PROVE  /\ JobIn(stack', f) = JobIn(stack, f)
             /\ ParentIn(stack', JobIn(stack, f)) = ParentIn(stack, JobIn(stack, f))
             /\ NeedIn(stack', JobIn(stack, f)) = NeedIn(stack, JobIn(stack, f))
  <2>1. JobIn(stack', f) = JobIn(stack, f)
    BY <1>2 DEF WorksIn, JobIn
  <2>2. PICK j \in Names : j = JobIn(stack, f) /\ At(stack, j)
    BY WorkIsThere
  <2>3. stack'[j[1]][j[2]].call = stack[j[1]][j[2]].call /\ stack'[j[1]][j[2]].parent = stack[j[1]][j[2]].parent
    BY <2>2, Places DEF KeepsCalls
  <2>4. QED
    BY <2>1, <2>2, <2>3 DEF ParentIn, NeedIn
<1>5. QED
  BY <1>3, <1>4 DEF WorkKept

\* The frames stay nested.
LEMMA NestStays ==
  ASSUME NestInv, Stacks(stack), KeepsCalls(stack, stack'), SameWork(stack, stack')
  PROVE  NestInv'
<1>1. SUFFICES ASSUME NEW t \in Threads, NEW d \in 1 .. Depth(t)' PROVE NestOk(t, d)'
  BY DEF NestInv
<1>2. Depth(t)' = Depth(t) /\ Depth(t) \in Nat /\ Depth(t) = Len(stack[t])
  BY DEF KeepsCalls, Depth, Stacks, IsStack
<1>3. stack'[t][d].call = stack[t][d].call /\ stack'[t][d].parent = stack[t][d].parent
  BY <1>1, <1>2 DEF KeepsCalls
<1>4. NestOk(t, d)
  BY <1>1, <1>2 DEF NestInv
<1>5. CASE d = 1
  BY <1>3, <1>4, <1>5 DEF NestOk
<1>6. CASE d # 1
  <2>1. d - 1 \in 1 .. Len(stack[t])
    BY <1>1, <1>2, <1>6
  <2>2. stack'[t][d - 1].run.job = stack[t][d - 1].run.job
    BY <2>1 DEF SameWork
  <2>3. QED
    BY <1>3, <1>4, <1>6, <2>2 DEF NestOk
<1>7. QED
  BY <1>5, <1>6

\* Nobody begins or ends its work.
LEMMA ActiveStays ==
  ASSUME ActiveInv, RunInv, Stacks(stack), Stacks(stack'), KeepsCalls(stack, stack'), SameWork(stack, stack'),
         SameActive(stack, stack')
  PROVE  ActiveInv'
<1>1. SUFFICES ASSUME NEW j \in Names, At(stack, j)'
               PROVE  Job(j)'.active = Cardinality(RunsOf(j))' /\ (Serial(j)' => Job(j)'.active <= 1)
  BY DEF ActiveInv
<1>2. At(stack, j) /\ (Serial(j)' <=> Serial(j))
  BY <1>1, PlacesBack, CallsStay
<1>3. Job(j)'.active = Job(j).active
  BY <1>2 DEF SameActive, JobAt, Job, Frame
<1>4. j # NoJob
  BY NullAssumption DEF Names
<1>5. RunsOf(j) = RunsIn(stack, j)
  BY <1>4, RunsIsIn
<1>6. RunsOf(j)' = RunsIn(stack', j)
  BY <1>4, RunsIsInNext
<1>7. RunsIn(stack', j) = RunsIn(stack, j)
  BY WorkIsSame, RunsSame
<1>8. QED
  BY <1>2, <1>3, <1>5, <1>6, <1>7 DEF ActiveInv

\* Nothing is reserved.
LEMMA BalanceStays ==
  ASSUME BalanceInv, RunInv, Stacks(stack), Stacks(stack'), KeepsCalls(stack, stack'), SameWork(stack, stack'),
         SameReserved(stack, stack'), reserved' = reserved
  PROVE  BalanceInv'
<1>1. ASSUME NEW p PROVE NeedsBelow(p)' = NeedsBelow(p)
  <2>1. NeedsBelow(p) = NeedsIn(stack, p)
    BY NeedsIsIn
  <2>2. NeedsBelow(p)' = NeedsIn(stack', p)
    BY NeedsIsInNext
  <2>3. NeedsIn(stack', p) = NeedsIn(stack, p)
    BY WorkIsSame, NeedsSame
  <2>4. QED
    BY <2>1, <2>2, <2>3
<1>2. ASSUME NEW j \in Names, At(stack, j)' PROVE Job(j)'.reserved = NeedsBelow(j)'
  <2>1. At(stack, j)
    BY <1>2, PlacesBack
  <2>2. Job(j)'.reserved = Job(j).reserved
    BY <2>1 DEF SameReserved, JobAt, Job, Frame
  <2>3. QED
    BY <1>1, <2>1, <2>2 DEF BalanceInv
<1>3. QED
  BY <1>1, <1>2 DEF BalanceInv

\* No iteration is claimed, and none is done.
LEMMA AccountStays ==
  ASSUME AccountInv, KeepsCalls(stack, stack'),
         SameExtents(stack, stack'), SameActive(stack, stack'), SameFailed(stack, stack'), SameRan(stack, stack')
  PROVE  AccountInv'
<1>1. SUFFICES ASSUME NEW j \in Names, At(stack, j)', ~Job(j)'.failed
               PROVE  Job(j)'.extent + Job(j)'.ran + (IF Serial(j)' THEN 0 ELSE Job(j)'.active) = Extent[Task(j)']
  BY DEF AccountInv
<1>2. At(stack, j) /\ Task(j)' = Task(j) /\ (Serial(j)' <=> Serial(j))
  BY <1>1, PlacesBack, CallsStay
<1>3. /\ Job(j)'.extent = Job(j).extent /\ Job(j)'.active = Job(j).active
      /\ Job(j)'.failed = Job(j).failed /\ Job(j)'.ran = Job(j).ran
  BY <1>2 DEF SameExtents, SameActive, SameFailed, SameRan, JobAt, Job, Frame
<1>4. QED
  BY <1>1, <1>2, <1>3 DEF AccountInv

\* No owner goes on to the next job.
LEMMA JoinStays ==
  ASSUME JoinInv, Stacks(stack), KeepsCalls(stack, stack'), KeepsJoins(stack, stack'),
         SameExtents(stack, stack'), SameActive(stack, stack'), SameFailed(stack, stack')
  PROVE  JoinInv'
<1>1. SUFFICES ASSUME NEW t \in Threads, NEW d \in 1 .. Depth(t)' PROVE JoinOk(stack'[t][d])
  BY DEF JoinInv
<1>2. d \in 1 .. Len(stack[t]) /\ d \in Nat /\ JoinOk(stack[t][d])
  BY <1>1 DEF JoinInv, KeepsCalls, Depth, Stacks, IsStack
<1>3. PICK f, g : f = stack[t][d] /\ g = stack'[t][d]
  OBVIOUS
<1>4. g.call = f.call /\ g.joining = f.joining /\ g.failed = f.failed
  BY <1>2, <1>3 DEF KeepsCalls, KeepsJoins
<1>5. ASSUME NEW i \in JobsOf(f.call)
      PROVE g.jobs[i].extent = f.jobs[i].extent /\ g.jobs[i].active = f.jobs[i].active /\ g.jobs[i].failed = f.jobs[i].failed
  <2>1. IsFrame(f)
    BY <1>2, <1>3 DEF Stacks, IsStack
  <2>2. f.call \in Calls \union {NoCall}
    BY <2>1 DEF IsFrame
  <2>3. i \in Nat
    BY <2>2, TasksType
  <2>4. PICK j \in Names : j = <<t, d, i>>
    BY <1>2, <2>3 DEF Names
  <2>5. j[1] = t /\ j[2] = d /\ j[3] = i
    BY <2>4
  <2>6. At(stack, j)
    BY <1>2, <1>3, <2>5 DEF At
  <2>7. JobAt(stack, j) = f.jobs[i] /\ JobAt(stack', j) = g.jobs[i]
    BY <1>3, <2>5 DEF JobAt
  <2>8. QED
    BY <2>6, <2>7 DEF SameExtents, SameActive, SameFailed
<1>6. QED
  BY <1>2, <1>3, <1>4, <1>5, SMTT(30) DEF JoinOk

-----------------------------------------------------------------------------
(* Steps of one thread *)

\* The other threads stay where they are, or are woken.
Others(t) ==
    /\ pc' \in [Threads -> Pcs]
    /\ \A u \in Threads : u # t => pc'[u] = pc[u] \/ (pc[u] \in Sleeping /\ pc'[u] \in Awakened)

\* Some sleepers are woken, and t goes to v.
LEMMA BroadcastKeeps ==
  ASSUME pc \in [Threads -> Pcs], NEW t \in Threads, NEW reasons \in SUBSET Sleeping, NEW v \in Pcs,
         pc' = [Broadcast(pc, reasons) EXCEPT ![t] = v]
  PROVE  Others(t) /\ pc'[t] = v
<1>1. \A u \in Threads : u # t => pc'[u] = IF pc[u] \in reasons THEN Awaken[pc[u]] ELSE pc[u]
  BY DEF Broadcast
<1>2. pc' = [u \in Threads |-> pc'[u]] /\ pc'[t] = v
  BY DEF Broadcast
<1>6. \A p \in Sleeping : Awaken[p] \in Awakened
  BY DEF Sleeping, Awakened, Awaken
<1>3. \A u \in Threads : pc[u] \in Pcs /\ (pc[u] \in reasons => pc[u] \in Sleeping /\ Awaken[pc[u]] \in Awakened)
  BY <1>6
<1>4. \A u \in Threads : pc'[u] \in Pcs
  BY <1>1, <1>2, <1>3 DEF Pcs
<1>5. QED
  BY <1>1, <1>2, <1>3, <1>4 DEF Others

\* Only t goes on.
LEMMA OneMoves ==
  ASSUME pc \in [Threads -> Pcs], NEW t \in Threads, NEW v \in Pcs, pc' = [pc EXCEPT ![t] = v]
  PROVE  Others(t) /\ pc'[t] = v
  BY DEF Others

\* Nobody does.
LEMMA NobodyMoves ==
  ASSUME pc \in [Threads -> Pcs], NEW t \in Threads, pc' = pc
  PROVE  Others(t) /\ pc'[t] = pc[t]
  BY DEF Others

\* The places of the program before a call has been entered in the queue.
Before == {"enqueue", "aborted"}

\* A step that neither begins nor ends the shutdown.
LEMMA ShutStays ==
  ASSUME ShutInv, NEW t \in Threads, Others(t), shutdown' = shutdown, pc'[t] # "join",
         pc[t] # "out" \/ pc'[t] = "out" \/ ~shutdown
  PROVE  ShutInv'
<1>1. SUFFICES ASSUME NEW u \in Threads, pc'[u] = "join"
               PROVE  shutdown' /\ \A v \in Clients : v # u => pc'[v] = "out"
  BY DEF ShutInv
<1>2. u # t /\ pc[u] = "join"
  BY <1>1 DEF Others, Awakened
<1>3. shutdown /\ \A v \in Clients : v # u => pc[v] = "out"
  BY <1>2 DEF ShutInv
<1>4. ASSUME NEW v \in Clients, v # u PROVE pc'[v] = "out"
  <2>1. v \in Threads /\ pc[v] = "out"
    BY <1>3, <1>4 DEF Threads
  <2>2. QED
    BY <1>3, <2>1 DEF Others, Sleeping
<1>5. QED
  BY <1>3, <1>4

\* A step that leaves the queue, and the scan, whole.
LEMMA ScanStays ==
  ASSUME ScanInv, NEW t \in Threads, Others(t), cursor' \in 1 .. Len(queue') + 1,
         pc'[t] \in Locked => pc[t] \in Locked \/ LockFree,
         cursor' = 1 \/ pc'[t] = "scan" \/ (cursor' = cursor /\ pc[t] # "scan")
  PROVE  ScanInv'
<1>1. \A u \in Threads : u # t => (pc'[u] = "scan" <=> pc[u] = "scan") /\ (pc'[u] \in Locked <=> pc[u] \in Locked)
  BY DEF Others, Sleeping, Awakened, Locked
<1>2. \A u, v \in Threads : pc'[u] \in Locked /\ pc'[v] \in Locked => u = v
  BY <1>1 DEF ScanInv, LockFree
<1>3. (\A u \in Threads : pc'[u] # "scan") => cursor' = 1
  BY <1>1 DEF ScanInv
<1>4. QED
  BY <1>2, <1>3 DEF ScanInv

\* The run of no frame but the top of t's is changed.
OtherRuns(s, z, t) ==
    \A u \in Threads : \A d \in 1 .. Len(s[u]) : (u # t \/ d # Len(s[t])) => z[u][d].run = s[u][d].run

\* The others are where their work lets them be.
LEMMA PcStays ==
  ASSUME PcInv, RunInv, Stacks(stack), NEW t \in Threads, Others(t), KeepsCalls(stack, stack'),
         OtherRuns(stack, stack', t), PcOk(t)'
  PROVE  PcInv'
<1>1. SUFFICES ASSUME NEW u \in Threads, u # t PROVE PcOk(u)'
  BY DEF PcInv
<1>2. /\ pc'[u] \in Busy <=> pc[u] \in Busy
      /\ \A v \in {"out", "off", "join", "start", "exited", "enqueue", "aborted", "claim"} : pc'[u] = v <=> pc[u] = v
  BY <1>1 DEF Others, Sleeping, Awakened, Busy
<1>3. Depth(u)' = Depth(u) /\ Depth(u) \in Nat /\ Depth(u) = Len(stack[u])
  BY DEF KeepsCalls, Depth, Stacks, IsStack
<1>4. PcOk(u)
  BY DEF PcInv
<1>5. CASE Depth(u) = 0
  BY <1>2, <1>3, <1>4, <1>5 DEF PcOk, Busy
<1>6. CASE Depth(u) # 0
  <2>1. Depth(u) \in 1 .. Len(stack[u])
    BY <1>3, <1>6
  <2>2. Top(u)'.call = Top(u).call /\ Top(u)'.run = Top(u).run
    BY <1>1, <1>3, <2>1 DEF KeepsCalls, OtherRuns, Top
  <2>3. pc[u] = "claim" => Task(Top(u).run.job)' = Task(Top(u).run.job)
    <3>1. SUFFICES ASSUME pc[u] = "claim" PROVE Task(Top(u).run.job)' = Task(Top(u).run.job)
      OBVIOUS
    <3>2. Top(u).run.job # NoJob
      BY <1>4, <3>1 DEF PcOk, Busy
    <3>6. RunOk(u, Depth(u))
      BY <1>3, <2>1 DEF RunInv
    <3>7. At(stack, Top(u).run.job)
      BY <3>2, <3>6 DEF RunOk, Top
    <3>3. PICK j \in Names : j = Top(u).run.job /\ At(stack, j)
      BY <3>7 DEF At
    <3>4. Task(j)' = Task(j)
      BY <3>3, CallsStay
    <3>5. QED
      BY <2>2, <3>3, <3>4
  <2>4. pc'[u] = "claim" <=> pc[u] = "claim"
    BY <1>2
  <2>5. pc'[u] = "claim" => Loop[Task(Top(u).run.job)'] = "serial"
    BY <1>4, <2>3, <2>4 DEF PcOk
  <2>6. QED
    BY <1>2, <1>3, <1>4, <2>2, <2>5 DEF PcOk
<1>7. QED
  BY <1>5, <1>6

\* What the others still have to do of the serial jobs they work on stays the same.
OthersExtents(t) ==
    \A u \in Threads : \A d \in 1 .. Len(stack[u]) :
        LET j == stack[u][d].run.job
        IN  (u # t \/ d # Len(stack[t])) /\ j # NoJob /\ Serial(j) => JobAt(stack', j).extent = JobAt(stack, j).extent

\* The others go on with the work they have.
LEMMA RunMoves ==
  ASSUME RunInv, Stacks(stack), NEW t \in Threads, Others(t), KeepsCalls(stack, stack'),
         OthersExtents(t), OtherRuns(stack, stack', t), Depth(t) > 0 => RunOk(t, Depth(t))'
  PROVE  RunInv'
<1>1. SUFFICES ASSUME NEW u \in Threads, NEW d \in 1 .. Depth(u)', u # t \/ d # Depth(t)
               PROVE  RunOk(u, d)'
  BY DEF RunInv, KeepsCalls, Depth, Stacks, IsStack
<1>2. Depth(u)' = Depth(u) /\ Depth(u) \in Nat /\ Depth(u) = Len(stack[u]) /\ d \in 1 .. Len(stack[u]) /\ RunOk(u, d)
      /\ Depth(t) = Len(stack[t])
  BY <1>1 DEF KeepsCalls, Depth, Stacks, IsStack, RunInv
<1>3. PICK r : r = stack[u][d].run
  OBVIOUS
<1>4. stack'[u][d].run = r
  BY <1>1, <1>2, <1>3 DEF OtherRuns
<1>5. CASE r.job = NoJob
  BY <1>2, <1>3, <1>4, <1>5 DEF RunOk
<1>6. CASE r.job # NoJob
  <2>1. PICK j \in Names : j = r.job /\ At(stack, j)
    BY <1>2, <1>3, <1>6 DEF RunOk, At
  <2>8. At(stack, j)' /\ (Serial(j)' <=> Serial(j))
    BY <2>1, CallsStay
  <2>9. Serial(j) => Job(j)'.extent = Job(j).extent
    BY <1>1, <1>2, <1>3, <1>6, <2>1 DEF OthersExtents, JobAt, Job, Frame
  <2>2. At(stack, j)' /\ (Serial(j)' <=> Serial(j)) /\ (Serial(j) => Job(j)'.extent = Job(j).extent)
    BY <2>8, <2>9
  <2>3. d < Depth(u)' \/ pc'[u] \in {"task", "wake"} => d < Depth(u) \/ pc[u] \in {"task", "wake"}
    <3>1. CASE u # t
      BY <1>2, <3>1 DEF Others, Awakened
    <3>2. CASE u = t
      BY <1>1, <1>2, <3>2
    <3>3. QED
      BY <3>1, <3>2
  <2>4. pc'[u] = "finish" /\ d = Depth(u)' => pc[u] = "finish" /\ d = Depth(u)
    <3>1. CASE u # t
      BY <1>2, <3>1 DEF Others, Awakened
    <3>2. CASE u = t
      BY <1>1, <1>2, <3>2
    <3>3. QED
      BY <3>1, <3>2
  <2>5. /\ IF Serial(j) THEN r.iters + r.total <= Job(j).extent ELSE r.iters + r.total = 1
        /\ d < Depth(u) \/ pc[u] \in {"task", "wake"} => r.iters >= 1
        /\ pc[u] = "finish" /\ d = Depth(u) /\ ~r.failed => r.iters = 0
    BY <1>2, <1>3, <1>6, <2>1 DEF RunOk
  <2>6. IF Serial(j)' THEN r.iters + r.total <= Job(j)'.extent ELSE r.iters + r.total = 1
    BY <2>2, <2>5
  <2>7. QED
    BY <1>4, <1>6, <2>1, <2>2, <2>3, <2>4, <2>5, <2>6 DEF RunOk
<1>7. QED
  BY <1>5, <1>6

\* The same when all jobs keep their extents.
LEMMA RunStays ==
  ASSUME RunInv, Stacks(stack), NEW t \in Threads, Others(t), KeepsCalls(stack, stack'),
         SameExtents(stack, stack'), OtherRuns(stack, stack', t), Depth(t) > 0 => RunOk(t, Depth(t))'
  PROVE  RunInv'
<1>1. ASSUME NEW u \in Threads, NEW d \in 1 .. Len(stack[u]), stack[u][d].run.job # NoJob
      PROVE  JobAt(stack', stack[u][d].run.job).extent = JobAt(stack, stack[u][d].run.job).extent
  <2>1. d \in 1 .. Depth(u)
    BY DEF Depth
  <2>2. RunOk(u, d)
    BY <2>1 DEF RunInv
  <2>3. At(stack, stack[u][d].run.job)
    BY <1>1, <2>2 DEF RunOk
  <2>4. QED
    BY <2>3 DEF SameExtents, At
<1>2. OthersExtents(t)
  BY <1>1 DEF OthersExtents
<1>3. QED
  BY <1>2, RunMoves

\* Nothing is entered in the queue and nothing leaves it.
LEMMA EnqueuedStays ==
  ASSUME Stacks(stack), NEW t \in Threads, Others(t), KeepsCalls(stack, stack'), pc'[t] \in Before <=> pc[t] \in Before,
         NEW j \in Names
  PROVE  Enqueued(j)' <=> Enqueued(j)
<1>1. j[1] \in Threads
  BY DEF Names
<1>2. Depth(j[1])' = Depth(j[1])
  BY <1>1 DEF KeepsCalls, Depth
<1>3. pc'[j[1]] \in Before <=> pc[j[1]] \in Before
  BY <1>1 DEF Others, Before, Sleeping, Awakened
<1>4. QED
  BY <1>2, <1>3 DEF Enqueued, Before

\* Nothing that the queue depends on changes.
LEMMA QueueStays ==
  ASSUME QueueInv, FreshInv, Stacks(stack), NEW t \in Threads, Others(t), KeepsCalls(stack, stack'),
         pc'[t] \in Before <=> pc[t] \in Before, queue' = queue,
         SameExtents(stack, stack'), SameActive(stack, stack')
  PROVE  QueueInv' /\ FreshInv'
<1>1. ASSUME NEW j \in Names, At(stack, j)'
      PROVE  /\ At(stack, j) /\ (Serial(j)' <=> Serial(j)) /\ (Enqueued(j)' <=> Enqueued(j))
             /\ Job(j)'.extent = Job(j).extent /\ Job(j)'.active = Job(j).active
  <2>1. At(stack, j)
    BY <1>1, PlacesBack
  <2>2. Serial(j)' <=> Serial(j)
    BY <2>1, CallsStay
  <2>3. Enqueued(j)' <=> Enqueued(j)
    BY EnqueuedStays
  <2>4. QED
    BY <2>1, <2>2, <2>3 DEF SameExtents, SameActive, JobAt, Job, Frame
<1>2. FreshInv'
  BY <1>1 DEF FreshInv
<1>3. \A i \in DOMAIN queue : queue[i] \in Names /\ At(stack, queue[i])
  BY DEF QueueInv
<1>4. \A i \in DOMAIN queue : At(stack, queue[i])'
  BY <1>3, CallsStay
<1>5. \A j \in Names : At(stack, j)' => (j \in Range(queue) <=> Waits(j)')
  BY <1>1 DEF QueueInv, Waits
<1>6. QED
  BY <1>2, <1>4, <1>5 DEF QueueInv

-----------------------------------------------------------------------------
(* Steps that leave the jobs and the queue alone *)

\* The top frame of a stack.
LEMMA TopIs ==
  ASSUME Stacks(stack), NEW t \in Threads, Depth(t) > 0
  PROVE  /\ Depth(t) \in Nat /\ Depth(t) = Len(stack[t]) /\ Depth(t) \in 1 .. Len(stack[t])
         /\ Top(t) = stack[t][Len(stack[t])] /\ IsFrame(Top(t))
  BY DEF Stacks, IsStack, Depth, Top

\* The height of a stack.
LEMMA DepthIs ==
  ASSUME Stacks(stack), NEW t \in Threads
  PROVE  Depth(t) \in Nat /\ Depth(t) = Len(stack[t])
  BY DEF Stacks, IsStack, Depth

\* Who is in the code has a stack, and what he works on is there.
LEMMA Working ==
  ASSUME IInv, NEW t \in Threads, pc[t] \in Busy
  PROVE  /\ Depth(t) > 0 /\ Top(t).run.job # NoJob /\ Run(t) = Top(t).run
         /\ Run(t).job \in Names /\ At(stack, Run(t).job) /\ RunOk(t, Depth(t))
<1>1. PcOk(t) /\ Stacks(stack) /\ RunInv
  BY DEF IInv, PcInv, Locals
<1>2. Depth(t) > 0 /\ Top(t).run.job # NoJob
  BY <1>1 DEF PcOk
<1>3. Depth(t) \in 1 .. Depth(t)
  BY <1>1, <1>2, TopIs
<1>4. RunOk(t, Depth(t))
  BY <1>1, <1>3 DEF RunInv
<1>5. At(stack, Top(t).run.job)
  BY <1>2, <1>4 DEF RunOk, Top
<1>6. QED
  BY <1>2, <1>4, <1>5 DEF Run, At

\* Whoever is not busy works on nothing.
LEMMA NotWorking ==
  ASSUME IInv, NEW t \in Threads, pc[t] \notin Busy, Depth(t) > 0
  PROVE  Top(t).run = NoRun /\ stack[t][Len(stack[t])].run = NoRun
<1>1. PcOk(t) /\ Stacks(stack) /\ RunInv
  BY DEF IInv, PcInv, Locals
<1>2. Top(t).run.job = NoJob
  BY <1>1 DEF PcOk
<1>3. RunOk(t, Depth(t)) /\ Top(t) = stack[t][Len(stack[t])] /\ Top(t) = stack[t][Depth(t)]
  BY <1>1, TopIs DEF RunInv
<1>4. QED
  BY <1>2, <1>3 DEF RunOk

\* A step that leaves the queue, the reservations and the work of all threads as they are.
LEMMA CalmerStep ==
  ASSUME IInv, NEW t \in Threads, Others(t), Stacks(stack'), KeepsCalls(stack, stack'),
         SameExtents(stack, stack'), SameActive(stack, stack'), SameReserved(stack, stack'), JoinInv', AccountInv',
         OtherRuns(stack, stack', t), SameWork(stack, stack'),
         pc'[t] \in Before <=> pc[t] \in Before, queue' = queue, reserved' = reserved, target' = target,
         desired' \in NumThreads \union {DefaultThreads}, shutdown' \in BOOLEAN,
         PcOk(t)', Depth(t) > 0 => RunOk(t, Depth(t))', ShutInv', ScanInv'
  PROVE  IInv'
<1>1. Stacks(stack) /\ PcInv /\ NestInv /\ RunInv /\ ActiveInv /\ QueueInv /\ FreshInv /\ BalanceInv
  BY DEF IInv, Locals
<1>2. Locals'
  BY DEF Locals, IInv, Others
<1>3. PcInv'
  BY <1>1, PcStays
<1>4. NestInv'
  BY <1>1, NestStays
<1>5. RunInv'
  BY <1>1, RunStays
<1>6. ActiveInv'
  BY <1>1, ActiveStays
<1>7. QueueInv' /\ FreshInv'
  BY <1>1, QueueStays
<1>8. BalanceInv'
  BY <1>1, BalanceStays
<1>9. QED
  BY <1>2, <1>3, <1>4, <1>5, <1>6, <1>7, <1>8 DEF IInv

\* What follows when the jobs stay as they are.
LEMMA JobsKept ==
  ASSUME IInv, KeepsCalls(stack, stack'), KeepsJoins(stack, stack'), KeepsJobs(stack, stack')
  PROVE  /\ SameExtents(stack, stack') /\ SameActive(stack, stack') /\ SameReserved(stack, stack')
         /\ JoinInv' /\ AccountInv'
<1>1. Stacks(stack) /\ JoinInv /\ AccountInv
  BY DEF IInv, Locals
<1>2. /\ SameExtents(stack, stack') /\ SameActive(stack, stack') /\ SameFailed(stack, stack')
      /\ SameReserved(stack, stack') /\ SameRan(stack, stack')
  BY DEF KeepsJobs
<1>3. JoinInv'
  BY <1>1, <1>2, JoinStays
<1>4. AccountInv'
  BY <1>1, <1>2, AccountStays
<1>5. QED
  BY <1>2, <1>3, <1>4

\* A step that leaves the jobs as they are, too.
LEMMA CalmStep ==
  ASSUME IInv, NEW t \in Threads, Others(t), Stacks(stack'), KeepsCalls(stack, stack'), KeepsJoins(stack, stack'),
         KeepsJobs(stack, stack'), OtherRuns(stack, stack', t), SameWork(stack, stack'),
         pc'[t] \in Before <=> pc[t] \in Before, queue' = queue, reserved' = reserved, target' = target,
         desired' \in NumThreads \union {DefaultThreads}, shutdown' \in BOOLEAN,
         PcOk(t)', Depth(t) > 0 => RunOk(t, Depth(t))', ShutInv', ScanInv'
  PROVE  IInv'
<1>1. /\ SameExtents(stack, stack') /\ SameActive(stack, stack') /\ SameReserved(stack, stack')
      /\ JoinInv' /\ AccountInv'
  BY JobsKept
<1>2. QED
  BY <1>1, CalmerStep

\* Stacks that do not change.
LEMMA StillKeeps ==
  ASSUME Stacks(stack), NEW t \in Threads, stack' = stack
  PROVE  /\ Stacks(stack') /\ KeepsCalls(stack, stack') /\ KeepsJoins(stack, stack') /\ KeepsJobs(stack, stack')
         /\ OtherRuns(stack, stack', t) /\ SameWork(stack, stack') /\ KeepsRuns(stack, stack')
  BY DEF KeepsRuns, KeepsCalls, KeepsJoins, KeepsJobs, OtherRuns, SameWork, SameExtents, SameActive, SameFailed, SameReserved, SameRan

\* Stacks in which only semaphores change.
LEMMA QuietKeeps ==
  ASSUME Stacks(stack), NEW t \in Threads, Quiet(stack, stack')
  PROVE  /\ Stacks(stack') /\ KeepsCalls(stack, stack') /\ KeepsJoins(stack, stack') /\ KeepsJobs(stack, stack')
         /\ OtherRuns(stack, stack', t) /\ SameWork(stack, stack') /\ KeepsRuns(stack, stack')
  BY DEF Quiet, KeepsRuns, OtherRuns, SameWork

\* A thread that does not work on a job goes on, or sleeps, or wakes up.
LEMMA IdlerStep ==
  ASSUME IInv, NEW t \in Threads, Others(t), Stacks(stack'), KeepsCalls(stack, stack'),
         SameExtents(stack, stack'), SameActive(stack, stack'), SameReserved(stack, stack'), JoinInv', AccountInv',
         KeepsRuns(stack, stack'),
         pc[t] \notin Busy, pc'[t] \notin Busy,
         pc'[t] \in Before <=> pc[t] \in Before, queue' = queue, reserved' = reserved, target' = target,
         desired' \in NumThreads \union {DefaultThreads}, shutdown' \in BOOLEAN,
         pc'[t] \in {"out", "off", "join"} <=> pc[t] \in {"out", "off", "join"},
         pc'[t] \in {"out", "join"} => t \in Clients,
         pc'[t] \in {"off", "start", "exited"} => t \in Workers,
         pc'[t] \in {"start", "exited"} => Depth(t) = 1,
         ShutInv', ScanInv'
  PROVE  IInv'
<1>1. Stacks(stack) /\ PcOk(t) /\ OtherRuns(stack, stack', t) /\ SameWork(stack, stack')
  BY DEF IInv, Locals, PcInv, KeepsRuns, OtherRuns, SameWork
<1>2. Depth(t)' = Depth(t) /\ Depth(t) \in Nat
  BY <1>1, DepthIs DEF KeepsCalls, Depth
<1>3. Depth(t) > 0 => Top(t)'.call = Top(t).call /\ Top(t)'.run = Top(t).run /\ Top(t).run = NoRun
                      /\ stack'[t][Depth(t)].run = NoRun
  <2>1. SUFFICES ASSUME Depth(t) > 0
                 PROVE Top(t)'.call = Top(t).call /\ Top(t)'.run = Top(t).run /\ Top(t).run = NoRun
                      /\ stack'[t][Depth(t)].run = NoRun
    OBVIOUS
  <2>2. Depth(t) \in 1 .. Len(stack[t])
    BY <1>1, <2>1, TopIs
  <2>3. Top(t).run = NoRun
    BY <2>1, NotWorking
  <2>4. QED
    BY <1>2, <2>2, <2>3 DEF KeepsCalls, KeepsRuns, Top
<1>4. PcOk(t)'
  <2>1. NoRun.job = NoJob
    BY DEF NoRun
  <2>2. pc[t] \in {"out", "off", "join"} <=> Depth(t) = 0
    BY <1>1 DEF PcOk
  <2>3. pc'[t] \in {"out", "off", "join"} <=> Depth(t)' = 0
    BY <1>2, <2>2
  <2>4. pc'[t] \in {"enqueue", "aborted"} => Top(t)'.call # NoCall
    <3>1. SUFFICES ASSUME pc'[t] \in {"enqueue", "aborted"} PROVE Top(t)'.call # NoCall
      OBVIOUS
    <3>2. pc[t] \in {"enqueue", "aborted"}
      BY <3>1 DEF Before
    <3>3. Top(t).call # NoCall /\ Depth(t) # 0
      BY <1>1, <3>2 DEF PcOk
    <3>4. QED
      BY <1>2, <1>3, <3>3
  <2>5. pc'[t] \in Busy <=> Depth(t)' > 0 /\ Top(t)'.run.job # NoJob
    BY <1>2, <1>3, <2>1
  <2>6. pc'[t] # "claim" /\ (pc'[t] \in {"start", "exited"} => Depth(t)' = 1)
    BY <1>2 DEF Busy
  <2>7. QED
    BY <2>3, <2>4, <2>5, <2>6 DEF PcOk
<1>5. Depth(t) > 0 => RunOk(t, Depth(t))'
  <2>1. NoRun.job = NoJob
    BY DEF NoRun
  <2>2. QED
    BY <1>2, <1>3, <2>1 DEF RunOk
<1>6. QED
  BY <1>1, <1>4, <1>5, CalmerStep

\* A step of a thread that is not busy, and leaves all jobs as they are.
LEMMA IdleStep ==
  ASSUME IInv, NEW t \in Threads, Others(t), Stacks(stack'), KeepsCalls(stack, stack'), KeepsJoins(stack, stack'),
         KeepsJobs(stack, stack'), KeepsRuns(stack, stack'),
         pc[t] \notin Busy, pc'[t] \notin Busy,
         pc'[t] \in Before <=> pc[t] \in Before, queue' = queue, reserved' = reserved, target' = target,
         desired' \in NumThreads \union {DefaultThreads}, shutdown' \in BOOLEAN,
         pc'[t] \in {"out", "off", "join"} <=> pc[t] \in {"out", "off", "join"},
         pc'[t] \in {"out", "join"} => t \in Clients,
         pc'[t] \in {"off", "start", "exited"} => t \in Workers,
         pc'[t] \in {"start", "exited"} => Depth(t) = 1,
         ShutInv', ScanInv'
  PROVE  IInv'
<1>1. /\ SameExtents(stack, stack') /\ SameActive(stack, stack') /\ SameReserved(stack, stack')
      /\ JoinInv' /\ AccountInv'
  BY JobsKept
<1>2. QED
  BY <1>1, IdlerStep

\* A thread goes on with a task.
LEMMA BusyStep ==
  ASSUME IInv, NEW t \in Threads, Others(t), Stacks(stack'), KeepsCalls(stack, stack'), KeepsJoins(stack, stack'),
         KeepsJobs(stack, stack'), OtherRuns(stack, stack', t), UNCHANGED pool,
         pc[t] \in Busy, pc'[t] \in Busy,
         NEW r, r = stack'[t][Len(stack[t])].run, NEW j, j = Run(t).job, r.job = j,
         IF Serial(j) THEN r.iters + r.total <= Job(j).extent ELSE r.iters + r.total = 1,
         pc'[t] \in {"task", "wake"} => r.iters >= 1,
         pc'[t] = "finish" /\ ~r.failed => r.iters = 0,
         pc'[t] = "claim" => Serial(j)
  PROVE  IInv'
<1>1. Stacks(stack) /\ PcOk(t) /\ ScanInv /\ ShutInv
  BY DEF IInv, Locals, PcInv
<1>2. /\ Depth(t) > 0 /\ j # NoJob /\ Run(t) = Top(t).run /\ j \in Names /\ At(stack, j)
  BY Working
<1>3. Depth(t) \in 1 .. Len(stack[t]) /\ Depth(t) = Len(stack[t]) /\ Depth(t) \in Nat
  BY <1>1, <1>2, TopIs
<1>4. Depth(t)' = Depth(t)
  BY DEF KeepsCalls, Depth
<1>5. Top(t)'.run = r /\ Top(t)'.call = Top(t).call
  BY <1>3, <1>4 DEF Top, KeepsCalls
<1>6. SameWork(stack, stack')
  BY <1>2, <1>3 DEF OtherRuns, SameWork, Run, Top
<1>7. At(stack, j)' /\ Task(j)' = Task(j) /\ (Serial(j)' <=> Serial(j))
  BY <1>2, CallsStay
<1>8. Job(j)'.extent = Job(j).extent
  BY <1>2 DEF KeepsJobs, SameExtents, JobAt, Job, Frame
<1>9. RunOk(t, Depth(t))'
  <2>1. stack'[t][Depth(t)'].run = r
    BY <1>3, <1>4
  <2>2. IF Serial(j)' THEN r.iters + r.total <= Job(j)'.extent ELSE r.iters + r.total = 1
    BY <1>7, <1>8
  <2>3. r.job # NoJob /\ ~ (Depth(t)' < Depth(t)')
    BY <1>2, <1>3, <1>4
  <2>4. At(stack, r.job)' /\ (Serial(r.job)' <=> Serial(j)') /\ Job(r.job)'.extent = Job(j)'.extent
    BY <1>7
  <2>5. IF Serial(r.job)' THEN r.iters + r.total <= Job(r.job)'.extent ELSE r.iters + r.total = 1
    BY <2>2, <2>4
  <2>6. QED
    BY <2>1, <2>3, <2>4, <2>5 DEF RunOk
<1>10. pc'[t] = "claim" => Loop[Task(Top(t).run.job)'] = "serial"
  BY <1>5, <1>7 DEF Serial
<1>11. PcOk(t)'
  BY <1>1, <1>2, <1>4, <1>5, <1>10 DEF PcOk, Busy
<1>12. pc[t] \notin {"out", "scan", "enqueue", "aborted", "join"} /\ pc'[t] \notin {"join", "scan", "loop", "enqueue", "aborted"}
  BY DEF Busy
<1>13. cursor' \in 1 .. Len(queue') + 1
  BY <1>1 DEF ScanInv, pool
<1>14. ScanInv'
  BY <1>1, <1>12, <1>13, ScanStays DEF pool, Locked
<1>15. ShutInv'
  BY <1>1, <1>12, ShutStays DEF pool
<1>16. pc'[t] \in Before <=> pc[t] \in Before
  BY <1>12 DEF Before
<1>17. desired' \in NumThreads \union {DefaultThreads} /\ shutdown' \in BOOLEAN /\ queue' = queue /\ reserved' = reserved /\ target' = target
  BY DEF IInv, Locals, pool
<1>18. QED
  BY <1>6, <1>9, <1>11, <1>14, <1>15, <1>16, <1>17, CalmStep

-----------------------------------------------------------------------------
(* The actions of the loop and of a task that leave the jobs alone *)

\* What an owner looks after is a job of its top frame.
LEMMA OwnedIs ==
  ASSUME Stacks(stack), NEW t \in Threads, Depth(t) > 0
  PROVE  /\ Owned(t) = NoJob <=> Top(t).call = NoCall
         /\ Owned(t) # NoJob => Owned(t) = <<t, Depth(t), Top(t).joining>> /\ Owned(t) \in Names
<1>1. Depth(t) \in Nat /\ Top(t).joining \in Nat
  BY TopIs DEF IsFrame
<1>2. <<t, Depth(t), Top(t).joining>> \in Names
  BY <1>1 DEF Names
<1>3. <<t, Depth(t), Top(t).joining>> # NoJob
  BY <1>2, NullAssumption DEF Names
<1>4. QED
  BY <1>2, <1>3 DEF Owned

\* In the loop, and in the scan, one has a stack.
LEMMA InLoop ==
  ASSUME IInv, NEW t \in Threads, pc[t] \notin Busy, pc[t] \notin {"out", "off", "join"}
  PROVE  Stacks(stack) /\ PcOk(t) /\ Depth(t) > 0 /\ Depth(t) \in Nat
<1>1. Stacks(stack) /\ PcOk(t)
  BY DEF IInv, Locals, PcInv
<1>2. QED
  BY <1>1, DepthIs DEF PcOk

\* The parts of the invariant that most steps need.
LEMMA PartsOf ==
  ASSUME IInv
  PROVE  /\ Stacks(stack) /\ ScanInv /\ ShutInv /\ pc \in [Threads -> Pcs] /\ target \in Nat /\ shutdown \in BOOLEAN
         /\ desired \in NumThreads \union {DefaultThreads} /\ queue \in Seq(Names) /\ Len(queue) \in Nat
  BY DEF IInv, Locals, QueueInv

\* A step of the mutex's: nothing but the place in the code is changed.
LEMMA MoveStep ==
  ASSUME IInv, NEW t \in Threads, NEW v \in Pcs, pc' = [pc EXCEPT ![t] = v],
         UNCHANGED <<stack, queue, reserved, target, desired, shutdown>>,
         cursor' = 1 \/ (cursor' = cursor /\ pc[t] # "scan"),
         v \in Locked => pc[t] \in Locked \/ LockFree,
         pc[t] \notin Busy, v \notin Busy, v \in Before <=> pc[t] \in Before,
         pc[t] \notin {"out", "off", "join"}, v \notin {"out", "off", "join", "start"},
         v = "exited" => t \in Workers /\ Depth(t) = 1
  PROVE  IInv'
<1>1. /\ Stacks(stack) /\ ScanInv /\ ShutInv /\ pc \in [Threads -> Pcs] /\ target \in Nat /\ shutdown \in BOOLEAN
      /\ desired \in NumThreads \union {DefaultThreads} /\ queue \in Seq(Names) /\ Len(queue) \in Nat
  BY PartsOf
<1>2. Others(t) /\ pc'[t] = v
  BY <1>1, OneMoves
<1>3. /\ Stacks(stack') /\ KeepsCalls(stack, stack') /\ KeepsJoins(stack, stack') /\ KeepsJobs(stack, stack')
      /\ KeepsRuns(stack, stack')
  BY <1>1, StillKeeps
<1>4. cursor' \in 1 .. Len(queue') + 1
  BY <1>1 DEF ScanInv
<1>5. ScanInv'
  BY <1>1, <1>2, <1>4, ScanStays
<1>6. ShutInv'
  BY <1>1, <1>2, ShutStays
<1>7. QED
  BY <1>1, <1>2, <1>3, <1>5, <1>6, IdleStep

\* A worker starts.
LEMMA StartStep ==
  ASSUME IInv, NEW t \in Threads, Start(t)
  PROVE  IInv'
<1>1. pc[t] = "start" /\ LockFree /\ pc' = [pc EXCEPT ![t] = "loop"] /\ "loop" \in Pcs /\ cursor' = cursor
      /\ UNCHANGED <<stack, queue, reserved, target, desired, shutdown>>
  BY DEF Start, pool, Pcs
<1>2. QED
  BY <1>1, MoveStep DEF Busy, Before, Locked

\* Whoever is in the loop without a job of its own is a worker.
LEMMA WorkersBottom ==
  ASSUME IInv, NEW t \in Threads, Depth(t) > 0, Owned(t) = NoJob
  PROVE  t \in Workers /\ Depth(t) = 1
<1>1. Stacks(stack) /\ NestInv
  BY DEF IInv, Locals
<1>2. Depth(t) \in 1 .. Depth(t) /\ Depth(t) \in Nat /\ Top(t).call = NoCall
  BY <1>1, TopIs, OwnedIs
<1>3. NestOk(t, Depth(t)) /\ stack[t][Depth(t)].call = NoCall
  BY <1>1, <1>2 DEF NestInv, Top
<1>4. Depth(t) = 1
  BY <1>3 DEF NestOk
<1>5. QED
  BY <1>3, <1>4 DEF NestOk

\* A worker ends.
LEMMA WorkerExitsStep ==
  ASSUME IInv, NEW t \in Threads, WorkerExits(t)
  PROVE  IInv'
<1>1. pc[t] = "loop" /\ pc' = [pc EXCEPT ![t] = "exited"] /\ "exited" \in Pcs /\ cursor' = cursor
      /\ UNCHANGED <<stack, queue, reserved, target, desired, shutdown>> /\ Owned(t) = NoJob
  BY DEF WorkerExits, pool, Pcs
<1>2. Depth(t) > 0
  BY <1>1, InLoop DEF Busy
<1>3. t \in Workers /\ Depth(t) = 1
  BY <1>1, <1>2, WorkersBottom
<1>4. QED
  BY <1>1, <1>3, MoveStep DEF Busy, Before, Locked

\* A scan of the queue begins.
LEMMA StartScanStep ==
  ASSUME IInv, NEW t \in Threads, StartScan(t)
  PROVE  IInv'
<1>1. pc[t] = "loop" /\ pc' = [pc EXCEPT ![t] = "scan"] /\ "scan" \in Pcs /\ cursor' = 1
      /\ UNCHANGED <<stack, queue, reserved, target, desired, shutdown>>
  BY DEF StartScan, Pcs
<1>2. QED
  BY <1>1, MoveStep DEF Busy, Before, Locked

\* A thread goes to sleep.
LEMMA SleepStep ==
  ASSUME IInv, NEW t \in Threads, Sleep(t)
  PROVE  IInv'
<1>1. PICK v : v = SleepPc(t)
  OBVIOUS
<1>2. v \in Sleeping
  BY <1>1 DEF SleepPc, Sleeping
<1>3. pc[t] = "scan" /\ pc' = [pc EXCEPT ![t] = v] /\ v \in Pcs /\ cursor' = 1
      /\ UNCHANGED <<stack, queue, reserved, target, desired, shutdown>>
  BY <1>1, <1>2 DEF Sleep, Pcs
<1>4. QED
  BY <1>2, <1>3, MoveStep DEF Busy, Before, Locked, Sleeping

\* A sleeper takes the mutex again.
LEMMA WakeUpStep ==
  ASSUME IInv, NEW t \in Threads, WakeUp(t)
  PROVE  IInv'
<1>1. pc[t] \in Awakened /\ LockFree /\ pc' = [pc EXCEPT ![t] = "loop"] /\ "loop" \in Pcs /\ cursor' = cursor
      /\ UNCHANGED <<stack, queue, reserved, target, desired, shutdown>>
  BY DEF WakeUp, pool, Pcs
<1>2. QED
  BY <1>1, MoveStep DEF Busy, Before, Locked, Awakened

\* A call that would commit more threads than there are ends the program.
LEMMA AbortStep ==
  ASSUME IInv, NEW t \in Threads, pc[t] = "enqueue", pc' = [pc EXCEPT ![t] = "aborted"], UNCHANGED <<stack, pool>>
  PROVE  IInv'
<1>1. "aborted" \in Pcs /\ cursor' = cursor /\ UNCHANGED <<stack, queue, reserved, target, desired, shutdown>>
  BY DEF pool, Pcs
<1>2. QED
  BY <1>1, MoveStep DEF Busy, Before, Locked

\* halide_set_num_threads.
LEMMA SetNumThreadsStep ==
  ASSUME IInv, NEW t \in Threads, NEW n \in NumThreads, SetNumThreads(t, n)
  PROVE  IInv'
<1>1. /\ Stacks(stack) /\ ScanInv /\ ShutInv /\ pc \in [Threads -> Pcs] /\ target \in Nat /\ shutdown \in BOOLEAN
      /\ desired \in NumThreads \union {DefaultThreads} /\ queue \in Seq(Names) /\ Len(queue) \in Nat
  BY PartsOf
<1>2. pc[t] = "out" /\ t \in Clients /\ UNCHANGED <<stack, queue, reserved, target, shutdown, cursor, pc>> /\ desired' = n
  BY DEF SetNumThreads
<1>3. Others(t) /\ pc'[t] = "out"
  BY <1>1, <1>2, NobodyMoves
<1>4. /\ Stacks(stack') /\ KeepsCalls(stack, stack') /\ KeepsJoins(stack, stack') /\ KeepsJobs(stack, stack')
      /\ KeepsRuns(stack, stack')
  BY <1>1, <1>2, StillKeeps
<1>5. ScanInv' /\ ShutInv'
  BY <1>1, <1>2 DEF ScanInv, ShutInv
<1>6. QED
  BY <1>1, <1>2, <1>3, <1>4, <1>5, IdleStep DEF Busy, Before

\* A shutdown begins.
LEMMA ShutdownStep ==
  ASSUME IInv, NEW t \in Threads, Shutdown(t)
  PROVE  IInv'
<1>1. /\ Stacks(stack) /\ ScanInv /\ ShutInv /\ pc \in [Threads -> Pcs] /\ target \in Nat /\ shutdown \in BOOLEAN
      /\ desired \in NumThreads \union {DefaultThreads} /\ queue \in Seq(Names) /\ Len(queue) \in Nat
  BY PartsOf
<1>2. /\ t \in Clients /\ LockFree /\ \A u \in Clients : pc[u] = "out"
      /\ shutdown' = TRUE /\ pc' = [Broadcast(pc, Sleeping) EXCEPT ![t] = "join"]
      /\ UNCHANGED <<stack, queue, reserved, target, desired, cursor>>
  BY DEF Shutdown
<1>3. "join" \in Pcs /\ Sleeping \in SUBSET Sleeping
  BY DEF Pcs
<1>4. Others(t) /\ pc'[t] = "join"
  BY <1>1, <1>2, <1>3, BroadcastKeeps
<1>5. /\ Stacks(stack') /\ KeepsCalls(stack, stack') /\ KeepsJoins(stack, stack') /\ KeepsJobs(stack, stack')
      /\ KeepsRuns(stack, stack')
  BY <1>1, <1>2, StillKeeps
<1>6. pc[t] = "out"
  BY <1>2
<1>7. ShutInv'
  <2>1. SUFFICES ASSUME NEW u \in Threads, pc'[u] = "join" PROVE \A v \in Clients : v # u => pc'[v] = "out"
    BY <1>2 DEF ShutInv
  <2>2. u = t
    <3>1. SUFFICES ASSUME u # t PROVE FALSE
      OBVIOUS
    <3>2. pc[u] = "join"
      BY <1>4, <2>1, <3>1 DEF Others, Awakened
    <3>3. u \in Clients
      BY <3>2 DEF IInv, PcInv, PcOk
    <3>4. QED
      BY <1>2, <3>2, <3>3
  <2>3. \A v \in Clients : v \in Threads /\ pc[v] = "out"
    BY <1>2 DEF Threads
  <2>4. QED
    BY <1>4, <2>2, <2>3 DEF Others, Sleeping
<1>8. cursor' \in 1 .. Len(queue') + 1 /\ cursor' = cursor
  BY <1>1, <1>2 DEF ScanInv
<1>9. ScanInv'
  BY <1>1, <1>4, <1>6, <1>8, ScanStays DEF Locked
<1>10. QED
  BY <1>1, <1>2, <1>4, <1>5, <1>6, <1>7, <1>9, IdleStep DEF Busy, Before

\* A run that goes on has failed only if it had, or if its task may fail.
RunGoesOn(t) ==
    LET r == stack'[t][Len(stack[t])].run
    IN  r.failed => r.job = Run(t).job /\ (Run(t).failed \/ Task(r.job) \in MayFail)

\* Nothing is joined, no job fails, nobody is done with one: t alone may go on.
Calm(t) ==
    /\ Stacks(stack') /\ Others(t) /\ KeepsCalls(stack, stack') /\ KeepsJoins(stack, stack')
    /\ OtherRuns(stack, stack', t) /\ RunGoesOn(t) /\ SameFailed(stack, stack')
    /\ \A j \in Names : At(stack, j) =>
          /\ JobAt(stack', j).active = 0 => JobAt(stack, j).active = 0
          /\ JobAt(stack, j).extent = 0 => JobAt(stack', j).extent = 0
    /\ (pc[t] \in Locked /\ pc'[t] # "scan") \/ SameExtents(stack, stack')

\* A step is calm when it leaves the jobs as they are.
LEMMA IsCalm ==
  ASSUME NEW t \in Threads, Others(t), Stacks(stack'), KeepsCalls(stack, stack'), KeepsJoins(stack, stack'),
         KeepsJobs(stack, stack'), OtherRuns(stack, stack', t), RunGoesOn(t)
  PROVE  Calm(t)
  BY DEF Calm, KeepsJobs, SameActive, SameFailed, SameExtents

\* The scan passes over a job: it may have acquired semaphores for it.
LEMMA PassOverStep ==
  ASSUME IInv, NEW t \in Threads, PassOver(t)
  PROVE  IInv' /\ KeepsCalls(stack, stack') /\ Calm(t)
<1>1. /\ Stacks(stack) /\ ScanInv /\ ShutInv /\ pc \in [Threads -> Pcs] /\ target \in Nat /\ shutdown \in BOOLEAN
      /\ desired \in NumThreads \union {DefaultThreads} /\ queue \in Seq(Names) /\ Len(queue) \in Nat
  BY PartsOf
<1>2. PICK j : j = queue[cursor] /\ pc[t] = "scan" /\ cursor <= Len(queue) /\ cursor' = cursor + 1
               /\ UNCHANGED <<pc, queue, reserved, target, desired, shutdown>>
               /\ (stack' = stack \/ stack' = MakeRunnable(stack, j))
  BY DEF PassOver
<1>3. cursor \in DOMAIN queue /\ cursor \in Nat
  BY <1>1, <1>2 DEF ScanInv
<1>4. j \in Names /\ At(stack, j)
  BY <1>1, <1>2, <1>3 DEF IInv, QueueInv
<1>5. Others(t) /\ pc'[t] = "scan"
  BY <1>1, <1>2, NobodyMoves
<1>6. /\ Stacks(stack') /\ KeepsCalls(stack, stack') /\ KeepsJoins(stack, stack') /\ KeepsJobs(stack, stack')
      /\ KeepsRuns(stack, stack')
  <2>1. CASE stack' = stack
    BY <1>1, <2>1, StillKeeps
  <2>2. CASE stack' = MakeRunnable(stack, j)
    <3>1. Quiet(stack, stack')
      BY <1>1, <1>4, <2>2, MakeRunnableIsQuiet
    <3>2. QED
      BY <1>1, <3>1, QuietKeeps
  <2>3. QED
    BY <1>2, <2>1, <2>2
<1>7. cursor' \in 1 .. Len(queue') + 1
  BY <1>1, <1>2, <1>3
<1>8. ScanInv'
  BY <1>1, <1>2, <1>5, <1>7, ScanStays
<1>9. ShutInv'
  BY <1>1, <1>2, <1>5, ShutStays
<1>10. IInv'
  BY <1>1, <1>2, <1>5, <1>6, <1>8, <1>9, IdleStep DEF Busy, Before
<1>11. Calm(t)
  <2>1. stack[t][Len(stack[t])].run = NoRun /\ Len(stack[t]) \in 1 .. Len(stack[t])
    BY <1>1, <1>2, InLoop, TopIs, NotWorking DEF Busy
  <2>2. ~stack'[t][Len(stack[t])].run.failed
    BY <1>6, <2>1 DEF KeepsRuns, NoRun
  <2>3. QED
    BY <1>5, <1>6, <2>2, IsCalm DEF RunGoesOn, KeepsRuns, OtherRuns
<1>12. QED
  BY <1>6, <1>10, <1>11

-----------------------------------------------------------------------------
(* The actions of a task *)

\* No change is a quiet one.
LEMMA QuietSelf ==
  ASSUME NEW s, Stacks(s)
  PROVE  Quiet(s, s)
  BY DEF Quiet, KeepsCalls, KeepsJoins, KeepsRuns, KeepsJobs, SameExtents, SameActive, SameFailed, SameReserved, SameRan

\* The run of the top frame is set after a quiet change.
LEMMA QuietRun ==
  ASSUME Stacks(stack), NEW t \in Threads, Depth(t) > 0, NEW y, Quiet(stack, y), NEW r \in RunType,
         stack' = SetRun(y, t, r)
  PROVE  /\ Stacks(stack') /\ KeepsCalls(stack, stack') /\ KeepsJoins(stack, stack') /\ KeepsJobs(stack, stack')
         /\ OtherRuns(stack, stack', t) /\ stack'[t][Len(stack[t])].run = r
<1>1. Depth(t) = Len(y[t]) /\ Len(y[t]) > 0 /\ Stacks(y) /\ Len(stack[t]) = Len(y[t])
  BY TopIs DEF Quiet, KeepsCalls
<1>2. stack' = [y EXCEPT ![t][Len(y[t])].run = r]
  BY <1>1, Zenon DEF SetRun
<1>3. SetsRun(y, stack', t, r)
  BY <1>1, <1>2, RunIsSet
<1>4. Stacks(stack') /\ stack'[t][Len(stack[t])].run = r
  BY <1>1, <1>3 DEF SetsRun
<1>5. KeepsCalls(stack, stack')
  BY <1>3 DEF SetsRun, Quiet, KeepsCalls
<1>6. KeepsJoins(stack, stack')
  BY <1>3 DEF SetsRun, Quiet, KeepsCalls, KeepsJoins
<1>7. OtherRuns(stack, stack', t)
  BY <1>1, <1>3 DEF SetsRun, Quiet, KeepsCalls, KeepsRuns, OtherRuns
<1>8. KeepsJobs(stack, stack')
  <2>1. \A j \in Names : At(stack, j) => At(y, j)
    BY PlacesStay DEF Quiet
  <2>2. KeepsJobs(stack, y) /\ KeepsJobs(y, stack')
    BY <1>3 DEF SetsRun, Quiet
  <2>3. QED
    BY <2>1, <2>2 DEF KeepsJobs, SameExtents, SameActive, SameFailed, SameReserved, SameRan
<1>9. QED
  BY <1>4, <1>5, <1>6, <1>7, <1>8

\* What a working thread has in hand.
LEMMA InTask ==
  ASSUME IInv, NEW t \in Threads, pc[t] \in Busy
  PROVE  /\ Stacks(stack) /\ pc \in [Threads -> Pcs] /\ Depth(t) > 0 /\ Run(t) \in RunType
         /\ Run(t).job \in Names /\ At(stack, Run(t).job)
         /\ Run(t).iters \in Nat /\ Run(t).total \in Nat /\ Run(t).step \in Nat
         /\ Job(Run(t).job).extent \in Nat /\ Job(Run(t).job).active \in Nat
         /\ Loop[Task(Run(t).job)] \in {"parallel", "serial", "once"}
         /\ (Serial(Run(t).job) => Run(t).iters + Run(t).total <= Job(Run(t).job).extent)
         /\ (~Serial(Run(t).job) => Run(t).iters + Run(t).total = 1)
         /\ (pc[t] \in {"task", "wake"} => Run(t).iters >= 1)
         /\ (pc[t] = "finish" /\ ~Run(t).failed => Run(t).iters = 0)
         /\ (pc[t] = "claim" => Serial(Run(t).job))
<1>1. Stacks(stack) /\ PcOk(t) /\ pc \in [Threads -> Pcs]
  BY DEF IInv, Locals, PcInv
<1>2. Depth(t) > 0 /\ Run(t) = Top(t).run /\ Run(t).job \in Names /\ At(stack, Run(t).job) /\ RunOk(t, Depth(t))
      /\ Run(t).job # NoJob
  BY Working
<1>3. Depth(t) \in Nat /\ Depth(t) \in 1 .. Len(stack[t]) /\ IsFrame(Top(t)) /\ Top(t) = stack[t][Depth(t)]
  BY <1>1, <1>2, TopIs
<1>4. Run(t) \in RunType
  BY <1>2, <1>3 DEF IsFrame
<1>5. Run(t).iters \in Nat /\ Run(t).total \in Nat /\ Run(t).step \in Nat
  BY <1>4 DEF RunType
<1>6. PICK j \in Names : j = Run(t).job
  BY <1>2
<1>7. j[1] \in Threads /\ j[2] \in 1 .. Len(stack[j[1]]) /\ j[3] \in JobsOf(Frame(j).call) /\ IsFrame(Frame(j))
  <2>1. j[1] \in Threads /\ j[2] \in 1 .. Len(stack[j[1]]) /\ j[3] \in JobsOf(stack[j[1]][j[2]].call)
    BY <1>2, <1>6, Places
  <2>2. QED
    BY <1>1, <2>1 DEF Frame, Stacks, IsStack
<1>8. Job(j).extent \in Nat /\ Job(j).active \in Nat
  <2>1. IsJob(Job(j), Task(j))
    BY <1>7 DEF IsFrame, Job, Task
  <2>2. Frame(j).call \in Calls \union {NoCall}
    BY <1>7 DEF IsFrame
  <2>3. Extent[Task(j)] \in Nat
    BY <1>7, <2>2, TasksType DEF Task
  <2>4. QED
    BY <2>1, <2>3 DEF IsJob
<1>9. Loop[Task(j)] \in {"parallel", "serial", "once"}
  <2>1. Frame(j).call \in Calls \union {NoCall}
    BY <1>7 DEF IsFrame
  <2>2. QED
    BY <1>7, <2>1, TasksType DEF Task
<1>10. /\ IF Serial(j) THEN Run(t).iters + Run(t).total <= Job(j).extent ELSE Run(t).iters + Run(t).total = 1
       /\ pc[t] \in {"task", "wake"} => Run(t).iters >= 1
       /\ pc[t] = "finish" /\ ~Run(t).failed => Run(t).iters = 0
  BY <1>2, <1>3, <1>6 DEF RunOk
<1>11. pc[t] = "claim" => Serial(j)
  BY <1>1, <1>2, <1>6 DEF PcOk, Serial
<1>12. QED
  BY <1>1, <1>2, <1>4, <1>5, <1>6, <1>8, <1>9, <1>10, <1>11

\* A semaphore has been released: its waiters are woken.
LEMMA WakeWaitersStep ==
  ASSUME IInv, NEW t \in Threads, WakeWaiters(t)
  PROVE  IInv'
<1>1. pc[t] = "wake" /\ pc' = [Broadcast(pc, {"sleepA", "sleepOwner"}) EXCEPT ![t] = "task"] /\ UNCHANGED <<stack, pool>>
  BY DEF WakeWaiters
<1>2. pc[t] \in Busy
  BY <1>1 DEF Busy
<1>3. /\ Stacks(stack) /\ pc \in [Threads -> Pcs] /\ Depth(t) > 0
  BY <1>2, InTask
<1>4. {"sleepA", "sleepOwner"} \in SUBSET Sleeping /\ "task" \in Pcs
  BY DEF Sleeping, Pcs
<1>5. Others(t) /\ pc'[t] = "task"
  <2>1. PICK R \in SUBSET Sleeping : R = {"sleepA", "sleepOwner"}
    BY <1>4
  <2>2. pc' = [Broadcast(pc, R) EXCEPT ![t] = "task"]
    BY <1>1, <2>1
  <2>3. QED
    BY <1>3, <1>4, <2>2, BroadcastKeeps
<1>6. /\ Stacks(stack') /\ KeepsCalls(stack, stack') /\ KeepsJoins(stack, stack') /\ KeepsJobs(stack, stack')
      /\ OtherRuns(stack, stack', t)
  BY <1>1, <1>3, StillKeeps
<1>7. stack'[t][Len(stack[t])].run = Run(t)
  BY <1>1, <1>3, TopIs DEF Run
<1>8. /\ (Serial(Run(t).job) => Run(t).iters + Run(t).total <= Job(Run(t).job).extent)
      /\ (~Serial(Run(t).job) => Run(t).iters + Run(t).total = 1) /\ Run(t).iters >= 1
  BY <1>1, <1>2, InTask
<1>9. PICK r, j : r = Run(t) /\ j = Run(t).job
  OBVIOUS
<1>10. QED
  BY <1>1, <1>2, <1>5, <1>6, <1>7, <1>8, <1>9, BusyStep DEF Busy

Again(q, n, i, k, b) == [q EXCEPT !.step = n, !.iters = i, !.total = k, !.failed = b]

\* The fields of a run that goes on.
LEMMA RunSets ==
  ASSUME NEW q \in RunType, NEW n \in Nat \ {0}, NEW i \in Nat, NEW k \in Nat, NEW b \in BOOLEAN, NEW r,
         r = Again(q, n, i, k, b)
  PROVE  r \in RunType /\ r.job = q.job /\ r.iters = i /\ r.total = k /\ r.failed = b
  BY DEF RunType, Again

\* An iteration has been done.
LEMMA IterationEndsStep ==
  ASSUME IInv, NEW t \in Threads, IterationEnds(t)
  PROVE  IInv' /\ KeepsCalls(stack, stack') /\ Calm(t)
<1>1. PICK r, v : /\ pc[t] = "task" /\ r = [Run(t) EXCEPT !.step = 1, !.iters = @ - 1, !.total = @ + 1]
                  /\ v = (IF Run(t).iters > 1 THEN "task" ELSE IF Loop[Task(Run(t).job)] = "serial" THEN "claim" ELSE "finish")
                  /\ stack' = SetRun(stack, t, r) /\ pc' = [pc EXCEPT ![t] = v] /\ UNCHANGED pool
  BY DEF IterationEnds
<1>2. pc[t] \in Busy /\ v \in Busy /\ v \in Pcs
  BY <1>1 DEF Busy, Pcs
<1>3. /\ Stacks(stack) /\ pc \in [Threads -> Pcs] /\ Depth(t) > 0 /\ Run(t) \in RunType
      /\ Run(t).iters \in Nat /\ Run(t).total \in Nat /\ Job(Run(t).job).extent \in Nat
      /\ (Serial(Run(t).job) => Run(t).iters + Run(t).total <= Job(Run(t).job).extent)
      /\ (~Serial(Run(t).job) => Run(t).iters + Run(t).total = 1) /\ Run(t).iters >= 1
  BY <1>1, <1>2, InTask
<1>4. r \in RunType /\ r.job = Run(t).job /\ r.iters = Run(t).iters - 1 /\ r.total = Run(t).total + 1 /\ r.failed = Run(t).failed
  <2>1. PICK q \in RunType : q = Run(t)
    BY <1>3
  <2>2. PICK i \in Nat, k \in Nat, n \in Nat \ {0}, b \in BOOLEAN :
            i = q.iters - 1 /\ k = q.total + 1 /\ n = 1 /\ b = q.failed
    BY <1>3, <2>1 DEF RunType
  <2>3. r = Again(q, n, i, k, b)
    BY <1>1, <2>1, <2>2 DEF RunType, Again
  <2>4. r \in RunType /\ r.job = q.job /\ r.iters = i /\ r.total = k /\ r.failed = b
    BY <2>3, RunSets
  <2>5. QED
    BY <2>1, <2>2, <2>4
<1>5. Others(t) /\ pc'[t] = v
  BY <1>1, <1>2, <1>3, OneMoves
<1>6. /\ Stacks(stack') /\ KeepsCalls(stack, stack') /\ KeepsJoins(stack, stack') /\ KeepsJobs(stack, stack')
      /\ OtherRuns(stack, stack', t) /\ stack'[t][Len(stack[t])].run = r
  BY <1>1, <1>3, <1>4, QuietSelf, QuietRun
<1>7. PICK j : j = Run(t).job
  OBVIOUS
<1>8. IF Serial(j) THEN r.iters + r.total <= Job(j).extent ELSE r.iters + r.total = 1
  BY <1>3, <1>4, <1>7
<1>9. v \in {"task", "wake"} => r.iters >= 1
  BY <1>1, <1>3, <1>4
<1>10. v = "finish" /\ ~r.failed => r.iters = 0
  BY <1>1, <1>3, <1>4
<1>11. v = "claim" => Serial(j)
  BY <1>1, <1>7 DEF Serial
<1>12. UNCHANGED pool /\ pc'[t] \in Busy /\ r.job = j /\ r = stack'[t][Len(stack[t])].run
  BY <1>1, <1>2, <1>4, <1>5, <1>6, <1>7
<1>13. IInv'
  BY <1>2, <1>5, <1>6, <1>7, <1>8, <1>9, <1>10, <1>11, <1>12, BusyStep
<1>14. QED
  BY <1>4, <1>5, <1>6, <1>13, IsCalm DEF RunGoesOn

\* A task fails.
LEMMA TaskFailsStep ==
  ASSUME IInv, NEW t \in Threads, TaskFails(t)
  PROVE  IInv' /\ KeepsCalls(stack, stack') /\ Calm(t)
<1>1. PICK r : /\ pc[t] = "task" /\ Task(Run(t).job) \in MayFail /\ r = [Run(t) EXCEPT !.failed = TRUE]
               /\ stack' = SetRun(stack, t, r) /\ pc' = [pc EXCEPT ![t] = "finish"] /\ UNCHANGED pool
  BY DEF TaskFails
<1>2. pc[t] \in Busy /\ "finish" \in Busy /\ "finish" \in Pcs
  BY <1>1 DEF Busy, Pcs
<1>3. /\ Stacks(stack) /\ pc \in [Threads -> Pcs] /\ Depth(t) > 0 /\ Run(t) \in RunType
      /\ (Serial(Run(t).job) => Run(t).iters + Run(t).total <= Job(Run(t).job).extent)
      /\ (~Serial(Run(t).job) => Run(t).iters + Run(t).total = 1)
  BY <1>1, <1>2, InTask
<1>4. r \in RunType /\ r.job = Run(t).job /\ r.iters = Run(t).iters /\ r.total = Run(t).total /\ r.failed
  BY <1>1, <1>3 DEF RunType
<1>5. Others(t) /\ pc'[t] = "finish"
  BY <1>1, <1>2, <1>3, OneMoves
<1>6. /\ Stacks(stack') /\ KeepsCalls(stack, stack') /\ KeepsJoins(stack, stack') /\ KeepsJobs(stack, stack')
      /\ OtherRuns(stack, stack', t) /\ stack'[t][Len(stack[t])].run = r
  BY <1>1, <1>3, <1>4, QuietSelf, QuietRun, ZenonT(40)
<1>7. PICK j : j = Run(t).job
  OBVIOUS
<1>8. IF Serial(j) THEN r.iters + r.total <= Job(j).extent ELSE r.iters + r.total = 1
  BY <1>3, <1>4, <1>7
<1>9. IInv'
  BY <1>1, <1>2, <1>4, <1>5, <1>6, <1>7, <1>8, BusyStep
<1>10. QED
  BY <1>1, <1>4, <1>5, <1>6, <1>9, IsCalm DEF RunGoesOn

\* A task releases a semaphore.
LEMMA ReleaseSemaphoreStep ==
  ASSUME IInv, NEW t \in Threads, ReleaseSemaphore(t)
  PROVE  IInv' /\ KeepsCalls(stack, stack') /\ Calm(t)
<1>1. PICK j, r, v, y, x, n : /\ pc[t] = "task" /\ j = Run(t).job /\ r = [Run(t) EXCEPT !.step = @ + 1]
                     /\ v \in {"wake", "task"} /\ pc' = [pc EXCEPT ![t] = v]
                     /\ y = [stack EXCEPT ![j[1]][j[2]].semaphore[x] = @ + n]
                     /\ stack' = SetRun(y, t, r) /\ UNCHANGED pool
  BY DEF ReleaseSemaphore, InBody
<1>2. pc[t] \in Busy /\ v \in Busy /\ v \in Pcs
  BY <1>1 DEF Busy, Pcs
<1>3. /\ Stacks(stack) /\ pc \in [Threads -> Pcs] /\ Depth(t) > 0 /\ Run(t) \in RunType
      /\ j \in Names /\ At(stack, j) /\ Run(t).iters >= 1 /\ Run(t).step \in Nat
      /\ (Serial(j) => Run(t).iters + Run(t).total <= Job(j).extent)
      /\ (~Serial(j) => Run(t).iters + Run(t).total = 1)
  BY <1>1, <1>2, InTask
<1>4. r \in RunType /\ r.job = j /\ r.iters = Run(t).iters /\ r.total = Run(t).total /\ r.failed = Run(t).failed
  <2>1. PICK q \in RunType : q = Run(t)
    BY <1>3
  <2>2. PICK i \in Nat, k \in Nat, m \in Nat \ {0}, b \in BOOLEAN :
            i = q.iters /\ k = q.total /\ m = q.step + 1 /\ b = q.failed
    BY <1>3, <2>1 DEF RunType
  <2>3. r = Again(q, m, i, k, b)
    BY <1>1, <2>1, <2>2 DEF RunType, Again
  <2>4. r \in RunType /\ r.job = q.job /\ r.iters = i /\ r.total = k /\ r.failed = b
    BY <2>3, RunSets
  <2>5. QED
    BY <1>1, <2>1, <2>2, <2>4
<1>5. Others(t) /\ pc'[t] = v
  BY <1>1, <1>2, <1>3, OneMoves
<1>6. Quiet(stack, y)
  <2>1. PICK u \in Threads, d \in Nat : u = j[1] /\ d = j[2] /\ d \in 1 .. Len(stack[u])
    BY <1>3, Places
  <2>2. PICK w : w = [stack[u][d].semaphore EXCEPT ![x] = @ + n]
    OBVIOUS
  <2>3. y = [stack EXCEPT ![u][d].semaphore = w]
    BY <1>1, <2>1, <2>2, Zenon
  <2>4. QED
    BY <1>3, <2>1, <2>3, SemaphoreIsSet
<1>7. /\ Stacks(stack') /\ KeepsCalls(stack, stack') /\ KeepsJoins(stack, stack') /\ KeepsJobs(stack, stack')
      /\ OtherRuns(stack, stack', t) /\ stack'[t][Len(stack[t])].run = r
  BY <1>1, <1>3, <1>4, <1>6, QuietRun, ZenonT(40)
<1>8. IF Serial(j) THEN r.iters + r.total <= Job(j).extent ELSE r.iters + r.total = 1
  BY <1>3, <1>4
<1>9. UNCHANGED pool /\ pc'[t] \in Busy /\ j = Run(t).job /\ r = stack'[t][Len(stack[t])].run /\ r.iters >= 1
      /\ pc'[t] # "finish" /\ pc'[t] # "claim"
  BY <1>1, <1>2, <1>3, <1>4, <1>5, <1>7
<1>10. IInv'
  BY <1>2, <1>4, <1>5, <1>7, <1>8, <1>9, BusyStep
<1>11. QED
  BY <1>1, <1>4, <1>5, <1>7, <1>10, IsCalm DEF RunGoesOn

\* A serial task claims its next iterations.
LEMMA ClaimStep ==
  ASSUME IInv, NEW t \in Threads, Claim(t)
  PROVE  IInv' /\ KeepsCalls(stack, stack') /\ Calm(t)
<1>1. PICK j, r, y : /\ pc[t] = "claim" /\ MoreIterations(t) /\ j = Run(t).job /\ r = [Run(t) EXCEPT !.iters = @ + 1]
                     /\ y = MakeRunnable(stack, j) /\ stack' = SetRun(y, t, r) /\ pc' = pc /\ UNCHANGED pool
  BY DEF Claim
<1>2. pc[t] \in Busy
  BY <1>1 DEF Busy
<1>3. /\ Stacks(stack) /\ pc \in [Threads -> Pcs] /\ Depth(t) > 0 /\ Run(t) \in RunType
      /\ j \in Names /\ At(stack, j) /\ Run(t).iters \in Nat /\ Run(t).total \in Nat /\ Job(j).extent \in Nat
      /\ Serial(j)
  BY <1>1, <1>2, InTask
<1>4. r \in RunType /\ r.job = j /\ r.iters = Run(t).iters + 1 /\ r.total = Run(t).total /\ r.failed = Run(t).failed
  BY <1>1, <1>3 DEF RunType
<1>5. Others(t) /\ pc'[t] = "claim"
  BY <1>1, <1>3, NobodyMoves
<1>6. Quiet(stack, y)
  BY <1>1, <1>3, MakeRunnableIsQuiet
<1>7. /\ Stacks(stack') /\ KeepsCalls(stack, stack') /\ KeepsJoins(stack, stack') /\ KeepsJobs(stack, stack')
      /\ OtherRuns(stack, stack', t) /\ stack'[t][Len(stack[t])].run = r
  BY <1>1, <1>3, <1>4, <1>6, QuietRun, ZenonT(40)
<1>8. r.iters + r.total <= Job(j).extent
  BY <1>1, <1>3, <1>4 DEF MoreIterations
<1>9. UNCHANGED pool /\ pc'[t] \in Busy /\ j = Run(t).job /\ r = stack'[t][Len(stack[t])].run
  BY <1>1, <1>2, <1>5, <1>7
<1>10. IInv'
  BY <1>2, <1>3, <1>4, <1>5, <1>7, <1>8, <1>9, BusyStep
<1>11. QED
  BY <1>1, <1>4, <1>5, <1>7, <1>10, IsCalm DEF RunGoesOn

\* A serial task finds nothing more to do.
LEMMA ClaimEndsStep ==
  ASSUME IInv, NEW t \in Threads, ClaimEnds(t)
  PROVE  IInv' /\ KeepsCalls(stack, stack') /\ Calm(t)
<1>1. PICK j, r, v : /\ pc[t] = "claim" /\ j = Run(t).job /\ r = Run(t)
                     /\ (stack' = stack \/ stack' = MakeRunnable(stack, j))
                     /\ v = (IF Run(t).iters = 0 THEN "finish" ELSE "task")
                     /\ pc' = [pc EXCEPT ![t] = v] /\ UNCHANGED pool
  BY DEF ClaimEnds
<1>2. pc[t] \in Busy /\ v \in Busy /\ v \in Pcs
  BY <1>1 DEF Busy, Pcs
<1>3. /\ Stacks(stack) /\ pc \in [Threads -> Pcs] /\ Depth(t) > 0
      /\ j \in Names /\ At(stack, j) /\ Run(t).iters \in Nat
      /\ Serial(j) /\ Run(t).iters + Run(t).total <= Job(j).extent
  BY <1>1, <1>2, InTask
<1>4. Others(t) /\ pc'[t] = v
  BY <1>1, <1>2, <1>3, OneMoves
<1>5. Quiet(stack, stack')
  BY <1>1, <1>3, MakeRunnableIsQuiet, QuietSelf
<1>6. /\ Stacks(stack') /\ KeepsCalls(stack, stack') /\ KeepsJoins(stack, stack') /\ KeepsJobs(stack, stack')
      /\ OtherRuns(stack, stack', t) /\ KeepsRuns(stack, stack')
  BY <1>3, <1>5, QuietKeeps
<1>7. r = stack'[t][Len(stack[t])].run
  BY <1>1, <1>3, <1>6, TopIs DEF KeepsRuns, Run
<1>8. v \in {"task", "wake"} => r.iters >= 1
  BY <1>1, <1>3
<1>9. v = "finish" /\ ~r.failed => r.iters = 0
  BY <1>1
<1>10. UNCHANGED pool /\ j = Run(t).job /\ r.job = j
  BY <1>1
<1>11. IF Serial(j) THEN r.iters + r.total <= Job(j).extent ELSE r.iters + r.total = 1
  BY <1>1, <1>3
<1>12. IInv'
  BY <1>2, <1>3, <1>4, <1>6, <1>7, <1>8, <1>9, <1>10, <1>11, BusyStep
<1>13. QED
  BY <1>1, <1>4, <1>6, <1>7, <1>10, <1>12, IsCalm DEF RunGoesOn

-----------------------------------------------------------------------------
(* The owner looks after his job *)

\* All jobs of k's call have failed.
AllFailed(z, k) == \A m \in Names : At(z, m) /\ m[1] = k[1] /\ m[2] = k[2] => JobAt(z, m).failed

\* A job that is over stays so; a job that has failed stays so; and when a job
\* that was joined fails then all jobs of the call do.
LEMMA JoinMoves ==
  ASSUME JoinInv, Stacks(stack), KeepsCalls(stack, stack'), KeepsJoins(stack, stack'),
         \A k \in Names : At(stack, k) /\ JobAt(stack, k).extent = 0 /\ JobAt(stack, k).active = 0 =>
             JobAt(stack', k).extent = 0 /\ JobAt(stack', k).active = 0,
         \A k \in Names : At(stack, k) /\ JobAt(stack, k).failed => JobAt(stack', k).failed,
         \A k \in Names : At(stack, k) /\ JobAt(stack', k).failed /\ k[3] < stack[k[1]][k[2]].joining =>
             JobAt(stack, k).failed \/ AllFailed(stack', k)
  PROVE  JoinInv'
<1>1. SUFFICES ASSUME NEW t \in Threads, NEW d \in 1 .. Depth(t)' PROVE JoinOk(stack'[t][d])
  BY DEF JoinInv
<1>2. d \in 1 .. Len(stack[t]) /\ d \in Nat /\ JoinOk(stack[t][d])
  BY <1>1 DEF JoinInv, KeepsCalls, Depth, Stacks, IsStack
<1>3. PICK f, g : f = stack[t][d] /\ g = stack'[t][d]
  OBVIOUS
<1>4. g.call = f.call /\ g.joining = f.joining /\ g.failed = f.failed
  BY <1>2, <1>3 DEF KeepsCalls, KeepsJoins
<1>5. ASSUME NEW i \in JobsOf(f.call)
      PROVE  \E j \in Names : /\ j[1] = t /\ j[2] = d /\ j[3] = i /\ At(stack, j) /\ At(stack', j)
                              /\ JobAt(stack, j) = f.jobs[i] /\ JobAt(stack', j) = g.jobs[i]
  <2>1. IsFrame(f)
    BY <1>2, <1>3 DEF Stacks, IsStack
  <2>2. f.call \in Calls \union {NoCall}
    BY <2>1 DEF IsFrame
  <2>3. i \in Nat
    BY <2>2, TasksType
  <2>4. PICK j \in Names : j = <<t, d, i>>
    BY <1>2, <2>3 DEF Names
  <2>5. j[1] = t /\ j[2] = d /\ j[3] = i
    BY <2>4
  <2>6. At(stack, j)
    BY <1>2, <1>3, <2>5 DEF At
  <2>7. At(stack', j)
    BY <2>6, PlacesStay
  <2>8. JobAt(stack, j) = f.jobs[i] /\ JobAt(stack', j) = g.jobs[i]
    BY <1>3, <2>5 DEF JobAt
  <2>9. QED
    BY <2>5, <2>6, <2>7, <2>8
<1>6. SUFFICES ASSUME g.call # NoCall
               PROVE  /\ g.joining \in JobsOf(g.call)
                      /\ \A i \in JobsOf(g.call) : i < g.joining =>
                          /\ g.jobs[i].extent = 0 /\ g.jobs[i].active = 0
                          /\ g.jobs[i].failed => g.failed \/ \A k \in JobsOf(g.call) : k >= g.joining => g.jobs[k].failed
  BY <1>3 DEF JoinOk
<1>7. /\ f.joining \in JobsOf(f.call)
      /\ \A i \in JobsOf(f.call) : i < f.joining =>
          /\ f.jobs[i].extent = 0 /\ f.jobs[i].active = 0
          /\ f.jobs[i].failed => f.failed \/ \A k \in JobsOf(f.call) : k >= f.joining => f.jobs[k].failed
  BY <1>2, <1>3, <1>4, <1>6 DEF JoinOk
<1>8. ASSUME NEW i \in JobsOf(f.call), i < f.joining
      PROVE  /\ g.jobs[i].extent = 0 /\ g.jobs[i].active = 0
             /\ g.jobs[i].failed => g.failed \/ \A k \in JobsOf(f.call) : k >= f.joining => g.jobs[k].failed
  <2>1. PICK j \in Names : /\ j[1] = t /\ j[2] = d /\ j[3] = i /\ At(stack, j) /\ At(stack', j)
                           /\ JobAt(stack, j) = f.jobs[i] /\ JobAt(stack', j) = g.jobs[i]
    BY <1>5
  <2>2. g.jobs[i].extent = 0 /\ g.jobs[i].active = 0
    BY <1>7, <1>8, <2>1
  <2>3. ASSUME g.jobs[i].failed, ~g.failed, NEW k \in JobsOf(f.call), k >= f.joining
        PROVE  g.jobs[k].failed
    <3>1. PICK m \in Names : /\ m[1] = t /\ m[2] = d /\ m[3] = k /\ At(stack, m) /\ At(stack', m)
                             /\ JobAt(stack, m) = f.jobs[k] /\ JobAt(stack', m) = g.jobs[k]
      BY <1>5
    <3>2. CASE JobAt(stack, j).failed
      <4>1. f.jobs[k].failed
        BY <1>4, <1>7, <1>8, <2>1, <2>3, <3>2
      <4>2. QED
        BY <3>1, <4>1
    <3>3. CASE ~JobAt(stack, j).failed
      <4>1. AllFailed(stack', j)
        BY <1>3, <1>8, <2>1, <2>3, <3>3
      <4>2. QED
        BY <2>1, <3>1, <4>1 DEF AllFailed
    <3>4. QED
      BY <3>2, <3>3
  <2>4. QED
    BY <2>2, <2>3
<1>9. QED
  BY <1>4, <1>7, <1>8

\* One job may enter the queue or leave it.
LEMMA QueueMoves ==
  ASSUME QueueInv, FreshInv, Stacks(stack), NEW t \in Threads, Others(t), KeepsCalls(stack, stack'),
         pc'[t] \in Before <=> pc[t] \in Before,
         NEW j \in Names, At(stack, j), Enqueued(j), NEW b \in BOOLEAN,
         b <=> JobAt(stack', j).extent > 0 /\ (Serial(j) => JobAt(stack', j).active = 0),
         \A k \in Names : At(stack, k) /\ k # j =>
             JobAt(stack', k).extent = JobAt(stack, k).extent /\ JobAt(stack', k).active = JobAt(stack, k).active,
         queue' \in Seq(Names), IsInjective(queue'),
         \A v : v \in Range(queue') <=> (v \in Range(queue) /\ v # j) \/ (v = j /\ b)
  PROVE  QueueInv' /\ FreshInv'
<1>1. ASSUME NEW k \in Names, At(stack, k)'
      PROVE  At(stack, k) /\ (Serial(k)' <=> Serial(k)) /\ (Enqueued(k)' <=> Enqueued(k))
  <2>1. At(stack, k)
    BY <1>1, PlacesBack
  <2>2. Serial(k)' <=> Serial(k)
    BY <2>1, CallsStay
  <2>3. Enqueued(k)' <=> Enqueued(k)
    BY EnqueuedStays
  <2>4. QED
    BY <2>1, <2>2, <2>3
<1>2. ASSUME NEW k \in Names, At(stack, k)', k # j
      PROVE  Job(k)'.extent = Job(k).extent /\ Job(k)'.active = Job(k).active
  BY <1>1, <1>2 DEF JobAt, Job, Frame
<1>3. Job(j)' = JobAt(stack', j)
  BY DEF JobAt, Job, Frame
<1>4. FreshInv'
  <2>1. SUFFICES ASSUME NEW k \in Names, At(stack, k)', ~Enqueued(k)' PROVE Job(k)'.extent > 0 /\ Job(k)'.active = 0
    BY DEF FreshInv
  <2>2. At(stack, k) /\ ~Enqueued(k)
    BY <1>1, <2>1
  <2>3. k # j
    BY <2>2
  <2>4. QED
    BY <1>2, <2>1, <2>2, <2>3 DEF FreshInv
<1>5. ASSUME NEW k \in Names, At(stack, k)' PROVE k \in Range(queue') <=> Waits(k)'
  <2>1. CASE k = j
    <3>1. Enqueued(j)' /\ (Serial(j)' <=> Serial(j))
      BY <1>1, <1>5, <2>1
    <3>2. Waits(j)' <=> b
      BY <1>3, <3>1 DEF Waits
    <3>3. QED
      BY <2>1, <3>2
  <2>2. CASE k # j
    <3>1. k \in Range(queue') <=> k \in Range(queue)
      BY <2>2
    <3>2. Waits(k)' <=> Waits(k)
      BY <1>1, <1>2, <1>5, <2>2 DEF Waits
    <3>3. QED
      BY <1>1, <1>5, <3>1, <3>2 DEF QueueInv
  <2>3. QED
    BY <2>1, <2>2
<1>6. \A i \in DOMAIN queue' : At(stack', queue'[i])
  <2>1. TAKE i \in DOMAIN queue'
  <2>2. PICK k \in Names : k = queue'[i]
    OBVIOUS
  <2>3. k \in Range(queue')
    BY <2>2 DEF Range
  <2>4. At(stack, k)
    <3>1. CASE k = j
      BY <3>1
    <3>2. CASE k \in Range(queue)
      BY <3>2 DEF QueueInv, Range
    <3>3. QED
      BY <2>3, <3>1, <3>2
  <2>5. QED
    BY <2>2, <2>4, CallsStay
<1>7. QED
  BY <1>4, <1>5, <1>6 DEF QueueInv

\* A thread in the loop that owns a job.
LEMMA OwnedJob ==
  ASSUME IInv, NEW t \in Threads, pc[t] \in {"loop", "scan"}, Owned(t) # NoJob
  PROVE  /\ Owned(t) \in Names /\ At(stack, Owned(t)) /\ Enqueued(Owned(t))
         /\ Owned(t)[1] = t /\ Owned(t)[2] = Depth(t) /\ Owned(t)[3] = Top(t).joining
         /\ Job(Owned(t)) = JobAt(stack, Owned(t)) /\ Job(Owned(t)) = Top(t).jobs[Top(t).joining]
         /\ IsJob(Job(Owned(t)), Task(Owned(t))) /\ Job(Owned(t)).extent \in Nat /\ Job(Owned(t)).active \in Nat
         /\ Top(t).call # NoCall /\ JoinOk(Top(t)) /\ Top(t).joining \in JobsOf(Top(t).call)
<1>1. Stacks(stack) /\ Depth(t) > 0 /\ JoinInv
  BY InLoop DEF Busy, IInv
<1>2. Depth(t) \in Nat /\ Depth(t) \in 1 .. Len(stack[t]) /\ Depth(t) \in 1 .. Depth(t)
      /\ Top(t) = stack[t][Depth(t)] /\ IsFrame(Top(t))
  BY <1>1, TopIs DEF Top
<1>3. PICK j : j = Owned(t)
  OBVIOUS
<1>4. j = <<t, Depth(t), Top(t).joining>> /\ j \in Names /\ Top(t).call # NoCall
  BY <1>1, <1>3, OwnedIs
<1>5. j[1] = t /\ j[2] = Depth(t) /\ j[3] = Top(t).joining
  BY <1>4
<1>6. JoinOk(Top(t))
  BY <1>1, <1>2 DEF JoinInv
<1>7. Top(t).joining \in JobsOf(Top(t).call)
  BY <1>4, <1>6 DEF JoinOk
<1>8. At(stack, j)
  BY <1>2, <1>4, <1>5, <1>7 DEF At
<1>9. Enqueued(j)
  BY <1>5 DEF Enqueued
<1>10. Job(j) = JobAt(stack, j) /\ Job(j) = Top(t).jobs[Top(t).joining]
  BY <1>2, <1>5 DEF Job, Frame, JobAt
<1>11. IsJob(Job(j), Task(j))
  <2>1. IsJob(JobAt(stack, j), TasksOf[stack[j[1]][j[2]].call][j[3]])
    BY <1>1, <1>4, <1>8, JobsType
  <2>2. QED
    BY <1>10, <2>1 DEF Task, Frame
<1>12. Job(j).extent \in Nat /\ Job(j).active \in Nat
  <2>1. Top(t).call \in Calls \union {NoCall} /\ Task(j) = TasksOf[Top(t).call][Top(t).joining]
    BY <1>2, <1>5 DEF IsFrame, Task, Frame
  <2>2. Extent[Task(j)] \in Nat
    BY <1>7, <2>1, TasksType
  <2>3. QED
    BY <1>11, <2>2 DEF IsJob
<1>13. QED
  BY <1>3, <1>4, <1>5, <1>6, <1>7, <1>8, <1>9, <1>10, <1>11, <1>12

\* The jobs of a state and those in its frames.
LEMMA JobIs ==
  ASSUME NEW j
  PROVE  Job(j) = JobAt(stack, j) /\ Job(j)' = JobAt(stack', j)
  BY DEF Job, Frame, JobAt

JoinsNext(g, b) == [g EXCEPT !.joining = @ + 1, !.failed = b]

\* The frame of an owner that goes on to its next job.
LEMMA JoinsNextIs ==
  ASSUME NEW g, IsFrame(g), NEW b \in BOOLEAN, NEW f, f = JoinsNext(g, b)
  PROVE  /\ IsFrame(f) /\ f.call = g.call /\ f.parent = g.parent /\ f.run = g.run /\ f.jobs = g.jobs
         /\ f.joining = g.joining + 1 /\ f.failed = b
<1>1. /\ f.call = g.call /\ f.parent = g.parent /\ f.run = g.run /\ f.jobs = g.jobs /\ f.semaphore = g.semaphore
      /\ f.joining = g.joining + 1 /\ f.failed = b
  BY DEF IsFrame, JoinsNext
<1>2. f \in [call : Calls \union {NoCall}, parent : Names \union {NoJob}, joining : Nat,
              failed : BOOLEAN, run : RunType, jobs : {f.jobs}, semaphore : {f.semaphore}]
  <2>1. /\ g.call \in Calls \union {NoCall} /\ g.parent \in Names \union {NoJob} /\ g.joining \in Nat
        /\ g.run \in RunType
    BY DEF IsFrame
  <2>2. g.joining + 1 \in Nat
    BY <2>1
  <2>3. g = [call |-> g.call, parent |-> g.parent, joining |-> g.joining, failed |-> g.failed, run |-> g.run,
             jobs |-> g.jobs, semaphore |-> g.semaphore]
    BY DEF IsFrame
  <2>4. f = [call |-> g.call, parent |-> g.parent, joining |-> g.joining + 1, failed |-> b, run |-> g.run,
             jobs |-> g.jobs, semaphore |-> g.semaphore]
    BY <2>3 DEF JoinsNext
  <2>5. QED
    BY <2>1, <2>2, <2>4
<1>3. IsFrame(f)
  BY <1>1, <1>2 DEF IsFrame
<1>4. QED
  BY <1>1, <1>3

\* An owner goes on to its next job, with the failures of those before.
JoinGoesOn(t) ==
    /\ Stacks(stack') /\ pc' = pc /\ pc[t] = "loop" /\ KeepsCalls(stack, stack') /\ KeepsRuns(stack, stack')
    /\ KeepsJobs(stack, stack')
    /\ \A u \in Threads : \A d \in 1 .. Len(stack[u]) : u # t \/ d # Len(stack[t]) => stack'[u][d] = stack[u][d]
    /\ stack'[t][Len(stack[t])].joining = Top(t).joining + 1
    /\ stack'[t][Len(stack[t])].failed => Top(t).failed \/ Top(t).jobs[Top(t).joining].failed
    /\ Top(t).joining \in JobsOf(Top(t).call)

\* An owner goes on to its next job.
LEMMA JoinNextStep ==
  ASSUME IInv, NEW t \in Threads, JoinNext(t)
  PROVE  IInv' /\ KeepsCalls(stack, stack') /\ JoinGoesOn(t)
<1>1. /\ Stacks(stack) /\ ScanInv /\ ShutInv /\ pc \in [Threads -> Pcs] /\ target \in Nat /\ shutdown \in BOOLEAN
      /\ desired \in NumThreads \union {DefaultThreads} /\ queue \in Seq(Names) /\ Len(queue) \in Nat
  BY PartsOf
<1>2. PICK g, b : g = Top(t) /\ b = CallFailed(t)
  OBVIOUS
<1>3. /\ pc[t] = "loop" /\ Owned(t) # NoJob /\ ~Running(Owned(t)) /\ g.joining < Len(g.jobs) /\ pc' = pc
      /\ UNCHANGED <<queue, reserved, target, desired, shutdown, cursor>>
      /\ stack' = [stack EXCEPT ![t][Depth(t)].joining = @ + 1, ![t][Depth(t)].failed = b]
  BY <1>2 DEF JoinNext, Finished, pool
<1>4. Depth(t) > 0
  BY <1>3, InLoop DEF Busy
<1>5. PICK d \in Nat : d = Depth(t) /\ d = Len(stack[t]) /\ d \in 1 .. Len(stack[t]) /\ g = stack[t][d] /\ IsFrame(g)
  BY <1>1, <1>2, <1>4, TopIs
<1>6. PICK o \in Names : /\ o = Owned(t) /\ Job(o) = g.jobs[g.joining] /\ IsJob(Job(o), Task(o))
                         /\ Job(o).extent \in Nat /\ Job(o).active \in Nat
                         /\ g.call # NoCall /\ JoinOk(g) /\ g.joining \in JobsOf(g.call)
  BY <1>2, <1>3, OwnedJob
<1>7. b \in BOOLEAN /\ (b <=> g.failed \/ g.jobs[g.joining].failed)
  BY <1>2, <1>5, <1>6 DEF CallFailed, IsFrame, IsJob
<1>8. PICK f : f = JoinsNext(g, b)
  OBVIOUS
<1>9. stack' = [stack EXCEPT ![t][d] = f]
  BY <1>3, <1>5, <1>8, Zenon DEF JoinsNext
<1>10. /\ IsFrame(f) /\ f.call = g.call /\ f.parent = g.parent /\ f.run = g.run /\ f.jobs = g.jobs
       /\ f.joining = g.joining + 1 /\ f.failed = b
  BY <1>5, <1>7, <1>8, JoinsNextIs
<1>11. Changed(stack, stack', t, d, f)
  BY <1>1, <1>5, <1>9, <1>10, FrameChange
<1>12. KeepsCalls(stack, stack') /\ KeepsRuns(stack, stack') /\ KeepsJobs(stack, stack') /\ Stacks(stack')
  BY <1>1, <1>5, <1>10, <1>11, ChangedKeeps DEF Changed
<1>13. Others(t) /\ pc'[t] = "loop"
  BY <1>1, <1>3, NobodyMoves
<1>14. cursor' \in 1 .. Len(queue') + 1
  BY <1>1, <1>3 DEF ScanInv
<1>15. ScanInv'
  BY <1>1, <1>3, <1>13, <1>14, ScanStays DEF Locked
<1>16. ShutInv'
  BY <1>1, <1>3, <1>13, ShutStays
<1>17. JoinOk(f)
  <2>1. g.jobs[g.joining].extent = 0 /\ g.jobs[g.joining].active = 0
    BY <1>3, <1>6 DEF Running
  <2>2. JobsOf(g.call) = 1 .. Len(TasksOf[g.call]) /\ Len(TasksOf[g.call]) \in Nat /\ g.jobs = [i \in JobsOf(g.call) |-> g.jobs[i]]
    BY <1>5, <1>6, CallsTasks DEF IsFrame
  <2>3. Len(g.jobs) = Len(TasksOf[g.call])
    BY <2>2
  <2>4. f.joining \in JobsOf(f.call)
    BY <1>3, <1>6, <1>10, <2>2, <2>3
  <2>5. ASSUME NEW i \in JobsOf(f.call), i < f.joining
        PROVE  /\ f.jobs[i].extent = 0 /\ f.jobs[i].active = 0
               /\ f.jobs[i].failed => f.failed \/ \A k \in JobsOf(f.call) : k >= f.joining => f.jobs[k].failed
    <3>1. CASE i = g.joining
      BY <1>7, <1>10, <2>1, <3>1
    <3>2. CASE i # g.joining
      <4>1. i < g.joining
        BY <1>6, <1>10, <2>2, <2>5, <3>2
      <4>2. /\ g.jobs[i].extent = 0 /\ g.jobs[i].active = 0
            /\ g.jobs[i].failed => g.failed \/ \A k \in JobsOf(g.call) : k >= g.joining => g.jobs[k].failed
        BY <1>6, <1>10, <2>5, <4>1 DEF JoinOk
      <4>3. \A k \in JobsOf(g.call) : k >= f.joining => k >= g.joining
        BY <1>6, <1>10, <2>2
      <4>4. QED
        BY <1>7, <1>10, <4>2, <4>3
    <3>3. QED
      BY <3>1, <3>2
  <2>6. QED
    BY <2>4, <2>5 DEF JoinOk
<1>18. JoinInv'
  <2>1. SUFFICES ASSUME NEW u \in Threads, NEW e \in 1 .. Depth(u)' PROVE JoinOk(stack'[u][e])
    BY DEF JoinInv
  <2>2. e \in 1 .. Depth(u) /\ e \in 1 .. Len(stack[u])
    BY <1>11 DEF Changed, Depth
  <2>3. CASE u = t /\ e = d
    BY <1>11, <1>17, <2>3 DEF Changed
  <2>4. CASE u # t \/ e # d
    <3>1. stack'[u][e] = stack[u][e]
      BY <1>11, <2>2, <2>4 DEF Changed
    <3>2. QED
      BY <2>2, <3>1 DEF JoinInv, IInv
  <2>5. QED
    BY <2>3, <2>4
<1>19. AccountInv' /\ SameExtents(stack, stack') /\ SameActive(stack, stack') /\ SameReserved(stack, stack')
  <2>1. AccountInv
    BY DEF IInv
  <2>2. QED
    BY <1>12, <2>1, AccountStays DEF KeepsJobs
<1>20. pc[t] \notin Busy /\ pc'[t] \notin Busy /\ pc'[t] \notin {"out", "off", "join", "start", "exited"}
       /\ pc[t] \notin {"out", "off", "join"}
  BY <1>3, <1>13 DEF Busy
<1>21. pc'[t] \in Before <=> pc[t] \in Before
  BY <1>3
<1>22. queue' = queue /\ reserved' = reserved /\ target' = target /\ shutdown' \in BOOLEAN
       /\ desired' \in NumThreads \union {DefaultThreads}
  BY <1>1, <1>3
<1>23. IInv'
  BY <1>12, <1>13, <1>15, <1>16, <1>18, <1>19, <1>20, <1>21, <1>22, IdlerStep
<1>24. JoinGoesOn(t)
  BY <1>2, <1>3, <1>5, <1>6, <1>7, <1>10, <1>11, <1>12 DEF JoinGoesOn, Changed
<1>25. QED
  BY <1>12, <1>23, <1>24

\* The job an owner looks after is changed.
LEMMA OwnerSets ==
  ASSUME IInv, NEW t \in Threads, pc[t] = "loop", NEW o, o = Owned(t), o # NoJob, NEW b, IsJob(b, Task(o)),
         stack' = SetJob(stack, o, b)
  PROVE  SetsJob(stack, stack', o, b)
<1>1. o \in Names /\ At(stack, o) /\ Stacks(stack)
  BY OwnedJob, PartsOf
<1>2. IsJob(b, TasksOf[stack[o[1]][o[2]].call][o[3]])
  BY DEF Task, Frame
<1>3. QED
  BY <1>1, <1>2, JobIsSet

\* An owner fails its job because the task that made the call has failed, and wakes the others.
Inherited(t) ==
    /\ Stacks(stack') /\ pc[t] = "loop" /\ pc'[t] = "loop" /\ Others(t) /\ \A u \in Threads : pc'[u] # "sleepOwner"
    /\ KeepsCalls(stack, stack') /\ KeepsJoins(stack, stack') /\ KeepsRuns(stack, stack') /\ Depth(t) > 0
    /\ Owned(t)[1] = t /\ Owned(t)[2] = Depth(t) /\ Owned(t)[3] = Top(t).joining
    /\ \A k \in Names : At(stack, k) =>
          /\ JobAt(stack', k).active = JobAt(stack, k).active
          /\ JobAt(stack', k).extent = JobAt(stack, k).extent
          /\ JobAt(stack, k).failed => JobAt(stack', k).failed
          /\ k # Owned(t) => JobAt(stack', k).failed = JobAt(stack, k).failed
    /\ Top(t).parent # NoJob /\ Job(Top(t).parent).failed

\* An owner inherits the failure of its parent.
LEMMA InheritFailureStep ==
  ASSUME IInv, NEW t \in Threads, InheritFailure(t)
  PROVE  IInv' /\ KeepsCalls(stack, stack') /\ Inherited(t)
<1>1. /\ Stacks(stack) /\ ScanInv /\ ShutInv /\ pc \in [Threads -> Pcs] /\ target \in Nat /\ shutdown \in BOOLEAN
      /\ desired \in NumThreads \union {DefaultThreads} /\ queue \in Seq(Names) /\ Len(queue) \in Nat
  BY PartsOf
<1>2. PICK o, b : /\ o = Owned(t) /\ b = [Job(o) EXCEPT !.failed = TRUE]
                  /\ pc[t] = "loop" /\ o # NoJob /\ pc' = Broadcast(pc, {"sleepOwner"})
                  /\ UNCHANGED <<queue, reserved, target, desired, shutdown, cursor>>
                  /\ stack' = SetJob(stack, o, b)
  BY DEF InheritFailure, pool
<1>3. /\ o \in Names /\ At(stack, o) /\ IsJob(Job(o), Task(o))
      /\ o[1] = t /\ o[2] = Depth(t) /\ o[3] = Top(t).joining /\ Job(o).extent \in Nat
  BY <1>2, OwnedJob
<1>4. /\ IsJob(b, Task(o)) /\ b.extent = Job(o).extent /\ b.active = Job(o).active /\ b.failed
      /\ b.reserved = Job(o).reserved /\ b.ran = Job(o).ran
  BY <1>2, <1>3 DEF IsJob
<1>5. SetsJob(stack, stack', o, b)
  BY <1>2, <1>4, OwnerSets
<1>6. /\ Stacks(stack') /\ KeepsCalls(stack, stack') /\ KeepsJoins(stack, stack') /\ KeepsRuns(stack, stack')
      /\ JobAt(stack', o) = b /\ \A k \in Names : At(stack, k) /\ k # o => JobAt(stack', k) = JobAt(stack, k)
  BY <1>5 DEF SetsJob
<1>7. Job(o) = JobAt(stack, o)
  BY JobIs
<1>8. SameExtents(stack, stack') /\ SameActive(stack, stack') /\ SameReserved(stack, stack')
  BY <1>4, <1>6, <1>7 DEF SameExtents, SameActive, SameReserved
<1>9. Others(t) /\ pc'[t] = "loop"
  <2>1. PICK R \in SUBSET Sleeping : R = {"sleepOwner"}
    BY DEF Sleeping
  <2>2. "loop" \in Pcs
    BY DEF Pcs
  <2>3. pc' = [Broadcast(pc, R) EXCEPT ![t] = "loop"]
    BY <1>1, <1>2, <2>1 DEF Broadcast
  <2>4. QED
    BY <1>1, <2>2, <2>3, BroadcastKeeps
<1>10. cursor' \in 1 .. Len(queue') + 1
  BY <1>1, <1>2 DEF ScanInv
<1>11. ScanInv'
  BY <1>1, <1>2, <1>9, <1>10, ScanStays DEF Locked
<1>12. ShutInv'
  BY <1>1, <1>2, <1>9, ShutStays
<1>13. JoinInv'
  <2>1. JoinInv
    BY DEF IInv
  <2>2. \A k \in Names : At(stack, k) /\ JobAt(stack, k).extent = 0 /\ JobAt(stack, k).active = 0 =>
             JobAt(stack', k).extent = 0 /\ JobAt(stack', k).active = 0
    BY <1>8 DEF SameExtents, SameActive
  <2>3. \A k \in Names : At(stack, k) /\ JobAt(stack, k).failed => JobAt(stack', k).failed
    BY <1>4, <1>6
  <2>4. stack[o[1]][o[2]].joining = o[3] /\ o[3] \in Nat
    BY <1>3 DEF Top, Names
  <2>5. \A k \in Names : At(stack, k) /\ JobAt(stack', k).failed /\ k[3] < stack[k[1]][k[2]].joining =>
             JobAt(stack, k).failed \/ AllFailed(stack', k)
    BY <1>6, <2>4
  <2>6. QED
    BY <1>1, <1>6, <2>1, <2>2, <2>3, <2>5, JoinMoves
<1>14. AccountInv'
  <2>1. SUFFICES ASSUME NEW j \in Names, At(stack, j)', ~Job(j)'.failed
                 PROVE  Job(j)'.extent + Job(j)'.ran + (IF Serial(j)' THEN 0 ELSE Job(j)'.active) = Extent[Task(j)']
    BY DEF AccountInv
  <2>2. j # o
    BY <1>4, <1>6, <2>1, JobIs
  <2>3. At(stack, j) /\ Task(j)' = Task(j) /\ (Serial(j)' <=> Serial(j))
    BY <1>6, <2>1, PlacesBack, CallsStay
  <2>4. Job(j)' = Job(j)
    BY <1>6, <2>2, <2>3, JobIs
  <2>5. QED
    BY <2>1, <2>3, <2>4 DEF AccountInv, IInv
<1>15. pc[t] \notin Busy /\ pc'[t] \notin Busy /\ pc'[t] \notin {"out", "off", "join", "start", "exited"}
       /\ pc[t] \notin {"out", "off", "join"}
  BY <1>2, <1>9 DEF Busy
<1>16. pc'[t] \in Before <=> pc[t] \in Before
  BY <1>2, <1>9
<1>17. queue' = queue /\ reserved' = reserved /\ target' = target /\ shutdown' \in BOOLEAN
       /\ desired' \in NumThreads \union {DefaultThreads}
  BY <1>1, <1>2
<1>18. IInv'
  BY <1>6, <1>8, <1>9, <1>11, <1>12, <1>13, <1>14, <1>15, <1>16, <1>17, IdlerStep
<1>19. Inherited(t)
  <2>1. \A u \in Threads : pc'[u] # "sleepOwner"
    BY <1>2 DEF Broadcast, Awaken
  <2>2. Top(t).parent # NoJob /\ Job(Top(t).parent).failed
    BY DEF InheritFailure, Inherits
  <2>3. Depth(t) > 0
    BY <1>2, InLoop DEF Busy
  <2>4. \A k \in Names : At(stack, k) =>
          /\ JobAt(stack', k).active = JobAt(stack, k).active
          /\ JobAt(stack', k).extent = JobAt(stack, k).extent
          /\ JobAt(stack, k).failed => JobAt(stack', k).failed
          /\ k # o => JobAt(stack', k).failed = JobAt(stack, k).failed
    BY <1>4, <1>6, <1>8 DEF SameActive, SameExtents
  <2>5. QED
    BY <1>2, <1>3, <1>6, <1>9, <2>1, <2>2, <2>3, <2>4 DEF Inherited
<1>20. QED
  BY <1>6, <1>18, <1>19

\* The failed job is in the queue: the search for it ends.
LEMMA CancelOwnedStep ==
  ASSUME IInv, NEW t \in Threads, CancelOwned(t)
  PROVE  IInv' /\ KeepsCalls(stack, stack') /\ Calm(t)
<1>1. /\ Stacks(stack) /\ ScanInv /\ ShutInv /\ pc \in [Threads -> Pcs] /\ target \in Nat /\ shutdown \in BOOLEAN
      /\ desired \in NumThreads \union {DefaultThreads} /\ queue \in Seq(Names) /\ Len(queue) \in Nat
  BY PartsOf
<1>2. PICK o, b : /\ o = Owned(t) /\ b = [Job(o) EXCEPT !.extent = 0]
                  /\ pc[t] = "loop" /\ o # NoJob /\ pc' = pc /\ Running(o) /\ Job(o).failed /\ Job(o).active = 0
                  /\ UNCHANGED <<reserved, target, desired, shutdown, cursor>>
                  /\ stack' = SetJob(stack, o, b) /\ queue' = Unlink(queue, o)
  BY DEF CancelOwned, Cancels
<1>3. /\ o \in Names /\ At(stack, o) /\ IsJob(Job(o), Task(o)) /\ Enqueued(o)
      /\ o[1] = t /\ o[2] = Depth(t) /\ o[3] = Top(t).joining /\ Job(o).extent \in Nat
  BY <1>2, OwnedJob
<1>4. /\ IsJob(b, Task(o)) /\ b.extent = 0 /\ b.active = Job(o).active /\ b.failed /\ b.reserved = Job(o).reserved
  <2>1. Extent[Task(o)] \in Nat
    <3>1. IsFrame(Frame(o)) /\ o[3] \in JobsOf(Frame(o).call)
      BY <1>1, <1>3, Places DEF Frame, Stacks, IsStack
    <3>2. Frame(o).call \in Calls \union {NoCall}
      BY <3>1 DEF IsFrame
    <3>3. QED
      BY <3>1, <3>2, TasksType DEF Task
  <2>2. QED
    BY <1>2, <1>3, <2>1 DEF IsJob
<1>5. SetsJob(stack, stack', o, b)
  BY <1>2, <1>4, OwnerSets
<1>6. /\ Stacks(stack') /\ KeepsCalls(stack, stack') /\ KeepsJoins(stack, stack') /\ KeepsRuns(stack, stack')
      /\ JobAt(stack', o) = b /\ \A k \in Names : At(stack, k) /\ k # o => JobAt(stack', k) = JobAt(stack, k)
  BY <1>5 DEF SetsJob
<1>7. Job(o) = JobAt(stack, o)
  BY JobIs
<1>8. SameActive(stack, stack') /\ SameReserved(stack, stack')
  BY <1>4, <1>6, <1>7 DEF SameActive, SameReserved
<1>9. Others(t) /\ pc'[t] = "loop"
  BY <1>1, <1>2, NobodyMoves
<1>10. cursor' = 1
  BY <1>1, <1>2 DEF ScanInv, Locked
<1>11. Job(o).extent > 0
  BY <1>2, <1>3 DEF Running
<1>12. o \in Range(queue)
  BY <1>2, <1>3, <1>11 DEF IInv, QueueInv, Waits
<1>13. PICK p \in DOMAIN queue : queue[p] = o /\ queue' = RemoveAt(queue, p)
  <2>1. \E p \in DOMAIN queue : queue[p] = o
    BY <1>12 DEF Range
  <2>2. PICK p : p = CHOOSE i \in DOMAIN queue : queue[i] = o
    OBVIOUS
  <2>3. p \in DOMAIN queue /\ queue[p] = o
    BY <2>1, <2>2
  <2>4. QED
    BY <1>2, <2>2, <2>3 DEF Unlink
<1>14. /\ queue' \in Seq(Names) /\ IsInjective(queue')
       /\ \A v : v \in Range(queue') <=> v \in Range(queue) /\ v # o
  <2>1. IsInjective(queue)
    BY DEF IInv, QueueInv
  <2>2. QED
    BY <1>1, <1>13, <2>1, RemoveAtRemoves
<1>15. ScanInv'
  <2>1. cursor' \in 1 .. Len(queue') + 1
    BY <1>10, <1>14
  <2>2. QED
    BY <1>1, <1>2, <1>9, <1>10, <2>1, ScanStays DEF Locked
<1>16. ShutInv'
  BY <1>1, <1>2, <1>9, ShutStays
<1>17. QueueInv' /\ FreshInv'
  <2>1. QueueInv /\ FreshInv /\ (pc'[t] \in Before <=> pc[t] \in Before)
    BY <1>2 DEF IInv
  <2>2. PICK a \in BOOLEAN : a = FALSE
    OBVIOUS
  <2>3. a <=> JobAt(stack', o).extent > 0 /\ (Serial(o) => JobAt(stack', o).active = 0)
    BY <1>4, <1>6, <2>2
  <2>4. \A k \in Names : At(stack, k) /\ k # o =>
             JobAt(stack', k).extent = JobAt(stack, k).extent /\ JobAt(stack', k).active = JobAt(stack, k).active
    BY <1>6
  <2>5. \A v : v \in Range(queue') <=> (v \in Range(queue) /\ v # o) \/ (v = o /\ a)
    BY <1>14, <2>2
  <2>6. QED
    BY <1>1, <1>3, <1>6, <1>9, <1>14, <2>1, <2>3, <2>4, <2>5, QueueMoves
<1>18. JoinInv'
  <2>1. JoinInv
    BY DEF IInv
  <2>2. \A k \in Names : At(stack, k) /\ JobAt(stack, k).extent = 0 /\ JobAt(stack, k).active = 0 =>
             JobAt(stack', k).extent = 0 /\ JobAt(stack', k).active = 0
    BY <1>6, <1>7, <1>11
  <2>3. \A k \in Names : At(stack, k) /\ JobAt(stack, k).failed => JobAt(stack', k).failed
    BY <1>4, <1>6
  <2>4. \A k \in Names : At(stack, k) /\ JobAt(stack', k).failed /\ k[3] < stack[k[1]][k[2]].joining =>
             JobAt(stack, k).failed \/ AllFailed(stack', k)
    BY <1>2, <1>6, <1>7
  <2>5. QED
    BY <1>1, <1>6, <2>1, <2>2, <2>3, <2>4, JoinMoves
<1>19. AccountInv'
  <2>1. SUFFICES ASSUME NEW j \in Names, At(stack, j)', ~Job(j)'.failed
                 PROVE  Job(j)'.extent + Job(j)'.ran + (IF Serial(j)' THEN 0 ELSE Job(j)'.active) = Extent[Task(j)']
    BY DEF AccountInv
  <2>2. j # o
    BY <1>4, <1>6, <2>1, JobIs
  <2>3. At(stack, j) /\ Task(j)' = Task(j) /\ (Serial(j)' <=> Serial(j))
    BY <1>6, <2>1, PlacesBack, CallsStay
  <2>4. Job(j)' = Job(j)
    BY <1>6, <2>2, <2>3, JobIs
  <2>5. QED
    BY <2>1, <2>3, <2>4 DEF AccountInv, IInv
<1>20. \A u \in Threads : \A d \in 1 .. Len(stack[u]) : stack[u][d].run.job # o
  <2>1. SUFFICES ASSUME NEW u \in Threads, NEW d \in 1 .. Len(stack[u]), stack[u][d].run.job = o PROVE FALSE
    OBVIOUS
  <2>2. <<u, d>> \in RunsOf(o)
    BY <2>1, RunsAre DEF Depth
  <2>3. Cardinality(RunsOf(o)) >= 1
    BY <1>1, <2>2, RunsCounted
  <2>4. Job(o).active = Cardinality(RunsOf(o))
    BY <1>3 DEF IInv, ActiveInv
  <2>5. QED
    BY <1>2, <2>3, <2>4
<1>21. OtherRuns(stack, stack', t) /\ SameWork(stack, stack')
  BY <1>6 DEF KeepsRuns, OtherRuns, SameWork
<1>22. OthersExtents(t)
  <2>1. SUFFICES ASSUME NEW u \in Threads, NEW d \in 1 .. Len(stack[u]), stack[u][d].run.job # NoJob
                 PROVE  JobAt(stack', stack[u][d].run.job).extent = JobAt(stack, stack[u][d].run.job).extent
    BY DEF OthersExtents
  <2>2. RunOk(u, d)
    BY DEF IInv, RunInv, Depth
  <2>3. PICK k \in Names : k = stack[u][d].run.job /\ At(stack, k)
    BY <2>1, <2>2 DEF RunOk, At
  <2>4. k # o
    BY <1>20, <2>3
  <2>5. QED
    BY <1>6, <2>3, <2>4
<1>23. PcOk(t) /\ Depth(t) > 0 /\ Depth(t) \in Nat /\ Depth(t)' = Depth(t) /\ Depth(t) \in 1 .. Len(stack[t])
  <2>1. PcOk(t) /\ Depth(t) > 0
    BY <1>2, InLoop DEF Busy
  <2>2. QED
    BY <1>1, <1>6, <2>1, TopIs DEF KeepsCalls, Depth
<1>24. stack'[t][Depth(t)].run = NoRun /\ Top(t)'.run = NoRun
  BY <1>2, <1>6, <1>23, NotWorking DEF KeepsRuns, Top, Busy
<1>25. NoRun.job = NoJob
  BY DEF NoRun
<1>26. RunOk(t, Depth(t))'
  BY <1>23, <1>24, <1>25 DEF RunOk
<1>27. PcOk(t)'
  BY <1>9, <1>23, <1>24, <1>25 DEF PcOk, Busy
<1>28. PcInv /\ NestInv /\ RunInv /\ ActiveInv /\ BalanceInv
  BY DEF IInv
<1>29. PcInv'
  BY <1>1, <1>6, <1>9, <1>21, <1>27, <1>28, PcStays
<1>30. RunInv'
  BY <1>1, <1>6, <1>9, <1>21, <1>22, <1>26, <1>28, RunMoves
<1>31. NestInv'
  BY <1>1, <1>6, <1>21, <1>28, NestStays
<1>32. ActiveInv'
  BY <1>1, <1>6, <1>8, <1>21, <1>28, ActiveStays
<1>33. BalanceInv'
  BY <1>1, <1>2, <1>6, <1>8, <1>21, <1>28, BalanceStays
<1>34. Locals'
  BY <1>1, <1>2, <1>6, <1>9 DEF Locals, Others
<1>35. IInv'
  BY <1>15, <1>16, <1>17, <1>18, <1>19, <1>29, <1>30, <1>31, <1>32, <1>33, <1>34 DEF IInv
<1>36. Calm(t)
  <2>1. SameFailed(stack, stack')
    <3>1. b.failed = Job(o).failed
      BY <1>2, <1>3 DEF IsJob
    <3>2. QED
      BY <1>6, <1>7, <3>1 DEF SameFailed
  <2>2. \A k \in Names : At(stack, k) =>
            /\ JobAt(stack', k).active = 0 => JobAt(stack, k).active = 0
            /\ JobAt(stack, k).extent = 0 => JobAt(stack', k).extent = 0
    BY <1>4, <1>6, <1>8 DEF SameActive
  <2>5. pc[t] \in Locked /\ pc'[t] # "scan"
    BY <1>2, <1>9 DEF Locked
  <2>3. RunGoesOn(t)
    <3>1. ~NoRun.failed /\ Depth(t) = Len(stack[t])
      BY DEF NoRun, Depth
    <3>2. QED
      BY <1>24, <3>1 DEF RunGoesOn
  <2>4. QED
    BY <1>6, <1>9, <1>21, <2>1, <2>2, <2>3, <2>5 DEF Calm
<1>37. QED
  BY <1>6, <1>35, <1>36

-----------------------------------------------------------------------------
(* What taking a job and being done with it have in common *)

\* A sum is no less than any of its summands.
LEMMA TotalAtLeast ==
  ASSUME NEW f, IsCount(f), NEW x \in DOMAIN f
  PROVE  Total(f) >= f[x]
<1>1. f[x] \in Nat
  BY DEF IsCount
<1>2. PICK T : T = {x} \X (1 .. f[x])
  OBVIOUS
<1>3. IsFiniteSet(T) /\ Cardinality(T) = f[x]
  BY <1>1, <1>2, SlotsOfOne
<1>4. T \in SUBSET Slots(f)
  BY <1>2 DEF Slots
<1>5. IsFiniteSet(Slots(f))
  BY SlotsFinite
<1>6. Cardinality(T) <= Cardinality(Slots(f))
  BY <1>4, <1>5, FS_Subset
<1>7. Cardinality(Slots(f)) = Total(f) /\ Cardinality(Slots(f)) \in Nat
  BY <1>5, FS_CardinalityType DEF Total, Slots
<1>8. QED
  BY <1>1, <1>3, <1>6, <1>7

TopRun(s, t, r) == [s EXCEPT ![t][Len(s[t])].run = r]

\* The run of t's top frame becomes r, job j changes, p's reservations by n.
Effect(s, z, t, j, r, p, n) ==
    /\ Stacks(z) /\ KeepsCalls(s, z) /\ KeepsJoins(s, z)
    /\ OtherRuns(s, z, t) /\ z[t][Len(s[t])].run = r
    /\ \A k \in Names : At(s, k) /\ k # j =>
          /\ JobAt(z, k).extent = JobAt(s, k).extent /\ JobAt(z, k).active = JobAt(s, k).active
          /\ JobAt(z, k).ran = JobAt(s, k).ran
    /\ \A k \in Names : At(s, k) /\ k = p => JobAt(z, k).reserved = JobAt(s, k).reserved + n
    /\ \A k \in Names : At(s, k) /\ k # p => JobAt(z, k).reserved = JobAt(s, k).reserved

\* Job j becomes b, but for what is reserved on it.
Becomes(s, z, j, b) ==
    /\ JobAt(z, j).extent = b.extent /\ JobAt(z, j).active = b.active
    /\ JobAt(z, j).failed = b.failed /\ JobAt(z, j).ran = b.ran
    /\ \A k \in Names : At(s, k) /\ k # j => JobAt(z, k).failed = JobAt(s, k).failed

\* A job is set, threads are reserved on another, and the run of the top frame is set.
LEMMA Chain ==
  ASSUME NEW s, Stacks(s), NEW t \in Threads, Len(s[t]) > 0, NEW j \in Names, At(s, j), NEW b,
         IsJob(b, TasksOf[s[j[1]][j[2]].call][j[3]]), b.reserved = JobAt(s, j).reserved,
         NEW p, NEW n \in Int, p # NoJob => p \in Names /\ At(s, p) /\ JobAt(s, p).reserved + n \in Nat,
         NEW r \in RunType, NEW w, w = SetJob(s, j, b), NEW y, y = Reserve(w, p, n), NEW z, z = TopRun(y, t, r)
  PROVE  Effect(s, z, t, j, r, p, n) /\ Becomes(s, z, j, b)
<1>1. SetsJob(s, w, j, b)
  BY JobIsSet
<1>2. /\ Stacks(w) /\ KeepsCalls(s, w) /\ KeepsJoins(s, w) /\ KeepsRuns(s, w) /\ JobAt(w, j) = b
      /\ \A k \in Names : At(s, k) /\ k # j => JobAt(w, k) = JobAt(s, k)
  BY <1>1 DEF SetsJob
<1>3. \A k \in Names : At(w, k) <=> At(s, k)
  BY <1>2, PlacesStay
<1>4. \A k \in Names : At(s, k) => JobAt(w, k).reserved = JobAt(s, k).reserved
  BY <1>2
<1>5. p # NoJob => p \in Names /\ At(w, p) /\ JobAt(w, p).reserved + n \in Nat
  BY <1>3, <1>4
<1>6. Reserves(w, y, p, n)
  BY <1>2, <1>5, ReserveReserves
<1>7. /\ Stacks(y) /\ KeepsCalls(w, y) /\ KeepsJoins(w, y) /\ KeepsRuns(w, y)
      /\ (p # NoJob => JobAt(y, p).reserved = JobAt(w, p).reserved + n)
      /\ SameExtents(w, y) /\ SameActive(w, y) /\ SameFailed(w, y) /\ SameRan(w, y)
      /\ \A k \in Names : At(w, k) /\ k # p => JobAt(y, k).reserved = JobAt(w, k).reserved
  BY <1>6 DEF Reserves
<1>8. \A k \in Names : At(y, k) <=> At(s, k)
  BY <1>3, <1>7, PlacesStay
<1>9. Len(y[t]) = Len(s[t]) /\ Len(y[t]) > 0
  BY <1>2, <1>7 DEF KeepsCalls
<1>10. z = [y EXCEPT ![t][Len(y[t])].run = r]
  BY Zenon DEF TopRun
<1>11. SetsRun(y, z, t, r)
  BY <1>7, <1>9, <1>10, RunIsSet
<1>12. /\ Stacks(z) /\ KeepsCalls(y, z) /\ KeepsJoins(y, z) /\ KeepsJobs(y, z) /\ z[t][Len(y[t])].run = r
       /\ \A u \in Threads : \A d \in 1 .. Len(y[u]) : (u # t \/ d # Len(y[t])) => z[u][d].run = y[u][d].run
  BY <1>11 DEF SetsRun
<1>13. KeepsCalls(s, z)
  <2>1. ASSUME NEW u \in Threads PROVE Len(w[u]) = Len(s[u]) /\ Len(y[u]) = Len(s[u]) /\ Len(z[u]) = Len(s[u])
    <3>1. Len(w[u]) = Len(s[u])
      BY <1>2 DEF KeepsCalls
    <3>2. Len(y[u]) = Len(w[u])
      BY <1>7 DEF KeepsCalls
    <3>3. Len(z[u]) = Len(y[u])
      BY <1>12 DEF KeepsCalls
    <3>4. QED
      BY <3>1, <3>2, <3>3
  <2>2. ASSUME NEW u \in Threads, NEW d \in 1 .. Len(s[u])
        PROVE  z[u][d].call = s[u][d].call /\ z[u][d].parent = s[u][d].parent
    <3>1. d \in 1 .. Len(w[u]) /\ d \in 1 .. Len(y[u])
      BY <2>1
    <3>2. w[u][d].call = s[u][d].call /\ w[u][d].parent = s[u][d].parent
      BY <1>2 DEF KeepsCalls
    <3>3. y[u][d].call = w[u][d].call /\ y[u][d].parent = w[u][d].parent
      BY <1>7, <3>1 DEF KeepsCalls
    <3>4. z[u][d].call = y[u][d].call /\ z[u][d].parent = y[u][d].parent
      BY <1>12, <3>1 DEF KeepsCalls
    <3>5. QED
      BY <3>2, <3>3, <3>4
  <2>3. QED
    BY <2>1, <2>2 DEF KeepsCalls
<1>14. KeepsJoins(s, z)
  <2>1. ASSUME NEW u \in Threads, NEW d \in 1 .. Len(s[u])
        PROVE  z[u][d].joining = s[u][d].joining /\ z[u][d].failed = s[u][d].failed
    <3>1. d \in 1 .. Len(w[u]) /\ d \in 1 .. Len(y[u])
      BY <1>2, <1>7 DEF KeepsCalls
    <3>2. w[u][d].joining = s[u][d].joining /\ w[u][d].failed = s[u][d].failed
      BY <1>2 DEF KeepsJoins
    <3>3. y[u][d].joining = w[u][d].joining /\ y[u][d].failed = w[u][d].failed
      BY <1>7, <3>1 DEF KeepsJoins
    <3>4. z[u][d].joining = y[u][d].joining /\ z[u][d].failed = y[u][d].failed
      BY <1>12, <3>1 DEF KeepsJoins
    <3>5. QED
      BY <3>2, <3>3, <3>4
  <2>2. QED
    BY <2>1 DEF KeepsJoins
<1>15. OtherRuns(s, z, t)
  <2>1. ASSUME NEW u \in Threads, NEW d \in 1 .. Len(s[u]), u # t \/ d # Len(s[t])
        PROVE  z[u][d].run = s[u][d].run
    <3>1. d \in 1 .. Len(w[u]) /\ d \in 1 .. Len(y[u])
      BY <1>2, <1>7 DEF KeepsCalls
    <3>2. w[u][d].run = s[u][d].run
      BY <1>2 DEF KeepsRuns
    <3>3. y[u][d].run = w[u][d].run
      BY <1>7, <3>1 DEF KeepsRuns
    <3>4. z[u][d].run = y[u][d].run
      BY <1>9, <1>12, <2>1, <3>1
    <3>5. QED
      BY <3>2, <3>3, <3>4
  <2>2. QED
    BY <2>1 DEF OtherRuns
<1>16. \A k \in Names : At(s, k) => /\ JobAt(z, k).extent = JobAt(w, k).extent /\ JobAt(z, k).active = JobAt(w, k).active
                                    /\ JobAt(z, k).ran = JobAt(w, k).ran /\ JobAt(z, k).failed = JobAt(w, k).failed
  BY <1>3, <1>7, <1>8, <1>12 DEF KeepsJobs, SameExtents, SameActive, SameRan, SameFailed
<1>17. \A k \in Names : At(s, k) => JobAt(z, k).reserved = JobAt(y, k).reserved
  BY <1>8, <1>12 DEF KeepsJobs, SameReserved
<1>18. \A k \in Names : At(s, k) /\ k = p => JobAt(z, k).reserved = JobAt(s, k).reserved + n
  BY <1>4, <1>7, <1>17, NullAssumption DEF Names
<1>19. \A k \in Names : At(s, k) /\ k # p => JobAt(z, k).reserved = JobAt(s, k).reserved
  BY <1>3, <1>4, <1>7, <1>17
<1>20. \A k \in Names : At(s, k) /\ k # j =>
          /\ JobAt(z, k).extent = JobAt(s, k).extent /\ JobAt(z, k).active = JobAt(s, k).active
          /\ JobAt(z, k).ran = JobAt(s, k).ran /\ JobAt(z, k).failed = JobAt(s, k).failed
  BY <1>2, <1>16
<1>21. Becomes(s, z, j, b)
  BY <1>2, <1>16, <1>20 DEF Becomes
<1>22. Effect(s, z, t, j, r, p, n)
  BY <1>9, <1>12, <1>13, <1>14, <1>15, <1>18, <1>19, <1>20 DEF Effect
<1>23. QED
  BY <1>21, <1>22

\* No call is made or returns.
LEMMA NestMoves ==
  ASSUME NestInv, Stacks(stack), KeepsCalls(stack, stack'), NEW t \in Threads, OtherRuns(stack, stack', t)
  PROVE  NestInv'
<1>1. SUFFICES ASSUME NEW u \in Threads, NEW d \in 1 .. Depth(u)' PROVE NestOk(u, d)'
  BY DEF NestInv
<1>2. Depth(u)' = Depth(u) /\ Depth(u) \in Nat /\ Depth(u) = Len(stack[u])
  BY DEF KeepsCalls, Depth, Stacks, IsStack
<1>3. stack'[u][d].call = stack[u][d].call /\ stack'[u][d].parent = stack[u][d].parent
  BY <1>1, <1>2 DEF KeepsCalls
<1>4. NestOk(u, d)
  BY <1>1, <1>2 DEF NestInv
<1>5. CASE d = 1
  BY <1>3, <1>4, <1>5 DEF NestOk
<1>6. CASE d # 1
  <2>1. d - 1 \in 1 .. Len(stack[u]) /\ (u = t => d - 1 # Len(stack[t]))
    BY <1>1, <1>2, <1>6
  <2>2. stack'[u][d - 1].run = stack[u][d - 1].run
    BY <2>1 DEF OtherRuns
  <2>3. QED
    BY <1>3, <1>4, <1>6, <2>2 DEF NestOk
<1>7. QED
  BY <1>5, <1>6

\* A thread whose top frame had no run gets one.
LEMMA BeginsToWork ==
  ASSUME NEW s, Stacks(s), NEW z, KeepsCalls(s, z), NEW t \in Threads, Len(s[t]) > 0, OtherRuns(s, z, t),
         \A f \in WorksIn(s) : JobIn(s, f) \in Names /\ At(s, JobIn(s, f)),
         s[t][Len(s[t])].run.job = NoJob, NEW j, j # NoJob, z[t][Len(s[t])].run.job = j,
         NEW g, g = <<t, Len(s[t])>>
  PROVE  WorkBegins(s, z, g, j)
<1>1. g \in Threads \X Nat /\ g[1] = t /\ g[2] = Len(s[t]) /\ g[2] \in 1 .. Len(s[t])
  BY DEF Stacks, IsStack
<1>2. \A f \in Threads \X Nat : f = g <=> f[1] = t /\ f[2] = Len(s[t])
  BY <1>1
<1>3. \A f \in Threads \X Nat : Len(z[f[1]]) = Len(s[f[1]])
  BY DEF KeepsCalls
<1>4. \A f \in Threads \X Nat : f[2] \in 1 .. Len(s[f[1]]) /\ f # g => z[f[1]][f[2]].run = s[f[1]][f[2]].run
  BY <1>2 DEF OtherRuns
<1>5. g \notin WorksIn(s) /\ JobIn(z, g) = j
  BY <1>1 DEF WorksIn, JobIn
<1>6. WorksIn(z) = WorksIn(s) \union {g}
  BY <1>1, <1>3, <1>4 DEF WorksIn
<1>7. ASSUME NEW f \in WorksIn(s)
      PROVE  /\ JobIn(z, f) = JobIn(s, f)
             /\ ParentIn(z, JobIn(s, f)) = ParentIn(s, JobIn(s, f))
             /\ NeedIn(z, JobIn(s, f)) = NeedIn(s, JobIn(s, f))
  <2>1. JobIn(z, f) = JobIn(s, f)
    BY <1>4, <1>5 DEF WorksIn, JobIn
  <2>2. PICK k \in Names : k = JobIn(s, f) /\ At(s, k)
    OBVIOUS
  <2>3. z[k[1]][k[2]].call = s[k[1]][k[2]].call /\ z[k[1]][k[2]].parent = s[k[1]][k[2]].parent
    BY <2>2, Places DEF KeepsCalls
  <2>4. QED
    BY <2>1, <2>2, <2>3 DEF ParentIn, NeedIn
<1>8. QED
  BY <1>5, <1>6, <1>7 DEF WorkBegins, WorkKept

\* The threads a job that is there needs.
LEMMA NeedType ==
  ASSUME NEW s, Stacks(s), NEW k \in Names, At(s, k)
  PROVE  NeedIn(s, k) \in Nat
<1>1. k[1] \in Threads /\ k[2] \in 1 .. Len(s[k[1]]) /\ k[3] \in JobsOf(s[k[1]][k[2]].call)
  BY Places
<1>2. IsFrame(s[k[1]][k[2]])
  BY <1>1 DEF Stacks, IsStack
<1>3. s[k[1]][k[2]].call \in Calls \union {NoCall}
  BY <1>2 DEF IsFrame
<1>4. QED
  BY <1>1, <1>3, TasksType DEF NeedIn

\* Finitely many frames work.
LEMMA WorksFinite ==
  ASSUME Stacks(stack)
  PROVE  IsFiniteSet(WorksIn(stack))
<1>1. Frames = FramesOf(stack)
  BY DEF Frames, FramesOf, Depth
<1>2. \A f : f \in FramesOf(stack) <=> f \in Threads \X Nat /\ f[2] \in 1 .. Len(stack[f[1]])
  BY FramesIn
<1>3. WorksIn(stack) \in SUBSET Frames
  BY <1>1, <1>2 DEF WorksIn
<1>4. QED
  BY <1>3, FramesFinite, FS_Subset

\* The parent of a job is where it was called.
LEMMA ParentIsThere ==
  ASSUME IInv, NEW j \in Names, At(stack, j), NEW p, p = Frame(j).parent, p # NoJob
  PROVE  p \in Names /\ At(stack, p) /\ \E e \in Nat : e = j[2] - 1 /\ e \in 1 .. Len(stack[j[1]]) /\ stack[j[1]][e].run.job = p
<1>1. Stacks(stack) /\ NestInv /\ RunInv
  BY DEF IInv, Locals
<1>2. PICK t \in Threads, d \in Nat : t = j[1] /\ d = j[2] /\ d \in 1 .. Len(stack[t])
  BY Places
<1>3. NestOk(t, d)
  BY <1>1, <1>2 DEF NestInv, Depth
<1>4. d # 1 /\ p = stack[t][d - 1].run.job
  BY <1>2, <1>3 DEF NestOk, Frame
<1>5. PICK e \in Nat : e = d - 1 /\ e \in 1 .. Len(stack[t])
  BY <1>2, <1>4
<1>6. RunOk(t, e)
  BY <1>1, <1>5 DEF RunInv, Depth
<1>7. At(stack, p)
  BY <1>4, <1>5, <1>6 DEF RunOk
<1>8. QED
  BY <1>2, <1>4, <1>5, <1>7 DEF At

-----------------------------------------------------------------------------
(* A thread takes a job *)

\* A step of a working thread on the job it works on, given what it does to the counts.
LEMMA EffectStep ==
  ASSUME IInv, NEW t \in Threads, Others(t), Depth(t) > 0, NEW j \in Names, At(stack, j), Enqueued(j),
         NEW r, NEW p, NEW n, Effect(stack, stack', t, j, r, p, n),
         pc'[t] \in Before <=> pc[t] \in Before, UNCHANGED <<target, desired, shutdown>>,
         PcOk(t)', RunOk(t, Depth(t))', ShutInv', ScanInv', OthersExtents(t),
         ActiveInv', BalanceInv', AccountInv', JoinInv',
         NEW b \in BOOLEAN, b <=> JobAt(stack', j).extent > 0 /\ (Serial(j) => JobAt(stack', j).active = 0),
         queue' \in Seq(Names), IsInjective(queue'),
         \A v : v \in Range(queue') <=> (v \in Range(queue) /\ v # j) \/ (v = j /\ b)
  PROVE  IInv'
<1>1. Stacks(stack) /\ PcInv /\ NestInv /\ RunInv /\ QueueInv /\ FreshInv
  BY DEF IInv, Locals
<1>2. /\ Stacks(stack') /\ KeepsCalls(stack, stack') /\ KeepsJoins(stack, stack') /\ OtherRuns(stack, stack', t)
      /\ \A k \in Names : At(stack, k) /\ k # j =>
          JobAt(stack', k).extent = JobAt(stack, k).extent /\ JobAt(stack', k).active = JobAt(stack, k).active
  BY DEF Effect
<1>3. Locals'
  BY <1>2 DEF IInv, Locals, Others
<1>4. PcInv'
  BY <1>1, <1>2, PcStays
<1>5. NestInv'
  BY <1>1, <1>2, NestMoves
<1>6. RunInv'
  BY <1>1, <1>2, RunMoves
<1>7. QueueInv' /\ FreshInv'
  BY <1>1, <1>2, QueueMoves
<1>8. QED
  BY <1>3, <1>4, <1>5, <1>6, <1>7 DEF IInv

\* What a thread finds in the queue.
LEMMA Found ==
  ASSUME IInv, NEW t \in Threads, pc[t] = "scan", cursor <= Len(queue), NEW j, j = queue[cursor]
  PROVE  /\ j \in Names /\ At(stack, j) /\ Enqueued(j) /\ cursor \in DOMAIN queue /\ j \in Range(queue)
         /\ JobAt(stack, j).extent \in Nat /\ JobAt(stack, j).extent > 0 /\ JobAt(stack, j).active \in Nat
         /\ (Serial(j) => JobAt(stack, j).active = 0)
         /\ IsJob(JobAt(stack, j), Task(j)) /\ Extent[Task(j)] \in Nat
<1>1. ScanInv /\ QueueInv /\ Stacks(stack)
  BY DEF IInv, Locals
<1>2. cursor \in DOMAIN queue
  BY <1>1 DEF ScanInv, QueueInv
<1>3. j \in Names /\ At(stack, j) /\ j \in Range(queue)
  BY <1>1, <1>2 DEF QueueInv, Range
<1>4. Waits(j)
  BY <1>1, <1>3 DEF QueueInv
<1>5. IsJob(JobAt(stack, j), TasksOf[stack[j[1]][j[2]].call][j[3]])
  BY <1>1, <1>3, JobsType
<1>6. Task(j) = TasksOf[stack[j[1]][j[2]].call][j[3]]
  BY DEF Task, Frame
<1>7. Extent[Task(j)] \in Nat
  <2>1. IsFrame(stack[j[1]][j[2]]) /\ j[3] \in JobsOf(stack[j[1]][j[2]].call)
    BY <1>1, <1>3, Places DEF Stacks, IsStack
  <2>2. stack[j[1]][j[2]].call \in Calls \union {NoCall}
    BY <2>1 DEF IsFrame
  <2>3. QED
    BY <1>6, <2>1, <2>2, TasksType
<1>8. JobAt(stack, j).extent \in Nat /\ JobAt(stack, j).active \in Nat
  <2>1. IsJob(JobAt(stack, j), Task(j))
    BY <1>5, <1>6
  <2>2. QED
    BY <1>7, <2>1 DEF IsJob
<1>9. QED
  BY <1>2, <1>3, <1>4, <1>5, <1>6, <1>7, <1>8, JobIs DEF Waits

\* The job as it is while one more works on it.
TakenJob(job, serial) == [job EXCEPT !.active = @ + 1, !.extent = IF serial THEN @ ELSE @ - 1]

\* The job as it is while one more works on it.
LEMMA TakenIs ==
  ASSUME NEW k, NEW job, IsJob(job, k), job.extent \in Nat, job.extent > 0, Extent[k] \in Nat, NEW serial \in BOOLEAN,
         NEW b, b = TakenJob(job, serial)
  PROVE  /\ IsJob(b, k) /\ b.active = job.active + 1 /\ b.failed = job.failed /\ b.ran = job.ran
         /\ b.reserved = job.reserved /\ b.extent \in Nat
         /\ (serial => b.extent = job.extent) /\ (~serial => b.extent = job.extent - 1)
<1>1. job.active \in Nat /\ job.extent \in 0 .. Extent[k]
  BY DEF IsJob
<1>2. b = [extent |-> IF serial THEN job.extent ELSE job.extent - 1, active |-> job.active + 1,
           failed |-> job.failed, reserved |-> job.reserved, next |-> job.next, ran |-> job.ran]
  BY DEF TakenJob, IsJob
<1>3. b.extent \in 0 .. Extent[k] /\ b.active \in Nat
  BY <1>1, <1>2
<1>4. job.failed \in BOOLEAN /\ job.reserved \in Nat /\ job.ran \in Nat
  BY DEF IsJob
<1>5. IsJob(b, k)
  BY <1>2, <1>3, <1>4 DEF IsJob
<1>6. QED
  BY <1>2, <1>3, <1>5

\* One more works on j, at the top of t's stack: what that does to the counts.
LEMMA WorkBegun ==
  ASSUME IInv, NEW t \in Threads, Depth(t) > 0, Top(t).run.job = NoJob, Stacks(stack'), KeepsCalls(stack, stack'),
         OtherRuns(stack, stack', t), NEW j \in Names, At(stack, j), stack'[t][Len(stack[t])].run.job = j
  PROVE  /\ \A k \in Names : k # j => Cardinality(RunsOf(k))' = Cardinality(RunsOf(k))
         /\ Cardinality(RunsOf(j))' = Cardinality(RunsOf(j)) + 1
         /\ \A p : p = Frame(j).parent => NeedsBelow(p)' = NeedsBelow(p) + Needs(j)
         /\ \A p : p # Frame(j).parent => NeedsBelow(p)' = NeedsBelow(p)
<1>1. Stacks(stack) /\ RunInv /\ j # NoJob
  BY NullAssumption DEF IInv, Locals, Names
<1>2. Len(stack[t]) > 0 /\ stack[t][Len(stack[t])].run.job = NoJob
  BY <1>1, TopIs
<1>3. \A f \in WorksIn(stack) : JobIn(stack, f) \in Names /\ At(stack, JobIn(stack, f))
  BY <1>1, WorkIsThere
<1>4. PICK g : g = <<t, Len(stack[t])>>
  OBVIOUS
<1>5. WorkBegins(stack, stack', g, j)
  BY <1>1, <1>2, <1>3, <1>4, BeginsToWork
<1>6. \A k \in Names : k # NoJob /\ RunsOf(k) = RunsIn(stack, k) /\ RunsOf(k)' = RunsIn(stack', k)
  BY <1>1, RunsIsIn, RunsIsInNext, NullAssumption DEF Names
<1>7. ASSUME NEW k \in Names, k # j PROVE Cardinality(RunsOf(k))' = Cardinality(RunsOf(k))
  <2>1. RunsIn(stack', k) = RunsIn(stack, k)
    BY <1>5, <1>7, RunsGrow
  <2>2. QED
    BY <1>6, <2>1
<1>8. Cardinality(RunsOf(j))' = Cardinality(RunsOf(j)) + 1
  <2>1. RunsIn(stack', j) = RunsIn(stack, j) \union {g} /\ g \notin RunsIn(stack, j)
    BY <1>5, RunsGrow
  <2>2. IsFiniteSet(RunsIn(stack, j))
    BY <1>1, <1>6, RunsFinite
  <2>3. Cardinality(RunsIn(stack, j) \union {g}) = Cardinality(RunsIn(stack, j)) + 1
    BY <2>1, <2>2, FS_AddElement
  <2>4. QED
    BY <1>6, <2>1, <2>3
<1>9. \A f \in WorksIn(stack') : NeedIn(stack', JobIn(stack', f)) \in Nat
  <2>1. TAKE f \in WorksIn(stack')
  <2>2. PICK k \in Names : k = JobIn(stack', f) /\ At(stack, k)
    BY <1>3, <1>5 DEF WorkBegins, WorkKept
  <2>3. At(stack', k)
    BY <2>2, PlacesStay
  <2>4. QED
    BY <2>2, <2>3, NeedType
<1>10. ParentIn(stack', j) = Frame(j).parent /\ NeedIn(stack', j) = Needs(j)
  <2>1. stack'[j[1]][j[2]].call = stack[j[1]][j[2]].call /\ stack'[j[1]][j[2]].parent = stack[j[1]][j[2]].parent
    BY Places DEF KeepsCalls
  <2>2. QED
    BY <2>1 DEF ParentIn, NeedIn, Frame, Needs, Task
<1>11. \A p : NeedsBelow(p) = NeedsIn(stack, p) /\ NeedsBelow(p)' = NeedsIn(stack', p)
  BY <1>1, NeedsIsIn, NeedsIsInNext
<1>12. IsFiniteSet(WorksIn(stack))
  BY <1>1, WorksFinite
<1>13. \A p : /\ p = Frame(j).parent => NeedsIn(stack', p) = NeedsIn(stack, p) + Needs(j)
              /\ p # Frame(j).parent => NeedsIn(stack', p) = NeedsIn(stack, p)
  BY <1>5, <1>9, <1>10, <1>12, NeedsGrow
<1>14. QED
  BY <1>7, <1>8, <1>11, <1>13

\* A job is taken from the queue.
LEMMA TakeStep ==
  ASSUME IInv, NEW t \in Threads, Take(t)
  PROVE  IInv' /\ KeepsCalls(stack, stack') /\ Calm(t)
<1>1. /\ Stacks(stack) /\ ScanInv /\ ShutInv /\ pc \in [Threads -> Pcs] /\ target \in Nat /\ shutdown \in BOOLEAN
      /\ desired \in NumThreads \union {DefaultThreads} /\ queue \in Seq(Names) /\ Len(queue) \in Nat
  BY PartsOf
<1>2. PICK j, serial, parent, ready, job, b, r, v :
        /\ pc[t] = "scan" /\ cursor <= Len(queue) /\ j = queue[cursor]
        /\ serial = (Loop[Task(j)] = "serial") /\ parent = Frame(j).parent
        /\ ready = MakeRunnable(stack, j) /\ job = JobAt(ready, j) /\ b = TakenJob(job, serial)
        /\ r = [NoRun EXCEPT !.job = j, !.iters = 1]
        /\ stack' = SetRun(Reserve(SetJob(ready, j, b), parent, Needs(j)), t, r)
        /\ reserved' = (IF parent = NoJob THEN reserved + Needs(j) ELSE reserved)
        /\ queue' = (IF serial \/ b.extent = 0 THEN RemoveAt(queue, cursor) ELSE queue)
        /\ v = (IF serial THEN "claim" ELSE "task") /\ pc' = [pc EXCEPT ![t] = v]
        /\ cursor' = 1 /\ UNCHANGED <<target, desired, shutdown>>
  BY ZenonT(60) DEF Take, TakenJob, JobAt, LeavesQueue
<1>3. /\ j \in Names /\ At(stack, j) /\ Enqueued(j) /\ cursor \in DOMAIN queue /\ j \in Range(queue)
      /\ JobAt(stack, j).extent \in Nat /\ JobAt(stack, j).extent > 0 /\ JobAt(stack, j).active \in Nat
      /\ (Serial(j) => JobAt(stack, j).active = 0)
      /\ IsJob(JobAt(stack, j), Task(j)) /\ Extent[Task(j)] \in Nat
  BY <1>2, Found
<1>4. serial \in BOOLEAN /\ (serial <=> Serial(j))
  BY <1>2 DEF Serial
<1>5. Depth(t) > 0 /\ Depth(t) \in Nat /\ Depth(t) = Len(stack[t]) /\ Top(t).run = NoRun /\ PcOk(t)
      /\ Depth(t) \in 1 .. Len(stack[t])
  <2>1. pc[t] \notin Busy /\ pc[t] \notin {"out", "off", "join"}
    BY <1>2 DEF Busy
  <2>2. Depth(t) > 0 /\ PcOk(t)
    BY <2>1, InLoop
  <2>3. QED
    BY <1>1, <2>1, <2>2, NotWorking, TopIs
<1>6. Quiet(stack, ready)
  BY <1>1, <1>2, <1>3, MakeRunnableIsQuiet
<1>7. /\ Stacks(ready) /\ KeepsCalls(stack, ready) /\ KeepsJoins(stack, ready) /\ KeepsRuns(stack, ready)
      /\ KeepsJobs(stack, ready)
  BY <1>6 DEF Quiet
<1>8. \A k \in Names : At(ready, k) <=> At(stack, k)
  BY <1>7, PlacesStay
<1>9. /\ ready[j[1]][j[2]].call = stack[j[1]][j[2]].call /\ Len(ready[t]) = Len(stack[t])
      /\ Task(j) = TasksOf[ready[j[1]][j[2]].call][j[3]]
  BY <1>3, <1>7, Places DEF KeepsCalls, Task, Frame
<1>10. \A k \in Names : At(stack, k) =>
          /\ JobAt(ready, k).extent = JobAt(stack, k).extent /\ JobAt(ready, k).active = JobAt(stack, k).active
          /\ JobAt(ready, k).failed = JobAt(stack, k).failed /\ JobAt(ready, k).ran = JobAt(stack, k).ran
          /\ JobAt(ready, k).reserved = JobAt(stack, k).reserved
  BY <1>7 DEF KeepsJobs, SameExtents, SameActive, SameFailed, SameRan, SameReserved
<1>11. IsJob(job, Task(j))
  BY <1>2, <1>3, <1>7, <1>8, <1>9, JobsType
<1>12. /\ IsJob(b, Task(j)) /\ b.active = job.active + 1 /\ b.failed = job.failed /\ b.ran = job.ran
       /\ b.reserved = job.reserved /\ b.extent \in Nat
       /\ (serial => b.extent = job.extent) /\ (~serial => b.extent = job.extent - 1)
  <2>1. job.extent \in Nat /\ job.extent > 0
    BY <1>2, <1>3, <1>10
  <2>2. PICK k : k = Task(j)
    OBVIOUS
  <2>3. IsJob(job, k) /\ Extent[k] \in Nat /\ b = TakenJob(job, serial) /\ serial \in BOOLEAN
    BY <1>2, <1>3, <1>4, <1>11, <2>2
  <2>4. /\ IsJob(b, k) /\ b.active = job.active + 1 /\ b.failed = job.failed /\ b.ran = job.ran
        /\ b.reserved = job.reserved /\ b.extent \in Nat
        /\ (serial => b.extent = job.extent) /\ (~serial => b.extent = job.extent - 1)
    BY <2>1, <2>3, TakenIs
  <2>5. QED
    BY <2>2, <2>4
<1>13. r \in RunType /\ r.job = j /\ r.iters = 1 /\ r.total = 0 /\ ~r.failed
  <2>1. r = [job |-> j, iters |-> 1, total |-> 0, step |-> 1, failed |-> FALSE]
    BY <1>2 DEF NoRun
  <2>2. QED
    BY <1>3, <2>1 DEF RunType
<1>14. Needs(j) \in Nat
  BY <1>1, <1>3, NeedType DEF Needs, Task, Frame, NeedIn
<1>15. parent # NoJob => parent \in Names /\ At(stack, parent)
  BY <1>2, <1>3, ParentIsThere
<1>16. parent # NoJob => parent \in Names /\ At(ready, parent) /\ JobAt(ready, parent).reserved + Needs(j) \in Nat
  <2>1. SUFFICES ASSUME parent # NoJob PROVE parent \in Names /\ At(ready, parent) /\ JobAt(ready, parent).reserved + Needs(j) \in Nat
    OBVIOUS
  <2>2. parent \in Names /\ At(ready, parent)
    BY <1>8, <1>15, <2>1
  <2>3. JobAt(ready, parent).reserved \in Nat
    BY <1>7, <2>2, JobsType DEF IsJob
  <2>4. QED
    BY <1>14, <2>2, <2>3
<1>17. Effect(ready, stack', t, j, r, parent, Needs(j)) /\ Becomes(ready, stack', j, b)
  <2>1. PICK n \in Int : n = Needs(j)
    BY <1>14
  <2>7. PICK w, y : w = SetJob(ready, j, b) /\ y = Reserve(w, parent, n)
    OBVIOUS
  <2>2. Depth(t) = Len(y[t])
    <3>1. SetsJob(ready, w, j, b)
      BY <1>3, <1>7, <1>8, <1>9, <1>12, <2>7, JobIsSet
    <3>2. Stacks(w) /\ KeepsCalls(ready, w) /\ JobAt(w, j) = b /\ \A k \in Names : At(ready, k) /\ k # j => JobAt(w, k) = JobAt(ready, k)
      BY <3>1 DEF SetsJob
    <3>3. parent # NoJob => parent \in Names /\ At(w, parent) /\ JobAt(w, parent).reserved + n \in Nat
      BY <1>2, <1>12, <1>16, <2>1, <3>2, PlacesStay
    <3>4. Reserves(w, y, parent, n)
      BY <2>7, <3>2, <3>3, ReserveReserves
    <3>5. QED
      BY <1>5, <1>9, <3>2, <3>4 DEF Reserves, KeepsCalls
  <2>3. stack' = TopRun(y, t, r)
    BY <1>2, <2>1, <2>7, <2>2, Zenon DEF SetRun, TopRun
  <2>4. b.reserved = JobAt(ready, j).reserved /\ At(ready, j) /\ Len(ready[t]) > 0
        /\ IsJob(b, TasksOf[ready[j[1]][j[2]].call][j[3]])
    BY <1>2, <1>3, <1>5, <1>8, <1>9, <1>12
  <2>5. Effect(ready, stack', t, j, r, parent, n) /\ Becomes(ready, stack', j, b)
    BY <1>3, <1>7, <1>13, <1>16, <2>1, <2>7, <2>3, <2>4, Chain
  <2>6. QED
    BY <2>1, <2>5
<1>18. /\ Stacks(stack') /\ KeepsCalls(ready, stack') /\ KeepsJoins(ready, stack')
       /\ OtherRuns(ready, stack', t) /\ stack'[t][Len(stack[t])].run = r
  BY <1>9, <1>17 DEF Effect
<1>19. KeepsCalls(stack, stack') /\ KeepsJoins(stack, stack') /\ OtherRuns(stack, stack', t)
  <2>1. KeepsCalls(stack, stack')
    BY <1>7, <1>18 DEF KeepsCalls
  <2>2. KeepsJoins(stack, stack')
    BY <1>7, <1>18 DEF KeepsCalls, KeepsJoins
  <2>3. OtherRuns(stack, stack', t)
    BY <1>7, <1>9, <1>18 DEF KeepsCalls, KeepsRuns, OtherRuns
  <2>4. QED
    BY <2>1, <2>2, <2>3
<1>20. \A k \in Names : At(stack, k) /\ k # j =>
          /\ JobAt(stack', k).extent = JobAt(stack, k).extent /\ JobAt(stack', k).active = JobAt(stack, k).active
          /\ JobAt(stack', k).ran = JobAt(stack, k).ran /\ JobAt(stack', k).failed = JobAt(stack, k).failed
  BY <1>8, <1>10, <1>17 DEF Effect, Becomes
<1>21. /\ \A k \in Names : At(stack, k) /\ k = parent => JobAt(stack', k).reserved = JobAt(stack, k).reserved + Needs(j)
       /\ \A k \in Names : At(stack, k) /\ k # parent => JobAt(stack', k).reserved = JobAt(stack, k).reserved
  BY <1>8, <1>10, <1>17 DEF Effect
<1>22. /\ JobAt(stack', j).active = JobAt(stack, j).active + 1 /\ JobAt(stack', j).failed = JobAt(stack, j).failed
       /\ JobAt(stack', j).ran = JobAt(stack, j).ran /\ JobAt(stack', j).extent \in Nat
       /\ (Serial(j) => JobAt(stack', j).extent = JobAt(stack, j).extent)
       /\ (~Serial(j) => JobAt(stack', j).extent = JobAt(stack, j).extent - 1)
       /\ JobAt(stack', j).extent = b.extent
  BY <1>2, <1>3, <1>4, <1>10, <1>12, <1>17 DEF Becomes
<1>23. Effect(stack, stack', t, j, r, parent, Needs(j))
  BY <1>18, <1>19, <1>20, <1>21 DEF Effect
<1>24. v \in Pcs /\ v \in Busy /\ v \notin Locked /\ v # "join" /\ v \notin Before
  BY <1>2 DEF Pcs, Busy, Locked, Before
<1>25. Others(t) /\ pc'[t] = v
  BY <1>1, <1>2, <1>24, OneMoves
<1>26. /\ queue' \in Seq(Names) /\ IsInjective(queue')
       /\ \A k : k \in Range(queue') <=> (k \in Range(queue) /\ k # j) \/ (k = j /\ ~serial /\ b.extent > 0)
  <2>1. IsInjective(queue)
    BY DEF IInv, QueueInv
  <2>2. CASE serial \/ b.extent = 0
    <3>1. queue' = RemoveAt(queue, cursor)
      BY <1>2, <2>2
    <3>2. /\ queue' \in Seq(Names) /\ IsInjective(queue')
          /\ \A k : k \in Range(queue') <=> k \in Range(queue) /\ k # j
      BY <1>1, <1>2, <1>3, <2>1, <3>1, RemoveAtRemoves
    <3>3. QED
      BY <2>2, <3>2
  <2>3. CASE ~(serial \/ b.extent = 0)
    <3>1. queue' = queue /\ ~serial /\ b.extent > 0
      BY <1>2, <1>12, <2>3
    <3>2. QED
      BY <1>1, <1>3, <2>1, <3>1
  <2>4. QED
    BY <2>2, <2>3
<1>27. ScanInv'
  <2>1. Len(queue') \in Nat
    BY <1>26
  <2>2. cursor' \in 1 .. Len(queue') + 1
    BY <1>2, <2>1
  <2>3. QED
    BY <1>1, <1>2, <1>24, <1>25, <2>2, ScanStays
<1>28. ShutInv'
  BY <1>1, <1>2, <1>24, <1>25, ShutStays
<1>29. Depth(t)' = Depth(t) /\ Top(t)'.run = r
  BY <1>5, <1>18, <1>19 DEF KeepsCalls, Depth, Top
<1>30. At(stack, j)' /\ Task(j)' = Task(j) /\ (Serial(j)' <=> Serial(j)) /\ Job(j)' = JobAt(stack', j)
  BY <1>3, <1>19, CallsStay, JobIs
<1>31. j # NoJob
  BY <1>3, NullAssumption DEF Names
<1>32. PcOk(t)'
  <2>1. pc'[t] = "claim" => Loop[Task(j)'] = "serial"
    <3>1. v = "claim" => Serial(j)
      BY <1>2 DEF Serial
    <3>2. QED
      BY <1>25, <1>30, <3>1 DEF Serial
  <2>2. pc'[t] \notin {"out", "off", "join", "start", "exited", "enqueue", "aborted"}
    BY <1>24, <1>25 DEF Busy
  <2>3. QED
    BY <1>5, <1>13, <1>24, <1>25, <1>29, <1>31, <2>1, <2>2 DEF PcOk
<1>33. RunOk(t, Depth(t))'
  <2>1. stack'[t][Depth(t)'].run = r
    BY <1>5, <1>18, <1>29
  <2>2. At(stack, r.job)' /\ r.job # NoJob
    BY <1>13, <1>30, <1>31
  <2>3. IF Serial(r.job)' THEN r.iters + r.total <= Job(r.job)'.extent ELSE r.iters + r.total = 1
    BY <1>3, <1>13, <1>22, <1>30
  <2>4. pc'[t] # "finish"
    BY <1>2, <1>25
  <2>5. QED
    BY <1>13, <2>1, <2>2, <2>3, <2>4 DEF RunOk
<1>34. OthersExtents(t)
  <2>1. SUFFICES ASSUME NEW u \in Threads, NEW d \in 1 .. Len(stack[u]), stack[u][d].run.job # NoJob, Serial(stack[u][d].run.job)
                 PROVE  JobAt(stack', stack[u][d].run.job).extent = JobAt(stack, stack[u][d].run.job).extent
    BY DEF OthersExtents
  <2>2. RunOk(u, d)
    BY DEF IInv, RunInv, Depth
  <2>3. PICK k \in Names : k = stack[u][d].run.job /\ At(stack, k)
    BY <2>1, <2>2 DEF RunOk, At
  <2>4. QED
    BY <1>20, <1>22, <2>1, <2>3
<1>35. /\ \A k \in Names : k # j => Cardinality(RunsOf(k))' = Cardinality(RunsOf(k))
       /\ Cardinality(RunsOf(j))' = Cardinality(RunsOf(j)) + 1
       /\ \A p : p = Frame(j).parent => NeedsBelow(p)' = NeedsBelow(p) + Needs(j)
       /\ \A p : p # Frame(j).parent => NeedsBelow(p)' = NeedsBelow(p)
  <2>1. Top(t).run.job = NoJob /\ stack'[t][Len(stack[t])].run.job = j
    BY <1>5, <1>13, <1>18 DEF NoRun
  <2>2. QED
    BY <1>3, <1>5, <1>18, <1>19, <2>1, WorkBegun
<1>36. ActiveInv'
  <2>1. SUFFICES ASSUME NEW k \in Names, At(stack, k)'
                 PROVE  Job(k)'.active = Cardinality(RunsOf(k))' /\ (Serial(k)' => Job(k)'.active <= 1)
    BY DEF ActiveInv
  <2>2. At(stack, k) /\ (Serial(k)' <=> Serial(k)) /\ Job(k) = JobAt(stack, k) /\ Job(k)' = JobAt(stack', k)
    BY <1>19, <2>1, PlacesBack, CallsStay, JobIs
  <2>3. Job(k).active = Cardinality(RunsOf(k)) /\ (Serial(k) => Job(k).active <= 1)
    BY <2>2 DEF IInv, ActiveInv
  <2>4. CASE k = j
    BY <1>3, <1>22, <1>35, <2>2, <2>3, <2>4
  <2>5. CASE k # j
    BY <1>20, <1>35, <2>2, <2>3, <2>5
  <2>6. QED
    BY <2>4, <2>5
<1>37. BalanceInv'
  <2>1. BalanceInv
    BY DEF IInv
  <2>2. reserved' = NeedsBelow(NoJob)'
    BY <1>2, <1>35, <2>1 DEF BalanceInv
  <2>3. ASSUME NEW k \in Names, At(stack, k)' PROVE Job(k)'.reserved = NeedsBelow(k)'
    <3>1. At(stack, k) /\ Job(k) = JobAt(stack, k) /\ Job(k)' = JobAt(stack', k)
      BY <1>19, <2>3, PlacesBack, JobIs
    <3>2. Job(k).reserved = NeedsBelow(k)
      BY <2>1, <3>1 DEF BalanceInv
    <3>3. CASE k = parent
      BY <1>2, <1>21, <1>35, <3>1, <3>2, <3>3
    <3>4. CASE k # parent
      BY <1>2, <1>21, <1>35, <3>1, <3>2, <3>4
    <3>5. QED
      BY <3>3, <3>4
  <2>4. QED
    BY <2>2, <2>3 DEF BalanceInv
<1>38. AccountInv'
  <2>1. SUFFICES ASSUME NEW k \in Names, At(stack, k)', ~Job(k)'.failed
                 PROVE  Job(k)'.extent + Job(k)'.ran + (IF Serial(k)' THEN 0 ELSE Job(k)'.active) = Extent[Task(k)']
    BY DEF AccountInv
  <2>2. At(stack, k) /\ (Serial(k)' <=> Serial(k)) /\ Task(k)' = Task(k) /\ Job(k) = JobAt(stack, k) /\ Job(k)' = JobAt(stack', k)
    BY <1>19, <2>1, PlacesBack, CallsStay, JobIs
  <2>3. ~Job(k).failed
    BY <1>20, <1>22, <2>1, <2>2
  <2>4. Job(k).extent + Job(k).ran + (IF Serial(k) THEN 0 ELSE Job(k).active) = Extent[Task(k)]
    BY <2>2, <2>3 DEF IInv, AccountInv
  <2>5. CASE k = j
    <3>1. Job(j).ran \in Nat
      BY <1>3, <2>2, <2>5 DEF IsJob
    <3>2. QED
      BY <1>3, <1>22, <2>2, <2>4, <2>5, <3>1
  <2>6. CASE k # j
    BY <1>20, <2>2, <2>4, <2>6
  <2>7. QED
    BY <2>5, <2>6
<1>39. JoinInv'
  <2>1. JoinInv
    BY DEF IInv
  <2>2. \A k \in Names : At(stack, k) /\ JobAt(stack, k).extent = 0 /\ JobAt(stack, k).active = 0 =>
             JobAt(stack', k).extent = 0 /\ JobAt(stack', k).active = 0
    BY <1>3, <1>20
  <2>3. \A k \in Names : At(stack, k) => (JobAt(stack, k).failed <=> JobAt(stack', k).failed)
    BY <1>20, <1>22
  <2>4. QED
    BY <1>1, <1>19, <2>1, <2>2, <2>3, JoinMoves
<1>40. PICK a \in BOOLEAN : a <=> ~serial /\ b.extent > 0
  OBVIOUS
<1>41. a <=> JobAt(stack', j).extent > 0 /\ (Serial(j) => JobAt(stack', j).active = 0)
  BY <1>3, <1>4, <1>22, <1>40
<1>42. \A k : k \in Range(queue') <=> (k \in Range(queue) /\ k # j) \/ (k = j /\ a)
  BY <1>26, <1>40
<1>43. (pc'[t] \in Before <=> pc[t] \in Before) /\ UNCHANGED <<target, desired, shutdown>>
  BY <1>2, <1>24, <1>25 DEF Before
<1>44. IInv'
  BY <1>3, <1>5, <1>23, <1>25, <1>26, <1>27, <1>28, <1>32, <1>33, <1>34, <1>36, <1>37, <1>38, <1>39, <1>41, <1>42, <1>43, EffectStep
<1>45. Calm(t)
  <2>1. SameFailed(stack, stack')
    BY <1>20, <1>22 DEF SameFailed
  <2>2. \A k \in Names : At(stack, k) =>
            /\ JobAt(stack', k).active = 0 => JobAt(stack, k).active = 0
            /\ JobAt(stack, k).extent = 0 => JobAt(stack', k).extent = 0
    BY <1>3, <1>20, <1>22
  <2>5. pc[t] \in Locked /\ pc'[t] # "scan"
    BY <1>2, <1>25 DEF Locked
  <2>3. RunGoesOn(t)
    BY <1>13, <1>18 DEF RunGoesOn
  <2>4. QED
    BY <1>18, <1>19, <1>25, <2>1, <2>2, <2>3, <2>5 DEF Calm
<1>46. QED
  BY <1>19, <1>44, <1>45

-----------------------------------------------------------------------------
(* A thread is done with a job *)

WithJobs(g, jobs) == [g EXCEPT !.jobs = jobs]

\* Job j's call: its jobs fail if b says so.
Marks(s, z, j, b) ==
    /\ Stacks(z) /\ KeepsCalls(s, z) /\ KeepsJoins(s, z) /\ KeepsRuns(s, z)
    /\ SameExtents(s, z) /\ SameActive(s, z) /\ SameReserved(s, z) /\ SameRan(s, z)
    /\ \A k \in Names : At(s, k) =>
          (JobAt(z, k).failed <=> JobAt(s, k).failed \/ (b /\ k[1] = j[1] /\ k[2] = j[2]))

MarkedFrame(g, f, b) ==
    /\ IsFrame(f) /\ f.run = g.run /\ f.call = g.call /\ f.parent = g.parent
    /\ f.joining = g.joining /\ f.failed = g.failed
    /\ \A i \in JobsOf(g.call) :
         /\ f.jobs[i].extent = g.jobs[i].extent /\ f.jobs[i].active = g.jobs[i].active
         /\ f.jobs[i].reserved = g.jobs[i].reserved /\ f.jobs[i].ran = g.jobs[i].ran
         /\ f.jobs[i].failed <=> g.jobs[i].failed \/ b

\* A frame stays one when all its jobs are marked.
LEMMA FrameIsMarked ==
  ASSUME NEW g, IsFrame(g), NEW b \in BOOLEAN, NEW f, f = WithJobs(g, FailWith(g.jobs, b))
  PROVE  MarkedFrame(g, f, b)
<1>1. /\ f.run = g.run /\ f.call = g.call /\ f.parent = g.parent
      /\ f.joining = g.joining /\ f.failed = g.failed /\ f.semaphore = g.semaphore
      /\ f.jobs = FailWith(g.jobs, b)
  BY DEF IsFrame, WithJobs
<1>2. DOMAIN g.jobs = JobsOf(g.call)
  BY DEF IsFrame
<1>3. f.jobs = [i \in JobsOf(f.call) |-> [g.jobs[i] EXCEPT !.failed = @ \/ b]]
  BY <1>1, <1>2 DEF FailWith
<1>4. ASSUME NEW i \in JobsOf(g.call)
      PROVE  /\ f.jobs[i] = [extent |-> g.jobs[i].extent, active |-> g.jobs[i].active, failed |-> (g.jobs[i].failed \/ b),
                             reserved |-> g.jobs[i].reserved, next |-> g.jobs[i].next, ran |-> g.jobs[i].ran]
             /\ IsJob(g.jobs[i], TasksOf[g.call][i])
  <2>1. IsJob(g.jobs[i], TasksOf[g.call][i])
    BY DEF IsFrame
  <2>2. PICK h : h = g.jobs[i]
    OBVIOUS
  <2>3. f.jobs[i] = [h EXCEPT !.failed = @ \/ b]
    BY <1>1, <1>3, <2>2
  <2>4. h = [extent |-> h.extent, active |-> h.active, failed |-> h.failed,
             reserved |-> h.reserved, next |-> h.next, ran |-> h.ran]
    BY <2>1, <2>2 DEF IsJob
  <2>5. f.jobs[i] = [extent |-> h.extent, active |-> h.active, failed |-> (h.failed \/ b),
                     reserved |-> h.reserved, next |-> h.next, ran |-> h.ran]
    BY <2>3, <2>4
  <2>6. QED
    BY <2>1, <2>2, <2>5
<1>5. ASSUME NEW i \in JobsOf(g.call) PROVE IsJob(f.jobs[i], TasksOf[g.call][i])
  <2>1. PICK v \in BOOLEAN : v = (g.jobs[i].failed \/ b)
    OBVIOUS
  <2>2. f.jobs[i] = [extent |-> g.jobs[i].extent, active |-> g.jobs[i].active, failed |-> v,
                     reserved |-> g.jobs[i].reserved, next |-> g.jobs[i].next, ran |-> g.jobs[i].ran]
    BY <1>4, <2>1, Zenon
  <2>3. IsJob(g.jobs[i], TasksOf[g.call][i])
    BY <1>4
  <2>4. QED
    BY <2>2, <2>3 DEF IsJob
<1>6. \A i \in JobsOf(g.call) :
         /\ f.jobs[i].extent = g.jobs[i].extent /\ f.jobs[i].active = g.jobs[i].active
         /\ f.jobs[i].reserved = g.jobs[i].reserved /\ f.jobs[i].ran = g.jobs[i].ran
         /\ f.jobs[i].failed <=> g.jobs[i].failed \/ b
  <2>1. TAKE i \in JobsOf(g.call)
  <2>2. PICK v \in BOOLEAN : v = (g.jobs[i].failed \/ b)
    OBVIOUS
  <2>3. f.jobs[i] = [extent |-> g.jobs[i].extent, active |-> g.jobs[i].active, failed |-> v,
                     reserved |-> g.jobs[i].reserved, next |-> g.jobs[i].next, ran |-> g.jobs[i].ran]
    BY <1>4, <2>2, Zenon
  <2>4. f.jobs[i].failed = v
    BY <2>3
  <2>5. f.jobs[i].failed <=> g.jobs[i].failed \/ b
    BY <2>2, <2>4, Zenon
  <2>6. QED
    BY <2>3, <2>5
<1>7. f.jobs = [i \in JobsOf(f.call) |-> f.jobs[i]]
  BY <1>3
<1>8. f \in [call : Calls \union {NoCall}, parent : Names \union {NoJob}, joining : Nat,
              failed : BOOLEAN, run : RunType, jobs : {f.jobs}, semaphore : {f.semaphore}]
  BY <1>1 DEF IsFrame, WithJobs
<1>9. IsFrame(f)
  BY <1>1, <1>5, <1>7, <1>8 DEF IsFrame
<1>10. QED
  BY <1>1, <1>6, <1>9 DEF MarkedFrame

\* The failure of a job is passed on to its siblings.
LEMMA MarkMarks ==
  ASSUME NEW s, Stacks(s), NEW j \in Names, At(s, j), NEW b \in BOOLEAN, NEW z,
         z = [s EXCEPT ![j[1]][j[2]].jobs = FailWith(@, b)]
  PROVE  Marks(s, z, j, b)
<1>1. PICK t \in Threads, d \in Nat : t = j[1] /\ d = j[2] /\ d \in 1 .. Len(s[t])
  BY Places
<1>2. PICK g : g = s[t][d]
  OBVIOUS
<1>3. IsFrame(g)
  BY <1>1, <1>2 DEF Stacks, IsStack
<1>4. PICK f : f = WithJobs(g, FailWith(g.jobs, b))
  OBVIOUS
<1>5. z = [s EXCEPT ![t][d] = f]
  BY <1>1, <1>2, <1>4, Zenon DEF WithJobs
<1>6. MarkedFrame(g, f, b)
  BY <1>3, <1>4, FrameIsMarked
<1>7. /\ IsFrame(f) /\ f.run = g.run /\ f.call = g.call /\ f.parent = g.parent
      /\ f.joining = g.joining /\ f.failed = g.failed
  BY <1>6 DEF MarkedFrame
<1>8. Changed(s, z, t, d, f)
  BY <1>1, <1>5, <1>7, FrameChange
<1>9. KeepsCalls(s, z) /\ KeepsJoins(s, z) /\ KeepsRuns(s, z)
  BY <1>1, <1>2, <1>7, <1>8, ChangedKeeps
<1>10. ASSUME NEW k \in Names, At(s, k)
       PROVE  /\ JobAt(z, k).extent = JobAt(s, k).extent /\ JobAt(z, k).active = JobAt(s, k).active
              /\ JobAt(z, k).reserved = JobAt(s, k).reserved /\ JobAt(z, k).ran = JobAt(s, k).ran
              /\ (JobAt(z, k).failed <=> JobAt(s, k).failed \/ (b /\ k[1] = j[1] /\ k[2] = j[2]))
  <2>1. k[1] \in Threads /\ k[2] \in 1 .. Len(s[k[1]]) /\ k[3] \in JobsOf(s[k[1]][k[2]].call)
    BY <1>10, Places
  <2>2. CASE k[1] = t /\ k[2] = d
    <3>1. k[3] \in JobsOf(g.call) /\ z[k[1]][k[2]] = f /\ s[k[1]][k[2]] = g
      BY <1>2, <1>8, <2>1, <2>2 DEF Changed
    <3>2. JobAt(z, k) = f.jobs[k[3]] /\ JobAt(s, k) = g.jobs[k[3]]
      BY <3>1 DEF JobAt
    <3>3. QED
      BY <1>1, <1>6, <2>2, <3>1, <3>2 DEF MarkedFrame
  <2>3. CASE ~(k[1] = t /\ k[2] = d)
    <3>1. z[k[1]][k[2]] = s[k[1]][k[2]]
      BY <1>8, <2>1, <2>3, Zenon DEF Changed
    <3>2. JobAt(z, k) = JobAt(s, k)
      BY <3>1 DEF JobAt
    <3>3. QED
      BY <1>1, <2>3, <3>2
  <2>4. QED
    BY <2>2, <2>3
<1>11. SameExtents(s, z) /\ SameActive(s, z) /\ SameReserved(s, z) /\ SameRan(s, z)
  BY <1>10 DEF SameExtents, SameActive, SameReserved, SameRan
<1>12. QED
  BY <1>8, <1>9, <1>10, <1>11 DEF Marks, Changed

\* The job as it is when one of its workers is done.
DoneJob(job, left, failed, total) ==
    [job EXCEPT !.active = @ - 1, !.extent = left, !.failed = @ \/ failed, !.ran = @ + total]

\* The job as it is when one of its workers is done.
LEMMA DoneIs ==
  ASSUME NEW k, NEW job, IsJob(job, k), job.active >= 1, NEW left \in 0 .. Extent[k], NEW failed \in BOOLEAN,
         NEW total \in Nat, NEW b, b = DoneJob(job, left, failed, total)
  PROVE  /\ IsJob(b, k) /\ b.active = job.active - 1 /\ b.extent = left /\ b.ran = job.ran + total
         /\ b.reserved = job.reserved /\ (b.failed <=> job.failed \/ failed)
<1>1. b = [extent |-> left, active |-> job.active - 1, failed |-> (job.failed \/ failed),
           reserved |-> job.reserved, next |-> job.next, ran |-> job.ran + total]
  BY DEF DoneJob, IsJob
<1>2. job.active \in Nat /\ job.ran \in Nat /\ job.reserved \in Nat
  BY DEF IsJob
<1>3. job.active - 1 \in Nat /\ job.ran + total \in Nat /\ (job.failed \/ failed) \in BOOLEAN
  BY <1>2
<1>4. IsJob(b, k)
  BY <1>1, <1>2, <1>3 DEF IsJob
<1>5. b.failed = (job.failed \/ failed)
  BY <1>1
<1>6. b.failed <=> job.failed \/ failed
  BY <1>5, Zenon
<1>7. QED
  BY <1>1, <1>4, <1>6

\* What the jobs below a parent need is a number.
LEMMA NeedsType ==
  ASSUME NEW s, IsFiniteSet(WorksIn(s)), \A g \in WorksIn(s) : NeedIn(s, JobIn(s, g)) \in Nat, NEW p
  PROVE  /\ NeedsIn(s, p) \in Nat
         /\ \A g \in WorksIn(s) : ParentIn(s, JobIn(s, g)) = p => NeedsIn(s, p) >= NeedIn(s, JobIn(s, g))
<1>1. PICK F : F = [f \in BelowIn(s, p) |-> NeedIn(s, JobIn(s, f))]
  OBVIOUS
<1>2. BelowIn(s, p) \in SUBSET WorksIn(s)
  BY DEF BelowIn
<1>3. IsFiniteSet(BelowIn(s, p))
  BY <1>2, FS_Subset
<1>4. IsCount(F)
  BY <1>1, <1>2, <1>3 DEF IsCount
<1>5. NeedsIn(s, p) = Total(F)
  BY <1>1 DEF NeedsIn
<1>6. Total(F) \in Nat
  BY <1>4, TotalType
<1>7. ASSUME NEW g \in WorksIn(s), ParentIn(s, JobIn(s, g)) = p PROVE Total(F) >= NeedIn(s, JobIn(s, g))
  <2>1. g \in BelowIn(s, p)
    BY <1>7 DEF BelowIn
  <2>2. g \in DOMAIN F /\ F[g] = NeedIn(s, JobIn(s, g))
    BY <1>1, <2>1
  <2>3. Total(F) >= F[g]
    BY <1>4, <2>2, TotalAtLeast
  <2>4. QED
    BY <2>2, <2>3
<1>8. QED
  BY <1>5, <1>6, <1>7

\* A thread has ended its work on j: what that does to the counts.
LEMMA WorkEnded ==
  ASSUME IInv, NEW t \in Threads, Depth(t) > 0, NEW j \in Names, At(stack, j), Top(t).run.job = j,
         Stacks(stack'), KeepsCalls(stack, stack'), OtherRuns(stack, stack', t), stack'[t][Len(stack[t])].run.job = NoJob
  PROVE  /\ \A k \in Names : k # j => Cardinality(RunsOf(k))' = Cardinality(RunsOf(k))
         /\ Cardinality(RunsOf(j))' = Cardinality(RunsOf(j)) - 1
         /\ \A p : p = Frame(j).parent => NeedsBelow(p)' = NeedsBelow(p) - Needs(j) /\ NeedsBelow(p) - Needs(j) \in Nat
         /\ \A p : p # Frame(j).parent => NeedsBelow(p)' = NeedsBelow(p)
<1>1. Stacks(stack) /\ RunInv /\ j # NoJob
  BY NullAssumption DEF IInv, Locals, Names
<1>2. PICK z : z = stack'
  OBVIOUS
<1>3. Len(stack[t]) > 0 /\ stack[t][Len(stack[t])].run.job = j /\ Len(z[t]) = Len(stack[t])
  BY <1>1, <1>2, TopIs DEF KeepsCalls
<1>4. Stacks(z) /\ KeepsCalls(z, stack) /\ KeepsCalls(stack, z)
  BY <1>2 DEF KeepsCalls
<1>5. OtherRuns(stack, z, t) /\ OtherRuns(z, stack, t)
  BY <1>2, <1>3, <1>4 DEF KeepsCalls, OtherRuns
<1>6. \A f \in WorksIn(stack) : JobIn(stack, f) \in Names /\ At(stack, JobIn(stack, f))
  BY <1>1, WorkIsThere
<1>7. \A f \in Threads \X Nat : f[2] \in 1 .. Len(z[f[1]]) /\ ~(f[1] = t /\ f[2] = Len(stack[t])) =>
          z[f[1]][f[2]].run = stack[f[1]][f[2]].run /\ f[2] \in 1 .. Len(stack[f[1]])
  BY <1>4, <1>5 DEF OtherRuns, KeepsCalls
<1>8. ASSUME NEW f \in WorksIn(z) PROVE f \in WorksIn(stack) /\ JobIn(z, f) = JobIn(stack, f)
  <2>1. f \in Threads \X Nat /\ f[2] \in 1 .. Len(z[f[1]]) /\ z[f[1]][f[2]].run.job # NoJob
    BY DEF WorksIn
  <2>2. ~(f[1] = t /\ f[2] = Len(stack[t]))
    BY <1>2, <2>1
  <2>3. QED
    BY <1>7, <2>1, <2>2 DEF WorksIn, JobIn
<1>9. \A f \in WorksIn(z) : JobIn(z, f) \in Names /\ At(z, JobIn(z, f))
  BY <1>4, <1>6, <1>8, PlacesStay
<1>10. PICK g : g = <<t, Len(z[t])>>
  OBVIOUS
<1>11. WorkBegins(z, stack, g, j)
  <2>1. z[t][Len(z[t])].run.job = NoJob /\ stack[t][Len(z[t])].run.job = j /\ Len(z[t]) > 0
    BY <1>2, <1>3
  <2>2. QED
    BY <1>1, <1>4, <1>5, <1>9, <1>10, <2>1, BeginsToWork
<1>12. \A k \in Names : k # NoJob /\ RunsOf(k) = RunsIn(stack, k) /\ RunsOf(k)' = RunsIn(z, k)
  BY <1>1, <1>2, RunsIsIn, RunsIsInNext, NullAssumption DEF Names
<1>13. ASSUME NEW k \in Names, k # j PROVE Cardinality(RunsOf(k))' = Cardinality(RunsOf(k))
  <2>1. RunsIn(stack, k) = RunsIn(z, k)
    BY <1>11, <1>13, RunsGrow
  <2>2. QED
    BY <1>12, <2>1
<1>14. IsFiniteSet(WorksIn(stack)) /\ IsFiniteSet(WorksIn(z))
  <2>1. IsFiniteSet(WorksIn(stack)) /\ WorksIn(z) \in SUBSET WorksIn(stack)
    BY <1>1, <1>8, WorksFinite
  <2>2. QED
    BY <2>1, FS_Subset
<1>15. Cardinality(RunsOf(j))' = Cardinality(RunsOf(j)) - 1
  <2>1. RunsIn(stack, j) = RunsIn(z, j) \union {g} /\ g \notin RunsIn(z, j)
    BY <1>11, RunsGrow
  <2>2. IsFiniteSet(RunsIn(z, j))
    <3>1. RunsIn(z, j) \in SUBSET WorksIn(z)
      BY DEF RunsIn
    <3>2. QED
      BY <1>14, <3>1, FS_Subset
  <2>3. Cardinality(RunsIn(z, j) \union {g}) = Cardinality(RunsIn(z, j)) + 1
    BY <2>1, <2>2, FS_AddElement
  <2>4. Cardinality(RunsIn(z, j)) \in Nat
    BY <2>2, FS_CardinalityType
  <2>5. PICK n \in Nat : n = Cardinality(RunsIn(z, j))
    BY <2>4
  <2>6. Cardinality(RunsOf(j)) = n + 1
    BY <1>12, <2>1, <2>3, <2>5
  <2>7. Cardinality(RunsOf(j))' = n
    <3>1. RunsOf(j)' = RunsIn(z, j)
      BY <1>12
    <3>2. QED
      BY <2>5, <3>1
  <2>8. QED
    BY <2>6, <2>7
<1>16. \A f \in WorksIn(stack) : NeedIn(stack, JobIn(stack, f)) \in Nat
  BY <1>1, <1>6, NeedType
<1>17. \A f \in WorksIn(z) : NeedIn(z, JobIn(z, f)) \in Nat
  BY <1>4, <1>9, NeedType
<1>18. ParentIn(stack, j) = Frame(j).parent /\ NeedIn(stack, j) = Needs(j) /\ Needs(j) \in Nat
  BY <1>1, NeedType DEF ParentIn, NeedIn, Frame, Needs, Task
<1>19. \A p : NeedsBelow(p) = NeedsIn(stack, p) /\ NeedsBelow(p)' = NeedsIn(z, p)
  BY <1>1, <1>2, NeedsIsIn, NeedsIsInNext
<1>20. \A p : /\ p = Frame(j).parent => NeedsIn(stack, p) = NeedsIn(z, p) + Needs(j)
              /\ p # Frame(j).parent => NeedsIn(stack, p) = NeedsIn(z, p)
  BY <1>11, <1>14, <1>16, <1>18, NeedsGrow
<1>21. \A p : NeedsIn(z, p) \in Nat
  BY <1>14, <1>17, NeedsType
<1>22. \A p : p = Frame(j).parent => NeedsBelow(p)' = NeedsBelow(p) - Needs(j) /\ NeedsBelow(p) - Needs(j) \in Nat
  BY <1>18, <1>19, <1>20, <1>21
<1>23. QED
  BY <1>13, <1>15, <1>19, <1>20, <1>22

\* What a thread that is done has worked on.
LEMMA Done ==
  ASSUME IInv, NEW t \in Threads, pc[t] \in Busy, NEW j, j = Run(t).job
  PROVE  /\ j \in Names /\ At(stack, j) /\ Enqueued(j) /\ IsJob(JobAt(stack, j), Task(j)) /\ Extent[Task(j)] \in Nat
         /\ JobAt(stack, j).active \in Nat /\ JobAt(stack, j).active >= 1 /\ JobAt(stack, j).extent \in 0 .. Extent[Task(j)]
         /\ Serial(j) => /\ JobAt(stack, j).active = 1 /\ j \notin Range(queue)
                         /\ \A u \in Threads : \A d \in 1 .. Len(stack[u]) :
                               stack[u][d].run.job = j => u = t /\ d = Len(stack[t])
         /\ \A p : p = Frame(j).parent => Needs(j) \in Nat /\ NeedsBelow(p) >= Needs(j) /\ NeedsBelow(p) \in Nat
<1>1. /\ Stacks(stack) /\ Depth(t) > 0 /\ Run(t) \in RunType /\ j \in Names /\ At(stack, j) /\ RunInv /\ Top(t).run.job = j
  BY InTask DEF IInv, Run
<1>2. Depth(t) \in Nat /\ Depth(t) = Len(stack[t]) /\ Depth(t) \in 1 .. Len(stack[t]) /\ stack[t][Len(stack[t])].run.job = j
  BY <1>1, TopIs
<1>3. PICK g : g = <<t, Depth(t)>>
  OBVIOUS
<1>4. g \in RunsOf(j)
  BY <1>2, <1>3, RunsAre
<1>5. Cardinality(RunsOf(j)) >= 1 /\ \A h \in RunsOf(j) : h # g => Cardinality(RunsOf(j)) >= 2
  BY <1>1, <1>4, RunsCounted
<1>6. Job(j).active = Cardinality(RunsOf(j)) /\ (Serial(j) => Job(j).active <= 1) /\ Job(j) = JobAt(stack, j)
  BY <1>1, JobIs DEF IInv, ActiveInv
<1>7. IsJob(JobAt(stack, j), Task(j))
  BY <1>1, JobsType DEF Task, Frame
<1>8. Extent[Task(j)] \in Nat
  <2>1. IsFrame(Frame(j)) /\ j[3] \in JobsOf(Frame(j).call)
    BY <1>1, Places DEF Frame, Stacks, IsStack
  <2>2. Frame(j).call \in Calls \union {NoCall}
    BY <2>1 DEF IsFrame
  <2>3. QED
    BY <2>1, <2>2, TasksType DEF Task
<1>9. JobAt(stack, j).active \in Nat /\ JobAt(stack, j).extent \in 0 .. Extent[Task(j)]
  BY <1>7 DEF IsJob
<1>10. Enqueued(j)
  BY <1>1, <1>5, <1>6 DEF IInv, FreshInv
<1>11. ASSUME Serial(j)
       PROVE  /\ JobAt(stack, j).active = 1 /\ j \notin Range(queue)
              /\ \A u \in Threads : \A d \in 1 .. Len(stack[u]) : stack[u][d].run.job = j => u = t /\ d = Len(stack[t])
  <2>1. JobAt(stack, j).active = 1
    BY <1>5, <1>6, <1>9, <1>11
  <2>2. j \notin Range(queue)
    BY <1>1, <1>6, <1>11, <2>1 DEF IInv, QueueInv, Waits
  <2>3. ASSUME NEW u \in Threads, NEW d \in 1 .. Len(stack[u]), stack[u][d].run.job = j
        PROVE  u = t /\ d = Len(stack[t])
    <3>1. PICK h : h = <<u, d>>
      OBVIOUS
    <3>2. h \in RunsOf(j)
      BY <2>3, <3>1, RunsAre DEF Depth
    <3>3. h = g
      BY <1>5, <1>6, <2>1, <3>2
    <3>4. QED
      BY <1>2, <1>3, <3>1, <3>3
  <2>4. QED
    BY <2>1, <2>2, <2>3
<1>12. Needs(j) \in Nat /\ NeedIn(stack, j) = Needs(j)
  BY <1>1, NeedType DEF Needs, Task, Frame, NeedIn
<1>13. ASSUME NEW p, p = Frame(j).parent PROVE NeedsBelow(p) >= Needs(j) /\ NeedsBelow(p) \in Nat
  <2>1. \A f \in WorksIn(stack) : NeedIn(stack, JobIn(stack, f)) \in Nat
    BY <1>1, WorkIsThere, NeedType
  <2>2. IsFiniteSet(WorksIn(stack))
    BY <1>1, WorksFinite
  <2>3. g \in WorksIn(stack) /\ JobIn(stack, g) = j /\ ParentIn(stack, j) = p
    <3>1. g \in Threads \X Nat /\ g[1] = t /\ g[2] = Depth(t) /\ j # NoJob
      BY <1>1, <1>2, <1>3, NullAssumption DEF Names
    <3>2. QED
      BY <1>2, <1>13, <3>1 DEF WorksIn, JobIn, ParentIn, Frame
  <2>4. NeedsIn(stack, p) \in Nat /\ NeedsIn(stack, p) >= NeedIn(stack, j)
    BY <2>1, <2>2, <2>3, NeedsType
  <2>5. QED
    BY <1>1, <1>12, <2>4, NeedsIsIn
<1>14. QED
  BY <1>1, <1>5, <1>6, <1>7, <1>8, <1>9, <1>10, <1>11, <1>12, <1>13

\* A thread is done with j.  A failed run fails the jobs of j's call.  The owner of
\* j is woken when that is over.
Ends(t, j) ==
    /\ Stacks(stack') /\ LockFree /\ pc[t] = "finish" /\ pc'[t] = "loop" /\ Others(t) /\ j = Run(t).job
    /\ KeepsCalls(stack, stack') /\ KeepsJoins(stack, stack') /\ OtherRuns(stack, stack', t)
    /\ stack'[t][Len(stack[t])].run = NoRun
    /\ \A k \in Names : At(stack, k) =>
          /\ JobAt(stack', k).failed <=> JobAt(stack, k).failed \/ (Run(t).failed /\ k[1] = j[1] /\ k[2] = j[2])
          /\ k # j => JobAt(stack', k).active = JobAt(stack, k).active
          /\ JobAt(stack, k).extent = 0 => JobAt(stack', k).extent = 0
    /\ \/ \A u \in Threads : pc'[u] # "sleepOwner"
       \/ ~(/\ JobAt(stack', j).active = 0 /\ OwnerIsSleeping(j)
            /\ JobAt(stack', j).failed \/ JobAt(stack', j).extent = 0)

\* A thread ends its work on a job.
LEMMA FinishStep ==
  ASSUME IInv, NEW t \in Threads, Finish(t)
  PROVE  IInv' /\ KeepsCalls(stack, stack') /\ Ends(t, Run(t).job)
<1>1. /\ Stacks(stack) /\ ScanInv /\ ShutInv /\ pc \in [Threads -> Pcs] /\ target \in Nat /\ shutdown \in BOOLEAN
      /\ desired \in NumThreads \union {DefaultThreads} /\ queue \in Seq(Names) /\ Len(queue) \in Nat
  BY PartsOf
<1>2. PICK run, j, b, m, parent :
        /\ pc[t] = "finish" /\ LockFree /\ run = Run(t) /\ j = run.job /\ parent = Frame(j).parent
        /\ b = DoneJob(Job(j), Left(j, run), run.failed, run.total)
        /\ m = [stack EXCEPT ![j[1]][j[2]].jobs = FailWith(@, run.failed)]
        /\ stack' = SetRun(Reserve(SetJob(m, j, b), parent, -Needs(j)), t, NoRun)
        /\ reserved' = (IF parent = NoJob THEN reserved - Needs(j) ELSE reserved)
        /\ queue' = (IF Serial(j) /\ b.extent > 0 THEN <<j>> \o queue ELSE queue)
        /\ \/ pc' = [Broadcast(pc, {"sleepOwner"}) EXCEPT ![t] = "loop"]
           \/ pc' = [pc EXCEPT ![t] = "loop"] /\ ~WakesOwner(j, b)
        /\ UNCHANGED <<target, desired, shutdown, cursor>>
  BY Zenon DEF Finish, DoneJob, Returned, Serial
<1>3. /\ Depth(t) > 0 /\ run \in RunType /\ run.total \in Nat /\ run.iters \in Nat /\ run.failed \in BOOLEAN
      /\ Job(j).extent \in Nat
      /\ (Serial(j) => run.iters + run.total <= Job(j).extent) /\ (~Serial(j) => run.iters + run.total = 1)
      /\ (~run.failed => run.iters = 0)
  <2>1. pc[t] \in Busy
    BY <1>2 DEF Busy
  <2>2. Depth(t) > 0 /\ run \in RunType
    BY <1>2, <2>1, InTask
  <2>3. run.failed \in BOOLEAN
    BY <2>2 DEF RunType
  <2>4. QED
    BY <1>2, <2>1, <2>2, <2>3, InTask
<1>4. /\ j \in Names /\ At(stack, j) /\ Enqueued(j) /\ IsJob(JobAt(stack, j), Task(j)) /\ Extent[Task(j)] \in Nat
      /\ JobAt(stack, j).active \in Nat /\ JobAt(stack, j).active >= 1 /\ JobAt(stack, j).extent \in 0 .. Extent[Task(j)]
      /\ Serial(j) => /\ JobAt(stack, j).active = 1 /\ j \notin Range(queue)
                      /\ \A u \in Threads : \A d \in 1 .. Len(stack[u]) :
                            stack[u][d].run.job = j => u = t /\ d = Len(stack[t])
      /\ \A p : p = Frame(j).parent => Needs(j) \in Nat /\ NeedsBelow(p) >= Needs(j) /\ NeedsBelow(p) \in Nat
  BY <1>2, Done DEF Busy
<1>5. Job(j) = JobAt(stack, j) /\ j # NoJob /\ Needs(j) \in Nat
  BY <1>4, JobIs, NullAssumption DEF Names
<1>6. Depth(t) \in Nat /\ Depth(t) = Len(stack[t]) /\ Depth(t) \in 1 .. Len(stack[t]) /\ Top(t).run.job = j
  BY <1>1, <1>2, <1>3, TopIs DEF Run
<1>7. PICK left \in 0 .. Extent[Task(j)] :
         /\ left = Left(j, run)
         /\ ~Serial(j) => left = JobAt(stack, j).extent
         /\ Serial(j) /\ ~run.failed => left = JobAt(stack, j).extent - run.total
  BY <1>3, <1>4, <1>5 DEF Left, Serial
<1>8. /\ IsJob(b, Task(j)) /\ b.active = JobAt(stack, j).active - 1 /\ b.extent = left
      /\ b.ran = JobAt(stack, j).ran + run.total
      /\ b.reserved = JobAt(stack, j).reserved /\ (b.failed <=> JobAt(stack, j).failed \/ run.failed)
  <2>1. PICK k, job, f, n : k = Task(j) /\ job = JobAt(stack, j) /\ f = run.failed /\ n = run.total
    OBVIOUS
  <2>2. /\ IsJob(job, k) /\ job.active >= 1 /\ left \in 0 .. Extent[k] /\ f \in BOOLEAN /\ n \in Nat
        /\ b = DoneJob(job, left, f, n)
    BY <1>2, <1>3, <1>4, <1>5, <1>7, <2>1
  <2>3. /\ IsJob(b, k) /\ b.active = job.active - 1 /\ b.extent = left /\ b.ran = job.ran + n
        /\ b.reserved = job.reserved /\ (b.failed <=> job.failed \/ f)
    BY <2>2, DoneIs
  <2>4. QED
    BY <2>1, <2>3
<1>9. Marks(stack, m, j, run.failed)
  <2>1. PICK f \in BOOLEAN : f = run.failed
    BY <1>3
  <2>2. m = [stack EXCEPT ![j[1]][j[2]].jobs = FailWith(@, f)]
    BY <1>2, <2>1
  <2>3. Marks(stack, m, j, f)
    BY <1>1, <1>4, <2>2, MarkMarks
  <2>4. QED
    BY <2>1, <2>3
<1>10. /\ Stacks(m) /\ KeepsCalls(stack, m) /\ KeepsJoins(stack, m) /\ KeepsRuns(stack, m)
       /\ SameExtents(stack, m) /\ SameActive(stack, m) /\ SameReserved(stack, m) /\ SameRan(stack, m)
       /\ \A k \in Names : At(stack, k) =>
            (JobAt(m, k).failed <=> JobAt(stack, k).failed \/ (run.failed /\ k[1] = j[1] /\ k[2] = j[2]))
  BY <1>9 DEF Marks
<1>11. \A k \in Names : At(m, k) <=> At(stack, k)
  BY <1>10, PlacesStay
<1>12. \A k \in Names : At(stack, k) =>
          /\ JobAt(m, k).extent = JobAt(stack, k).extent /\ JobAt(m, k).active = JobAt(stack, k).active
          /\ JobAt(m, k).ran = JobAt(stack, k).ran /\ JobAt(m, k).reserved = JobAt(stack, k).reserved
  BY <1>10 DEF SameExtents, SameActive, SameRan, SameReserved
<1>13. /\ m[j[1]][j[2]].call = stack[j[1]][j[2]].call /\ Len(m[t]) = Len(stack[t])
       /\ Task(j) = TasksOf[m[j[1]][j[2]].call][j[3]]
  <2>1. m[j[1]][j[2]].call = stack[j[1]][j[2]].call
    <3>1. j[1] \in Threads /\ j[2] \in 1 .. Len(stack[j[1]])
      BY <1>4, Places
    <3>2. QED
      BY <1>10, <3>1 DEF KeepsCalls
  <2>2. Len(m[t]) = Len(stack[t])
    BY <1>10 DEF KeepsCalls
  <2>3. QED
    BY <2>1, <2>2 DEF Task, Frame
<1>14. PICK n \in Int : n = -Needs(j)
  BY <1>5
<1>15. parent # NoJob => parent \in Names /\ At(stack, parent)
  BY <1>2, <1>4, ParentIsThere
<1>16. parent # NoJob => parent \in Names /\ At(m, parent) /\ JobAt(m, parent).reserved + n \in Nat
  <2>1. SUFFICES ASSUME parent # NoJob PROVE parent \in Names /\ At(m, parent) /\ JobAt(m, parent).reserved + n \in Nat
    OBVIOUS
  <2>2. parent \in Names /\ At(m, parent) /\ At(stack, parent)
    BY <1>11, <1>15, <2>1
  <2>3. JobAt(m, parent).reserved = NeedsBelow(parent)
    <3>1. Job(parent).reserved = NeedsBelow(parent)
      BY <2>2 DEF IInv, BalanceInv
    <3>2. QED
      BY <1>12, <2>2, <3>1, JobIs
  <2>4. NeedsBelow(parent) \in Nat /\ NeedsBelow(parent) >= Needs(j)
    BY <1>2, <1>4
  <2>5. QED
    BY <1>5, <1>14, <2>2, <2>3, <2>4
<1>17. NoRun \in RunType
  BY DEF NoRun, RunType
<1>18. Effect(m, stack', t, j, NoRun, parent, n) /\ Becomes(m, stack', j, b)
  <2>1. PICK w, y : w = SetJob(m, j, b) /\ y = Reserve(w, parent, n)
    OBVIOUS
  <2>2. /\ b.reserved = JobAt(m, j).reserved /\ At(m, j) /\ Len(m[t]) > 0
        /\ IsJob(b, TasksOf[m[j[1]][j[2]].call][j[3]])
    BY <1>3, <1>4, <1>6, <1>8, <1>11, <1>12, <1>13
  <2>3. Depth(t) = Len(y[t])
    <3>1. SetsJob(m, w, j, b)
      BY <1>4, <1>10, <2>1, <2>2, JobIsSet
    <3>2. Stacks(w) /\ KeepsCalls(m, w) /\ JobAt(w, j) = b /\ \A k \in Names : At(m, k) /\ k # j => JobAt(w, k) = JobAt(m, k)
      BY <3>1 DEF SetsJob
    <3>3. parent # NoJob => parent \in Names /\ At(w, parent) /\ JobAt(w, parent).reserved + n \in Nat
      BY <1>16, <2>2, <3>2, PlacesStay
    <3>4. Reserves(w, y, parent, n)
      BY <2>1, <3>2, <3>3, ReserveReserves
    <3>5. QED
      BY <1>6, <1>13, <3>2, <3>4 DEF Reserves, KeepsCalls
  <2>4. stack' = TopRun(y, t, NoRun)
    BY <1>2, <1>14, <2>1, <2>3, ZenonT(60) DEF SetRun, TopRun
  <2>5. QED
    BY <1>4, <1>10, <1>16, <1>17, <2>1, <2>2, <2>4, Chain
<1>19. /\ Stacks(stack') /\ KeepsCalls(m, stack') /\ KeepsJoins(m, stack')
       /\ OtherRuns(m, stack', t) /\ stack'[t][Len(stack[t])].run = NoRun
  BY <1>13, <1>18 DEF Effect
<1>20. KeepsCalls(stack, stack') /\ KeepsJoins(stack, stack') /\ OtherRuns(stack, stack', t)
  <2>1. KeepsCalls(stack, stack')
    BY <1>10, <1>19 DEF KeepsCalls
  <2>2. KeepsJoins(stack, stack')
    BY <1>10, <1>19 DEF KeepsCalls, KeepsJoins
  <2>3. OtherRuns(stack, stack', t)
    BY <1>10, <1>13, <1>19 DEF KeepsCalls, KeepsRuns, OtherRuns
  <2>4. QED
    BY <2>1, <2>2, <2>3
<1>21. \A k \in Names : At(stack, k) /\ k # j =>
          /\ JobAt(stack', k).extent = JobAt(stack, k).extent /\ JobAt(stack', k).active = JobAt(stack, k).active
          /\ JobAt(stack', k).ran = JobAt(stack, k).ran
  BY <1>11, <1>12, <1>18 DEF Effect
<1>22. \A k \in Names : At(stack, k) =>
          (JobAt(stack', k).failed <=> JobAt(stack, k).failed \/ (run.failed /\ k[1] = j[1] /\ k[2] = j[2]))
  BY <1>8, <1>10, <1>11, <1>18 DEF Becomes
<1>23. /\ \A k \in Names : At(stack, k) /\ k = parent => JobAt(stack', k).reserved = JobAt(stack, k).reserved + n
       /\ \A k \in Names : At(stack, k) /\ k # parent => JobAt(stack', k).reserved = JobAt(stack, k).reserved
  BY <1>11, <1>12, <1>18 DEF Effect
<1>24. /\ JobAt(stack', j).active = JobAt(stack, j).active - 1 /\ JobAt(stack', j).extent = left
       /\ JobAt(stack', j).ran = JobAt(stack, j).ran + run.total
  BY <1>8, <1>18 DEF Becomes
<1>25. Effect(stack, stack', t, j, NoRun, parent, n)
  BY <1>19, <1>20, <1>21, <1>23 DEF Effect
<1>26. Others(t) /\ pc'[t] = "loop"
  <2>1. {"sleepOwner"} \in SUBSET Sleeping /\ "loop" \in Pcs
    BY DEF Sleeping, Pcs
  <2>2. CASE pc' = [Broadcast(pc, {"sleepOwner"}) EXCEPT ![t] = "loop"]
    BY <1>1, <2>1, <2>2, BroadcastKeeps
  <2>3. CASE pc' = [pc EXCEPT ![t] = "loop"] /\ ~WakesOwner(j, b)
    BY <1>1, <2>1, <2>3, OneMoves
  <2>4. QED
    BY <1>2, <2>2, <2>3
<1>27. PICK a \in BOOLEAN : a <=> JobAt(stack', j).extent > 0 /\ (Serial(j) => JobAt(stack', j).active = 0)
  OBVIOUS
<1>28. /\ queue' \in Seq(Names) /\ IsInjective(queue')
       /\ \A k : k \in Range(queue') <=> (k \in Range(queue) /\ k # j) \/ (k = j /\ a)
  <2>1. IsInjective(queue)
    BY DEF IInv, QueueInv
  <2>2. CASE Serial(j) /\ left > 0
    <3>1. queue' = <<j>> \o queue /\ a
      <4>1. queue' = <<j>> \o queue
        BY <1>2, <1>8, <2>2
      <4>2. JobAt(stack', j).active = 0 /\ JobAt(stack', j).extent > 0
        BY <1>4, <1>24, <2>2
      <4>3. QED
        BY <1>27, <4>1, <4>2
    <3>8. PICK q : q = <<j>>
      OBVIOUS
    <3>2. q = <<j>> /\ Len(q) = 1 /\ q[1] = j /\ DOMAIN q = {1}
      BY <3>8
    <3>7. q \in Seq(Names)
      BY <1>4, <3>2
    <3>3. IsInjective(q) /\ \A v : v \in Range(q) <=> v = j
      BY <3>2 DEF IsInjective, Range
    <3>4. \A x \in DOMAIN q : \A y \in DOMAIN queue : q[x] # queue[y]
      BY <1>4, <2>2, <3>2 DEF Range
    <3>5. /\ q \o queue \in Seq(Names) /\ IsInjective(q \o queue)
          /\ \A v : v \in Range(q \o queue) <=> v \in Range(q) \/ v \in Range(queue)
      BY <1>1, <2>1, <3>3, <3>4, <3>7, ConcatInjective
    <3>6. QED
      BY <1>4, <2>2, <3>1, <3>2, <3>3, <3>5
  <2>3. CASE ~(Serial(j) /\ left > 0)
    <3>1. queue' = queue
      BY <1>2, <1>8, <2>3
    <3>2. CASE Serial(j)
      <4>1. ~a
        BY <1>7, <1>24, <1>27, <2>3, <3>2
      <4>2. QED
        BY <1>1, <1>4, <2>1, <3>1, <3>2, <4>1
    <3>3. CASE ~Serial(j)
      <4>1. a <=> JobAt(stack, j).extent > 0
        BY <1>7, <1>24, <1>27, <3>3
      <4>2. j \in Range(queue) <=> JobAt(stack, j).extent > 0
        BY <1>4, <1>5, <3>3 DEF IInv, QueueInv, Waits
      <4>3. QED
        BY <1>1, <2>1, <3>1, <4>1, <4>2
    <3>4. QED
      BY <3>2, <3>3
  <2>4. QED
    BY <2>2, <2>3
<1>29. ScanInv'
  <2>1. cursor = 1
    BY <1>1, <1>2 DEF ScanInv, LockFree, Locked
  <2>4. Len(queue') \in Nat
    BY <1>28
  <2>2. cursor' \in 1 .. Len(queue') + 1
    <3>1. cursor' \in {1, cursor}
      BY <1>2
    <3>2. QED
      BY <2>1, <2>4, <3>1
  <2>3. QED
    BY <1>1, <1>2, <1>26, <2>1, <2>2, ScanStays
<1>30. ShutInv'
  BY <1>1, <1>2, <1>26, ShutStays
<1>31. Depth(t)' = Depth(t) /\ Top(t)'.run = NoRun
  BY <1>6, <1>19, <1>20 DEF KeepsCalls, Depth, Top
<1>32. NoRun.job = NoJob
  BY DEF NoRun
<1>33. PcOk(t)'
  BY <1>3, <1>26, <1>31, <1>32 DEF PcOk, Busy
<1>34. RunOk(t, Depth(t))'
  <2>1. stack'[t][Depth(t)'].run = NoRun
    BY <1>6, <1>19, <1>31
  <2>2. QED
    BY <1>32, <2>1 DEF RunOk
<1>35. OthersExtents(t)
  <2>1. SUFFICES ASSUME NEW u \in Threads, NEW d \in 1 .. Len(stack[u]), u # t \/ d # Len(stack[t]),
                        stack[u][d].run.job # NoJob, Serial(stack[u][d].run.job)
                 PROVE  JobAt(stack', stack[u][d].run.job).extent = JobAt(stack, stack[u][d].run.job).extent
    BY DEF OthersExtents
  <2>2. RunOk(u, d)
    BY DEF IInv, RunInv, Depth
  <2>3. PICK k \in Names : k = stack[u][d].run.job /\ At(stack, k)
    BY <2>1, <2>2 DEF RunOk, At
  <2>4. k # j
    BY <1>4, <2>1, <2>3
  <2>5. QED
    BY <1>21, <2>3, <2>4
<1>36. /\ \A k \in Names : k # j => Cardinality(RunsOf(k))' = Cardinality(RunsOf(k))
       /\ Cardinality(RunsOf(j))' = Cardinality(RunsOf(j)) - 1
       /\ \A p : p = Frame(j).parent => NeedsBelow(p)' = NeedsBelow(p) - Needs(j) /\ NeedsBelow(p) - Needs(j) \in Nat
       /\ \A p : p # Frame(j).parent => NeedsBelow(p)' = NeedsBelow(p)
  <2>1. stack'[t][Len(stack[t])].run.job = NoJob
    BY <1>19, <1>32
  <2>2. QED
    BY <1>3, <1>4, <1>6, <1>19, <1>20, <2>1, WorkEnded
<1>37. ActiveInv'
  <2>1. SUFFICES ASSUME NEW k \in Names, At(stack, k)'
                 PROVE  Job(k)'.active = Cardinality(RunsOf(k))' /\ (Serial(k)' => Job(k)'.active <= 1)
    BY DEF ActiveInv
  <2>2. At(stack, k) /\ (Serial(k)' <=> Serial(k)) /\ Job(k) = JobAt(stack, k) /\ Job(k)' = JobAt(stack', k)
    BY <1>20, <2>1, PlacesBack, CallsStay, JobIs
  <2>3. Job(k).active = Cardinality(RunsOf(k)) /\ (Serial(k) => Job(k).active <= 1)
    BY <2>2 DEF IInv, ActiveInv
  <2>4. CASE k = j
    BY <1>4, <1>24, <1>36, <2>2, <2>3, <2>4
  <2>5. CASE k # j
    BY <1>21, <1>36, <2>2, <2>3, <2>5
  <2>6. QED
    BY <2>4, <2>5
<1>38. BalanceInv'
  <2>1. BalanceInv
    BY DEF IInv
  <2>2. reserved' = NeedsBelow(NoJob)'
    BY <1>2, <1>36, <2>1 DEF BalanceInv
  <2>3. ASSUME NEW k \in Names, At(stack, k)' PROVE Job(k)'.reserved = NeedsBelow(k)'
    <3>1. At(stack, k) /\ Job(k) = JobAt(stack, k) /\ Job(k)' = JobAt(stack', k)
      BY <1>20, <2>3, PlacesBack, JobIs
    <3>2. Job(k).reserved = NeedsBelow(k)
      BY <2>1, <3>1 DEF BalanceInv
    <3>3. CASE k = parent
      <4>1. NeedsBelow(k)' = NeedsBelow(k) - Needs(j) /\ NeedsBelow(k) \in Nat
        BY <1>2, <1>4, <1>36, <3>3
      <4>2. JobAt(stack', k).reserved = JobAt(stack, k).reserved + n
        BY <1>23, <3>1, <3>3
      <4>3. QED
        BY <1>5, <1>14, <3>1, <3>2, <4>1, <4>2
    <3>4. CASE k # parent
      BY <1>2, <1>23, <1>36, <3>1, <3>2, <3>4
    <3>5. QED
      BY <3>3, <3>4
  <2>4. QED
    BY <2>2, <2>3 DEF BalanceInv
<1>39. AccountInv'
  <2>1. SUFFICES ASSUME NEW k \in Names, At(stack, k)', ~Job(k)'.failed
                 PROVE  Job(k)'.extent + Job(k)'.ran + (IF Serial(k)' THEN 0 ELSE Job(k)'.active) = Extent[Task(k)']
    BY DEF AccountInv
  <2>2. At(stack, k) /\ (Serial(k)' <=> Serial(k)) /\ Task(k)' = Task(k) /\ Job(k) = JobAt(stack, k) /\ Job(k)' = JobAt(stack', k)
    BY <1>20, <2>1, PlacesBack, CallsStay, JobIs
  <2>3. ~Job(k).failed /\ (k = j => ~run.failed)
    BY <1>22, <2>1, <2>2
  <2>4. Job(k).extent + Job(k).ran + (IF Serial(k) THEN 0 ELSE Job(k).active) = Extent[Task(k)]
    BY <2>2, <2>3 DEF IInv, AccountInv
  <2>5. CASE k = j
    <3>1. Job(j).ran \in Nat /\ JobAt(stack, j).extent \in Nat
      BY <1>4, <2>2, <2>5 DEF IsJob
    <3>2. run.iters = 0
      BY <1>3, <2>3, <2>5
    <3>3. CASE Serial(j)
      BY <1>3, <1>4, <1>7, <1>24, <2>2, <2>3, <2>4, <2>5, <3>1, <3>3
    <3>4. CASE ~Serial(j)
      <4>1. run.total = 1
        BY <1>3, <3>2, <3>4
      <4>2. /\ Job(k).extent + Job(k).ran + Job(k).active = Extent[Task(k)]
            /\ Job(k)'.extent = Job(k).extent /\ Job(k)'.ran = Job(k).ran + 1 /\ Job(k)'.active = Job(k).active - 1
        BY <1>7, <1>24, <2>2, <2>4, <2>5, <3>4, <4>1
      <4>3. Job(k).extent \in Nat /\ Job(k).ran \in Nat /\ Job(k).active \in Nat
        BY <1>4, <2>2, <2>5, <3>1
      <4>4. QED
        BY <2>2, <2>5, <3>4, <4>2, <4>3
    <3>5. QED
      BY <3>3, <3>4
  <2>6. CASE k # j
    BY <1>21, <2>2, <2>4, <2>6
  <2>7. QED
    BY <2>5, <2>6
<1>40. JoinInv'
  <2>1. JoinInv
    BY DEF IInv
  <2>2. \A k \in Names : At(stack, k) /\ JobAt(stack, k).extent = 0 /\ JobAt(stack, k).active = 0 =>
             JobAt(stack', k).extent = 0 /\ JobAt(stack', k).active = 0
    BY <1>4, <1>21
  <2>3. \A k \in Names : At(stack, k) /\ JobAt(stack, k).failed => JobAt(stack', k).failed
    BY <1>22
  <2>4. ASSUME NEW k \in Names, At(stack, k), JobAt(stack', k).failed, ~JobAt(stack, k).failed PROVE AllFailed(stack', k)
    <3>1. run.failed /\ k[1] = j[1] /\ k[2] = j[2]
      BY <1>22, <2>4
    <3>2. SUFFICES ASSUME NEW i \in Names, At(stack', i), i[1] = k[1], i[2] = k[2] PROVE JobAt(stack', i).failed
      BY DEF AllFailed
    <3>3. At(stack, i)
      BY <1>20, <3>2, PlacesStay
    <3>4. QED
      BY <1>22, <3>1, <3>2, <3>3
  <2>5. QED
    BY <1>1, <1>20, <2>1, <2>2, <2>3, <2>4, JoinMoves
<1>41. (pc'[t] \in Before <=> pc[t] \in Before) /\ UNCHANGED <<target, desired, shutdown>>
  BY <1>2, <1>26 DEF Before
<1>42. IInv'
  BY <1>3, <1>4, <1>25, <1>26, <1>27, <1>28, <1>29, <1>30, <1>33, <1>34, <1>35, <1>37, <1>38, <1>39, <1>40, <1>41, EffectStep
<1>43. \/ \A u \in Threads : pc'[u] # "sleepOwner"
       \/ ~(/\ JobAt(stack', j).active = 0 /\ OwnerIsSleeping(j)
            /\ JobAt(stack', j).failed \/ JobAt(stack', j).extent = 0)
  <2>1. CASE pc' = [Broadcast(pc, {"sleepOwner"}) EXCEPT ![t] = "loop"]
    BY <2>1 DEF Broadcast, Awaken
  <2>2. CASE ~WakesOwner(j, b)
    <3>1. /\ b.active = JobAt(stack', j).active /\ b.extent = JobAt(stack', j).extent
          /\ (b.failed <=> JobAt(stack', j).failed)
      BY <1>4, <1>8, <1>18 DEF Becomes
    <3>2. QED
      BY <2>2, <3>1 DEF WakesOwner
  <2>3. QED
    BY <1>2, <2>1, <2>2
<1>44. Ends(t, j)
  <2>1. LockFree /\ pc[t] = "finish" /\ j = Run(t).job /\ run = Run(t)
    BY <1>2
  <2>2. \A k \in Names : At(stack, k) =>
            (JobAt(stack', k).failed <=> JobAt(stack, k).failed \/ (Run(t).failed /\ k[1] = j[1] /\ k[2] = j[2]))
    BY <1>22, <2>1
  <2>3. \A k \in Names : At(stack, k) /\ k # j => JobAt(stack', k).active = JobAt(stack, k).active
    BY <1>21
  <2>4. \A k \in Names : At(stack, k) /\ JobAt(stack, k).extent = 0 => JobAt(stack', k).extent = 0
    <3>1. left <= JobAt(stack, j).extent
      BY <1>3, <1>4, <1>5, <1>7 DEF Left, Serial
    <3>2. JobAt(stack, j).extent = 0 => left = 0
      BY <1>4, <1>7, <3>1
    <3>3. QED
      BY <1>21, <1>24, <3>2
  <2>5. QED
    BY <1>19, <1>20, <1>26, <1>43, <2>1, <2>2, <2>3, <2>4, Zenon DEF Ends
<1>45. QED
  BY <1>2, <1>20, <1>42, <1>44

-----------------------------------------------------------------------------
(* Calls *)

\* Stacks that only grow, or keep their height.
Grows(s, z) == \A u \in Threads : Len(z[u]) >= Len(s[u])

\* Stacks that keep their calls do not get lower.
LEMMA KeepsGrows ==
  ASSUME Stacks(stack), KeepsCalls(stack, stack')
  PROVE  Grows(stack, stack')
  BY DEF Stacks, IsStack, KeepsCalls, Grows

\* Nor do stacks that do not change.
LEMMA SameGrows ==
  ASSUME Stacks(stack), stack' = stack
  PROVE  Grows(stack, stack')
  BY DEF Stacks, IsStack, Grows

\* Nor does one that gets a frame.
LEMMA PushGrows ==
  ASSUME Stacks(stack), NEW t \in Threads, NEW f, Pushes(stack, stack', t, f)
  PROVE  Grows(stack, stack')
  BY SMTT(30) DEF Stacks, IsStack, Pushes, Grows

\* z is s without the top frame of t; what the frame below runs may have gone on.
Shorter(s, z, t) ==
    /\ Stacks(s) /\ Stacks(z) /\ Len(s[t]) = Len(z[t]) + 1
    /\ \A u \in Threads : u # t => z[u] = s[u]
    /\ \A d \in 1 .. Len(z[t]) :
          /\ z[t][d].call = s[t][d].call /\ z[t][d].parent = s[t][d].parent
          /\ z[t][d].joining = s[t][d].joining /\ z[t][d].failed = s[t][d].failed
          /\ z[t][d].jobs = s[t][d].jobs
          /\ z[t][d].run.job = s[t][d].run.job
          /\ d # Len(z[t]) => z[t][d].run = s[t][d].run

OfTop(s, t, j) == j[1] = t /\ j[2] = Len(s[t]) /\ j[3] \in JobsOf(s[t][Len(s[t])].call)

\* Without its top frame a stack is the one it was put on.
LEMMA PushShorter ==
  ASSUME NEW s, Stacks(s), NEW z, NEW t \in Threads, NEW f, Pushes(s, z, t, f)
  PROVE  Shorter(z, s, t)
  BY DEF Pushes, Shorter

\* The jobs of the longer stacks.
LEMMA ShorterPlaces ==
  ASSUME NEW s, NEW z, NEW t \in Threads, Shorter(s, z, t), NEW j \in Names
  PROVE  /\ At(s, j) <=> At(z, j) \/ OfTop(s, t, j)
         /\ ~(At(z, j) /\ OfTop(s, t, j))
         /\ At(z, j) => /\ JobAt(z, j) = JobAt(s, j) /\ ParentIn(z, j) = ParentIn(s, j) /\ NeedIn(z, j) = NeedIn(s, j)
                        /\ z[j[1]][j[2]].call = s[j[1]][j[2]].call
<1>1. j[1] \in Threads /\ j[2] \in Nat
  BY DEF Names
<1>2. Len(z[t]) \in Nat /\ Len(s[t]) = Len(z[t]) + 1 /\ Len(s[j[1]]) \in Nat /\ Len(z[j[1]]) \in Nat
  BY <1>1 DEF Shorter, Stacks, IsStack
<1>3. CASE j[1] # t
  <2>1. z[j[1]] = s[j[1]]
    BY <1>1, <1>3 DEF Shorter
  <2>2. QED
    BY <1>3, <2>1 DEF At, OfTop, JobAt, ParentIn, NeedIn
<1>4. CASE j[1] = t
  <2>1. CASE j[2] \in 1 .. Len(z[t])
    <3>1. /\ z[t][j[2]].call = s[t][j[2]].call /\ z[t][j[2]].parent = s[t][j[2]].parent
          /\ z[t][j[2]].jobs = s[t][j[2]].jobs /\ j[2] \in 1 .. Len(s[t]) /\ j[2] # Len(s[t])
      BY <1>2, <2>1 DEF Shorter
    <3>2. QED
      BY <1>4, <2>1, <3>1 DEF At, OfTop, JobAt, ParentIn, NeedIn
  <2>2. CASE j[2] \notin 1 .. Len(z[t])
    <3>1. j[2] \in 1 .. Len(s[t]) <=> j[2] = Len(s[t])
      BY <1>1, <1>2, <2>2
    <3>2. QED
      BY <1>4, <2>2, <3>1 DEF At, OfTop
  <2>3. QED
    BY <2>1, <2>2
<1>5. QED
  BY <1>3, <1>4

\* Who works does so in both.
LEMMA ShorterWork ==
  ASSUME NEW s, NEW z, NEW t \in Threads, Shorter(s, z, t), s[t][Len(s[t])].run.job = NoJob,
         \A f \in WorksIn(s) : JobIn(s, f) \in Names /\ At(z, JobIn(s, f))
  PROVE  /\ WorksIn(z) = WorksIn(s) /\ WorkKept(z, s)
         /\ \A j : RunsIn(z, j) = RunsIn(s, j) /\ NeedsIn(z, j) = NeedsIn(s, j)
<1>1. Len(z[t]) \in Nat /\ Len(s[t]) = Len(z[t]) + 1
  BY DEF Shorter, Stacks, IsStack
<1>2. ASSUME NEW f \in Threads \X Nat
      PROVE  /\ f[2] \in 1 .. Len(z[f[1]]) => f[2] \in 1 .. Len(s[f[1]]) /\ JobIn(z, f) = JobIn(s, f)
             /\ f[2] \in 1 .. Len(s[f[1]]) /\ JobIn(s, f) # NoJob => f[2] \in 1 .. Len(z[f[1]])
  <2>1. CASE f[1] # t
    <3>1. z[f[1]] = s[f[1]]
      BY <2>1 DEF Shorter
    <3>2. QED
      BY <3>1 DEF JobIn
  <2>2. CASE f[1] = t
    <3>1. f[2] \in 1 .. Len(z[t]) => z[t][f[2]].run.job = s[t][f[2]].run.job
      BY DEF Shorter
    <3>2. f[2] \in 1 .. Len(s[t]) /\ f[2] \notin 1 .. Len(z[t]) => f[2] = Len(s[t])
      BY <1>1
    <3>3. QED
      BY <1>1, <2>2, <3>1, <3>2 DEF JobIn
  <2>3. QED
    BY <2>1, <2>2
<1>3. WorksIn(z) = WorksIn(s)
  BY <1>2 DEF WorksIn, JobIn
<1>4. ASSUME NEW f \in WorksIn(z)
      PROVE  /\ JobIn(s, f) = JobIn(z, f)
             /\ ParentIn(s, JobIn(z, f)) = ParentIn(z, JobIn(z, f))
             /\ NeedIn(s, JobIn(z, f)) = NeedIn(z, JobIn(z, f))
  <2>1. JobIn(s, f) = JobIn(z, f)
    BY <1>2 DEF WorksIn
  <2>2. PICK k \in Names : k = JobIn(z, f) /\ At(z, k)
    BY <1>3, <2>1
  <2>3. QED
    BY <2>1, <2>2, ShorterPlaces
<1>5. WorkKept(z, s)
  BY <1>4 DEF WorkKept
<1>6. \A j : RunsIn(z, j) = RunsIn(s, j) /\ NeedsIn(z, j) = NeedsIn(s, j)
  BY <1>3, <1>5, RunsSame, NeedsSame
<1>7. QED
  BY <1>3, <1>5, <1>6

\* A sum of nothing.
LEMMA TotalEmpty ==
  ASSUME NEW f, DOMAIN f = {}
  PROVE  Total(f) = 0
<1>1. UNION {{x} \X (1 .. f[x]) : x \in DOMAIN f} = {}
  OBVIOUS
<1>2. QED
  BY <1>1, FS_EmptySet DEF Total

\* Nobody works on what is not there, or below it.
LEMMA NoWork ==
  ASSUME NEW s, NEW z, \A f \in WorksIn(z) : JobIn(z, f) \in Names /\ At(s, JobIn(z, f)),
         NEW k \in Names, ~At(s, k), \A f \in WorksIn(z) : ParentIn(z, JobIn(z, f)) # k
  PROVE  RunsIn(z, k) = {} /\ Cardinality(RunsIn(z, k)) = 0 /\ NeedsIn(z, k) = 0
<1>1. RunsIn(z, k) = {} /\ BelowIn(z, k) = {}
  BY DEF RunsIn, BelowIn
<1>2. PICK F : F = [f \in BelowIn(z, k) |-> NeedIn(z, JobIn(z, f))]
  OBVIOUS
<1>3. DOMAIN F = {} /\ NeedsIn(z, k) = Total(F)
  BY <1>1, <1>2 DEF NeedsIn
<1>4. QED
  BY <1>1, <1>3, TotalEmpty, FS_EmptySet

\* A job that is there before and after is the same.
Remains(j) ==
    /\ At(stack, j) /\ At(stack, j)' /\ Job(j)' = Job(j) /\ Task(j)' = Task(j) /\ (Serial(j)' <=> Serial(j))

\* A job that was there before a call remains.
LEMMA PushRemains ==
  ASSUME NEW t \in Threads, Shorter(stack', stack, t), NEW j \in Names, At(stack, j)
  PROVE  Remains(j)
<1>1. At(stack', j) /\ JobAt(stack, j) = JobAt(stack', j) /\ stack[j[1]][j[2]].call = stack'[j[1]][j[2]].call
  BY ShorterPlaces
<1>2. Task(j)' = Task(j)
  BY <1>1 DEF Task, Frame
<1>3. QED
  BY <1>1, <1>2, JobIs DEF Remains, Serial

\* The jobs of a new call.
Fresh(c, j) ==
    /\ At(stack, j) /\ Task(j) = TasksOf[c][j[3]] /\ Job(j) = NewJob(Task(j)) /\ Extent[Task(j)] \in Nat /\ Extent[Task(j)] >= 1

\* The jobs of a new call are fresh.
LEMMA PushFresh ==
  ASSUME NEW t \in Threads, Shorter(stack', stack, t), NEW c \in Calls, NEW p \in Names \union {NoJob},
         NEW f, f = NewFrame(c, p), stack'[t][Len(stack'[t])] = f, NEW j \in Names, OfTop(stack', t, j)
  PROVE  Fresh(c, j)' /\ ~At(stack, j)
<1>1. At(stack', j) /\ ~At(stack, j)
  BY ShorterPlaces
<1>2. j[1] = t /\ j[2] = Len(stack'[t]) /\ stack'[j[1]][j[2]] = f
  BY DEF OfTop
<1>3. f.call = c /\ \A i \in JobsOf(c) : f.jobs[i] = NewJob(TasksOf[c][i])
  BY NewFrameType
<1>4. j[3] \in JobsOf(c)
  BY <1>2, <1>3 DEF OfTop
<1>5. Task(j)' = TasksOf[c][j[3]] /\ Job(j)' = NewJob(TasksOf[c][j[3]])
  BY <1>2, <1>3, <1>4 DEF Task, Job, Frame
<1>6. Extent[TasksOf[c][j[3]]] \in Nat /\ Extent[TasksOf[c][j[3]]] >= 1
  BY <1>4, TasksType
<1>7. QED
  BY <1>1, <1>5, <1>6 DEF Fresh

\* A call is made: by a client, or by a task that runs.
LEMMA CallStep ==
  ASSUME IInv, NEW t \in Threads, NEW c \in Calls, NEW p \in Names \union {NoJob},
         NEW f, f = NewFrame(c, p), Pushes(stack, stack', t, f), pc' = [pc EXCEPT ![t] = "enqueue"], UNCHANGED pool,
         \/ pc[t] = "out" /\ ~shutdown /\ p = NoJob
         \/ pc[t] = "task" /\ p \in {NoJob, Run(t).job}
  PROVE  IInv'
<1>1. /\ Stacks(stack) /\ ScanInv /\ ShutInv /\ pc \in [Threads -> Pcs] /\ target \in Nat /\ shutdown \in BOOLEAN
      /\ desired \in NumThreads \union {DefaultThreads} /\ queue \in Seq(Names) /\ Len(queue) \in Nat
  BY PartsOf
<1>2. Shorter(stack', stack, t)
  BY <1>1, PushShorter
<1>3. Others(t) /\ pc'[t] = "enqueue" /\ \A u \in Threads : u # t => pc'[u] = pc[u]
  BY <1>1, OneMoves DEF Pcs
<1>0. pc[t] = "out" => p = NoJob /\ ~shutdown
  OBVIOUS
<1>4. PcOk(t) /\ Depth(t) \in Nat /\ Depth(t) = Len(stack[t])
  BY <1>1, DepthIs DEF IInv, PcInv
<1>5. Depth(t)' = Depth(t) + 1 /\ Depth(t)' \in Nat /\ Depth(t)' = Len(stack'[t])
      /\ stack'[t][Depth(t)'] = f /\ Top(t)' = f
      /\ \A u \in Threads : u # t => Depth(u)' = Depth(u) /\ stack'[u] = stack[u]
  BY <1>4 DEF Pushes, Depth, Top
<1>6. /\ IsFrame(f)
      /\ f.call = c /\ f.parent = p /\ f.run = NoRun
      /\ f.joining = 1
      /\ c # NoCall /\ NoRun.job = NoJob
  <2>1. IsFrame(f) /\ f.call = c /\ f.parent = p /\ f.run = NoRun /\ f.joining = 1
    BY NewFrameType
  <2>2. c # NoCall /\ NoRun.job = NoJob
    BY NullAssumption DEF NoRun
  <2>3. QED
    BY <2>1, <2>2
<1>7. \A j \in Names : At(stack, j) => Remains(j)
  BY <1>2, PushRemains
<1>8. stack'[t][Len(stack'[t])] = f
  BY <1>5
<1>9. \A j \in Names : OfTop(stack', t, j) => Fresh(c, j)' /\ ~At(stack, j)
  BY <1>2, <1>8, PushFresh
<1>10. \A j \in Names : At(stack, j)' => At(stack, j) \/ OfTop(stack', t, j)
  BY <1>2, ShorterPlaces
<1>11. \A j \in Names : OfTop(stack', t, j) => Job(j)'.extent >= 1 /\ Job(j)'.extent = Extent[Task(j)'] /\ Extent[Task(j)'] \in Nat
                            /\ Job(j)'.active = 0 /\ Job(j)'.ran = 0 /\ Job(j)'.reserved = 0
  BY <1>9 DEF Fresh, NewJob
<1>12. pc[t] = "out" => Depth(t) = 0
  BY <1>4 DEF PcOk
<1>13. pc[t] = "task" => Depth(t) > 0 /\ Top(t).run.job # NoJob /\ Run(t) = Top(t).run /\ Top(t) = stack[t][Depth(t)]
  BY Working DEF Busy, Top
<1>14. Locals'
  BY <1>1, <1>2, <1>3 DEF Locals, Others, Shorter, pool
<1>15. PcInv'
  <2>1. PcOk(t)'
    <3>1. Depth(t)' > 0 /\ Depth(t)' # 0 /\ Top(t)'.call # NoCall /\ Top(t)'.run.job = NoJob
      BY <1>4, <1>5, <1>6
    <3>2. QED
      BY <1>3, <3>1 DEF PcOk, Busy
  <2>2. ASSUME NEW u \in Threads, u # t PROVE PcOk(u)'
    <3>1. PcOk(u) /\ pc'[u] = pc[u] /\ Depth(u)' = Depth(u) /\ stack'[u] = stack[u] /\ Top(u)' = Top(u)
      BY <1>3, <1>5, <2>2 DEF IInv, PcInv, Top
    <3>2. pc[u] = "claim" => Task(Top(u).run.job)' = Task(Top(u).run.job)
      <4>1. SUFFICES ASSUME pc[u] = "claim" PROVE Task(Top(u).run.job)' = Task(Top(u).run.job)
        OBVIOUS
      <4>2. PICK k \in Names : k = Top(u).run.job /\ At(stack, k)
        BY <4>1, Working DEF Busy
      <4>3. Task(k)' = Task(k)
        BY <1>7, <4>2 DEF Remains
      <4>4. Top(u)'.run.job = k
        BY <3>1, <4>2
      <4>5. QED
        BY <4>2, <4>3, <4>4
    <3>3. QED
      BY <3>1, <3>2 DEF PcOk
  <2>3. QED
    BY <2>1, <2>2 DEF PcInv
<1>16. NestInv'
  <2>1. SUFFICES ASSUME NEW u \in Threads, NEW d \in 1 .. Depth(u)' PROVE NestOk(u, d)'
    BY DEF NestInv
  <2>2. CASE u = t /\ d = Depth(t)'
    <3>1. CASE pc[t] = "out"
      <4>1. d = 1 /\ p = NoJob /\ t \in Clients
        <5>1. p = NoJob /\ Depth(t) = 0
          BY <1>0, <1>12, <3>1
        <5>2. t \in Clients
          BY <1>4, <3>1 DEF PcOk
        <5>3. d = 1
          BY <1>5, <2>2, <5>1
        <5>4. QED
          BY <5>1, <5>2, <5>3
      <4>2. t \notin Workers
        BY <4>1, ProgramAssumption
      <4>3. QED
        BY <1>5, <1>6, <2>2, <4>1, <4>2 DEF NestOk
    <3>2. CASE pc[t] = "task"
      <4>1. d # 1 /\ d - 1 = Depth(t) /\ stack'[t][d - 1] = stack[t][Depth(t)]
        BY <1>4, <1>5, <1>13, <2>2, <3>2 DEF Pushes
      <4>2. p \in {NoJob, stack[t][Depth(t)].run.job}
        BY <1>13, <3>2
      <4>3. QED
        BY <1>5, <1>6, <1>13, <2>2, <3>2, <4>1, <4>2 DEF NestOk
    <3>3. QED
      BY <3>1, <3>2
  <2>3. CASE ~(u = t /\ d = Depth(t)')
    <3>1. d \in 1 .. Depth(u) /\ NestOk(u, d)
      BY <1>4, <1>5, <2>1, <2>3 DEF IInv, NestInv
    <3>2. \A e \in 1 .. Depth(u) : stack'[u][e] = stack[u][e]
      BY <1>4, <1>5 DEF Pushes
    <3>3. d = 1 \/ d - 1 \in 1 .. Depth(u)
      BY <1>1, <3>1, DepthIs
    <3>4. QED
      BY <3>1, <3>2, <3>3 DEF NestOk
  <2>4. QED
    BY <2>2, <2>3
<1>17. RunInv'
  <2>1. SUFFICES ASSUME NEW u \in Threads, NEW d \in 1 .. Depth(u)' PROVE RunOk(u, d)'
    BY DEF RunInv
  <2>2. CASE u = t /\ d = Depth(t)'
    BY <1>5, <1>6, <2>2 DEF RunOk
  <2>3. CASE ~(u = t /\ d = Depth(t)')
    <3>1. d \in 1 .. Depth(u) /\ RunOk(u, d) /\ Depth(u) \in Nat
      BY <1>1, <1>4, <1>5, <2>1, <2>3, DepthIs DEF IInv, RunInv
    <3>2. PICK r : r = stack[u][d].run /\ r = stack'[u][d].run
      BY <1>4, <1>5, <3>1 DEF Pushes
    <3>3. CASE r.job = NoJob
      BY <3>1, <3>2, <3>3 DEF RunOk
    <3>4. CASE r.job # NoJob
      <4>1. PICK k \in Names : k = r.job /\ At(stack, k)
        BY <3>1, <3>2, <3>4 DEF RunOk, At
      <4>2. At(stack, k)' /\ Job(k)' = Job(k) /\ (Serial(k)' <=> Serial(k))
        BY <1>7, <4>1 DEF Remains
      <4>3. IF Serial(k) THEN r.iters + r.total <= Job(k).extent ELSE r.iters + r.total = 1
        BY <3>1, <3>2, <3>4, <4>1 DEF RunOk
      <4>4. d < Depth(u)' \/ pc'[u] \in {"task", "wake"} => r.iters >= 1
        <5>1. CASE u = t
          BY <1>12, <1>13, <3>1, <3>2, <3>4, <5>1 DEF RunOk
        <5>2. CASE u # t
          BY <1>3, <1>5, <3>1, <3>2, <3>4, <5>2 DEF RunOk
        <5>3. QED
          BY <5>1, <5>2
      <4>5. pc'[u] = "finish" /\ d = Depth(u)' /\ ~r.failed => r.iters = 0
        <5>1. CASE u = t
          BY <1>3, <5>1
        <5>2. CASE u # t
          BY <1>3, <1>5, <3>1, <3>2, <3>4, <5>2 DEF RunOk
        <5>3. QED
          BY <5>1, <5>2
      <4>6. QED
        BY <3>2, <3>4, <4>1, <4>2, <4>3, <4>4, <4>5 DEF RunOk
    <3>5. QED
      BY <3>3, <3>4
  <2>4. QED
    BY <2>2, <2>3
<1>18. \A g \in WorksIn(stack) : JobIn(stack, g) \in Names /\ At(stack, JobIn(stack, g))
  BY WorkIsThere DEF IInv
<1>19. /\ WorksIn(stack) = WorksIn(stack') /\ WorkKept(stack, stack')
       /\ \A j : RunsIn(stack, j) = RunsIn(stack', j) /\ NeedsIn(stack, j) = NeedsIn(stack', j)
  <2>1. stack'[t][Len(stack'[t])].run.job = NoJob
    BY <1>5, <1>6
  <2>2. \A g \in WorksIn(stack') : JobIn(stack', g) \in Names /\ At(stack, JobIn(stack', g))
    <3>1. TAKE g \in WorksIn(stack')
    <3>2. g \in Threads \X Nat /\ g[2] \in 1 .. Len(stack'[g[1]]) /\ JobIn(stack', g) # NoJob
      BY DEF WorksIn, JobIn
    <3>3. ~(g[1] = t /\ g[2] = Len(stack'[t]))
      BY <2>1, <3>2 DEF JobIn
    <3>4. g[2] \in 1 .. Len(stack[g[1]]) /\ stack'[g[1]][g[2]] = stack[g[1]][g[2]]
      BY <1>4, <1>5, <3>2, <3>3 DEF Pushes
    <3>5. g \in WorksIn(stack) /\ JobIn(stack', g) = JobIn(stack, g)
      BY <3>2, <3>4 DEF WorksIn, JobIn
    <3>6. QED
      BY <1>18, <3>5
  <2>3. QED
    BY <1>2, <2>1, <2>2, ShorterWork
<1>20. Stacks(stack')
  BY <1>2 DEF Shorter
<1>21. ASSUME NEW j \in Names, ~At(stack, j)
       PROVE  RunsIn(stack, j) = {} /\ Cardinality(RunsIn(stack, j)) = 0 /\ NeedsIn(stack, j) = 0
  <2>1. \A g \in WorksIn(stack) : ParentIn(stack, JobIn(stack, g)) # j
    <3>1. SUFFICES ASSUME NEW g \in WorksIn(stack), ParentIn(stack, JobIn(stack, g)) = j PROVE FALSE
      OBVIOUS
    <3>2. PICK k \in Names : k = JobIn(stack, g) /\ At(stack, k)
      BY <1>18
    <3>3. j = Frame(k).parent /\ j # NoJob
      BY <3>1, <3>2, NullAssumption DEF ParentIn, Frame, Names
    <3>4. At(stack, j)
      BY <3>2, <3>3, ParentIsThere
    <3>5. QED
      BY <1>21, <3>4
  <2>2. QED
    BY <1>18, <1>21, <2>1, NoWork
<1>22. \A j \in Names : /\ j # NoJob /\ RunsOf(j) = RunsIn(stack, j) /\ RunsOf(j)' = RunsIn(stack, j)
  <2>1. \A j \in Names : j # NoJob
    BY NullAssumption DEF Names
  <2>2. QED
    BY <1>1, <1>19, <1>20, <2>1, RunsIsIn, RunsIsInNext
<1>23. \A j : NeedsBelow(j) = NeedsIn(stack, j) /\ NeedsBelow(j)' = NeedsIn(stack, j)
  BY <1>1, <1>19, <1>20, NeedsIsIn, NeedsIsInNext
<1>24. ActiveInv'
  <2>1. SUFFICES ASSUME NEW j \in Names, At(stack, j)'
                 PROVE  Job(j)'.active = Cardinality(RunsOf(j))' /\ (Serial(j)' => Job(j)'.active <= 1)
    BY DEF ActiveInv
  <2>2. CASE At(stack, j)
    <3>1. Job(j).active = Cardinality(RunsOf(j)) /\ (Serial(j) => Job(j).active <= 1)
      BY <2>2 DEF IInv, ActiveInv
    <3>2. Cardinality(RunsOf(j))' = Cardinality(RunsOf(j))
      BY <1>22
    <3>3. QED
      BY <1>7, <2>2, <3>1, <3>2 DEF Remains
  <2>3. CASE ~At(stack, j)
    <3>1. Job(j)'.active = 0
      BY <1>10, <1>11, <2>1, <2>3
    <3>2. RunsOf(j)' = RunsIn(stack, j)
      BY <1>22
    <3>3. Cardinality(RunsOf(j))' = 0
      BY <1>21, <2>3, <3>2
    <3>4. QED
      BY <3>1, <3>3
  <2>4. QED
    BY <2>2, <2>3
<1>25. BalanceInv'
  <2>1. reserved' = NeedsBelow(NoJob)'
    BY <1>23 DEF IInv, BalanceInv, pool
  <2>2. ASSUME NEW j \in Names, At(stack, j)' PROVE Job(j)'.reserved = NeedsBelow(j)'
    <3>1. CASE At(stack, j)
      BY <1>7, <1>23, <3>1 DEF IInv, BalanceInv, Remains
    <3>2. CASE ~At(stack, j)
      BY <1>10, <1>11, <1>21, <1>23, <2>2, <3>2
    <3>3. QED
      BY <3>1, <3>2
  <2>3. QED
    BY <2>1, <2>2 DEF BalanceInv
<1>26. AccountInv'
  <2>1. SUFFICES ASSUME NEW j \in Names, At(stack, j)', ~Job(j)'.failed
                 PROVE  Job(j)'.extent + Job(j)'.ran + (IF Serial(j)' THEN 0 ELSE Job(j)'.active) = Extent[Task(j)']
    BY DEF AccountInv
  <2>2. CASE At(stack, j)
    BY <1>7, <2>1, <2>2 DEF IInv, AccountInv, Remains
  <2>3. CASE ~At(stack, j)
    BY <1>10, <1>11, <2>1, <2>3
  <2>4. QED
    BY <2>2, <2>3
<1>27. JoinInv'
  <2>1. SUFFICES ASSUME NEW u \in Threads, NEW d \in 1 .. Depth(u)' PROVE JoinOk(stack'[u][d])
    BY DEF JoinInv
  <2>2. CASE u = t /\ d = Depth(t)'
    <3>1. JobsOf(c) = 1 .. Len(TasksOf[c]) /\ Len(TasksOf[c]) \in Nat /\ Len(TasksOf[c]) >= 1
      BY CallsTasks
    <3>2. 1 \in JobsOf(c) /\ \A i \in JobsOf(c) : ~(i < 1)
      BY <3>1
    <3>3. JoinOk(f)
      BY <1>6, <3>2 DEF JoinOk
    <3>4. QED
      BY <1>5, <2>2, <3>3
  <2>3. CASE ~(u = t /\ d = Depth(t)')
    <3>1. d \in 1 .. Depth(u) /\ JoinOk(stack[u][d])
      BY <1>4, <1>5, <2>1, <2>3 DEF IInv, JoinInv
    <3>2. stack'[u][d] = stack[u][d]
      BY <1>4, <1>5, <3>1 DEF Pushes
    <3>3. QED
      BY <3>1, <3>2
  <2>4. QED
    BY <2>2, <2>3
<1>28. \A j \in Names : At(stack, j) => (Enqueued(j)' <=> Enqueued(j))
  <2>1. SUFFICES ASSUME NEW j \in Names, At(stack, j) PROVE Enqueued(j)' <=> Enqueued(j)
    OBVIOUS
  <2>2. j[1] \in Threads /\ j[2] \in 1 .. Len(stack[j[1]])
    BY <2>1, Places
  <2>3. CASE j[1] = t
    <3>1. j[2] < Depth(t)'
      BY <1>4, <1>5, <2>2, <2>3
    <3>2. Enqueued(j)' /\ Enqueued(j)
      BY <2>3, <3>1 DEF Enqueued
    <3>3. QED
      BY <3>2
  <2>4. CASE j[1] # t
    BY <1>3, <1>5, <2>2, <2>4 DEF Enqueued
  <2>5. QED
    BY <2>3, <2>4
<1>29. \A j \in Names : OfTop(stack', t, j) => ~Enqueued(j)'
  <2>1. SUFFICES ASSUME NEW j \in Names, OfTop(stack', t, j) PROVE ~Enqueued(j)'
    OBVIOUS
  <2>2. j[1] = t /\ j[2] = Depth(t)'
    BY <1>5, <2>1 DEF OfTop
  <2>3. QED
    BY <1>3, <1>5, <2>2 DEF Enqueued
<1>30. FreshInv'
  <2>1. SUFFICES ASSUME NEW j \in Names, At(stack, j)', ~Enqueued(j)' PROVE Job(j)'.extent > 0 /\ Job(j)'.active = 0
    BY DEF FreshInv
  <2>2. CASE At(stack, j)
    <3>1. ~Enqueued(j)
      BY <1>28, <2>1, <2>2
    <3>2. QED
      BY <1>7, <2>2, <3>1 DEF IInv, FreshInv, Remains
  <2>3. CASE ~At(stack, j)
    <3>1. /\ Job(j)'.active = 0 /\ Job(j)'.extent = Extent[Task(j)'] /\ Extent[Task(j)'] \in Nat /\ Job(j)'.extent >= 1
      BY <1>10, <1>11, <2>1, <2>3
    <3>2. QED
      BY <3>1
  <2>4. QED
    BY <2>2, <2>3
<1>31. QueueInv'
  <2>1. QueueInv /\ queue' = queue
    BY DEF IInv, pool
  <2>2. \A i \in DOMAIN queue' : At(stack', queue'[i])
    <3>1. TAKE i \in DOMAIN queue'
    <3>2. PICK k \in Names : k = queue'[i] /\ At(stack, k)
      BY <2>1 DEF QueueInv
    <3>3. At(stack', k)
      BY <1>7, <3>2 DEF Remains
    <3>4. QED
      BY <3>2, <3>3
  <2>3. ASSUME NEW j \in Names, At(stack, j)' PROVE j \in Range(queue') <=> Waits(j)'
    <3>1. CASE At(stack, j)
      <4>1. Waits(j)' <=> Waits(j)
        BY <1>7, <1>28, <3>1 DEF Waits, Remains
      <4>2. QED
        BY <2>1, <3>1, <4>1 DEF QueueInv
    <3>2. CASE ~At(stack, j)
      <4>1. ~Waits(j)'
        BY <1>10, <1>29, <2>3, <3>2 DEF Waits
      <4>2. j \notin Range(queue')
        BY <2>1, <3>2 DEF QueueInv, Range
      <4>3. QED
        BY <4>1, <4>2
    <3>3. QED
      BY <3>1, <3>2
  <2>4. QED
    BY <2>1, <2>2, <2>3 DEF QueueInv
<1>32. ShutInv'
  BY <1>1, <1>3, ShutStays DEF pool
<1>33. ScanInv'
  <2>1. cursor' \in 1 .. Len(queue') + 1 /\ cursor' = cursor /\ pc[t] # "scan"
    BY <1>1 DEF ScanInv, pool
  <2>2. QED
    BY <1>1, <1>3, <2>1, ScanStays DEF Locked
<1>34. QED
  BY <1>14, <1>15, <1>16, <1>17, <1>24, <1>25, <1>26, <1>27, <1>30, <1>31, <1>32, <1>33 DEF IInv

\* A call is made, by the body of a task if there is one below.
Calling(t) ==
    \E c \in Calls, p \in Names \union {NoJob} : \E f :
        /\ f = NewFrame(c, p) /\ Pushes(stack, stack', t, f) /\ pc' = [pc EXCEPT ![t] = "enqueue"]
        /\ IF Depth(t) = 0 THEN c \in TopCalls ELSE pc[t] = "task" /\ c \in CallsIn(Task(Run(t).job))

\* A client makes a call.
LEMMA CallClientStep ==
  ASSUME IInv, NEW t \in Threads, NEW c \in TopCalls, Call(t, c)
  PROVE  IInv' /\ Grows(stack, stack') /\ Calling(t)
<1>1. c \in Calls
  BY ProgramAssumption
<1>2. Stacks(stack) /\ Depth(t) = 0 /\ Len(stack[t]) = 0
  <2>1. PcOk(t) /\ Stacks(stack)
    BY DEF IInv, PcInv, Locals
  <2>2. Depth(t) = 0
    BY <2>1 DEF Call, PcOk
  <2>3. QED
    BY <2>1, <2>2 DEF Depth
<1>3. PICK p \in Names \union {NoJob} : p = NoJob
  OBVIOUS
<1>4. PICK f : f = NewFrame(c, p)
  OBVIOUS
<1>5. IsFrame(f)
  BY <1>1, <1>3, <1>4, NewFrameType
<1>6. Pushes(stack, stack', t, f)
  <2>1. stack' = [stack EXCEPT ![t] = <<f>>]
    BY <1>3, <1>4 DEF Call
  <2>2. stack'[t] = <<f>> /\ \A u \in Threads : u # t => stack'[u] = stack[u]
    BY <1>2, <2>1 DEF Stacks
  <2>3. stack' = [u \in Threads |-> stack'[u]]
    BY <1>2, <2>1 DEF Stacks
  <2>4. IsStack(stack'[t]) /\ Len(stack'[t]) = 1 /\ stack'[t][1] = f
    BY <1>5, <2>2 DEF IsStack
  <2>5. Stacks(stack')
    BY <1>2, <2>2, <2>3, <2>4 DEF Stacks
  <2>6. QED
    BY <1>2, <2>2, <2>4, <2>5 DEF Pushes
<1>7. pc' = [pc EXCEPT ![t] = "enqueue"] /\ UNCHANGED pool /\ pc[t] = "out" /\ ~shutdown
  BY DEF Call
<1>8. IInv'
  BY <1>1, <1>3, <1>4, <1>6, <1>7, CallStep
<1>9. Calling(t)
  BY <1>1, <1>2, <1>4, <1>6, <1>7 DEF Calling
<1>10. QED
  BY <1>2, <1>6, <1>8, <1>9, PushGrows

\* What a task that runs does next.
LEMMA StepIs ==
  ASSUME IInv, NEW t \in Threads, InBody(t)
  PROVE  pc[t] = "task" /\ (Step(t).op = "call" => Step(t).call \in Calls /\ Step(t).call \in CallsIn(Task(Run(t).job)))
<1>1. /\ Stacks(stack) /\ Run(t) \in RunType /\ Run(t).job \in Names /\ At(stack, Run(t).job) /\ pc[t] = "task"
  BY InTask DEF InBody, Busy
<1>2. PICK j, c, i : j = Run(t).job /\ c = Frame(j).call /\ i = j[3] /\ i \in JobsOf(c) /\ c \in Calls \union {NoCall}
  <2>1. PICK j : j = Run(t).job
    OBVIOUS
  <2>2. j \in Names /\ At(stack, j)
    BY <1>1, <2>1
  <2>3. IsFrame(Frame(j)) /\ j[3] \in JobsOf(Frame(j).call)
    BY <1>1, <2>2, Places DEF Frame, Stacks, IsStack
  <2>4. Frame(j).call \in Calls \union {NoCall}
    BY <2>3 DEF IsFrame
  <2>5. QED
    BY <2>1, <2>3, <2>4
<1>3. PICK B : B = Body[Task(j)]
  OBVIOUS
<1>4. B = Body[TasksOf[c][i]]
  BY <1>2, <1>3 DEF Task
<1>5. B \in Seq([op : {"call"}, call : Calls] \union [op : {"release"}, semaphore : Semaphores, count : Nat])
  BY <1>2, <1>4, TasksType
<1>6. Run(t).step \in 1 .. Len(B)
  BY <1>1, <1>2, <1>3, <1>5 DEF InBody, RunType
<1>7. B[Run(t).step] \in [op : {"call"}, call : Calls] \union [op : {"release"}, semaphore : Semaphores, count : Nat]
  BY <1>5, <1>6
<1>8. Step(t) = B[Run(t).step]
  BY <1>2, <1>3 DEF Step
<1>9. Step(t).op = "call" => Step(t).call \in CallsIn(Task(Run(t).job))
  <2>1. Step(t) \in Range(B)
    BY <1>5, <1>6, <1>8 DEF Range
  <2>2. QED
    BY <1>2, <1>3, <2>1 DEF CallsIn
<1>10. QED
  BY <1>1, <1>7, <1>8, <1>9

\* A task that runs makes a call.
LEMMA CallInTaskStep ==
  ASSUME IInv, NEW t \in Threads, CallInTask(t)
  PROVE  IInv' /\ Grows(stack, stack') /\ Calling(t)
<1>1. PICK c : c = Step(t).call
  OBVIOUS
<1>2. pc[t] = "task" /\ c \in Calls /\ c \in CallsIn(Task(Run(t).job))
  <2>1. InBody(t) /\ Step(t).op = "call"
    BY DEF CallInTask
  <2>2. QED
    BY <1>1, <2>1, StepIs
<1>3. Stacks(stack) /\ Run(t).job \in Names /\ Depth(t) # 0
  BY <1>2, InTask DEF Busy
<1>4. PICK p \in Names \union {NoJob} :
         p \in {NoJob, Run(t).job} /\ stack' = [stack EXCEPT ![t] = Append(@, NewFrame(c, p))]
  BY <1>1, <1>3 DEF CallInTask
<1>5. PICK f : f = NewFrame(c, p)
  OBVIOUS
<1>6. IsFrame(f)
  BY <1>2, <1>4, <1>5, NewFrameType
<1>7. stack' = [stack EXCEPT ![t] = Append(@, f)]
  BY <1>4, <1>5
<1>8. Pushes(stack, stack', t, f)
  BY <1>3, <1>6, <1>7, PushPushes
<1>9. pc' = [pc EXCEPT ![t] = "enqueue"] /\ UNCHANGED pool
  BY DEF CallInTask
<1>10. IInv'
  BY <1>2, <1>4, <1>5, <1>8, <1>9, CallStep
<1>11. Calling(t)
  BY <1>2, <1>3, <1>5, <1>8, <1>9 DEF Calling
<1>12. QED
  BY <1>3, <1>8, <1>10, <1>11, PushGrows

\* What goes when a call returns: its jobs are over.
Gone(t) == \A k \in Names : OfTop(stack, t, k) => At(stack, k) /\ Job(k).extent = 0 /\ Job(k).active = 0

\* What is known when a call returns.
LEMMA ReturnsOver ==
  ASSUME IInv, NEW t \in Threads, Return(t)
  PROVE  /\ Gone(t) /\ pc[t] = "loop" /\ Depth(t) \in Nat /\ Depth(t) > 0 /\ Depth(t) = Len(stack[t])
         /\ Depth(t) \in 1 .. Len(stack[t]) /\ Top(t).call # NoCall /\ Owned(t) # NoJob /\ CallFailed(t) \in BOOLEAN
         /\ stack[t][Len(stack[t])].run = NoRun /\ Stacks(stack) /\ PcOk(t) /\ Top(t) = stack[t][Len(stack[t])]
<1>1. pc[t] = "loop" /\ Owned(t) # NoJob /\ ~Running(Owned(t)) /\ Top(t).joining = Len(Top(t).jobs)
  BY DEF Return, Finished
<1>2. /\ Owned(t) \in Names /\ At(stack, Owned(t))
      /\ Owned(t)[1] = t /\ Owned(t)[2] = Depth(t) /\ Owned(t)[3] = Top(t).joining
      /\ Job(Owned(t)) = Top(t).jobs[Top(t).joining]
      /\ IsJob(Job(Owned(t)), Task(Owned(t))) /\ Job(Owned(t)).extent \in Nat /\ Job(Owned(t)).active \in Nat
      /\ Top(t).call # NoCall /\ JoinOk(Top(t)) /\ Top(t).joining \in JobsOf(Top(t).call)
  BY <1>1, OwnedJob
<1>3. Stacks(stack) /\ PcOk(t) /\ Depth(t) > 0
  BY <1>1, InLoop DEF Busy
<1>4. /\ Depth(t) \in Nat /\ Depth(t) = Len(stack[t]) /\ Depth(t) \in 1 .. Len(stack[t])
      /\ Top(t) = stack[t][Len(stack[t])] /\ IsFrame(Top(t))
  BY <1>3, TopIs
<1>5. stack[t][Len(stack[t])].run = NoRun
  BY <1>1, <1>3, NotWorking DEF Busy
<1>6. PICK f : f = Top(t)
  OBVIOUS
<1>7. f.call \in Calls /\ DOMAIN f.jobs = JobsOf(f.call) /\ f.failed \in BOOLEAN
  BY <1>2, <1>4, <1>6 DEF IsFrame
<1>8. JobsOf(f.call) = 1 .. Len(TasksOf[f.call]) /\ Len(TasksOf[f.call]) \in Nat
  BY <1>7, CallsTasks
<1>9. f.joining = Len(TasksOf[f.call])
  BY <1>1, <1>6, <1>7, <1>8
<1>10. \A i \in JobsOf(f.call) : f.jobs[i].extent = 0 /\ f.jobs[i].active = 0
  <2>1. TAKE i \in JobsOf(f.call)
  <2>2. CASE i = f.joining
    BY <1>1, <1>2, <1>6, <2>2 DEF Running
  <2>3. CASE i # f.joining
    <3>1. i < f.joining
      BY <1>8, <1>9, <2>3
    <3>2. QED
      BY <1>2, <1>6, <3>1 DEF JoinOk
  <2>4. QED
    BY <2>2, <2>3
<1>11. Gone(t)
  <2>1. SUFFICES ASSUME NEW k \in Names, OfTop(stack, t, k) PROVE At(stack, k) /\ Job(k).extent = 0 /\ Job(k).active = 0
    BY DEF Gone
  <2>2. k[1] = t /\ k[2] = Len(stack[t]) /\ k[3] \in JobsOf(f.call)
    BY <1>4, <1>6, <2>1 DEF OfTop
  <2>3. At(stack, k) /\ Job(k) = f.jobs[k[3]]
    BY <1>4, <1>6, <2>2 DEF At, Job, Frame
  <2>4. QED
    BY <1>10, <2>2, <2>3
<1>12. CallFailed(t) \in BOOLEAN
  <2>1. PICK v \in BOOLEAN : v = Job(Owned(t)).failed
    BY <1>2 DEF IsJob
  <2>2. QED
    BY <1>6, <1>7, <2>1 DEF CallFailed
<1>13. QED
  BY <1>1, <1>2, <1>3, <1>4, <1>5, <1>11, <1>12

WithRun(g, r) == [g EXCEPT !.run = r]
GoesOn(q, b) == [q EXCEPT !.step = @ + 1, !.failed = b]

\* The run of the task that made the call.
LEMMA GoesOnIs ==
  ASSUME NEW q \in RunType, NEW b \in BOOLEAN, NEW r, r = GoesOn(q, b)
  PROVE  r \in RunType /\ r.job = q.job /\ r.iters = q.iters /\ r.total = q.total /\ r.failed = b
<1>1. r = [job |-> q.job, iters |-> q.iters, total |-> q.total, step |-> q.step + 1, failed |-> b]
  BY DEF GoesOn, RunType
<1>2. QED
  BY <1>1 DEF RunType

\* The number before n.
LEMMA Predecessor ==
  ASSUME NEW n \in Nat, n > 0, NEW e, e = n - 1
  PROVE  /\ e \in Nat /\ n = e + 1
         /\ e # 0 => e \in 1 .. n /\ e \in 1 .. e /\ n # 1
  BY Z3

\* The stacks after a return.
AfterReturn(t, e) ==
    /\ Shorter(stack, stack', t)
    /\ e = Depth(t) - 1
    /\ e = 0 => pc' = [pc EXCEPT ![t] = "out"]
    /\ e # 0 => /\ stack'[t][e].run.job = stack[t][e].run.job
                /\ stack'[t][e].run.iters = stack[t][e].run.iters /\ stack'[t][e].run.total = stack[t][e].run.total
                /\ stack'[t][e].run.failed = CallFailed(t)
                /\ pc' = [pc EXCEPT ![t] = IF CallFailed(t) THEN "finish" ELSE "task"]

\* The stacks after a return.
LEMMA ReturnIs ==
  ASSUME IInv, NEW t \in Threads, Return(t), NEW e, e = Depth(t) - 1
  PROVE  AfterReturn(t, e)
<1>1. /\ Gone(t) /\ pc[t] = "loop" /\ Depth(t) \in Nat /\ Depth(t) > 0 /\ Depth(t) = Len(stack[t])
      /\ Depth(t) \in 1 .. Len(stack[t]) /\ CallFailed(t) \in BOOLEAN /\ Stacks(stack)
  BY ReturnsOver
<1>2. CASE e = 0
  <2>1. stack' = [stack EXCEPT ![t] = <<>>] /\ pc' = [pc EXCEPT ![t] = "out"]
    BY <1>1, <1>2 DEF Return
  <2>2. stack'[t] = <<>> /\ \A u \in Threads : u # t => stack'[u] = stack[u]
    BY <1>1, <2>1 DEF Stacks
  <2>3. stack' = [u \in Threads |-> stack'[u]]
    BY <1>1, <2>1 DEF Stacks
  <2>4. IsStack(stack'[t]) /\ Len(stack'[t]) = 0
    BY <2>2 DEF IsStack
  <2>5. Stacks(stack')
    BY <1>1, <2>2, <2>3, <2>4 DEF Stacks
  <2>6. Shorter(stack, stack', t)
    BY <1>1, <1>2, <2>2, <2>4, <2>5 DEF Shorter
  <2>7. QED
    BY <1>2, <2>1, <2>6 DEF AfterReturn
<1>3. CASE e # 0
  <2>1. e \in 1 .. Len(stack[t]) /\ e \in Nat /\ Depth(t) # 1
    <3>1. PICK n \in Nat : n = Depth(t)
      BY <1>1
    <3>2. n > 0 /\ n = Len(stack[t]) /\ e = n - 1
      BY <1>1, <3>1
    <3>3. e \in Nat /\ (e # 0 => e \in 1 .. n /\ n # 1)
      BY <3>1, <3>2, Predecessor
    <3>4. QED
      BY <1>3, <3>1, <3>2, <3>3
  <2>15. PICK q, b, back : q = stack[t][e].run /\ b = CallFailed(t) /\ back = [stack EXCEPT ![t] = Front(@)]
    OBVIOUS
  <2>16. PICK r : r = GoesOn(q, b)
    OBVIOUS
  <2>2. stack' = [back EXCEPT ![t][e].run = r] /\ pc' = [pc EXCEPT ![t] = IF b THEN "finish" ELSE "task"]
    BY <2>1, <2>15, <2>16 DEF Return, GoesOn
  <2>3. Pushes(back, stack, t, stack[t][Len(stack[t])]) /\ Stacks(back)
    BY <1>1, <2>15, PopPops
  <2>4. Len(back[t]) = e
    BY <1>1, <2>3 DEF Pushes, Stacks, IsStack
  <2>5. q \in RunType
    BY <1>1, <2>1, <2>15 DEF Stacks, IsStack, IsFrame
  <2>6. r \in RunType /\ r.job = q.job /\ r.iters = q.iters /\ r.total = q.total /\ r.failed = b
    BY <1>1, <2>15, <2>16, <2>5, GoesOnIs
  <2>7. PICK g, f : g = back[t][e] /\ f = WithRun(g, r)
    OBVIOUS
  <2>8. e \in 1 .. Len(back[t]) /\ IsFrame(g)
    BY <2>1, <2>3, <2>4, <2>7 DEF Stacks, IsStack
  <2>9. /\ IsFrame(f) /\ f.run = r /\ f.call = g.call /\ f.parent = g.parent /\ f.jobs = g.jobs
        /\ f.joining = g.joining /\ f.failed = g.failed
    BY <2>6, <2>7, <2>8 DEF IsFrame, WithRun
  <2>14. stack' = [back EXCEPT ![t][e] = f]
    BY <2>2, <2>7, Zenon DEF WithRun
  <2>13. Changed(back, stack', t, e, f)
    BY <2>3, <2>8, <2>9, <2>14, FrameChange
  <2>10. Shorter(stack, stack', t)
    <3>1. Stacks(stack') /\ Len(stack'[t]) = e /\ Len(stack[t]) = e + 1
      BY <1>1, <2>1, <2>4, <2>13 DEF Changed
    <3>2. ASSUME NEW u \in Threads, u # t PROVE stack'[u] = stack[u]
      BY <2>2, <2>13, <3>2, <1>1, <2>3 DEF Pushes, Stacks, Changed
    <3>3. ASSUME NEW d \in 1 .. e
          PROVE  /\ stack'[t][d].call = stack[t][d].call /\ stack'[t][d].parent = stack[t][d].parent
                 /\ stack'[t][d].joining = stack[t][d].joining /\ stack'[t][d].failed = stack[t][d].failed
                 /\ stack'[t][d].jobs = stack[t][d].jobs
                 /\ stack'[t][d].run.job = stack[t][d].run.job
                 /\ d # e => stack'[t][d].run = stack[t][d].run
      <4>1. back[t][d] = stack[t][d] /\ d \in 1 .. Len(back[t])
        BY <2>3, <2>4 DEF Pushes
      <4>2. CASE d = e
        <5>1. stack'[t][d] = f /\ g = stack[t][d] /\ q = g.run
          BY <2>15, <2>7, <2>13, <4>1, <4>2 DEF Changed
        <5>2. QED
          BY <2>6, <2>9, <4>2, <5>1
      <4>3. CASE d # e
        <5>1. stack'[t][d] = stack[t][d]
          BY <2>13, <4>1, <4>3 DEF Changed
        <5>2. QED
          BY <5>1
      <4>4. QED
        BY <4>2, <4>3
    <3>4. QED
      BY <1>1, <3>1, <3>2, <3>3 DEF Shorter
  <2>11. stack'[t][e].run = r
    BY <2>9, <2>13 DEF Changed
  <2>12. QED
    BY <1>3, <2>15, <2>2, <2>6, <2>10, <2>11 DEF AfterReturn
<1>4. QED
  BY <1>2, <1>3

\* The jobs that are there after a return remain.
LEMMA PopRemains ==
  ASSUME NEW t \in Threads, Shorter(stack, stack', t), NEW j \in Names, At(stack, j)'
  PROVE  Remains(j) /\ ~OfTop(stack, t, j)
<1>1. At(stack, j) /\ JobAt(stack', j) = JobAt(stack, j) /\ stack'[j[1]][j[2]].call = stack[j[1]][j[2]].call /\ ~OfTop(stack, t, j)
  BY ShorterPlaces
<1>2. Task(j)' = Task(j)
  BY <1>1 DEF Task, Frame
<1>3. QED
  BY <1>1, <1>2, JobIs DEF Remains, Serial

\* The jobs of a call that returns are in no queue, and nobody works on them.
LEMMA GoneAreForgotten ==
  ASSUME IInv, NEW t \in Threads, Gone(t), NEW k \in Names, OfTop(stack, t, k)
  PROVE  /\ k \notin Range(queue) /\ \A u \in Threads : \A d \in 1 .. Len(stack[u]) : stack[u][d].run.job # k
<1>1. At(stack, k) /\ Job(k).extent = 0 /\ Job(k).active = 0 /\ Stacks(stack)
  BY DEF Gone, IInv, Locals
<1>2. k \notin Range(queue)
  BY <1>1 DEF IInv, QueueInv, Waits
<1>3. ASSUME NEW u \in Threads, NEW d \in 1 .. Len(stack[u]), stack[u][d].run.job = k PROVE FALSE
  <2>1. <<u, d>> \in RunsOf(k)
    BY <1>3, RunsAre DEF Depth
  <2>2. Cardinality(RunsOf(k)) >= 1
    BY <1>1, <2>1, RunsCounted
  <2>3. Job(k).active = Cardinality(RunsOf(k))
    BY <1>1 DEF IInv, ActiveInv
  <2>4. QED
    BY <1>1, <2>2, <2>3
<1>4. QED
  BY <1>2, <1>3

\* A call returns.
LEMMA ReturnStep ==
  ASSUME IInv, NEW t \in Threads, Return(t)
  PROVE  IInv'
<1>1. /\ Stacks(stack) /\ ScanInv /\ ShutInv /\ pc \in [Threads -> Pcs] /\ target \in Nat /\ shutdown \in BOOLEAN
      /\ desired \in NumThreads \union {DefaultThreads} /\ queue \in Seq(Names) /\ Len(queue) \in Nat
  BY PartsOf
<1>2. /\ Gone(t) /\ pc[t] = "loop" /\ Depth(t) \in Nat /\ Depth(t) > 0 /\ Depth(t) = Len(stack[t])
      /\ Depth(t) \in 1 .. Len(stack[t]) /\ Top(t).call # NoCall /\ CallFailed(t) \in BOOLEAN
      /\ stack[t][Len(stack[t])].run = NoRun /\ PcOk(t) /\ Top(t) = stack[t][Len(stack[t])]
  BY ReturnsOver
<1>3. PICK e : e = Depth(t) - 1
  OBVIOUS
<1>4. /\ Shorter(stack, stack', t)
      /\ e = 0 => pc' = [pc EXCEPT ![t] = "out"]
      /\ e # 0 => /\ stack'[t][e].run.job = stack[t][e].run.job
                  /\ stack'[t][e].run.iters = stack[t][e].run.iters /\ stack'[t][e].run.total = stack[t][e].run.total
                  /\ stack'[t][e].run.failed = CallFailed(t)
                  /\ pc' = [pc EXCEPT ![t] = IF CallFailed(t) THEN "finish" ELSE "task"]
  BY <1>3, ReturnIs DEF AfterReturn
<1>5. UNCHANGED pool
  BY DEF Return
<1>6. /\ Stacks(stack') /\ Depth(t)' = e /\ e \in Nat /\ Len(stack'[t]) = e
      /\ \A u \in Threads : u # t => Depth(u)' = Depth(u) /\ stack'[u] = stack[u]
  <2>1. e \in Nat
    <3>1. PICK n \in Nat : n = Depth(t)
      BY <1>2
    <3>2. n > 0
      BY <1>2, <3>1
    <3>3. QED
      BY <1>3, <3>1, <3>2
  <2>2. Len(stack[t]) = Len(stack'[t]) + 1 /\ Stacks(stack') /\ \A u \in Threads : u # t => stack'[u] = stack[u]
    BY <1>4 DEF Shorter
  <2>3. Len(stack'[t]) \in Nat
    BY <2>2 DEF Stacks, IsStack
  <2>4. PICK n \in Nat, m \in Nat : n = Len(stack[t]) /\ m = Len(stack'[t]) /\ n = m + 1 /\ e = n - 1
    BY <1>2, <1>3, <2>2, <2>3
  <2>5. QED
    BY <2>1, <2>2, <2>4 DEF Depth
<1>7. PICK v \in {"out", "finish", "task"} :
        /\ pc' = [pc EXCEPT ![t] = v] /\ (v = "out" <=> e = 0) /\ (v = "finish" => e # 0 /\ stack'[t][e].run.failed)
  <2>1. CASE e = 0
    BY <1>4, <2>1
  <2>2. CASE e # 0
    <3>1. CASE CallFailed(t)
      BY <1>4, <2>2, <3>1
    <3>2. CASE ~CallFailed(t)
      BY <1>4, <2>2, <3>2
    <3>3. QED
      BY <3>1, <3>2
  <2>3. QED
    BY <2>1, <2>2
<1>8. Others(t) /\ pc'[t] = v /\ \A u \in Threads : u # t => pc'[u] = pc[u]
  <2>1. v \in Pcs
    BY DEF Pcs
  <2>2. QED
    BY <1>1, <1>7, <2>1, OneMoves
<1>9. \A j \in Names : At(stack, j)' => Remains(j) /\ ~OfTop(stack, t, j)
  BY <1>4, PopRemains
<1>10. \A j \in Names : At(stack, j) /\ ~OfTop(stack, t, j) => At(stack, j)'
  BY <1>4, ShorterPlaces
<1>11. \A k \in Names : OfTop(stack, t, k) =>
          k \notin Range(queue) /\ \A u \in Threads : \A d \in 1 .. Len(stack[u]) : stack[u][d].run.job # k
  BY <1>2, GoneAreForgotten
<1>12. \A d \in 1 .. e : /\ stack'[t][d].call = stack[t][d].call /\ stack'[t][d].parent = stack[t][d].parent
                         /\ stack'[t][d].joining = stack[t][d].joining /\ stack'[t][d].failed = stack[t][d].failed
                         /\ stack'[t][d].jobs = stack[t][d].jobs
                         /\ stack'[t][d].run.job = stack[t][d].run.job
                         /\ d # e => stack'[t][d].run = stack[t][d].run
  BY <1>4, <1>6 DEF Shorter
<1>13. \A u \in Threads : \A d \in 1 .. Depth(u)' : d \in 1 .. Depth(u) /\ (u = t => d < Depth(t) /\ d \in 1 .. e)
  <2>1. PICK n \in Nat : n = Depth(t) /\ e = n - 1
    BY <1>2, <1>3
  <2>2. QED
    BY <1>6, <2>1
<1>14. NestOk(t, Depth(t))
  BY <1>2 DEF IInv, NestInv
<1>15. e # 0 => e \in 1 .. e /\ stack'[t][e].run.job # NoJob /\ Top(t)' = stack'[t][e]
  <2>1. SUFFICES ASSUME e # 0 PROVE e \in 1 .. e /\ stack'[t][e].run.job # NoJob /\ Top(t)' = stack'[t][e]
    OBVIOUS
  <2>2. Depth(t) # 1 /\ Depth(t) - 1 = e /\ e \in 1 .. e
    <3>1. PICK n \in Nat : n = Depth(t) /\ n > 0 /\ e = n - 1
      BY <1>2, <1>3
    <3>2. e # 0 => e \in 1 .. e /\ n # 1
      BY <3>1, Predecessor
    <3>3. QED
      BY <2>1, <3>1, <3>2
  <2>3. stack[t][e].run.job # NoJob
    BY <1>14, <2>2 DEF NestOk
  <2>4. QED
    BY <1>6, <1>12, <2>2, <2>3 DEF Top
<1>16. Locals'
  BY <1>1, <1>5, <1>6, <1>8 DEF Locals, Others, pool
<1>17. PcInv'
  <2>1. PcOk(t)'
    <3>1. CASE e = 0
      <4>1. t \in Clients
        <5>1. Depth(t) = 1 /\ stack[t][1].call # NoCall
          BY <1>2, <1>3, <3>1
        <5>2. t \notin Workers
          BY <1>14, <5>1 DEF NestOk
        <5>3. QED
          BY <5>2 DEF Threads
      <4>2. QED
        BY <1>6, <1>7, <1>8, <3>1, <4>1 DEF PcOk, Busy
    <3>2. CASE e # 0
      BY <1>6, <1>7, <1>8, <1>15, <3>2 DEF PcOk, Busy
    <3>3. QED
      BY <3>1, <3>2
  <2>2. ASSUME NEW u \in Threads, u # t PROVE PcOk(u)'
    <3>1. PcOk(u) /\ pc'[u] = pc[u] /\ Depth(u)' = Depth(u) /\ stack'[u] = stack[u] /\ Top(u)' = Top(u)
      BY <1>6, <1>8, <2>2 DEF IInv, PcInv, Top
    <3>2. pc[u] = "claim" => Task(Top(u).run.job)' = Task(Top(u).run.job)
      <4>1. SUFFICES ASSUME pc[u] = "claim" PROVE Task(Top(u).run.job)' = Task(Top(u).run.job)
        OBVIOUS
      <4>2. PICK k \in Names : k = Top(u).run.job /\ At(stack, k) /\ Depth(u) > 0
        BY <4>1, Working DEF Busy
      <4>3. Depth(u) \in 1 .. Len(stack[u]) /\ stack[u][Depth(u)].run.job = k
        BY <1>1, <4>2, TopIs DEF Top
      <4>4. ~OfTop(stack, t, k)
        BY <1>11, <4>2, <4>3
      <4>5. Task(k)' = Task(k)
        BY <1>9, <1>10, <4>2, <4>4 DEF Remains
      <4>6. Top(u)'.run.job = k
        BY <3>1, <4>2
      <4>7. QED
        BY <4>2, <4>5, <4>6
    <3>3. QED
      BY <3>1, <3>2 DEF PcOk
  <2>3. QED
    BY <2>1, <2>2 DEF PcInv
<1>18. \A u \in Threads : \A d \in 1 .. Depth(u)' :
          /\ stack'[u][d].call = stack[u][d].call /\ stack'[u][d].parent = stack[u][d].parent
          /\ stack'[u][d].joining = stack[u][d].joining /\ stack'[u][d].failed = stack[u][d].failed
          /\ stack'[u][d].jobs = stack[u][d].jobs /\ stack'[u][d].run.job = stack[u][d].run.job
  BY <1>6, <1>12, <1>13
<1>19. NestInv'
  <2>1. SUFFICES ASSUME NEW u \in Threads, NEW d \in 1 .. Depth(u)' PROVE NestOk(u, d)'
    BY DEF NestInv
  <2>2. d \in 1 .. Depth(u) /\ NestOk(u, d)
    BY <1>13 DEF IInv, NestInv
  <2>3. CASE d = 1
    BY <1>18, <2>2, <2>3 DEF NestOk
  <2>4. CASE d # 1
    <3>1. d - 1 \in 1 .. Depth(u)'
      <4>1. PICK n \in Nat : n = Depth(u)'
        BY <1>6 DEF Stacks, IsStack, Depth
      <4>2. d \in 1 .. n /\ d # 1
        BY <2>1, <2>4, <4>1
      <4>3. d - 1 \in 1 .. n
        BY <4>2
      <4>4. QED
        BY <4>1, <4>3
    <3>2. QED
      BY <1>18, <2>2, <2>4, <3>1 DEF NestOk
  <2>5. QED
    BY <2>3, <2>4
<1>20. RunInv'
  <2>1. SUFFICES ASSUME NEW u \in Threads, NEW d \in 1 .. Depth(u)' PROVE RunOk(u, d)'
    BY DEF RunInv
  <2>2. d \in 1 .. Depth(u) /\ RunOk(u, d) /\ (u = t => d < Depth(t) /\ d \in 1 .. e)
    BY <1>13 DEF IInv, RunInv
  <2>3. PICK q, r : q = stack[u][d].run /\ r = stack'[u][d].run
    OBVIOUS
  <2>4. r.job = q.job /\ (~(u = t /\ d = e) => r = q)
    BY <1>6, <1>12, <1>18, <2>2, <2>3
  <2>5. CASE q.job = NoJob
    <3>1. ~(u = t /\ d = e)
      BY <1>15, <1>18, <2>2, <2>3, <2>5
    <3>2. QED
      BY <2>2, <2>3, <2>4, <2>5, <3>1 DEF RunOk
  <2>6. CASE q.job # NoJob
    <3>1. PICK k \in Names : k = q.job /\ At(stack, k)
      BY <2>2, <2>3, <2>6 DEF RunOk, At
    <3>2. d \in 1 .. Len(stack[u])
      BY <2>2 DEF Depth
    <3>3. ~OfTop(stack, t, k)
      BY <1>11, <2>3, <3>1, <3>2
    <3>4. At(stack, k)' /\ Job(k)' = Job(k) /\ (Serial(k)' <=> Serial(k))
      BY <1>9, <1>10, <3>1, <3>3 DEF Remains
    <3>5. r.iters = q.iters /\ r.total = q.total
      BY <1>4, <1>6, <1>15, <2>1, <2>2, <2>3, <2>4
    <3>6. IF Serial(k) THEN q.iters + q.total <= Job(k).extent ELSE q.iters + q.total = 1
      BY <2>2, <2>3, <2>6, <3>1 DEF RunOk
    <3>7. d < Depth(u)' \/ pc'[u] \in {"task", "wake"} => r.iters >= 1
      <4>1. CASE u = t
        BY <2>2, <2>3, <2>6, <3>5, <4>1 DEF RunOk
      <4>2. CASE u # t
        BY <1>6, <1>8, <2>2, <2>3, <2>6, <3>5, <4>2 DEF RunOk
      <4>3. QED
        BY <4>1, <4>2
    <3>8. pc'[u] = "finish" /\ d = Depth(u)' /\ ~r.failed => r.iters = 0
      <4>1. CASE u = t
        BY <1>6, <1>7, <1>8, <2>3, <4>1
      <4>2. CASE u # t
        BY <1>6, <1>8, <2>2, <2>3, <2>4, <2>6, <4>2 DEF RunOk
      <4>3. QED
        BY <4>1, <4>2
    <3>9. QED
      BY <2>3, <2>4, <2>6, <3>1, <3>4, <3>5, <3>6, <3>7, <3>8 DEF RunOk
  <2>7. QED
    BY <2>5, <2>6
<1>21. /\ \A j : RunsIn(stack', j) = RunsIn(stack, j) /\ NeedsIn(stack', j) = NeedsIn(stack, j)
  <2>1. stack[t][Len(stack[t])].run.job = NoJob
    BY <1>2 DEF NoRun
  <2>2. \A f \in WorksIn(stack) : JobIn(stack, f) \in Names /\ At(stack', JobIn(stack, f))
    <3>1. TAKE f \in WorksIn(stack)
    <3>2. PICK k \in Names : k = JobIn(stack, f) /\ At(stack, k)
      BY WorkIsThere DEF IInv
    <3>3. ~OfTop(stack, t, k)
      BY <1>11, <3>2 DEF WorksIn, JobIn
    <3>4. QED
      BY <1>10, <3>2, <3>3
  <2>3. QED
    BY <1>4, <2>1, <2>2, ShorterWork
<1>22. \A j \in Names : RunsOf(j)' = RunsOf(j)
  <2>1. TAKE j \in Names
  <2>2. j # NoJob
    BY NullAssumption DEF Names
  <2>3. QED
    BY <1>1, <1>6, <1>21, <2>2, RunsIsIn, RunsIsInNext
<1>23. \A j : NeedsBelow(j)' = NeedsBelow(j)
  BY <1>1, <1>6, <1>21, NeedsIsIn, NeedsIsInNext
<1>24. ActiveInv'
  <2>1. SUFFICES ASSUME NEW j \in Names, At(stack, j)'
                 PROVE  Job(j)'.active = Cardinality(RunsOf(j))' /\ (Serial(j)' => Job(j)'.active <= 1)
    BY DEF ActiveInv
  <2>2. Job(j).active = Cardinality(RunsOf(j)) /\ (Serial(j) => Job(j).active <= 1)
    BY <1>9, <2>1 DEF IInv, ActiveInv, Remains
  <2>3. Cardinality(RunsOf(j))' = Cardinality(RunsOf(j))
    BY <1>22
  <2>4. QED
    BY <1>9, <2>1, <2>2, <2>3 DEF Remains
<1>25. BalanceInv'
  BY <1>5, <1>9, <1>23 DEF IInv, BalanceInv, Remains, pool
<1>26. AccountInv'
  BY <1>9 DEF IInv, AccountInv, Remains
<1>27. JoinInv'
  <2>1. SUFFICES ASSUME NEW u \in Threads, NEW d \in 1 .. Depth(u)' PROVE JoinOk(stack'[u][d])
    BY DEF JoinInv
  <2>2. JoinOk(stack[u][d])
    BY <1>13 DEF IInv, JoinInv
  <2>3. PICK f, g : f = stack[u][d] /\ g = stack'[u][d]
    OBVIOUS
  <2>4. g.call = f.call /\ g.joining = f.joining /\ g.failed = f.failed /\ g.jobs = f.jobs
    BY <1>18, <2>3
  <2>5. QED
    BY <2>2, <2>3, <2>4 DEF JoinOk
<1>28. \A j \in Names : At(stack, j)' => (Enqueued(j)' <=> Enqueued(j))
  <2>1. SUFFICES ASSUME NEW j \in Names, At(stack, j)' PROVE Enqueued(j)' <=> Enqueued(j)
    OBVIOUS
  <2>2. j[1] \in Threads
    BY <2>1, Places
  <2>3. CASE j[1] = t
    BY <1>2, <1>7, <1>8, <2>3 DEF Enqueued
  <2>4. CASE j[1] # t
    BY <1>6, <1>8, <2>2, <2>4 DEF Enqueued
  <2>5. QED
    BY <2>3, <2>4
<1>29. FreshInv'
  BY <1>9, <1>28 DEF IInv, FreshInv, Remains
<1>30. QueueInv'
  <2>1. QueueInv /\ queue' = queue
    BY <1>5 DEF IInv, pool
  <2>2. \A i \in DOMAIN queue' : At(stack', queue'[i])
    <3>1. TAKE i \in DOMAIN queue'
    <3>2. PICK k \in Names : k = queue'[i] /\ At(stack, k) /\ k \in Range(queue)
      BY <2>1 DEF QueueInv, Range
    <3>3. At(stack', k)
      BY <1>10, <1>11, <3>2
    <3>4. QED
      BY <3>2, <3>3
  <2>3. ASSUME NEW j \in Names, At(stack, j)' PROVE j \in Range(queue') <=> Waits(j)'
    <3>1. Waits(j)' <=> Waits(j)
      BY <1>9, <1>28, <2>3 DEF Waits, Remains
    <3>2. QED
      BY <1>9, <2>1, <2>3, <3>1 DEF QueueInv, Remains
  <2>4. QED
    BY <2>1, <2>2, <2>3 DEF QueueInv
<1>31. ShutInv'
  BY <1>1, <1>2, <1>5, <1>7, <1>8, ShutStays DEF pool
<1>32. ScanInv'
  <2>1. cursor' \in 1 .. Len(queue') + 1 /\ cursor' = cursor /\ pc[t] # "scan"
    BY <1>1, <1>2, <1>5 DEF ScanInv, pool
  <2>2. QED
    BY <1>1, <1>7, <1>8, <2>1, ScanStays DEF Locked
<1>33. QED
  BY <1>16, <1>17, <1>19, <1>20, <1>24, <1>25, <1>26, <1>27, <1>29, <1>30, <1>31, <1>32 DEF IInv

-----------------------------------------------------------------------------
(* A call is entered in the queue, and threads are created *)

\* New workers begin with a frame that has no jobs; the others stay where they are.
Spawned(s, z, new) ==
    /\ Stacks(s) /\ Stacks(z) /\ new \in SUBSET Workers
    /\ \A w \in new : Len(s[w]) = 0 /\ Len(z[w]) = 1 /\ z[w][1] = WorkerFrame
    /\ \A u \in Threads : u \notin new => z[u] = s[u]

\* The frame that a new worker begins with.
LEMMA WorkerFrameType == IsFrame(WorkerFrame) /\ IsStack(<<WorkerFrame>>) /\ Len(<<WorkerFrame>>) = 1
<1>1. PICK f, r, e : f = WorkerFrame /\ r = NoRun /\ e = <<>>
  OBVIOUS
<1>2. r \in RunType
  BY <1>1 DEF NoRun, RunType
<1>3. f = [call |-> NoCall, parent |-> NoJob, joining |-> 0, failed |-> FALSE, run |-> r, jobs |-> e, semaphore |-> e]
  BY <1>1 DEF WorkerFrame
<1>4. f.call = NoCall /\ f.jobs = e /\ f.semaphore = e
  BY <1>3
<1>5. JobsOf(f.call) = {} /\ f.jobs = [i \in JobsOf(f.call) |-> f.jobs[i]]
  BY <1>1, <1>4 DEF JobsOf
<1>6. IsFrame(f)
  <2>1. f \in [call : Calls \union {NoCall}, parent : Names \union {NoJob}, joining : Nat,
               failed : BOOLEAN, run : RunType, jobs : {e}, semaphore : {e}]
    BY <1>2, <1>3
  <2>2. QED
    BY <1>4, <1>5, <2>1 DEF IsFrame
<1>7. IsStack(<<f>>) /\ Len(<<f>>) = 1
  BY <1>6 DEF IsStack
<1>8. QED
  BY <1>1, <1>6, <1>7

\* The jobs of the others are where they were.
LEMMA SpawnedPlaces ==
  ASSUME NEW s, NEW z, NEW new, Spawned(s, z, new), NEW j \in Names
  PROVE  /\ At(s, j) <=> At(z, j)
         /\ At(s, j) => j[1] \notin new /\ z[j[1]] = s[j[1]] /\ JobAt(z, j) = JobAt(s, j)
<1>1. j[1] \in Threads
  BY DEF Names
<1>2. CASE j[1] \in new
  <2>1. ~At(s, j)
    BY <1>2 DEF Spawned, At
  <2>2. ~At(z, j)
    <3>1. SUFFICES ASSUME At(z, j) PROVE FALSE
      OBVIOUS
    <3>2. j[2] \in 1 .. 1 /\ j[3] \in JobsOf(z[j[1]][j[2]].call)
      BY <1>2, <3>1 DEF Spawned, At
    <3>3. j[3] \in JobsOf(WorkerFrame.call)
      BY <1>2, <3>2 DEF Spawned
    <3>4. QED
      BY <3>3 DEF JobsOf, WorkerFrame
  <2>3. QED
    BY <2>1, <2>2
<1>3. CASE j[1] \notin new
  <2>1. z[j[1]] = s[j[1]]
    BY <1>1, <1>3 DEF Spawned
  <2>2. QED
    BY <1>3, <2>1 DEF At, JobAt
<1>4. QED
  BY <1>2, <1>3

\* The jobs of the others are where they were.
LEMMA SpawnedRemains ==
  ASSUME NEW new, Spawned(stack, stack', new), NEW j \in Names, At(stack, j)
  PROVE  Remains(j)
<1>1. At(stack', j) /\ JobAt(stack', j) = JobAt(stack, j) /\ stack'[j[1]] = stack[j[1]]
  BY SpawnedPlaces
<1>2. Task(j)' = Task(j)
  BY <1>1 DEF Task, Frame
<1>3. QED
  BY <1>1, <1>2, JobIs DEF Remains, Serial

\* Nobody begins to work, and nobody stops.
LEMMA SpawnedWork ==
  ASSUME RunInv, NEW new, Spawned(stack, stack', new)
  PROVE  /\ \A j \in Names : RunsOf(j)' = RunsOf(j)
         /\ \A j : NeedsBelow(j)' = NeedsBelow(j)
<1>1. Stacks(stack) /\ Stacks(stack')
  BY DEF Spawned
<1>2. ASSUME NEW f PROVE f \in WorksIn(stack') <=> f \in WorksIn(stack)
  <2>1. SUFFICES ASSUME f \in Threads \X Nat PROVE f \in WorksIn(stack') <=> f \in WorksIn(stack)
    BY DEF WorksIn
  <2>2. PICK u \in Threads, d \in Nat : u = f[1] /\ d = f[2]
    BY <2>1
  <2>3. CASE u \in new
    <3>1. f \notin WorksIn(stack)
      BY <2>2, <2>3 DEF WorksIn, Spawned
    <3>2. f \notin WorksIn(stack')
      <4>1. SUFFICES ASSUME f \in WorksIn(stack') PROVE FALSE
        OBVIOUS
      <4>2. d = 1 /\ stack'[u][d].run.job # NoJob
        BY <2>2, <2>3, <4>1 DEF WorksIn, Spawned
      <4>3. stack'[u][d] = WorkerFrame
        BY <2>3, <4>2 DEF Spawned
      <4>4. QED
        BY <4>2, <4>3 DEF WorkerFrame, NoRun
    <3>3. QED
      BY <3>1, <3>2
  <2>4. CASE u \notin new
    <3>1. stack'[u] = stack[u]
      BY <2>4 DEF Spawned
    <3>2. QED
      BY <2>1, <2>2, <3>1 DEF WorksIn
  <2>5. QED
    BY <2>3, <2>4
<1>3. WorksIn(stack') = WorksIn(stack)
  BY <1>2
<1>4. WorkKept(stack, stack')
  <2>1. SUFFICES ASSUME NEW f \in WorksIn(stack)
                 PROVE  /\ JobIn(stack', f) = JobIn(stack, f)
                        /\ ParentIn(stack', JobIn(stack, f)) = ParentIn(stack, JobIn(stack, f))
                        /\ NeedIn(stack', JobIn(stack, f)) = NeedIn(stack, JobIn(stack, f))
    BY DEF WorkKept
  <2>2. PICK k \in Names : k = JobIn(stack, f) /\ At(stack, k)
    BY WorkIsThere
  <2>3. stack'[k[1]] = stack[k[1]]
    BY <2>2, SpawnedPlaces
  <2>4. f[1] \in Threads /\ f[1] \notin new
    BY DEF WorksIn, Spawned
  <2>5. stack'[f[1]] = stack[f[1]]
    BY <2>4 DEF Spawned
  <2>6. QED
    BY <2>2, <2>3, <2>5 DEF JobIn, ParentIn, NeedIn
<1>5. ASSUME NEW j \in Names PROVE RunsOf(j)' = RunsOf(j)
  <2>1. j # NoJob
    BY NullAssumption DEF Names
  <2>2. QED
    BY <1>1, <1>3, <1>4, <2>1, RunsSame, RunsIsIn, RunsIsInNext
<1>6. ASSUME NEW j PROVE NeedsBelow(j)' = NeedsBelow(j)
  BY <1>1, <1>3, <1>4, NeedsSame, NeedsIsIn, NeedsIsInNext
<1>7. QED
  BY <1>5, <1>6

\* The size of the A team is a number.
LEMMA NewTargetType ==
  ASSUME NEW c \in Calls, NEW n \in Nat
  PROVE  NewTarget(c, n) \in Nat
<1>1. PICK f : f = [i \in DOMAIN TasksOf[c] |-> [k \in Tasks |-> IF Loop[k] = "serial" THEN 1 ELSE Extent[k]][TasksOf[c][i]]]
  OBVIOUS
<1>2. JobsOf(c) = 1 .. Len(TasksOf[c]) /\ Len(TasksOf[c]) \in Nat /\ Len(TasksOf[c]) >= 1
  BY CallsTasks
<1>3. c # NoCall /\ JobsOf(c) = DOMAIN TasksOf[c]
  BY NullAssumption DEF JobsOf
<1>4. DOMAIN f = 1 .. Len(TasksOf[c])
  BY <1>1, <1>2, <1>3
<1>5. ASSUME NEW i \in DOMAIN f PROVE f[i] \in Nat /\ f[i] >= 1
  <2>1. i \in JobsOf(c)
    BY <1>2, <1>4
  <2>2. TasksOf[c][i] \in Tasks /\ Extent[TasksOf[c][i]] \in Nat /\ Extent[TasksOf[c][i]] >= 1
    BY <2>1, TasksType
  <2>3. f[i] = IF Loop[TasksOf[c][i]] = "serial" THEN 1 ELSE Extent[TasksOf[c][i]]
    BY <1>1, <2>2
  <2>4. QED
    BY <2>2, <2>3
<1>6. IsCount(f)
  <2>1. IsFiniteSet(1 .. Len(TasksOf[c]))
    BY <1>2, FS_Interval
  <2>2. QED
    BY <1>4, <1>5, <2>1 DEF IsCount
<1>7. 1 \in DOMAIN f /\ f[1] >= 1
  BY <1>2, <1>4, <1>5
<1>8. PICK m \in Nat : m = Total(f) /\ m >= 1
  BY <1>6, <1>7, TotalType, TotalPositive
<1>9. WorkersToWake(c) = m - 1
  BY <1>1, <1>8 DEF WorkersToWake, OverTasks
<1>10. PICK w \in Nat : w = WorkersToWake(c)
  BY <1>8, <1>9
<1>11. QED
  BY <1>10 DEF NewTarget

PlacesOf(t, d, n) == [i \in 1 .. n |-> <<t, d, i>>]

ArePlacesOf(a, t, d, n) ==
    /\ a \in Seq(Names) /\ IsInjective(a) /\ DOMAIN a = 1 .. n /\ Len(a) = n
    /\ \A j \in Names : j \in Range(a) <=> j[1] = t /\ j[2] = d /\ j[3] \in 1 .. n

\* The jobs of a call, as they are entered in the queue.
LEMMA EnqueuedJobs ==
  ASSUME NEW t \in Threads, NEW d \in Nat, NEW n \in Nat, NEW a, a = PlacesOf(t, d, n)
  PROVE  ArePlacesOf(a, t, d, n)
<1>1. \A i \in 1 .. n : a[i] = <<t, d, i>> /\ a[i] \in Names
  BY DEF Names, PlacesOf
<1>2. DOMAIN a = 1 .. n /\ a = [i \in 1 .. n |-> a[i]]
  BY DEF PlacesOf
<1>3. a \in [1 .. n -> Names]
  BY <1>1, <1>2
<1>4. a \in Seq(Names) /\ Len(a) = n
  BY <1>3
<1>5. IsInjective(a)
  BY <1>1, <1>2 DEF IsInjective
<1>6. ASSUME NEW j \in Names PROVE j \in Range(a) <=> j[1] = t /\ j[2] = d /\ j[3] \in 1 .. n
  <2>1. j \in Range(a) <=> \E i \in 1 .. n : j = <<t, d, i>>
    BY <1>1, <1>2 DEF Range
  <2>2. j = <<j[1], j[2], j[3]>>
    BY DEF Names
  <2>3. QED
    BY <2>1, <2>2
<1>7. QED
  BY <1>2, <1>4, <1>5, <1>6 DEF ArePlacesOf

\* What a call that is entered in the queue does.
Enters(t, new) ==
    /\ pc[t] = "enqueue" /\ LockFree /\ Spawned(stack, stack', new) /\ t \notin new
    /\ pc' \in [Threads -> Pcs] /\ pc'[t] = "loop" /\ \A w \in new : pc[w] = "off" /\ pc'[w] = "start"
    /\ \A u \in Threads : u # t /\ u \notin new => pc'[u] = pc[u] \/ (pc[u] \in Sleeping /\ pc'[u] \in Awakened)
    /\ target' \in Nat /\ UNCHANGED <<reserved, desired, shutdown, cursor>>
    /\ Top(t).call \in Calls /\ Depth(t) \in Nat /\ Depth(t) > 0
    /\ Push(t, Top(t).call)

\* What a call that is entered in the queue does.
LEMMA EnqueueEnters ==
  ASSUME IInv, NEW t \in Threads, NEW new \in SUBSET (Workers \ Created), Enqueue(t, new),
         ~OverCommits(Top(t).call, Top(t).parent)
  PROVE  Enters(t, new)
<1>1. /\ Stacks(stack) /\ ScanInv /\ ShutInv /\ pc \in [Threads -> Pcs] /\ target \in Nat /\ shutdown \in BOOLEAN
      /\ desired \in NumThreads \union {DefaultThreads} /\ queue \in Seq(Names) /\ Len(queue) \in Nat
  BY PartsOf
<1>2. PICK c : c = Top(t).call
  OBVIOUS
<1>3. /\ pc[t] = "enqueue" /\ LockFree
      /\ target' = NewTarget(c, threadsCreated + Cardinality(new)) /\ Push(t, c)
      /\ pc' = [u \in Threads |-> IF u \in new THEN "start" ELSE IF u = t THEN "loop"
                                  ELSE Broadcast(pc, WokenBy(c, aTeamSize + Cardinality(new)))[u]]
      /\ stack' = [u \in Threads |-> IF u \in new THEN <<WorkerFrame>> ELSE stack[u]]
      /\ UNCHANGED <<reserved, desired, shutdown, cursor>>
  BY <1>2 DEF Enqueue
<1>4. PcOk(t) /\ Depth(t) \in Nat /\ Depth(t) > 0
  BY <1>3, InLoop DEF Busy
<1>5. c \in Calls
  <2>1. IsFrame(Top(t))
    BY <1>1, <1>4, TopIs
  <2>2. c # NoCall /\ c \in Calls \union {NoCall}
    BY <1>2, <1>3, <1>4, <2>1 DEF PcOk, IsFrame
  <2>3. QED
    BY <2>2
<1>6. new \subseteq Workers /\ Workers \subseteq Threads /\ \A w \in new : pc[w] = "off"
  BY DEF Created, Threads
<1>7. t \notin new
  BY <1>3, <1>6
<1>8. target' \in Nat
  <2>1. IsFiniteSet(new) /\ IsFiniteSet(Created)
    <3>1. new \subseteq Threads /\ Created \subseteq Threads
      BY <1>6 DEF Created
    <3>2. QED
      BY <3>1, ThreadsAssumption, FS_Subset
  <2>2. PICK m \in Nat : m = threadsCreated + Cardinality(new)
    BY <2>1, FS_CardinalityType DEF threadsCreated
  <2>3. QED
    BY <1>3, <1>5, <2>2, NewTargetType
<1>9. /\ \A w \in new : stack'[w] = <<WorkerFrame>>
      /\ \A u \in Threads : u \notin new => stack'[u] = stack[u]
      /\ stack' = [u \in Threads |-> stack'[u]]
  BY <1>3, <1>6
<1>10. Spawned(stack, stack', new)
  <2>1. ASSUME NEW w \in new PROVE Len(stack[w]) = 0
    <3>1. w \in Threads /\ pc[w] = "off"
      BY <1>6
    <3>2. QED
      BY <3>1 DEF IInv, PcInv, PcOk, Depth
  <2>2. ASSUME NEW u \in Threads PROVE IsStack(stack'[u])
    BY <1>1, <1>9, WorkerFrameType DEF Stacks
  <2>3. ASSUME NEW w \in new PROVE Len(stack'[w]) = 1 /\ stack'[w][1] = WorkerFrame
    BY <1>9
  <2>4. QED
    BY <1>1, <1>6, <1>9, <2>1, <2>2, <2>3 DEF Spawned, Stacks
<1>11. PICK reasons : reasons = WokenBy(c, aTeamSize + Cardinality(new)) /\ reasons \in SUBSET Sleeping
  <2>1. WokenBy(c, aTeamSize + Cardinality(new)) \in SUBSET Sleeping
    BY DEF WokenBy, Sleeping
  <2>2. QED
    BY <2>1
<1>12. /\ \A u \in Threads : u # t /\ u \notin new => pc'[u] = IF pc[u] \in reasons THEN Awaken[pc[u]] ELSE pc[u]
       /\ pc'[t] = "loop" /\ \A w \in new : pc'[w] = "start"
       /\ pc' = [u \in Threads |-> pc'[u]]
  <2>1. PICK p : p = Broadcast(pc, reasons)
    OBVIOUS
  <2>2. \A u \in Threads : p[u] = IF pc[u] \in reasons THEN Awaken[pc[u]] ELSE pc[u]
    BY <2>1 DEF Broadcast
  <2>3. pc' = [u \in Threads |-> IF u \in new THEN "start" ELSE IF u = t THEN "loop" ELSE p[u]]
    BY <1>3, <1>11, <2>1
  <2>4. QED
    BY <1>6, <1>7, <2>2, <2>3
<1>13. \A q \in Sleeping : Awaken[q] \in Awakened
  BY DEF Sleeping, Awakened, Awaken
<1>14. \A u \in Threads : u # t /\ u \notin new => pc'[u] = pc[u] \/ (pc[u] \in Sleeping /\ pc'[u] \in Awakened)
  BY <1>11, <1>12, <1>13
<1>15. ASSUME NEW u \in Threads PROVE pc'[u] \in Pcs
  BY <1>1, <1>12, <1>14 DEF Pcs
<1>16. pc' \in [Threads -> Pcs]
  BY <1>12, <1>15
<1>17. QED
  BY <1>2, <1>3, <1>4, <1>5, <1>6, <1>7, <1>8, <1>10, <1>12, <1>14, <1>16 DEF Enters

\* A call is entered in the queue.
LEMMA EntersStep ==
  ASSUME IInv, NEW t \in Threads, NEW new, Enters(t, new)
  PROVE  IInv'
<1>1. /\ Stacks(stack) /\ ScanInv /\ ShutInv /\ pc \in [Threads -> Pcs] /\ target \in Nat /\ shutdown \in BOOLEAN
      /\ desired \in NumThreads \union {DefaultThreads} /\ queue \in Seq(Names) /\ Len(queue) \in Nat
  BY PartsOf
<1>2. PICK c \in Calls, d \in Nat : c = Top(t).call /\ d = Depth(t) /\ d > 0
  BY DEF Enters
<1>3. /\ pc[t] = "enqueue" /\ LockFree /\ Spawned(stack, stack', new) /\ t \notin new
      /\ pc' \in [Threads -> Pcs] /\ pc'[t] = "loop" /\ \A w \in new : pc[w] = "off" /\ pc'[w] = "start"
      /\ \A u \in Threads : u # t /\ u \notin new => pc'[u] = pc[u] \/ (pc[u] \in Sleeping /\ pc'[u] \in Awakened)
      /\ target' \in Nat /\ UNCHANGED <<reserved, desired, shutdown, cursor>>
      /\ Push(t, c)
  BY <1>2 DEF Enters
<1>4. /\ Stacks(stack') /\ new \in SUBSET Workers /\ new \subseteq Threads
      /\ \A w \in new : Depth(w) = 0 /\ Depth(w)' = 1 /\ stack'[w][1] = WorkerFrame
      /\ \A u \in Threads : u \notin new => stack'[u] = stack[u] /\ Depth(u)' = Depth(u) /\ Top(u)' = Top(u)
  BY <1>3 DEF Spawned, Depth, Top, Threads
<1>5. Locals'
  BY <1>1, <1>3, <1>4 DEF Locals
<1>6. \A j \in Names : At(stack, j) => Remains(j) /\ j[1] \notin new
  BY <1>3, SpawnedRemains, SpawnedPlaces
<1>7. \A j \in Names : At(stack, j)' <=> At(stack, j)
  BY <1>3, SpawnedPlaces
<1>8. Top(t).run.job = NoJob
  <2>1. Top(t).run = NoRun
    BY <1>2, <1>3, NotWorking DEF Busy
  <2>2. QED
    BY <2>1 DEF NoRun
<1>9. PcInv'
  <2>1. SUFFICES ASSUME NEW u \in Threads PROVE PcOk(u)'
    BY DEF PcInv
  <2>2. CASE u \in new
    <3>1. pc'[u] = "start" /\ Depth(u)' = 1 /\ u \in Workers
      BY <1>3, <1>4, <2>2
    <3>2. Top(u)'.run.job = NoJob
      BY <1>4, <2>2, <3>1 DEF Top, WorkerFrame, NoRun
    <3>3. QED
      BY <3>1, <3>2 DEF PcOk, Busy
  <2>3. CASE u = t
    BY <1>2, <1>3, <1>4, <1>8, <2>3 DEF PcOk, Busy
  <2>4. CASE u # t /\ u \notin new
    <3>1. PcOk(u) /\ Depth(u)' = Depth(u) /\ Top(u)' = Top(u)
      BY <1>4, <2>4 DEF IInv, PcInv
    <3>2. CASE pc'[u] = pc[u]
      <4>1. pc[u] = "claim" => Task(Top(u).run.job)' = Task(Top(u).run.job)
        <5>1. SUFFICES ASSUME pc[u] = "claim" PROVE Task(Top(u).run.job)' = Task(Top(u).run.job)
          OBVIOUS
        <5>2. PICK k \in Names : k = Top(u).run.job /\ At(stack, k)
          BY <5>1, Working DEF Busy
        <5>3. Task(k)' = Task(k) /\ Top(u)'.run.job = k
          BY <1>6, <3>1, <5>2 DEF Remains
        <5>4. QED
          BY <5>2, <5>3
      <4>2. QED
        BY <3>1, <3>2, <4>1 DEF PcOk
    <3>3. CASE pc[u] \in Sleeping /\ pc'[u] \in Awakened
      BY <3>1, <3>3 DEF PcOk, Sleeping, Awakened, Busy
    <3>4. QED
      BY <1>3, <2>4, <3>2, <3>3
  <2>5. QED
    BY <2>2, <2>3, <2>4
<1>10. \A u \in Threads : \A e \in 1 .. Depth(u)' :
          /\ u \in new => e = 1 /\ stack'[u][e] = WorkerFrame
          /\ u \notin new => e \in 1 .. Depth(u) /\ stack'[u] = stack[u]
  BY <1>4
<1>11. NestInv'
  <2>1. SUFFICES ASSUME NEW u \in Threads, NEW e \in 1 .. Depth(u)' PROVE NestOk(u, e)'
    BY DEF NestInv
  <2>2. CASE u \in new
    <3>1. u \in Workers /\ e = 1 /\ stack'[u][1].call = NoCall /\ stack'[u][1].parent = NoJob
      BY <1>4, <1>10, <2>2 DEF WorkerFrame
    <3>2. QED
      BY <3>1 DEF NestOk
  <2>3. CASE u \notin new
    BY <1>10, <2>3 DEF IInv, NestInv, NestOk
  <2>4. QED
    BY <2>2, <2>3
<1>12. RunInv'
  <2>1. SUFFICES ASSUME NEW u \in Threads, NEW e \in 1 .. Depth(u)' PROVE RunOk(u, e)'
    BY DEF RunInv
  <2>2. CASE u \in new
    <3>1. stack'[u][e].run = NoRun /\ NoRun.job = NoJob
      <4>1. WorkerFrame.run = NoRun
        BY DEF WorkerFrame
      <4>2. NoRun.job = NoJob
        BY DEF NoRun
      <4>3. QED
        BY <1>10, <2>2, <4>1, <4>2
    <3>2. QED
      BY <3>1 DEF RunOk
  <2>3. CASE u \notin new
    <3>1. RunOk(u, e) /\ stack'[u] = stack[u] /\ Depth(u)' = Depth(u)
      BY <1>4, <1>10, <2>3 DEF IInv, RunInv
    <3>2. PICK r : r = stack[u][e].run /\ r = stack'[u][e].run
      BY <3>1
    <3>3. CASE r.job = NoJob
      BY <3>1, <3>2, <3>3 DEF RunOk
    <3>4. CASE r.job # NoJob
      <4>1. PICK k \in Names : k = r.job /\ At(stack, k)
        BY <3>1, <3>2, <3>4 DEF RunOk, At
      <4>2. At(stack, k)' /\ Job(k)' = Job(k) /\ (Serial(k)' <=> Serial(k))
        BY <1>6, <4>1 DEF Remains
      <4>3. IF Serial(k) THEN r.iters + r.total <= Job(k).extent ELSE r.iters + r.total = 1
        BY <3>1, <3>2, <3>4, <4>1 DEF RunOk
      <4>4. /\ pc'[u] \in {"task", "wake"} => pc[u] \in {"task", "wake"}
            /\ pc'[u] = "finish" => pc[u] = "finish"
        BY <1>3, <2>3 DEF Awakened
      <4>5. /\ e < Depth(u)' \/ pc'[u] \in {"task", "wake"} => r.iters >= 1
            /\ pc'[u] = "finish" /\ e = Depth(u)' /\ ~r.failed => r.iters = 0
        BY <3>1, <3>2, <3>4, <4>4 DEF RunOk
      <4>6. QED
        BY <3>2, <3>4, <4>1, <4>2, <4>3, <4>5 DEF RunOk
    <3>5. QED
      BY <3>3, <3>4
  <2>4. QED
    BY <2>2, <2>3
<1>13. /\ \A j \in Names : RunsOf(j)' = RunsOf(j)
       /\ \A j : NeedsBelow(j)' = NeedsBelow(j)
  BY <1>3, SpawnedWork DEF IInv
<1>14. ActiveInv'
  <2>1. SUFFICES ASSUME NEW j \in Names, At(stack, j)'
                 PROVE  Job(j)'.active = Cardinality(RunsOf(j))' /\ (Serial(j)' => Job(j)'.active <= 1)
    BY DEF ActiveInv
  <2>2. Job(j).active = Cardinality(RunsOf(j)) /\ (Serial(j) => Job(j).active <= 1) /\ Remains(j)
    BY <1>6, <1>7, <2>1 DEF IInv, ActiveInv
  <2>3. Cardinality(RunsOf(j))' = Cardinality(RunsOf(j))
    BY <1>13
  <2>4. QED
    BY <2>2, <2>3 DEF Remains
<1>15. BalanceInv'
  BY <1>3, <1>6, <1>7, <1>13 DEF IInv, BalanceInv, Remains
<1>16. AccountInv'
  BY <1>6, <1>7 DEF IInv, AccountInv, Remains
<1>17. JoinInv'
  <2>1. SUFFICES ASSUME NEW u \in Threads, NEW e \in 1 .. Depth(u)' PROVE JoinOk(stack'[u][e])
    BY DEF JoinInv
  <2>2. CASE u \in new
    BY <1>10, <2>2 DEF JoinOk, WorkerFrame
  <2>3. CASE u \notin new
    BY <1>10, <2>3 DEF IInv, JoinInv
  <2>4. QED
    BY <2>2, <2>3
<1>18. \A j \in Names : At(stack, j) =>
          /\ j[1] = t => (Enqueued(j) <=> j[2] # d) /\ Enqueued(j)'
          /\ j[1] # t => (Enqueued(j)' <=> Enqueued(j))
  <2>1. SUFFICES ASSUME NEW j \in Names, At(stack, j)
                 PROVE  /\ j[1] = t => (Enqueued(j) <=> j[2] # d) /\ Enqueued(j)'
                        /\ j[1] # t => (Enqueued(j)' <=> Enqueued(j))
    OBVIOUS
  <2>2. j[1] \in Threads /\ j[1] \notin new /\ j[2] \in 1 .. Len(stack[j[1]])
    BY <1>6, <2>1, Places
  <2>3. CASE j[1] = t
    <3>1. j[2] \in 1 .. d
      BY <1>2, <2>2, <2>3 DEF Depth
    <3>2. QED
      BY <1>2, <1>3, <2>3, <3>1 DEF Enqueued
  <2>4. CASE j[1] # t
    <3>1. pc'[j[1]] = pc[j[1]] \/ (pc[j[1]] \in Sleeping /\ pc'[j[1]] \in Awakened)
      BY <1>3, <2>2, <2>4
    <3>2. pc'[j[1]] \in {"enqueue", "aborted"} <=> pc[j[1]] \in {"enqueue", "aborted"}
      BY <3>1 DEF Sleeping, Awakened
    <3>3. Depth(j[1])' = Depth(j[1])
      BY <1>4, <2>2
    <3>4. QED
      BY <2>4, <3>2, <3>3 DEF Enqueued
  <2>5. QED
    BY <2>3, <2>4
<1>19. FreshInv'
  BY <1>6, <1>7, <1>18 DEF IInv, FreshInv, Remains
<1>20. PICK n \in Nat : n = Len(TasksOf[c]) /\ DOMAIN TasksOf[c] = 1 .. n /\ JobsOf(c) = 1 .. n
  <2>1. JobsOf(c) = DOMAIN TasksOf[c]
    BY NullAssumption DEF JobsOf
  <2>2. QED
    BY <2>1, CallsTasks
<1>21. PICK a : a = PlacesOf(t, d, n) /\ queue' = a \o queue
  BY <1>2, <1>3, <1>20 DEF Push, PlacesOf
<1>22. /\ a \in Seq(Names) /\ IsInjective(a) /\ DOMAIN a = 1 .. n /\ Len(a) = n
       /\ \A j \in Names : j \in Range(a) <=> j[1] = t /\ j[2] = d /\ j[3] \in 1 .. n
  <2>1. ArePlacesOf(a, t, d, n)
    BY <1>2, <1>20, <1>21, EnqueuedJobs
  <2>2. QED
    BY <2>1 DEF ArePlacesOf
<1>23. QueueInv
  BY DEF IInv
<1>24. \A j \in Names : j \in Range(a) => At(stack, j) /\ ~Enqueued(j) /\ j \notin Range(queue)
  <2>1. SUFFICES ASSUME NEW j \in Names, j \in Range(a) PROVE At(stack, j) /\ ~Enqueued(j) /\ j \notin Range(queue)
    OBVIOUS
  <2>2. j[1] = t /\ j[2] = d /\ j[3] \in JobsOf(c)
    BY <1>20, <1>22, <2>1
  <2>3. c = stack[t][d].call /\ d \in 1 .. Len(stack[t])
    BY <1>1, <1>2, TopIs DEF Top
  <2>4. At(stack, j)
    BY <2>2, <2>3 DEF At
  <2>5. ~Enqueued(j)
    BY <1>18, <2>2, <2>4
  <2>6. QED
    BY <1>23, <2>4, <2>5 DEF QueueInv, Waits
<1>25. /\ queue' \in Seq(Names) /\ IsInjective(queue') /\ Len(queue') = n + Len(queue)
       /\ \A v : v \in Range(queue') <=> v \in Range(a) \/ v \in Range(queue)
  <2>1. \A x \in DOMAIN a : \A y \in DOMAIN queue : a[x] # queue[y]
    <3>1. TAKE x \in DOMAIN a
    <3>2. PICK j \in Names : j = a[x]
      BY <1>22
    <3>3. j \in Range(a)
      BY <3>2 DEF Range
    <3>4. j \notin Range(queue)
      BY <1>24, <3>3
    <3>5. QED
      BY <3>2, <3>4 DEF Range
  <2>2. QED
    <3>1. queue \in Seq(Names) /\ IsInjective(queue) /\ a \in Seq(Names) /\ IsInjective(a) /\ Len(a) = n
      BY <1>22, <1>23 DEF QueueInv
    <3>2. /\ a \o queue \in Seq(Names) /\ IsInjective(a \o queue) /\ Len(a \o queue) = Len(a) + Len(queue)
          /\ \A v : v \in Range(a \o queue) <=> v \in Range(a) \/ v \in Range(queue)
      BY <2>1, <3>1, ConcatInjective
    <3>3. QED
      BY <1>21, <3>1, <3>2
<1>26. QueueInv'
  <2>1. \A i \in DOMAIN queue' : At(stack', queue'[i])
    <3>1. TAKE i \in DOMAIN queue'
    <3>2. PICK j \in Names : j = queue'[i] /\ j \in Range(queue')
      BY <1>25 DEF Range
    <3>3. At(stack, j)
      <4>1. CASE j \in Range(a)
        BY <1>24, <4>1
      <4>2. CASE j \in Range(queue)
        BY <1>23, <4>2 DEF QueueInv, Range
      <4>3. QED
        BY <1>25, <3>2, <4>1, <4>2
    <3>4. At(stack', j)
      BY <1>7, <3>3
    <3>5. QED
      BY <3>2, <3>4
  <2>2. ASSUME NEW j \in Names, At(stack, j)' PROVE j \in Range(queue') <=> Waits(j)'
    <3>1. At(stack, j) /\ Remains(j)
      BY <1>6, <1>7, <2>2
    <3>2. CASE j[1] = t /\ j[2] = d
      <4>1. Job(j).extent > 0 /\ Job(j).active = 0
        BY <1>18, <3>1, <3>2 DEF IInv, FreshInv
      <4>2. Waits(j)'
        BY <1>18, <3>1, <3>2, <4>1 DEF Waits, Remains
      <4>3. j[3] \in 1 .. n
        <5>1. j[3] \in JobsOf(stack[t][d].call)
          BY <3>1, <3>2, Places
        <5>2. QED
          BY <1>2, <1>20, <5>1 DEF Top
      <4>4. QED
        BY <1>22, <1>25, <3>2, <4>2, <4>3
    <3>3. CASE ~(j[1] = t /\ j[2] = d)
      <4>1. Enqueued(j)' <=> Enqueued(j)
        BY <1>18, <3>1, <3>3
      <4>2. Waits(j)' <=> Waits(j)
        BY <3>1, <4>1 DEF Waits, Remains
      <4>3. j \notin Range(a)
        BY <1>22, <3>3
      <4>4. QED
        BY <1>23, <1>25, <3>1, <4>2, <4>3 DEF QueueInv
    <3>4. QED
      BY <3>2, <3>3
  <2>3. QED
    BY <1>25, <2>1, <2>2 DEF QueueInv
<1>27. ShutInv'
  <2>1. SUFFICES ASSUME NEW u \in Threads, pc'[u] = "join"
                 PROVE  shutdown' /\ \A v \in Clients : v # u => pc'[v] = "out"
    BY DEF ShutInv
  <2>2. u # t /\ u \notin new /\ pc[u] = "join"
    BY <1>3, <2>1 DEF Awakened
  <2>3. shutdown /\ \A v \in Clients : v # u => pc[v] = "out"
    BY <1>1, <2>2 DEF ShutInv
  <2>4. ASSUME NEW v \in Clients, v # u PROVE pc'[v] = "out"
    <3>1. v \in Threads /\ v \notin new /\ v # t /\ pc[v] = "out"
      BY <1>3, <1>4, <2>3, <2>4, ProgramAssumption DEF Threads
    <3>2. QED
      BY <1>3, <3>1 DEF Sleeping
  <2>5. QED
    BY <1>3, <2>3, <2>4
<1>28. ScanInv'
  <2>1. \A u \in Threads : u # t => pc'[u] \notin Locked
    <3>1. SUFFICES ASSUME NEW u \in Threads, u # t PROVE pc'[u] \notin Locked
      OBVIOUS
    <3>2. CASE u \in new
      BY <1>3, <3>2 DEF Locked
    <3>3. CASE u \notin new
      BY <1>3, <3>1, <3>3 DEF Locked, LockFree, Awakened
    <3>4. QED
      BY <3>2, <3>3
  <2>2. cursor' = 1
    BY <1>1, <1>3 DEF ScanInv, LockFree, Locked
  <2>3. cursor' \in 1 .. Len(queue') + 1
    BY <1>1, <1>25, <2>2
  <2>4. QED
    BY <2>1, <2>2, <2>3 DEF ScanInv
<1>29. QED
  BY <1>5, <1>9, <1>11, <1>12, <1>14, <1>15, <1>16, <1>17, <1>19, <1>26, <1>27, <1>28 DEF IInv

\* The same, or the program ends because too many threads would be committed.
LEMMA EnqueueStep ==
  ASSUME IInv, NEW t \in Threads, NEW new \in SUBSET (Workers \ Created), Enqueue(t, new)
  PROVE  IInv' /\ Grows(stack, stack')
<1>1. Stacks(stack)
  BY PartsOf
<1>2. CASE OverCommits(Top(t).call, Top(t).parent)
  <2>1. pc[t] = "enqueue" /\ pc' = [pc EXCEPT ![t] = "aborted"] /\ UNCHANGED <<stack, pool>>
    BY <1>2 DEF Enqueue
  <2>2. QED
    BY <1>1, <2>1, AbortStep, SameGrows
<1>3. CASE ~OverCommits(Top(t).call, Top(t).parent)
  <2>1. Enters(t, new)
    BY <1>3, EnqueueEnters
  <2>2. ASSUME NEW u \in Threads PROVE Len(stack'[u]) >= Len(stack[u])
    <3>1. CASE u \in new
      BY <2>1, <3>1 DEF Enters, Spawned
    <3>2. CASE u \notin new
      BY <1>1, <2>1, <3>2 DEF Enters, Spawned, Stacks, IsStack
    <3>3. QED
      BY <3>1, <3>2
  <2>3. QED
    BY <2>1, <2>2, EntersStep DEF Grows
<1>4. QED
  BY <1>2, <1>3

-----------------------------------------------------------------------------
(* The beginning, and every step *)

\* Nothing is under way.
Nothing ==
    /\ stack = [u \in Threads |-> <<>>] /\ queue = <<>> /\ reserved = 0 /\ target = 0 /\ shutdown = FALSE
    /\ cursor = 1 /\ desired \in NumThreads \union {DefaultThreads}
    /\ pc = [u \in Threads |-> IF u \in Clients THEN "out" ELSE "off"]

\* When nothing is under way the invariant holds.
LEMMA NothingInv == Nothing => IInv
<1>1. SUFFICES ASSUME Nothing PROVE IInv
  OBVIOUS
<1>2. /\ queue = <<>> /\ reserved = 0 /\ target = 0 /\ shutdown = FALSE
      /\ cursor = 1 /\ desired \in NumThreads \union {DefaultThreads}
  BY <1>1 DEF Nothing
<1>3. /\ pc \in [Threads -> {"out", "off"}]
      /\ \A u \in Threads : (pc[u] = "out" => u \in Clients) /\ (pc[u] = "off" => u \in Workers)
  BY <1>1 DEF Nothing, Threads
<1>4. stack = [u \in Threads |-> stack[u]] /\ \A u \in Threads : stack[u] = <<>>
  BY <1>1 DEF Nothing
<1>5. \A u \in Threads : Len(stack[u]) = 0 /\ Depth(u) = 0 /\ IsStack(stack[u])
  <2>1. IsStack(<<>>) /\ Len(<<>>) = 0
    BY DEF IsStack
  <2>2. QED
    BY <1>4, <2>1 DEF Depth
<1>6. Stacks(stack)
  BY <1>4, <1>5 DEF Stacks
<1>7. pc \in [Threads -> Pcs]
  BY <1>3 DEF Pcs
<1>8. Locals
  BY <1>2, <1>6, <1>7 DEF Locals
<1>9. PcInv
  BY <1>3, <1>5 DEF PcInv, PcOk, Busy
<1>10. NestInv /\ RunInv /\ JoinInv
  BY <1>5 DEF NestInv, RunInv, JoinInv
<1>11. \A j \in Names : ~At(stack, j)
  BY <1>5, Places
<1>12. ActiveInv /\ FreshInv /\ AccountInv
  BY <1>11 DEF ActiveInv, FreshInv, AccountInv
<1>13. QueueInv
  BY <1>2, <1>11 DEF QueueInv, IsInjective
<1>14. ShutInv
  BY <1>3 DEF ShutInv
<1>15. ScanInv
  BY <1>2, <1>3 DEF ScanInv, Locked
<1>16. BalanceInv
  <2>1. WorksIn(stack) = {}
    BY <1>5 DEF WorksIn
  <2>2. BelowIn(stack, NoJob) = {}
    BY <2>1 DEF BelowIn
  <2>3. NeedsIn(stack, NoJob) = 0
    BY <2>2, TotalEmpty DEF NeedsIn
  <2>4. NeedsBelow(NoJob) = 0
    BY <1>6, <2>3, NeedsIsIn
  <2>5. QED
    BY <1>2, <1>11, <2>4 DEF BalanceInv
<1>17. QED
  BY <1>8, <1>9, <1>10, <1>12, <1>13, <1>14, <1>15, <1>16 DEF IInv

\* It holds at the beginning.
LEMMA InitInv == Init => IInv
<1>1. Init => Nothing
  BY DEF Init, Nothing
<1>2. QED
  BY <1>1, NothingInv

\* When the workers have been joined the scan is over, and nothing is left.
LEMMA ResetStep ==
  ASSUME IInv, NEW t \in Threads, Reset(t)
  PROVE  IInv'
<1>1. /\ pc[t] = "join" /\ \A w \in Created : pc[w] = "exited"
      /\ stack' = [u \in Threads |-> <<>>] /\ pc' = [u \in Threads |-> IF u \in Clients THEN "out" ELSE "off"]
      /\ queue' = <<>> /\ reserved' = 0 /\ target' = 0 /\ shutdown' = FALSE /\ desired' = desired /\ cursor' = cursor
  BY DEF Reset
<1>2. ShutInv /\ ScanInv /\ desired \in NumThreads \union {DefaultThreads}
  BY PartsOf
<1>3. \A u \in Threads : pc[u] # "scan"
  <2>1. TAKE u \in Threads
  <2>2. CASE u \in Clients
    BY <1>1, <1>2, <2>2 DEF ShutInv
  <2>3. CASE u \in Workers
    BY <1>1, <2>3 DEF Created
  <2>4. QED
    BY <2>2, <2>3 DEF Threads
<1>4. cursor = 1
  BY <1>2, <1>3 DEF ScanInv
<1>5. Nothing'
  BY <1>1, <1>2, <1>4 DEF Nothing
<1>6. QED
  BY <1>5, NothingInv, PTL

\* It holds after a stutter.
LEMMA SameStep ==
  ASSUME IInv, UNCHANGED vars
  PROVE  IInv'
<1>1. /\ stack' = stack /\ queue' = queue /\ reserved' = reserved /\ target' = target /\ desired' = desired
      /\ shutdown' = shutdown /\ cursor' = cursor /\ pc' = pc
  BY DEF vars
<1>2. Locals' /\ JoinInv' /\ ShutInv' /\ ScanInv' /\ NestInv'
  BY <1>1 DEF IInv, Locals, JoinInv, ShutInv, ScanInv, NestInv, NestOk, Depth
<1>7. /\ \A u \in Threads : Depth(u)' = Depth(u) /\ Top(u)' = Top(u)
      /\ \A j : Job(j)' = Job(j) /\ Task(j)' = Task(j) /\ (Serial(j)' <=> Serial(j))
  BY <1>1 DEF Depth, Top, Job, Task, Frame, Serial
<1>8. ASSUME NEW u \in Threads PROVE PcOk(u)'
  <2>1. PcOk(u)
    BY DEF IInv, PcInv
  <2>2. Task(Top(u).run.job)' = Task(Top(u).run.job)
    BY <1>7, <1>1
  <2>3. QED
    BY <1>1, <1>7, <2>1, <2>2 DEF PcOk
<1>9. ASSUME NEW u \in Threads, NEW d \in 1 .. Depth(u)' PROVE RunOk(u, d)'
  <2>1. RunOk(u, d)
    BY <1>7 DEF IInv, RunInv
  <2>2. PICK r : r = stack[u][d].run
    OBVIOUS
  <2>3. PICK j : j = r.job
    OBVIOUS
  <2>4. stack'[u][d].run = r
    BY <1>1, <2>2
  <2>5. Job(j)' = Job(j) /\ (Serial(j)' <=> Serial(j)) /\ Depth(u)' = Depth(u)
    BY <1>7
  <2>6. QED
    BY <1>1, <2>1, <2>2, <2>3, <2>4, <2>5 DEF RunOk
<1>3. PcInv' /\ RunInv' /\ AccountInv'
  BY <1>1, <1>7, <1>8, <1>9 DEF IInv, PcInv, RunInv, AccountInv
<1>4. FreshInv' /\ QueueInv'
  BY <1>1 DEF IInv, FreshInv, QueueInv, Waits, Enqueued, Serial, Task, Job, Frame, Depth
<1>5. ActiveInv' /\ BalanceInv'
  <2>1. /\ Stacks(stack) /\ Stacks(stack') /\ KeepsCalls(stack, stack') /\ SameWork(stack, stack')
        /\ SameActive(stack, stack') /\ SameReserved(stack, stack')
    BY <1>1 DEF IInv, Locals, KeepsCalls, SameWork, SameActive, SameReserved
  <2>2. QED
    BY <1>1, <2>1, ActiveStays, BalanceStays DEF IInv
<1>6. QED
  BY <1>2, <1>3, <1>4, <1>5 DEF IInv

\* After the steps of clients.
LEMMA ClientStep ==
  ASSUME IInv, NEW t \in Threads, Client(t)
  PROVE  IInv'
  BY CallClientStep, SetNumThreadsStep, ShutdownStep DEF Client

\* After those of the loop over the queue.
LEMMA LoopStep ==
  ASSUME IInv, NEW t \in Threads, LoopNext(t)
  PROVE  IInv'
  BY WorkerExitsStep, JoinNextStep, ReturnStep, CancelOwnedStep, InheritFailureStep, StartScanStep,
     PassOverStep, TakeStep, SleepStep DEF LoopNext

\* After those of a task.
LEMMA TaskStep ==
  ASSUME IInv, NEW t \in Threads, TaskNext(t)
  PROVE  IInv'
  BY CallInTaskStep, ReleaseSemaphoreStep, IterationEndsStep, TaskFailsStep, ClaimStep, ClaimEndsStep DEF TaskNext

\* After those of the mutex and the condition variables.
LEMMA LockStep ==
  ASSUME IInv, NEW t \in Threads, LockNext(t)
  PROVE  IInv'
  BY EnqueueStep, StartStep, WakeUpStep, WakeWaitersStep, FinishStep DEF LockNext

\* And so after every step.
LEMMA NextInv ==
  ASSUME IInv, [Next]_vars
  PROVE  IInv'
<1>1. CASE UNCHANGED vars
  BY <1>1, SameStep
<1>2. ASSUME NEW t \in Threads, Client(t) \/ Library(t) PROVE IInv'
  BY <1>2, ClientStep, LoopStep, TaskStep, LockStep, ResetStep DEF Library
<1>3. QED
  BY <1>1, <1>2 DEF Next

\* The inductive invariant: it holds in every state of every behaviour of the thread pool.
THEOREM Invariance == Spec => []IInv
<1>1. IInv /\ [Next]_vars => IInv'
  BY NextInv
<1>2. QED
  BY InitInv, <1>1, PTL DEF Spec

-----------------------------------------------------------------------------
(* The properties *)

\* The jobs that live are those at the places of the stacks.
LEMMA LiveIs ==
  ASSUME Stacks(stack), NEW j
  PROVE  j \in Live <=> j \in Names /\ At(stack, j)
<1>1. ASSUME NEW f \in Frames PROVE DOMAIN stack[f[1]][f[2]].jobs = JobsOf(stack[f[1]][f[2]].call)
  <2>1. PICK t \in Threads, d \in Nat : f = <<t, d>> /\ d \in 1 .. Depth(t)
    BY FramesAre DEF Depth, Stacks, IsStack
  <2>2. IsFrame(stack[t][d])
    BY <2>1 DEF Stacks, IsStack, Depth
  <2>3. PICK g : g = stack[t][d]
    OBVIOUS
  <2>4. DOMAIN g.jobs = JobsOf(g.call)
    BY <2>2, <2>3 DEF IsFrame
  <2>5. QED
    BY <2>1, <2>3, <2>4
<1>2. ASSUME j \in Live PROVE j \in Names /\ At(stack, j)
  <2>1. PICK f \in Frames : \E i \in DOMAIN stack[f[1]][f[2]].jobs : j = <<f[1], f[2], i>>
    BY <1>2 DEF Live
  <2>2. PICK t \in Threads, d \in Nat : f = <<t, d>> /\ d \in 1 .. Depth(t)
    BY <2>1, FramesAre DEF Depth, Stacks, IsStack
  <2>3. PICK i \in JobsOf(stack[t][d].call) : j = <<t, d, i>>
    BY <1>1, <2>1, <2>2
  <2>4. IsFrame(stack[t][d]) /\ d \in 1 .. Len(stack[t]) /\ d \in Nat
    BY <2>2 DEF Stacks, IsStack, Depth
  <2>5. i \in Nat
    <3>1. stack[t][d].call \in Calls \union {NoCall}
      BY <2>4 DEF IsFrame
    <3>2. QED
      BY <2>3, <3>1, TasksType
  <2>6. QED
    BY <2>2, <2>3, <2>4, <2>5 DEF At, Names
<1>3. ASSUME j \in Names, At(stack, j) PROVE j \in Live
  <2>1. PICK t \in Threads, d \in Nat, i \in Nat : j = <<t, d, i>>
    BY <1>3 DEF Names
  <2>2. d \in 1 .. Depth(t) /\ i \in JobsOf(stack[t][d].call)
    BY <1>3, <2>1, Places DEF Depth
  <2>3. PICK f : f = <<t, d>>
    OBVIOUS
  <2>4. f \in Frames
    BY <2>2, <2>3, FramesAre
  <2>5. i \in DOMAIN stack[f[1]][f[2]].jobs /\ j = <<f[1], f[2], i>>
    BY <1>1, <2>1, <2>2, <2>3, <2>4
  <2>6. QED
    BY <2>4, <2>5 DEF Live
<1>4. QED
  BY <1>2, <1>3

\* The sum of what is needed is a number.
LEMMA ReservedType ==
  ASSUME IInv
  PROVE  reserved \in Nat
<1>1. Stacks(stack) /\ reserved = NeedsBelow(NoJob)
  BY DEF IInv, Locals, BalanceInv
<1>2. \A g \in WorksIn(stack) : NeedIn(stack, JobIn(stack, g)) \in Nat
  BY <1>1, WorkIsThere, NeedType DEF IInv
<1>3. NeedsIn(stack, NoJob) \in Nat
  BY <1>1, <1>2, WorksFinite, NeedsType
<1>4. QED
  BY <1>1, <1>3, NeedsIsIn

\* The inductive invariant holds the types.
LEMMA TypeIs ==
  ASSUME IInv
  PROVE  TypeOK
<1>1. /\ Stacks(stack) /\ pc \in [Threads -> Pcs] /\ target \in Nat /\ shutdown \in BOOLEAN
      /\ desired \in NumThreads \union {DefaultThreads} /\ queue \in Seq(Names) /\ cursor \in 1 .. Len(queue) + 1
  BY PartsOf DEF ScanInv
<1>2. queue \in Seq(Live)
  <2>1. Len(queue) \in Nat /\ queue \in [1 .. Len(queue) -> Names] /\ \A i \in 1 .. Len(queue) : At(stack, queue[i])
    BY <1>1 DEF IInv, QueueInv
  <2>2. \A i \in 1 .. Len(queue) : queue[i] \in Live
    <3>1. TAKE i \in 1 .. Len(queue)
    <3>2. PICK j \in Names : j = queue[i] /\ At(stack, j)
      BY <2>1
    <3>3. QED
      BY <1>1, <3>2, LiveIs
  <2>3. queue \in [1 .. Len(queue) -> Live]
    BY <2>1, <2>2
  <2>4. QED
    BY <2>1, <2>3
<1>3. ASSUME NEW j \in Live PROVE Job(j).extent \in 0 .. Extent[Task(j)] /\ Job(j).active \in Nat
  <2>1. j \in Names /\ At(stack, j)
    BY <1>1, LiveIs
  <2>2. IsJob(Job(j), Task(j))
    BY <1>1, <2>1, JobsType DEF Job, JobAt, Task, Frame
  <2>3. QED
    BY <2>2 DEF IsJob
<1>4. QED
  BY <1>1, <1>2, <1>3, ReservedType DEF TypeOK

\* The queue holds, once each, the jobs that have iterations nobody has taken, for
\* every program and any number of threads: a failed job that is to be taken off is
\* found.
THEOREM QueueHoldsTheRestAlways == Spec => []QueueHoldsTheRest
<1>1. IInv => QueueHoldsTheRest
  <2>1. SUFFICES ASSUME IInv PROVE QueueHoldsTheRest
    OBVIOUS
  <2>2. Stacks(stack) /\ IsInjective(queue)
    BY <2>1 DEF IInv, Locals, QueueInv
  <2>3. ASSUME NEW j \in Live
        PROVE  j \in Range(queue) <=> Enqueued(j) /\ Job(j).extent > 0 /\ (Loop[Task(j)] = "serial" => Job(j).active = 0)
    <3>1. j \in Names /\ At(stack, j)
      BY <2>2, LiveIs
    <3>2. QED
      BY <2>1, <3>1 DEF IInv, QueueInv, Waits, Serial
  <2>4. QED
    BY <2>1, <2>2, <2>3, TypeIs DEF QueueHoldsTheRest
<1>2. QED
  BY <1>1, Invariance, PTL

\* The threads reserved are those the running jobs need, after any mixture of
\* successes and failures, and a job's worker count is the number of frames that
\* run it.
THEOREM ReservationsBalanceAlways == Spec => []ReservationsBalance
<1>1. IInv => ReservationsBalance
  <2>1. SUFFICES ASSUME IInv PROVE ReservationsBalance
    OBVIOUS
  <2>2. Stacks(stack)
    BY <2>1 DEF IInv, Locals
  <2>3. QED
    BY <2>1, <2>2, LiveIs DEF IInv, BalanceInv, ActiveInv, ReservationsBalance
<1>2. QED
  BY <1>1, Invariance, PTL

\* Only a return makes a stack lower while its thread is in the loop.
LEMMA OnlyReturns ==
  ASSUME IInv, NEW t \in Threads, Client(t) \/ Library(t), NEW u \in Threads, Returns(u), pc[u] = "loop"
  PROVE  Return(u)
<1>1. Stacks(stack) /\ ShutInv
  BY PartsOf
<1>2. ~Grows(stack, stack')
  BY <1>1 DEF Returns, Grows, Depth, Stacks, IsStack
<1>3. ~Client(t)
  <2>1. \A c \in TopCalls : ~Call(t, c)
    BY <1>2, CallClientStep
  <2>2. stack' # stack
    BY <1>1, <1>2, SameGrows
  <2>3. QED
    BY <2>1, <2>2 DEF Client, SetNumThreads, Shutdown
<1>4. stack' # stack /\ ~KeepsCalls(stack, stack')
  BY <1>1, <1>2, SameGrows, KeepsGrows
<1>5. LoopNext(t) => Return(t)
  <2>1. ~JoinNext(t) /\ ~CancelOwned(t) /\ ~InheritFailure(t) /\ ~PassOver(t) /\ ~Take(t)
    BY <1>4, JoinNextStep, CancelOwnedStep, InheritFailureStep, PassOverStep, TakeStep
  <2>2. ~WorkerExits(t) /\ ~StartScan(t) /\ ~Sleep(t)
    BY <1>4 DEF WorkerExits, StartScan, Sleep
  <2>3. QED
    BY <2>1, <2>2 DEF LoopNext
<1>6. ~TaskNext(t)
  BY <1>2, <1>4, CallInTaskStep, ReleaseSemaphoreStep, IterationEndsStep, TaskFailsStep, ClaimStep, ClaimEndsStep DEF TaskNext
<1>7. ~LockNext(t)
  <2>1. \A new \in SUBSET (Workers \ Created) : ~Enqueue(t, new)
    BY <1>2, EnqueueStep
  <2>2. ~Start(t) /\ ~WakeUp(t) /\ ~WakeWaiters(t) /\ ~Finish(t)
    BY <1>4, FinishStep DEF Start, WakeUp, WakeWaiters
  <2>3. QED
    BY <2>1, <2>2 DEF LockNext
<1>8. ~Reset(t)
  <2>1. SUFFICES ASSUME Reset(t) PROVE FALSE
    OBVIOUS
  <2>2. pc[t] = "join" /\ \A w \in Created : pc[w] = "exited"
    BY <2>1 DEF Reset
  <2>3. CASE u \in Clients
    BY <1>1, <2>2, <2>3 DEF ShutInv
  <2>4. CASE u \in Workers
    BY <2>2, <2>4 DEF Created
  <2>5. QED
    BY <2>3, <2>4 DEF Threads
<1>9. Return(t)
  BY <1>3, <1>5, <1>6, <1>7, <1>8 DEF Library
<1>10. u = t
  <2>1. SUFFICES ASSUME u # t PROVE FALSE
    OBVIOUS
  <2>2. PICK e : e = Depth(t) - 1
    OBVIOUS
  <2>3. Shorter(stack, stack', t)
    BY <1>9, <2>2, ReturnIs DEF AfterReturn
  <2>4. stack'[u] = stack[u]
    BY <2>1, <2>3 DEF Shorter
  <2>5. QED
    BY <1>1, <2>4 DEF Returns, Depth, Stacks, IsStack
<1>11. QED
  BY <1>9, <1>10

\* The jobs of the call at the top.
LEMMA TopSiblings ==
  ASSUME Stacks(stack), NEW t \in Threads, Depth(t) > 0, NEW j, j \in Siblings(<<t, Depth(t), 1>>)
  PROVE  j \in Names /\ OfTop(stack, t, j) /\ At(stack, j) /\ Frame(j) = Top(t)
<1>1. PICK d \in Nat : d = Depth(t) /\ d = Len(stack[t]) /\ d \in 1 .. Len(stack[t]) /\ Top(t) = stack[t][d] /\ IsFrame(Top(t))
  BY TopIs
<1>2. PICK f : f = Top(t)
  OBVIOUS
<1>3. PICK i \in DOMAIN f.jobs : j = <<t, d, i>>
  <2>1. PICK k : k = <<t, d, 1>>
    OBVIOUS
  <2>2. k[1] = t /\ k[2] = d /\ Frame(k) = f
    BY <1>1, <1>2, <2>1 DEF Frame
  <2>3. j \in Siblings(k)
    BY <1>1, <2>1
  <2>4. QED
    BY <2>2, <2>3 DEF Siblings
<1>4. i \in JobsOf(f.call) /\ f.call \in Calls \union {NoCall}
  BY <1>1, <1>2, <1>3 DEF IsFrame
<1>5. i \in Nat
  BY <1>4, TasksType
<1>6. j[1] = t /\ j[2] = d /\ j[3] = i /\ j \in Names
  BY <1>3, <1>5 DEF Names
<1>7. QED
  BY <1>1, <1>2, <1>4, <1>6 DEF OfTop, At, Frame

\* The jobs of a call live on the stack of the thread that made it.  When the call
\* returns, whatever it called and however it failed, none of them is in the queue,
\* run by anybody, or the parent of a call that is under way.
THEOREM CallsLeaveNothing == Spec => CallsLeaveNothingBehind
<1>1. ASSUME IInv, NEW t \in Threads, Return(t), NEW j, j \in Siblings(<<t, Depth(t), 1>>)
      PROVE  j \notin Referenced'
  <2>1. Gone(t) /\ Stacks(stack) /\ Depth(t) > 0
    BY <1>1, ReturnsOver
  <2>2. j \in Names /\ OfTop(stack, t, j)
    BY <1>1, <2>1, TopSiblings
  <2>3. j \notin Range(queue) /\ \A u \in Threads : \A d \in 1 .. Len(stack[u]) : stack[u][d].run.job # j
    BY <1>1, <2>1, <2>2, GoneAreForgotten
  <2>4. queue' = queue
    BY <1>1 DEF Return, pool
  <2>5. PICK e : e = Depth(t) - 1
    OBVIOUS
  <2>6. Shorter(stack, stack', t)
    BY <1>1, <2>5, ReturnIs DEF AfterReturn
  <2>7. \A u \in Threads : \A d \in 1 .. Len(stack'[u]) :
          d \in 1 .. Len(stack[u]) /\ stack'[u][d].run.job = stack[u][d].run.job /\ stack'[u][d].parent = stack[u][d].parent
    <3>1. SUFFICES ASSUME NEW u \in Threads, NEW d \in 1 .. Len(stack'[u])
                   PROVE  /\ d \in 1 .. Len(stack[u]) /\ stack'[u][d].run.job = stack[u][d].run.job
                          /\ stack'[u][d].parent = stack[u][d].parent
      OBVIOUS
    <3>2. CASE u = t
      <4>1. PICK n \in Nat, m \in Nat : n = Len(stack[t]) /\ m = Len(stack'[t]) /\ n = m + 1
        BY <2>6 DEF Shorter, Stacks, IsStack
      <4>2. d \in 1 .. n
        BY <3>2, <4>1
      <4>3. QED
        BY <2>6, <3>2, <4>1, <4>2 DEF Shorter
    <3>3. CASE u # t
      BY <2>6, <3>3 DEF Shorter
    <3>4. QED
      BY <3>2, <3>3
  <2>8. j # NoJob
    BY <2>2, NullAssumption DEF Names
  <2>9. ASSUME NEW u \in Threads, NEW d \in 1 .. Len(stack'[u]) PROVE stack'[u][d].run.job # j /\ stack'[u][d].parent # j
    <3>1. stack'[u][d].run.job # j
      BY <2>3, <2>7, <2>9
    <3>2. PICK n \in Nat : n = Len(stack[u]) /\ n = Depth(u)
      BY <2>1 DEF Stacks, IsStack, Depth
    <3>3. d \in 1 .. n /\ NestOk(u, d)
      BY <1>1, <2>7, <2>9, <3>2 DEF IInv, NestInv
    <3>4. CASE d = 1
      <4>1. stack[u][d].parent = NoJob
        BY <3>3, <3>4 DEF NestOk
      <4>2. QED
        BY <2>7, <2>8, <2>9, <3>1, <4>1
    <3>5. CASE d # 1
      <4>1. d - 1 \in 1 .. n
        BY <3>3, <3>5
      <4>2. stack[u][d - 1].run.job # j
        BY <2>3, <3>2, <4>1
      <4>3. stack[u][d].parent \in {NoJob, stack[u][d - 1].run.job}
        BY <3>3, <3>5 DEF NestOk
      <4>4. QED
        BY <2>7, <2>8, <2>9, <3>1, <4>2, <4>3
    <3>6. QED
      BY <3>1, <3>4, <3>5
  <2>10. \A f \in Frames' : \E u \in Threads : \E d \in 1 .. Len(stack'[u]) : f = <<u, d>>
    BY DEF Frames, Depth
  <2>11. ASSUME NEW f \in Frames' PROVE stack'[f[1]][f[2]].run.job # j /\ stack'[f[1]][f[2]].parent # j
    BY <2>9, <2>10, <2>11
  <2>12. j \notin Range(queue')
    BY <2>3, <2>4
  <2>13. QED
    BY <2>11, <2>12 DEF Referenced
<1>2. ASSUME IInv, [Next]_vars
      PROVE  [\A t \in Threads : Returns(t) /\ pc[t] = "loop" =>
                \A j \in Siblings(<<t, Depth(t), 1>>) : j \notin Referenced']_vars
  <2>1. SUFFICES ASSUME Next, NEW t \in Threads, Returns(t), pc[t] = "loop", NEW j \in Siblings(<<t, Depth(t), 1>>)
                 PROVE  j \notin Referenced'
    BY <1>2
  <2>2. Return(t)
    BY <1>2, <2>1, OnlyReturns DEF Next
  <2>3. QED
    BY <1>1, <1>2, <2>1, <2>2
<1>3. QED
  BY Invariance, <1>2, PTL DEF Spec, CallsLeaveNothingBehind

\* A call that succeeds has had every iteration of every one of its tasks run once,
\* by whichever threads.
THEOREM SuccessIsDone == Spec => SuccessMeansDone
<1>1. ASSUME IInv, NEW t \in Threads, Return(t), ~CallFailed(t), NEW j, j \in Siblings(<<t, Depth(t), 1>>)
      PROVE  Job(j).ran = Extent[Task(j)]
  <2>1. Gone(t) /\ Stacks(stack) /\ Depth(t) > 0 /\ pc[t] = "loop" /\ Owned(t) # NoJob
    BY <1>1, ReturnsOver
  <2>2. j \in Names /\ OfTop(stack, t, j) /\ At(stack, j) /\ Frame(j) = Top(t)
    BY <1>1, <2>1, TopSiblings
  <2>3. /\ Job(Owned(t)) = Top(t).jobs[Top(t).joining] /\ Top(t).call # NoCall /\ JoinOk(Top(t))
        /\ Top(t).joining \in JobsOf(Top(t).call)
    BY <1>1, <2>1, OwnedJob
  <2>4. IsFrame(Top(t)) /\ Top(t).joining = Len(Top(t).jobs)
    BY <1>1, <2>1, TopIs DEF Return
  <2>5. PICK f, i : f = Top(t) /\ i = j[3] /\ Job(j) = f.jobs[i] /\ i \in JobsOf(f.call)
    BY <2>2, Places DEF Job, At, Frame
  <2>6. ~f.failed /\ ~f.jobs[f.joining].failed
    BY <1>1, <2>3, <2>5 DEF CallFailed
  <2>7. ~f.jobs[i].failed
    <3>1. f.call \in Calls /\ DOMAIN f.jobs = JobsOf(f.call)
      BY <2>3, <2>4, <2>5 DEF IsFrame
    <3>2. JobsOf(f.call) = 1 .. Len(TasksOf[f.call]) /\ Len(TasksOf[f.call]) \in Nat
      BY <3>1, CallsTasks
    <3>3. f.joining = Len(TasksOf[f.call])
      BY <2>4, <2>5, <3>1, <3>2
    <3>4. CASE i = f.joining
      BY <2>6, <3>4
    <3>5. CASE i # f.joining
      <4>1. i < f.joining /\ f.joining >= f.joining
        BY <2>5, <3>2, <3>3, <3>5
      <4>2. QED
        BY <2>3, <2>5, <2>6, <4>1 DEF JoinOk
    <3>6. QED
      BY <3>4, <3>5
  <2>8. Job(j).extent = 0 /\ Job(j).active = 0
    BY <2>1, <2>2 DEF Gone
  <2>9. Job(j).extent + Job(j).ran + (IF Serial(j) THEN 0 ELSE Job(j).active) = Extent[Task(j)]
    BY <1>1, <2>2, <2>5, <2>7 DEF IInv, AccountInv
  <2>10. IsJob(Job(j), Task(j))
    BY <2>1, <2>2, JobsType DEF Job, JobAt, Task, Frame
  <2>11. PICK n \in Nat : n = Job(j).ran
    BY <2>10 DEF IsJob
  <2>12. QED
    BY <2>8, <2>9, <2>11
<1>2. ASSUME IInv, [Next]_vars
      PROVE  [\A t \in Threads : Returns(t) /\ pc[t] = "loop" /\ ~CallFailed(t) =>
                \A j \in Siblings(<<t, Depth(t), 1>>) : Job(j).ran = Extent[Task(j)]]_vars
  <2>1. SUFFICES ASSUME Next, NEW t \in Threads, Returns(t), pc[t] = "loop", ~CallFailed(t),
                        NEW j \in Siblings(<<t, Depth(t), 1>>)
                 PROVE  Job(j).ran = Extent[Task(j)]
    BY <1>2
  <2>2. Return(t)
    BY <1>2, <2>1, OnlyReturns DEF Next
  <2>3. QED
    BY <1>1, <1>2, <2>1, <2>2
<1>3. QED
  BY Invariance, <1>2, PTL DEF Spec, SuccessMeansDone

-----------------------------------------------------------------------------
(* An owner and the failures of its jobs *)

Suspect(F, j) == Task(j) \in F \/ Job(j).failed
Tainted(f) == f.failed \/ \E i \in JobsOf(f.call) : f.jobs[i].failed
Caller(t, d) == stack[t][d - 1].run.job

\* A call fails with the task that makes it.
BlameOk(F, t, d) ==
    d > 1 => /\ stack[t][d].call \in CallsIn(Task(Caller(t, d)))
             /\ Tainted(stack[t][d]) => Suspect(F, Caller(t, d))

\* A run fails with its job.
FailOk(F, t, d) == stack[t][d].run.failed => Suspect(F, stack[t][d].run.job)

\* A job behind the one that is joined fails only with all of them.
LaterOk(f) ==
    \A i, k \in JobsOf(f.call) : i > f.joining /\ k >= f.joining /\ f.jobs[i].failed => f.jobs[k].failed

FramesOk(F) == \A t \in Threads : \A d \in 1 .. Depth(t) : BlameOk(F, t, d) /\ FailOk(F, t, d) /\ LaterOk(stack[t][d])

\* The owned job has failed and nobody works on it.
Over(f) == f.jobs[f.joining].failed /\ f.jobs[f.joining].active = 0

\* Who sleeps as an owner is one, and who sleeps or is about to has something to wait for.
WatchOk(t) ==
    /\ pc[t] = "sleepOwner" => Top(t).call # NoCall
    /\ pc[t] \in {"scan", "sleepOwner"} /\ Top(t).call # NoCall => ~Over(Top(t))

WatchInv == \A t \in Threads : WatchOk(t)

FailureInv(F) == FramesOk(F) /\ WatchInv

-----------------------------------------------------------------------------
\* A frame and its jobs after a step: what has failed had failed, or fails with
\* the frame or as the job that is joined, and the caller can be blamed.
Grown(F, u, d) ==
    /\ d \in 1 .. Len(stack[u])
    /\ stack'[u][d].call = stack[u][d].call
    /\ stack'[u][d].joining >= stack[u][d].joining
    /\ stack'[u][d].failed => Tainted(stack[u][d])
    /\ d > 1 => stack'[u][d - 1].run.job = stack[u][d - 1].run.job
    /\ \A i \in JobsOf(stack[u][d].call) :
          /\ stack[u][d].jobs[i].failed => stack'[u][d].jobs[i].failed
          /\ stack'[u][d].jobs[i].failed =>
                \/ stack[u][d].jobs[i].failed
                \/ /\ \/ i = stack[u][d].joining
                      \/ \A k \in JobsOf(stack[u][d].call) : stack'[u][d].jobs[k].failed
                   /\ d > 1 => Suspect(F, Caller(u, d))

\* A frame that is new.
Pushed(u, d) ==
    /\ ~stack'[u][d].failed
    /\ \A i \in JobsOf(stack'[u][d].call) : ~stack'[u][d].jobs[i].failed
    /\ \A j : d > 1 /\ j = stack'[u][d - 1].run.job => stack'[u][d].call \in CallsIn(Task(j)')

\* A job's task stays, and a suspect stays one.
Lasts(j) == Task(j)' = Task(j) /\ (Job(j).failed => Job(j).failed')

Spreads(F) ==
    \A u \in Threads : \A d \in 1 .. Len(stack'[u]) :
        /\ Grown(F, u, d) \/ Pushed(u, d)
        /\ \A j : d > 1 /\ Grown(F, u, d) /\ j = Caller(u, d) => Lasts(j)
        /\ \A j : stack'[u][d].run.failed /\ j = stack'[u][d].run.job => Suspect(F, j)'

\* Such a step leaves every failure explained.
LEMMA FramesMove ==
  ASSUME NEW F, FramesOk(F), Stacks(stack), Stacks(stack'), Spreads(F)
  PROVE  FramesOk(F)'
<1>1. SUFFICES ASSUME NEW u \in Threads, NEW d \in 1 .. Len(stack'[u])
               PROVE  BlameOk(F, u, d)' /\ FailOk(F, u, d)' /\ LaterOk(stack'[u][d])
  BY DEF FramesOk, Depth
<1>2. PICK f, g, n : f = stack[u][d] /\ g = stack'[u][d] /\ n = d - 1
  OBVIOUS
<1>3. FailOk(F, u, d)'
  BY DEF Spreads, FailOk
<1>4. CASE Pushed(u, d)
  <2>1. ~Tainted(g) /\ LaterOk(g)
    BY <1>2, <1>4 DEF Pushed, Tainted, LaterOk
  <2>2. BlameOk(F, u, d)'
    BY <1>2, <1>4, <2>1 DEF Pushed, BlameOk, Caller
  <2>3. QED
    BY <1>2, <1>3, <2>1, <2>2
<1>5. CASE Grown(F, u, d)
  <2>1. d \in 1 .. Len(stack[u]) /\ g.call = f.call /\ g.joining >= f.joining /\ g.joining \in Nat /\ f.joining \in Nat
        /\ (g.failed => Tainted(f)) /\ IsFrame(f) /\ IsFrame(g)
    <3>1. d \in 1 .. Len(stack[u])
      BY <1>5 DEF Grown
    <3>2. IsFrame(f) /\ IsFrame(g)
      BY <1>2, <3>1 DEF Stacks, IsStack
    <3>3. g.joining \in Nat /\ f.joining \in Nat
      BY <3>2 DEF IsFrame
    <3>4. QED
      BY <1>2, <1>5, <3>1, <3>2, <3>3 DEF Grown
  <2>2. \A i \in JobsOf(f.call) :
          /\ i \in Nat /\ (f.jobs[i].failed => g.jobs[i].failed)
          /\ g.jobs[i].failed =>
                \/ f.jobs[i].failed
                \/ /\ i = f.joining \/ \A k \in JobsOf(f.call) : g.jobs[k].failed
                   /\ d > 1 => Suspect(F, Caller(u, d))
    <3>1. f.call \in Calls \union {NoCall}
      BY <2>1 DEF IsFrame
    <3>2. \A i \in JobsOf(f.call) : i \in Nat
      BY <3>1, TasksType
    <3>3. QED
      BY <1>2, <1>5, <3>2 DEF Grown
  <2>3. LaterOk(f) /\ BlameOk(F, u, d)
    BY <1>2, <2>1 DEF FramesOk, Depth
  <2>4. LaterOk(g)
    <3>1. SUFFICES ASSUME NEW i \in JobsOf(f.call), NEW k \in JobsOf(f.call), i > g.joining, k >= g.joining,
                          g.jobs[i].failed
                   PROVE  g.jobs[k].failed
      BY <2>1 DEF LaterOk
    <3>2. i > f.joining /\ k >= f.joining /\ i # f.joining
      BY <2>1, <2>2, <3>1
    <3>3. CASE f.jobs[i].failed
      BY <2>2, <2>3, <3>2, <3>3 DEF LaterOk
    <3>4. CASE ~f.jobs[i].failed
      BY <2>2, <3>1, <3>2, <3>4
    <3>5. QED
      BY <3>3, <3>4
  <2>5. BlameOk(F, u, d)'
    <3>1. SUFFICES ASSUME d > 1 PROVE BlameOk(F, u, d)'
      BY DEF BlameOk
    <3>2. PICK j : j = Caller(u, d)
      OBVIOUS
    <3>3. Caller(u, d)' = j
      BY <1>5, <3>1, <3>2 DEF Grown, Caller
    <3>4. Task(j)' = Task(j) /\ (Job(j).failed => Job(j).failed')
      <4>1. Lasts(j)
        BY <1>5, <3>1, <3>2 DEF Spreads
      <4>2. QED
        BY <4>1 DEF Lasts
    <3>5. g.call \in CallsIn(Task(j))
      BY <1>2, <2>1, <2>3, <3>1, <3>2 DEF BlameOk
    <3>6. Suspect(F, j) => Suspect(F, j)'
      BY <3>4 DEF Suspect
    <3>7. Tainted(g) => Suspect(F, j)
      <4>1. Tainted(f) => Suspect(F, j)
        BY <1>2, <2>3, <3>1, <3>2 DEF BlameOk
      <4>2. QED
        BY <2>1, <2>2, <3>1, <3>2, <4>1 DEF Tainted
    <3>8. g.call \in CallsIn(Task(j)')
      BY <3>4, <3>5
    <3>9. QED
      BY <1>2, <3>3, <3>6, <3>7, <3>8 DEF BlameOk
  <2>6. QED
    BY <1>2, <1>3, <2>4, <2>5
<1>6. QED
  BY <1>4, <1>5 DEF Spreads

JobName(u, d, i) == <<u, d, i>>

\* A job of a frame and its name.
LEMMA NameOf ==
  ASSUME NEW s, Stacks(s), NEW u \in Threads, NEW d \in 1 .. Len(s[u]), NEW i \in JobsOf(s[u][d].call),
         NEW k, k = JobName(u, d, i)
  PROVE  /\ k \in Names /\ At(s, k) /\ k[1] = u /\ k[2] = d /\ k[3] = i
         /\ \A z : JobAt(z, k) = z[u][d].jobs[i]
<1>1. IsFrame(s[u][d]) /\ Len(s[u]) \in Nat
  BY DEF Stacks, IsStack
<1>2. i \in Nat /\ d \in Nat
  <2>1. s[u][d].call \in Calls \union {NoCall}
    BY <1>1 DEF IsFrame
  <2>2. QED
    BY <1>1, <2>1, TasksType
<1>3. k \in Names /\ k[1] = u /\ k[2] = d /\ k[3] = i
  BY <1>2 DEF Names, JobName
<1>4. QED
  BY <1>3 DEF At, JobAt

\* The task that made a call is there.
LEMMA CallerIs ==
  ASSUME IInv, NEW u \in Threads, NEW d \in 1 .. Depth(u), d > 1
  PROVE  Caller(u, d) \in Names /\ At(stack, Caller(u, d)) /\ Caller(u, d) # NoJob /\ d - 1 \in 1 .. Depth(u)
<1>1. NestOk(u, d)
  BY DEF IInv, NestInv
<1>2. Caller(u, d) # NoJob
  BY <1>1 DEF NestOk, Caller
<1>3. d - 1 \in 1 .. Depth(u) /\ IsFrame(stack[u][d - 1])
  <2>1. Depth(u) \in Nat /\ Depth(u) = Len(stack[u]) /\ Stacks(stack)
    BY DepthIs, PartsOf
  <2>2. d - 1 \in 1 .. Depth(u)
    BY <2>1
  <2>3. QED
    BY <2>1, <2>2 DEF Stacks, IsStack
<1>4. RunOk(u, d - 1)
  BY <1>3 DEF IInv, RunInv
<1>5. At(stack, Caller(u, d))
  BY <1>2, <1>4 DEF RunOk, Caller
<1>6. Caller(u, d) \in Names
  BY <1>5 DEF At
<1>7. QED
  BY <1>2, <1>3, <1>5, <1>6

\* The failures of a step that keeps the calls.
Fails(F, t) ==
    /\ \A u \in Threads : \A d \in 1 .. Len(stack[u]) :
          /\ stack'[u][d].joining >= stack[u][d].joining
          /\ stack'[u][d].failed => Tainted(stack[u][d])
    /\ \A k \in Names : At(stack, k) =>
          /\ JobAt(stack, k).failed => JobAt(stack', k).failed
          /\ JobAt(stack', k).failed =>
                \/ JobAt(stack, k).failed
                \/ /\ k[3] = stack[k[1]][k[2]].joining \/ AllFailed(stack', k)
                   /\ k[2] > 1 => Suspect(F, Caller(k[1], k[2]))
    /\ Depth(t) > 0 /\ stack'[t][Len(stack[t])].run.failed =>
          \A j : j = stack'[t][Len(stack[t])].run.job => j \in Names /\ At(stack, j) /\ Suspect(F, j)

\* They leave every failure explained.
LEMMA FailuresMove ==
  ASSUME NEW F, FramesOk(F), IInv, Stacks(stack'), NEW t \in Threads, KeepsCalls(stack, stack'),
         OtherRuns(stack, stack', t), Fails(F, t)
  PROVE  FramesOk(F)'
<1>1. Stacks(stack) /\ \A u \in Threads : Len(stack[u]) \in Nat /\ Depth(u) = Len(stack[u])
  BY PartsOf, DepthIs
<1>2. ASSUME NEW j \in Names, At(stack, j) PROVE Lasts(j) /\ (Suspect(F, j) => Suspect(F, j)')
  <2>1. Task(j)' = Task(j)
    BY <1>2, CallsStay
  <2>2. Job(j) = JobAt(stack, j) /\ Job(j)' = JobAt(stack', j)
    BY JobIs
  <2>3. Job(j).failed => Job(j).failed'
    BY <1>2, <2>2 DEF Fails
  <2>4. QED
    BY <2>1, <2>3 DEF Lasts, Suspect
<1>3. SUFFICES ASSUME NEW u \in Threads, NEW d \in 1 .. Len(stack'[u])
               PROVE  /\ Grown(F, u, d)
                      /\ \A j : d > 1 /\ j = Caller(u, d) => Lasts(j)
                      /\ \A j : stack'[u][d].run.failed /\ j = stack'[u][d].run.job => Suspect(F, j)'
  <2>1. Spreads(F)
    BY <1>3 DEF Spreads
  <2>2. QED
    BY <1>1, <2>1, FramesMove
<1>4. d \in 1 .. Len(stack[u]) /\ stack'[u][d].call = stack[u][d].call /\ IsFrame(stack[u][d]) /\ d \in 1 .. Depth(u)
  BY <1>1 DEF KeepsCalls, Stacks, IsStack
<1>5. \A j : d > 1 /\ j = Caller(u, d) => Lasts(j)
  BY <1>2, <1>4, CallerIs
<1>6. \A j : stack'[u][d].run.failed /\ j = stack'[u][d].run.job => Suspect(F, j)'
  <2>1. SUFFICES ASSUME NEW j, stack'[u][d].run.failed, j = stack'[u][d].run.job PROVE Suspect(F, j)'
    OBVIOUS
  <2>2. CASE u = t /\ d = Len(stack[t])
    BY <1>1, <1>2, <1>4, <2>1, <2>2 DEF Fails
  <2>3. CASE ~(u = t /\ d = Len(stack[t]))
    <3>1. stack'[u][d].run = stack[u][d].run
      BY <1>4, <2>3 DEF OtherRuns
    <3>2. Suspect(F, j)
      BY <1>4, <2>1, <3>1 DEF FramesOk, FailOk
    <3>3. RunOk(u, d)
      BY <1>4 DEF IInv, RunInv
    <3>4. j # NoJob
      BY <2>1, <3>1, <3>3 DEF RunOk, NoRun
    <3>5. At(stack, j) /\ j \in Names
      BY <2>1, <3>1, <3>3, <3>4 DEF RunOk, At
    <3>6. QED
      BY <1>2, <3>2, <3>5
  <2>4. QED
    BY <2>2, <2>3
<1>7. d > 1 => stack'[u][d - 1].run.job = stack[u][d - 1].run.job
  <2>1. d > 1 => d - 1 \in 1 .. Len(stack[u]) /\ d - 1 # Len(stack[u])
    BY <1>1, <1>4
  <2>2. QED
    BY <2>1 DEF OtherRuns
<1>8. ASSUME NEW i \in JobsOf(stack[u][d].call)
      PROVE  /\ stack[u][d].jobs[i].failed => stack'[u][d].jobs[i].failed
             /\ stack'[u][d].jobs[i].failed =>
                   \/ stack[u][d].jobs[i].failed
                   \/ /\ \/ i = stack[u][d].joining
                         \/ \A k \in JobsOf(stack[u][d].call) : stack'[u][d].jobs[k].failed
                      /\ d > 1 => Suspect(F, Caller(u, d))
  <2>1. PICK k : k = JobName(u, d, i)
    OBVIOUS
  <2>2. /\ k \in Names /\ At(stack, k) /\ k[1] = u /\ k[2] = d /\ k[3] = i
        /\ \A z : JobAt(z, k) = z[u][d].jobs[i]
    BY <1>1, <1>4, <2>1, NameOf
  <2>3. ASSUME AllFailed(stack', k), NEW l \in JobsOf(stack[u][d].call) PROVE stack'[u][d].jobs[l].failed
    <3>1. PICK m : m = JobName(u, d, l)
      OBVIOUS
    <3>2. m \in Names /\ At(stack', m) /\ m[1] = u /\ m[2] = d /\ \A z : JobAt(z, m) = z[u][d].jobs[l]
      BY <1>4, <3>1, NameOf
    <3>3. QED
      BY <2>2, <2>3, <3>2 DEF AllFailed
  <2>4. /\ JobAt(stack, k).failed => JobAt(stack', k).failed
        /\ JobAt(stack', k).failed =>
                \/ JobAt(stack, k).failed
                \/ /\ i = stack[u][d].joining \/ AllFailed(stack', k)
                   /\ d > 1 => Suspect(F, Caller(u, d))
    BY <2>2 DEF Fails
  <2>5. QED
    BY <2>2, <2>3, <2>4
<1>9. Grown(F, u, d)
  BY <1>4, <1>7, <1>8 DEF Grown, Fails
<1>10. QED
  BY <1>5, <1>6, <1>9

\* The job an owner waits for, before and after a step that keeps the calls.
LEMMA OverIs ==
  ASSUME IInv, Stacks(stack'), KeepsCalls(stack, stack'), NEW u \in Threads, Depth(u) > 0, Top(u).call # NoCall,
         NEW o, o = JobName(u, Depth(u), Top(u).joining), Top(u).joining' = Top(u).joining
  PROVE  /\ o \in Names /\ At(stack, o) /\ o[1] = u /\ o[2] = Depth(u) /\ o[3] = Top(u).joining
         /\ Over(Top(u)) <=> JobAt(stack, o).failed /\ JobAt(stack, o).active = 0
         /\ Over(Top(u))' <=> JobAt(stack', o).failed /\ JobAt(stack', o).active = 0
<1>1. Stacks(stack) /\ JoinInv
  BY PartsOf DEF IInv
<1>2. Depth(u) \in 1 .. Len(stack[u]) /\ Depth(u) \in 1 .. Depth(u) /\ Top(u) = stack[u][Depth(u)]
  BY <1>1, TopIs DEF Top
<1>3. Top(u).joining \in JobsOf(stack[u][Depth(u)].call)
  BY <1>1, <1>2 DEF JoinInv, JoinOk
<1>4. /\ o \in Names /\ At(stack, o) /\ o[1] = u /\ o[2] = Depth(u) /\ o[3] = Top(u).joining
      /\ \A z : JobAt(z, o) = z[u][Depth(u)].jobs[Top(u).joining]
  BY <1>1, <1>2, <1>3, NameOf
<1>5. Top(u)' = stack'[u][Depth(u)]
  BY <1>2 DEF Top, Depth, KeepsCalls
<1>6. QED
  BY <1>2, <1>4, <1>5 DEF Over

\* The owned job of an owner.
LEMMA CancelsIs ==
  ASSUME Stacks(stack), NEW u \in Threads, Depth(u) > 0, Owned(u) # NoJob
  PROVE  Top(u).call # NoCall /\ (Cancels(u) <=> Over(Top(u)))
<1>1. Owned(u) = <<u, Depth(u), Top(u).joining>> /\ Top(u).call # NoCall
  BY OwnedIs
<1>2. Job(Owned(u)) = Top(u).jobs[Top(u).joining]
  BY <1>1 DEF Job, Frame, Top
<1>3. QED
  BY <1>1, <1>2 DEF Cancels, Over

\* Who waits goes on to wait, or is woken.
LEMMA WatchStays ==
  ASSUME WatchInv, NEW t \in Threads, Others(t), WatchOk(t)',
         \A u \in Threads : u # t /\ pc[u] \in {"scan", "sleepOwner"} /\ pc'[u] = pc[u] =>
             /\ Top(u).call' = Top(u).call
             /\ Top(u).call # NoCall /\ ~Over(Top(u)) => ~Over(Top(u))'
  PROVE  WatchInv'
<1>1. SUFFICES ASSUME NEW u \in Threads, u # t PROVE WatchOk(u)'
  BY DEF WatchInv
<1>2. CASE pc'[u] \in {"scan", "sleepOwner"}
  <2>1. pc'[u] = pc[u]
    BY <1>1, <1>2 DEF Others, Sleeping, Awakened
  <2>2. WatchOk(u)
    BY DEF WatchInv
  <2>3. QED
    BY <1>1, <1>2, <2>1, <2>2 DEF WatchOk
<1>3. CASE pc'[u] \notin {"scan", "sleepOwner"}
  BY <1>3 DEF WatchOk
<1>4. QED
  BY <1>2, <1>3

\* Who waits has a frame.
LEMMA WaitersOwn ==
  ASSUME IInv, NEW u \in Threads, pc[u] \in {"scan", "sleepOwner"}
  PROVE  Depth(u) > 0
  BY InLoop DEF Busy

\* A calm step leaves the failures as they are.
LEMMA CalmFails ==
  ASSUME NEW F, FailsFirst(F), FailureInv(F), IInv, IInv', NEW t \in Threads, Calm(t),
         pc'[t] \in {"scan", "sleepOwner"} => Depth(t) > 0,
         pc'[t] = "sleepOwner" => Top(t).call # NoCall,
         pc'[t] \in {"scan", "sleepOwner"} /\ Top(t).call # NoCall => ~Over(Top(t))
  PROVE  FailureInv(F)'
<1>1. /\ Stacks(stack) /\ Stacks(stack') /\ Others(t) /\ KeepsCalls(stack, stack') /\ KeepsJoins(stack, stack')
      /\ OtherRuns(stack, stack', t)
  BY PartsOf DEF Calm
<1>2. \A u \in Threads : Depth(u) \in Nat /\ Depth(u) = Len(stack[u])
  BY <1>1, DepthIs
<1>3. Fails(F, t)
  <2>1. ASSUME NEW u \in Threads, NEW d \in 1 .. Len(stack[u])
        PROVE  stack'[u][d].joining >= stack[u][d].joining /\ (stack'[u][d].failed => Tainted(stack[u][d]))
    <3>1. stack[u][d].joining \in Nat
      BY <1>1 DEF Stacks, IsStack, IsFrame
    <3>2. QED
      BY <1>1, <3>1 DEF KeepsJoins, Tainted
  <2>2. \A k \in Names : At(stack, k) => (JobAt(stack', k).failed <=> JobAt(stack, k).failed)
    BY DEF Calm, SameFailed
  <2>3. ASSUME Depth(t) > 0, stack'[t][Len(stack[t])].run.failed, NEW j, j = stack'[t][Len(stack[t])].run.job
        PROVE  j \in Names /\ At(stack, j) /\ Suspect(F, j)
    <3>1. j = Run(t).job /\ (Run(t).failed \/ Task(j) \in F)
      BY <2>3 DEF Calm, RunGoesOn, FailsFirst
    <3>2. Depth(t) \in 1 .. Depth(t) /\ Top(t) = stack[t][Depth(t)]
      BY <1>2, <2>3 DEF Top
    <3>3. FailOk(F, t, Depth(t)) /\ RunOk(t, Depth(t))
      BY <3>2 DEF FailureInv, FramesOk, IInv, RunInv
    <3>4. Suspect(F, j)
      BY <3>1, <3>2, <3>3 DEF FailOk, Run, Suspect
    <3>5. j # NoJob
      <4>1. RunOk(t, Depth(t))'
        BY <1>1, <1>2, <2>3 DEF IInv, RunInv, KeepsCalls, Depth
      <4>2. QED
        BY <1>1, <1>2, <2>3, <4>1 DEF RunOk, NoRun, KeepsCalls, Depth
    <3>6. QED
      BY <3>1, <3>2, <3>3, <3>4, <3>5 DEF RunOk, Run, At
  <2>4. QED
    BY <2>1, <2>2, <2>3 DEF Fails
<1>4. FramesOk(F)'
  BY <1>1, <1>3, FailuresMove DEF FailureInv
<1>5. ASSUME NEW u \in Threads, Depth(u) > 0
      PROVE  Top(u).call' = Top(u).call /\ (Top(u).call # NoCall /\ ~Over(Top(u)) => ~Over(Top(u))')
  <2>1. Top(u) = stack[u][Len(stack[u])] /\ Top(u)' = stack'[u][Len(stack[u])] /\ Len(stack[u]) \in 1 .. Len(stack[u])
    BY <1>1, <1>2, <1>5 DEF Top, Depth, KeepsCalls
  <2>2. Top(u).call' = Top(u).call /\ Top(u).joining' = Top(u).joining
    BY <1>1, <2>1 DEF KeepsCalls, KeepsJoins
  <2>3. PICK o : o = JobName(u, Depth(u), Top(u).joining)
    OBVIOUS
  <2>4. ASSUME Top(u).call # NoCall, Over(Top(u))' PROVE Over(Top(u))
    <3>1. /\ o \in Names /\ At(stack, o)
          /\ Over(Top(u)) <=> JobAt(stack, o).failed /\ JobAt(stack, o).active = 0
          /\ Over(Top(u))' <=> JobAt(stack', o).failed /\ JobAt(stack', o).active = 0
      BY <1>1, <1>5, <2>2, <2>3, <2>4, OverIs
    <3>2. QED
      BY <2>4, <3>1 DEF Calm, SameFailed
  <2>5. QED
    BY <2>2, <2>4
<1>6. WatchOk(t)'
  BY <1>5 DEF WatchOk
<1>7. WatchInv'
  BY <1>1, <1>5, <1>6, WaitersOwn, WatchStays DEF FailureInv
<1>8. QED
  BY <1>4, <1>7 DEF FailureInv

\* Nothing is done to the frames.
LEMMA StillFails ==
  ASSUME NEW F, FailsFirst(F), FailureInv(F), IInv, IInv', NEW t \in Threads, stack' = stack, Others(t),
         pc'[t] \in {"scan", "sleepOwner"} => Depth(t) > 0,
         pc'[t] = "sleepOwner" => Top(t).call # NoCall,
         pc'[t] \in {"scan", "sleepOwner"} /\ Top(t).call # NoCall => ~Over(Top(t))
  PROVE  FailureInv(F)'
<1>1. /\ Stacks(stack) /\ Stacks(stack') /\ KeepsCalls(stack, stack') /\ KeepsJoins(stack, stack')
      /\ KeepsJobs(stack, stack') /\ OtherRuns(stack, stack', t)
  BY PartsOf, StillKeeps
<1>2. RunGoesOn(t)
  BY <1>1, DepthIs DEF RunGoesOn, Run, Top
<1>3. Calm(t)
  BY <1>1, <1>2, IsCalm
<1>4. QED
  BY <1>3, CalmFails

\* A thread moves on that does not go to wait.
LEMMA MoveFails ==
  ASSUME NEW F, FailsFirst(F), FailureInv(F), IInv, IInv', NEW t \in Threads, NEW v \in Pcs, stack' = stack,
         v \notin {"scan", "sleepOwner"},
         \/ pc' = [pc EXCEPT ![t] = v]
         \/ \E reasons \in SUBSET Sleeping : pc' = [Broadcast(pc, reasons) EXCEPT ![t] = v]
  PROVE  FailureInv(F)'
<1>1. pc \in [Threads -> Pcs]
  BY PartsOf
<1>2. Others(t) /\ pc'[t] = v
  BY <1>1, OneMoves, BroadcastKeeps
<1>3. QED
  BY <1>2, StillFails

\* The steps of a thread that change no frame.
LEMMA MovesFail ==
  ASSUME NEW F, FailsFirst(F), FailureInv(F), IInv, IInv', NEW t \in Threads,
         \/ Start(t) \/ WorkerExits(t) \/ WakeUp(t) \/ WakeWaiters(t) \/ Shutdown(t)
         \/ pc[t] = "enqueue" /\ pc' = [pc EXCEPT ![t] = "aborted"] /\ stack' = stack
  PROVE  FailureInv(F)'
<1>1. {"loop", "exited", "task", "join", "aborted"} \subseteq Pcs \ {"scan", "sleepOwner"}
      /\ {"sleepA", "sleepOwner"} \in SUBSET Sleeping /\ Sleeping \in SUBSET Sleeping
  BY DEF Pcs, Sleeping
<1>2. stack' = stack
  BY DEF Start, WorkerExits, WakeUp, WakeWaiters, Shutdown
<1>3. CASE Start(t) \/ WakeUp(t)
  BY <1>1, <1>2, <1>3, MoveFails DEF Start, WakeUp
<1>4. CASE WorkerExits(t)
  BY <1>1, <1>2, <1>4, MoveFails DEF WorkerExits
<1>5. CASE WakeWaiters(t)
  BY <1>1, <1>2, <1>5, MoveFails DEF WakeWaiters
<1>6. CASE Shutdown(t)
  BY <1>1, <1>2, <1>6, MoveFails DEF Shutdown
<1>7. CASE pc[t] = "enqueue" /\ pc' = [pc EXCEPT ![t] = "aborted"] /\ stack' = stack
  BY <1>1, <1>2, <1>7, MoveFails
<1>8. QED
  BY <1>3, <1>4, <1>5, <1>6, <1>7

\* Nobody moves.
LEMMA NothingFails ==
  ASSUME NEW F, FailureInv(F), stack' = stack, pc' = pc
  PROVE  FailureInv(F)'
  BY DEF FailureInv, FramesOk, WatchInv, BlameOk, FailOk, WatchOk, Depth, Caller, Suspect, Task, Job, Frame, Top

\* An owner looks for a job to run only while its own is not over.
LEMMA StartScanFails ==
  ASSUME NEW F, FailsFirst(F), FailureInv(F), IInv, IInv', NEW t \in Threads, StartScan(t)
  PROVE  FailureInv(F)'
<1>1. /\ pc[t] = "loop" /\ pc' = [pc EXCEPT ![t] = "scan"] /\ stack' = stack
      /\ Owned(t) = NoJob \/ ~Cancels(t)
  BY DEF StartScan
<1>2. Depth(t) > 0 /\ Stacks(stack) /\ pc \in [Threads -> Pcs] /\ "scan" \in Pcs
  BY <1>1, InLoop, PartsOf DEF Busy, Pcs
<1>3. Others(t) /\ pc'[t] = "scan"
  BY <1>1, <1>2, OneMoves
<1>4. Top(t).call # NoCall => ~Over(Top(t))
  BY <1>1, <1>2, OwnedIs, CancelsIs
<1>5. QED
  BY <1>1, <1>2, <1>3, <1>4, StillFails

\* The scan has found nothing.
LEMMA SleepFails ==
  ASSUME NEW F, FailsFirst(F), FailureInv(F), IInv, IInv', NEW t \in Threads, Sleep(t)
  PROVE  FailureInv(F)'
<1>1. PICK v : pc[t] = "scan" /\ v = SleepPc(t) /\ pc' = [pc EXCEPT ![t] = v] /\ stack' = stack
  BY DEF Sleep
<1>2. Depth(t) > 0 /\ Stacks(stack) /\ pc \in [Threads -> Pcs]
  BY <1>1, WaitersOwn, PartsOf
<1>3. v \in Pcs \ {"scan"} /\ (v = "sleepOwner" => Owned(t) # NoJob)
  BY <1>1 DEF SleepPc, Pcs, Sleeping
<1>4. Others(t) /\ pc'[t] = v
  BY <1>1, <1>2, <1>3, OneMoves
<1>5. v = "sleepOwner" => Top(t).call # NoCall
  BY <1>2, <1>3, OwnedIs
<1>6. Top(t).call # NoCall => ~Over(Top(t))
  BY <1>1 DEF FailureInv, WatchInv, WatchOk
<1>7. QED
  BY <1>1, <1>2, <1>3, <1>4, <1>5, <1>6, StillFails

\* The scan passes over a job.
LEMMA PassOverFails ==
  ASSUME NEW F, FailsFirst(F), FailureInv(F), IInv, IInv', NEW t \in Threads, PassOver(t)
  PROVE  FailureInv(F)'
<1>1. pc[t] = "scan" /\ pc' = pc
  BY DEF PassOver
<1>2. Depth(t) > 0
  BY <1>1, WaitersOwn
<1>3. Top(t).call # NoCall => ~Over(Top(t))
  BY <1>1 DEF FailureInv, WatchInv, WatchOk
<1>4. Calm(t)
  BY PassOverStep
<1>5. QED
  BY <1>1, <1>2, <1>3, <1>4, CalmFails

\* The other calm steps.
LEMMA CalmStepsFail ==
  ASSUME NEW F, FailsFirst(F), FailureInv(F), IInv, IInv', NEW t \in Threads,
         \/ Take(t) \/ CancelOwned(t) \/ ReleaseSemaphore(t) \/ IterationEnds(t) \/ TaskFails(t)
         \/ Claim(t) \/ ClaimEnds(t)
  PROVE  FailureInv(F)'
<1>1. Calm(t)
  BY TakeStep, CancelOwnedStep, ReleaseSemaphoreStep, IterationEndsStep, TaskFailsStep, ClaimStep, ClaimEndsStep
<1>2. pc'[t] \notin {"scan", "sleepOwner"}
  <2>1. pc \in [Threads -> Pcs]
    BY PartsOf
  <2>2. CASE Take(t) \/ CancelOwned(t)
    BY <2>1, <2>2 DEF Take, CancelOwned
  <2>3. CASE ReleaseSemaphore(t) \/ IterationEnds(t) \/ TaskFails(t)
    BY <2>1, <2>3 DEF ReleaseSemaphore, IterationEnds, TaskFails
  <2>4. CASE Claim(t) \/ ClaimEnds(t)
    BY <2>1, <2>4 DEF Claim, ClaimEnds
  <2>5. QED
    BY <2>2, <2>3, <2>4
<1>3. QED
  BY <1>1, <1>2, CalmFails

\* The run of a top frame that is kept can be explained.
LEMMA KeptRun ==
  ASSUME NEW F, FramesOk(F), IInv, NEW t \in Threads, Depth(t) > 0,
         stack'[t][Len(stack[t])].run = Run(t), Run(t).failed, NEW j, j = stack'[t][Len(stack[t])].run.job
  PROVE  j \in Names /\ At(stack, j) /\ Suspect(F, j)
<1>1. Stacks(stack) /\ Depth(t) \in 1 .. Depth(t) /\ Top(t) = stack[t][Depth(t)]
  BY PartsOf, TopIs DEF Top
<1>2. FailOk(F, t, Depth(t)) /\ RunOk(t, Depth(t))
  BY <1>1 DEF FramesOk, IInv, RunInv
<1>3. j # NoJob
  BY <1>1, <1>2 DEF RunOk, NoRun, Run
<1>4. At(stack, j) /\ Suspect(F, j)
  BY <1>1, <1>2, <1>3 DEF RunOk, FailOk, Run
<1>5. QED
  BY <1>4 DEF At

\* An owner that goes on to its next job takes along what failures there were.
LEMMA JoinNextFails ==
  ASSUME NEW F, FailureInv(F), IInv, IInv', NEW t \in Threads, JoinNext(t)
  PROVE  FailureInv(F)'
<1>1. JoinGoesOn(t) /\ Stacks(stack) /\ pc \in [Threads -> Pcs] /\ FramesOk(F) /\ WatchInv
  BY JoinNextStep, PartsOf DEF FailureInv
<1>2. /\ Stacks(stack') /\ pc' = pc /\ pc[t] = "loop" /\ KeepsCalls(stack, stack') /\ KeepsRuns(stack, stack')
      /\ KeepsJobs(stack, stack')
      /\ \A u \in Threads : \A d \in 1 .. Len(stack[u]) : u # t \/ d # Len(stack[t]) => stack'[u][d] = stack[u][d]
      /\ stack'[t][Len(stack[t])].joining = Top(t).joining + 1
      /\ stack'[t][Len(stack[t])].failed => Top(t).failed \/ Top(t).jobs[Top(t).joining].failed
      /\ Top(t).joining \in JobsOf(Top(t).call)
  BY <1>1, Zenon DEF JoinGoesOn
<1>3. Others(t) /\ pc'[t] = "loop" /\ Depth(t) > 0
  BY <1>1, <1>2, NobodyMoves, InLoop DEF Busy
<1>4. /\ Depth(t) = Len(stack[t]) /\ Len(stack[t]) \in 1 .. Len(stack[t]) /\ Top(t) = stack[t][Len(stack[t])]
      /\ IsFrame(Top(t))
  BY <1>1, <1>3, TopIs
<1>5. ASSUME NEW u \in Threads, NEW d \in 1 .. Len(stack[u])
      PROVE  stack'[u][d].joining >= stack[u][d].joining /\ (stack'[u][d].failed => Tainted(stack[u][d]))
  <2>1. stack[u][d].joining \in Nat
    BY <1>1 DEF Stacks, IsStack, IsFrame
  <2>2. CASE u = t /\ d = Len(stack[t])
    BY <1>2, <1>4, <2>1, <2>2 DEF Tainted
  <2>3. CASE u # t \/ d # Len(stack[t])
    <3>1. stack'[u][d] = stack[u][d]
      BY <1>2, <2>3
    <3>2. QED
      BY <2>1, <3>1 DEF Tainted
  <2>4. QED
    BY <2>2, <2>3
<1>6. \A k \in Names : At(stack, k) => JobAt(stack', k).failed = JobAt(stack, k).failed
  BY <1>2 DEF KeepsJobs, SameFailed
<1>7. stack'[t][Len(stack[t])].run = Run(t) /\ OtherRuns(stack, stack', t)
  BY <1>2, <1>4 DEF KeepsRuns, OtherRuns, Run
<1>8. ASSUME stack'[t][Len(stack[t])].run.failed, NEW j, j = stack'[t][Len(stack[t])].run.job
      PROVE  j \in Names /\ At(stack, j) /\ Suspect(F, j)
  BY <1>1, <1>3, <1>7, <1>8, KeptRun
<1>9. Fails(F, t)
  BY <1>5, <1>6, <1>8 DEF Fails
<1>10. FramesOk(F)'
  BY <1>1, <1>2, <1>7, <1>9, FailuresMove
<1>11. ASSUME NEW u \in Threads, u # t, Depth(u) > 0 PROVE Top(u)' = Top(u)
  <2>1. Depth(u) = Len(stack[u]) /\ Len(stack[u]) \in 1 .. Len(stack[u])
    BY <1>1, <1>11, TopIs
  <2>2. Depth(u)' = Depth(u)
    BY <1>2 DEF KeepsCalls, Depth
  <2>3. QED
    BY <1>2, <1>11, <2>1, <2>2 DEF Top
<1>12. ASSUME NEW u \in Threads, u # t, pc[u] \in {"scan", "sleepOwner"}
       PROVE  Top(u).call' = Top(u).call /\ (~Over(Top(u)) => ~Over(Top(u))')
  <2>1. Top(u)' = Top(u)
    BY <1>11, <1>12, WaitersOwn
  <2>2. QED
    BY <2>1 DEF Over
<1>13. WatchOk(t)'
  BY <1>3 DEF WatchOk
<1>14. QED
  BY <1>1, <1>3, <1>10, <1>12, <1>13, WatchStays DEF FailureInv

\* A job that inherits the failure of its parent is the one its owner joins.
LEMMA InheritFails ==
  ASSUME NEW F, FailureInv(F), IInv, IInv', NEW t \in Threads, InheritFailure(t)
  PROVE  FailureInv(F)'
<1>1. Inherited(t) /\ Stacks(stack) /\ ScanInv /\ FramesOk(F) /\ WatchInv
  BY InheritFailureStep, PartsOf DEF FailureInv
<1>2. /\ Stacks(stack') /\ pc[t] = "loop" /\ pc'[t] = "loop" /\ Others(t) /\ \A u \in Threads : pc'[u] # "sleepOwner"
      /\ KeepsCalls(stack, stack') /\ KeepsJoins(stack, stack') /\ KeepsRuns(stack, stack') /\ Depth(t) > 0
      /\ Owned(t)[1] = t /\ Owned(t)[2] = Depth(t) /\ Owned(t)[3] = Top(t).joining
      /\ \A k \in Names : At(stack, k) =>
          /\ JobAt(stack, k).failed => JobAt(stack', k).failed
          /\ k # Owned(t) => JobAt(stack', k).failed = JobAt(stack, k).failed
      /\ Top(t).parent # NoJob /\ Job(Top(t).parent).failed
  BY <1>1, Zenon DEF Inherited
<1>3. /\ Depth(t) = Len(stack[t]) /\ Depth(t) \in 1 .. Depth(t) /\ Depth(t) \in Nat /\ Top(t) = stack[t][Depth(t)]
  BY <1>1, <1>2, TopIs DEF Top
<1>4. Depth(t) > 1 => Suspect(F, Caller(t, Depth(t)))
  <2>1. NestOk(t, Depth(t))
    BY <1>3 DEF IInv, NestInv
  <2>2. Depth(t) > 1 => Caller(t, Depth(t)) = Top(t).parent
    BY <1>2, <1>3, <2>1 DEF NestOk, Caller
  <2>3. QED
    BY <1>2, <2>2 DEF Suspect
<1>5. ASSUME NEW u \in Threads, NEW d \in 1 .. Len(stack[u])
      PROVE  stack'[u][d].joining >= stack[u][d].joining /\ (stack'[u][d].failed => Tainted(stack[u][d]))
  <2>1. stack[u][d].joining \in Nat
    BY <1>1 DEF Stacks, IsStack, IsFrame
  <2>2. QED
    BY <1>2, <2>1 DEF KeepsJoins, Tainted
<1>6. ASSUME NEW k \in Names, At(stack, k), JobAt(stack', k).failed, ~JobAt(stack, k).failed
      PROVE  k[3] = stack[k[1]][k[2]].joining /\ (k[2] > 1 => Suspect(F, Caller(k[1], k[2])))
  <2>1. k = Owned(t)
    BY <1>2, <1>6
  <2>2. QED
    BY <1>2, <1>3, <1>4, <2>1
<1>7. stack'[t][Len(stack[t])].run = Run(t) /\ OtherRuns(stack, stack', t)
  BY <1>2, <1>3 DEF KeepsRuns, OtherRuns, Run
<1>8. ASSUME stack'[t][Len(stack[t])].run.failed, NEW j, j = stack'[t][Len(stack[t])].run.job
      PROVE  j \in Names /\ At(stack, j) /\ Suspect(F, j)
  BY <1>1, <1>2, <1>7, <1>8, KeptRun
<1>9. Fails(F, t)
  BY <1>2, <1>5, <1>6, <1>8 DEF Fails
<1>10. FramesOk(F)'
  BY <1>1, <1>2, <1>7, <1>9, FailuresMove
<1>11. \A u \in Threads : u # t /\ pc[u] \in {"scan", "sleepOwner"} => pc'[u] # pc[u]
  BY <1>1, <1>2 DEF ScanInv, Locked
<1>12. WatchOk(t)'
  BY <1>2 DEF WatchOk
<1>13. QED
  BY <1>1, <1>2, <1>10, <1>11, <1>12, WatchStays DEF FailureInv

\* The task of a job and the call it is of.
LEMMA TaskIs ==
  ASSUME Stacks(stack), NEW j \in Names, At(stack, j), NEW f, f = stack[j[1]][j[2]]
  PROVE  /\ IsFrame(f) /\ f.call \in Calls /\ j[3] \in JobsOf(f.call) /\ j[3] \in Nat /\ j[3] >= 1 /\ f.joining \in Nat
         /\ Task(j) \in Tasks /\ Task(j) = TasksOf[f.call][j[3]] /\ JobsOf(f.call) = DOMAIN TasksOf[f.call]
         /\ Job(j) = f.jobs[j[3]] /\ JobAt(stack, j) = f.jobs[j[3]]
<1>1. j[1] \in Threads /\ j[2] \in 1 .. Len(stack[j[1]]) /\ j[3] \in JobsOf(f.call)
  BY Places
<1>2. IsFrame(f)
  BY <1>1 DEF Stacks, IsStack
<1>3. f.call \in Calls \union {NoCall} /\ f.joining \in Nat
  BY <1>2 DEF IsFrame
<1>4. f.call \in Calls /\ TasksOf[f.call][j[3]] \in Tasks /\ JobsOf(f.call) = 1 .. Len(TasksOf[f.call])
  BY <1>1, <1>3, TasksType
<1>5. JobsOf(f.call) = DOMAIN TasksOf[f.call]
  BY <1>4, NullAssumption DEF JobsOf
<1>6. QED
  BY <1>1, <1>2, <1>3, <1>4, <1>5 DEF Task, Job, Frame, JobAt

\* A suspect job makes its call's caller one.
LEMMA CallerSuspect ==
  ASSUME NEW F, FailsFirst(F), FramesOk(F), IInv, NEW j \in Names, At(stack, j), Suspect(F, j), j[2] > 1
  PROVE  Suspect(F, Caller(j[1], j[2]))
<1>1. PICK f : f = stack[j[1]][j[2]]
  OBVIOUS
<1>2. /\ f.call \in Calls /\ j[3] \in JobsOf(f.call) /\ Task(j) = TasksOf[f.call][j[3]]
      /\ JobsOf(f.call) = DOMAIN TasksOf[f.call] /\ Job(j) = f.jobs[j[3]] /\ Stacks(stack)
  BY <1>1, TaskIs, PartsOf
<1>3. j[1] \in Threads /\ j[2] \in 1 .. Depth(j[1])
  BY Places DEF Depth
<1>4. PICK k : k = Caller(j[1], j[2])
  OBVIOUS
<1>5. f.call \in CallsIn(Task(k)) /\ (Tainted(f) => Suspect(F, k))
  <2>1. BlameOk(F, j[1], j[2])
    BY <1>3 DEF FramesOk
  <2>2. QED
    BY <1>1, <1>4, <2>1 DEF BlameOk
<1>6. CASE Job(j).failed
  BY <1>2, <1>4, <1>5, <1>6 DEF Tainted
<1>7. CASE Task(j) \in F
  <2>1. k \in Names /\ At(stack, k)
    BY <1>3, <1>4, CallerIs
  <2>2. Task(k) \in Tasks
    BY <1>2, <2>1, TaskIs
  <2>3. Task(j) \in Range(TasksOf[f.call])
    BY <1>2 DEF Range
  <2>4. Task(k) \in F
    BY <1>5, <1>7, <2>2, <2>3 DEF FailsFirst
  <2>5. QED
    BY <1>4, <2>4 DEF Suspect
<1>8. QED
  BY <1>6, <1>7 DEF Suspect

\* When a suspect job that is worked on is not the one its owner joins, that one has failed already.
LEMMA FailedBefore ==
  ASSUME NEW F, FailsFirst(F), FramesOk(F), IInv, NEW j \in Names, At(stack, j), Suspect(F, j),
         JobAt(stack, j).active >= 1,
         NEW o \in Names, At(stack, o), o # j, o[1] = j[1], o[2] = j[2], o[3] = stack[j[1]][j[2]].joining
  PROVE  JobAt(stack, o).failed
<1>1. PICK f : f = stack[j[1]][j[2]]
  OBVIOUS
<1>2. /\ f.call \in Calls /\ j[3] \in JobsOf(f.call) /\ j[3] \in Nat /\ j[3] >= 1 /\ f.joining \in Nat
      /\ Task(j) = TasksOf[f.call][j[3]] /\ JobsOf(f.call) = DOMAIN TasksOf[f.call]
      /\ Job(j) = f.jobs[j[3]] /\ JobAt(stack, j) = f.jobs[j[3]] /\ Stacks(stack)
  BY <1>1, TaskIs, PartsOf
<1>3. o[3] = f.joining /\ o[3] # j[3] /\ o[3] \in JobsOf(f.call) /\ o[3] >= 1 /\ JobAt(stack, o) = f.jobs[o[3]]
  BY <1>1, <1>2, SamePlace, TaskIs
<1>4. j[1] \in Threads /\ j[2] \in 1 .. Depth(j[1])
  BY Places DEF Depth
<1>5. f.call # NoCall
  BY <1>2, NullAssumption
<1>6. JoinOk(f)
  BY <1>1, <1>4 DEF IInv, JoinInv
<1>7. ~(j[3] < f.joining)
  <2>1. SUFFICES ASSUME j[3] < f.joining PROVE FALSE
    OBVIOUS
  <2>2. f.jobs[j[3]].active = 0
    BY <1>2, <1>5, <1>6, <2>1 DEF JoinOk
  <2>3. QED
    BY <1>2, <2>2
<1>8. j[3] > f.joining
  BY <1>2, <1>3, <1>7
<1>9. CASE Task(j) \in F
  <2>1. j[3] = 1
    BY <1>2, <1>9 DEF FailsFirst
  <2>2. QED
    BY <1>2, <1>3, <1>8, <2>1
<1>10. CASE Job(j).failed
  <2>1. LaterOk(f)
    BY <1>1, <1>4 DEF FramesOk
  <2>2. f.joining >= f.joining
    BY <1>2
  <2>3. QED
    BY <1>2, <1>3, <1>8, <1>10, <2>1, <2>2 DEF LaterOk
<1>11. QED
  BY <1>9, <1>10 DEF Suspect

\* The end of the work on a job may fail its siblings; who waits for one that is over is woken.
LEMMA FinishFails ==
  ASSUME NEW F, FailsFirst(F), FailureInv(F), IInv, IInv', NEW t \in Threads, Finish(t)
  PROVE  FailureInv(F)'
<1>1. PICK j : j = Run(t).job
  OBVIOUS
<1>2. Ends(t, j) /\ Stacks(stack) /\ FramesOk(F) /\ WatchInv
  BY <1>1, FinishStep, PartsOf DEF FailureInv
<1>3. /\ Stacks(stack') /\ LockFree /\ pc[t] = "finish" /\ pc'[t] = "loop" /\ Others(t)
      /\ KeepsCalls(stack, stack') /\ KeepsJoins(stack, stack') /\ OtherRuns(stack, stack', t)
      /\ stack'[t][Len(stack[t])].run = NoRun
  BY <1>2 DEF Ends
<1>4. \A k \in Names : At(stack, k) =>
          /\ JobAt(stack', k).failed <=> JobAt(stack, k).failed \/ (Run(t).failed /\ k[1] = j[1] /\ k[2] = j[2])
          /\ k # j => JobAt(stack', k).active = JobAt(stack, k).active
  BY <1>2 DEF Ends
<1>5. \/ \A u \in Threads : pc'[u] # "sleepOwner"
      \/ ~(JobAt(stack', j).active = 0 /\ JobAt(stack', j).failed /\ OwnerIsSleeping(j))
  BY <1>2 DEF Ends
<1>6. pc[t] \in Busy
  BY <1>3 DEF Busy
<1>7. j \in Names /\ At(stack, j) /\ JobAt(stack, j).active >= 1 /\ Depth(t) > 0
  BY <1>1, <1>6, Done, InTask
<1>8. Run(t).failed => Suspect(F, j)
  <2>1. Depth(t) \in 1 .. Depth(t) /\ Top(t) = stack[t][Depth(t)]
    BY <1>2, <1>7, TopIs DEF Top
  <2>2. FailOk(F, t, Depth(t))
    BY <1>2, <2>1 DEF FramesOk
  <2>3. QED
    BY <1>1, <2>1, <2>2 DEF FailOk, Run
<1>9. ASSUME NEW u \in Threads, NEW d \in 1 .. Len(stack[u])
      PROVE  stack'[u][d].joining >= stack[u][d].joining /\ (stack'[u][d].failed => Tainted(stack[u][d]))
  <2>1. stack[u][d].joining \in Nat
    BY <1>2 DEF Stacks, IsStack, IsFrame
  <2>2. QED
    BY <1>3, <2>1 DEF KeepsJoins, Tainted
<1>10. ASSUME NEW k \in Names, At(stack, k), JobAt(stack', k).failed, ~JobAt(stack, k).failed
       PROVE  AllFailed(stack', k) /\ (k[2] > 1 => Suspect(F, Caller(k[1], k[2])))
  <2>1. Run(t).failed /\ k[1] = j[1] /\ k[2] = j[2]
    BY <1>4, <1>10
  <2>2. AllFailed(stack', k)
    <3>1. \A m \in Names : At(stack', m) => At(stack, m)
      BY <1>3, PlacesStay
    <3>2. QED
      BY <1>4, <2>1, <3>1 DEF AllFailed
  <2>3. k[2] > 1 => Suspect(F, Caller(k[1], k[2]))
    BY <1>2, <1>7, <1>8, <2>1, CallerSuspect
  <2>4. QED
    BY <2>2, <2>3
<1>11. ~stack'[t][Len(stack[t])].run.failed
  BY <1>3 DEF NoRun
<1>12. Fails(F, t)
  BY <1>4, <1>9, <1>10, <1>11 DEF Fails
<1>13. FramesOk(F)'
  BY <1>2, <1>3, <1>12, FailuresMove
<1>14. ASSUME NEW u \in Threads, u # t, pc[u] \in {"scan", "sleepOwner"}, pc'[u] = pc[u]
       PROVE  Top(u).call' = Top(u).call /\ (Top(u).call # NoCall /\ ~Over(Top(u)) => ~Over(Top(u))')
  <2>1. pc[u] = "sleepOwner" /\ pc'[u] = "sleepOwner"
    BY <1>3, <1>14 DEF LockFree, Locked
  <2>2. Depth(u) > 0
    BY <1>14, WaitersOwn
  <2>3. Top(u) = stack[u][Len(stack[u])] /\ Top(u)' = stack'[u][Len(stack[u])] /\ Len(stack[u]) \in 1 .. Len(stack[u])
        /\ Depth(u) = Len(stack[u])
    BY <1>2, <1>3, <2>2, TopIs DEF Top, Depth, KeepsCalls
  <2>4. Top(u).call' = Top(u).call /\ Top(u).joining' = Top(u).joining
    BY <1>3, <2>3 DEF KeepsCalls, KeepsJoins
  <2>5. PICK o : o = JobName(u, Depth(u), Top(u).joining)
    OBVIOUS
  <2>6. SUFFICES ASSUME Top(u).call # NoCall, ~Over(Top(u)), Over(Top(u))' PROVE FALSE
    BY <2>4
  <2>7. /\ o \in Names /\ At(stack, o) /\ o[1] = u /\ o[2] = Depth(u) /\ o[3] = Top(u).joining
        /\ Over(Top(u)) <=> JobAt(stack, o).failed /\ JobAt(stack, o).active = 0
        /\ Over(Top(u))' <=> JobAt(stack', o).failed /\ JobAt(stack', o).active = 0
    BY <1>3, <2>2, <2>4, <2>5, <2>6, OverIs
  <2>8. CASE o = j
    <3>1. Owned(u) = j
      BY <2>5, <2>6, <2>8 DEF Owned, JobName
    <3>2. OwnerIsSleeping(j)
      BY <2>1, <2>7, <2>8, <3>1 DEF OwnerIsSleeping
    <3>3. QED
      BY <1>5, <2>1, <2>6, <2>7, <2>8, <3>2
  <2>9. CASE o # j
    <3>1. JobAt(stack, o).active = 0 /\ ~JobAt(stack, o).failed /\ Run(t).failed /\ o[1] = j[1] /\ o[2] = j[2]
      BY <1>4, <2>6, <2>7, <2>9
    <3>2. o[3] = stack[j[1]][j[2]].joining
      BY <2>3, <2>7, <3>1
    <3>3. QED
      BY <1>2, <1>7, <1>8, <2>7, <2>9, <3>1, <3>2, FailedBefore
  <2>10. QED
    BY <2>8, <2>9
<1>15. WatchOk(t)'
  BY <1>3 DEF WatchOk
<1>16. QED
  BY <1>2, <1>3, <1>13, <1>14, <1>15, WatchStays DEF FailureInv

\* A frame and what becomes of it when others come or go.
Alike(u, d) ==
    /\ d \in 1 .. Len(stack[u]) /\ d \in 1 .. Len(stack'[u])
    /\ stack'[u][d].call = stack[u][d].call /\ stack'[u][d].joining = stack[u][d].joining
    /\ stack'[u][d].failed = stack[u][d].failed /\ stack'[u][d].jobs = stack[u][d].jobs
    /\ stack'[u][d].run.job = stack[u][d].run.job
    /\ d > 1 => stack'[u][d - 1].run.job = stack[u][d - 1].run.job

SpreadsTo(F, u, d) ==
    /\ Grown(F, u, d) \/ Pushed(u, d)
    /\ \A j : d > 1 /\ Grown(F, u, d) /\ j = Caller(u, d) => Lasts(j)
    /\ \A j : stack'[u][d].run.failed /\ j = stack'[u][d].run.job => Suspect(F, j)'

\* Such a frame's failures stay explained.
LEMMA AlikeSpreads ==
  ASSUME NEW F, FramesOk(F), IInv, IInv', NEW u \in Threads, NEW d, Alike(u, d),
         stack'[u][d].run.failed => Suspect(F, stack[u][d].run.job),
         \A j \in Names : At(stack, j) /\ At(stack', j) => Lasts(j)
  PROVE  SpreadsTo(F, u, d)
<1>1. Stacks(stack) /\ Depth(u) = Len(stack[u]) /\ d \in 1 .. Len(stack[u]) /\ IsFrame(stack[u][d])
      /\ Depth(u)' = Len(stack'[u]) /\ Len(stack'[u]) \in Nat /\ d \in 1 .. Len(stack'[u])
  <2>1. Stacks(stack) /\ Depth(u) = Len(stack[u])
    BY PartsOf, DepthIs
  <2>2. Stacks(stack)'
    BY DEF IInv, Locals
  <2>3. QED
    BY <2>1, <2>2 DEF Alike, Stacks, IsStack, Depth
<1>2. Grown(F, u, d)
  <2>1. stack[u][d].joining \in Nat
    BY <1>1 DEF IsFrame
  <2>2. QED
    BY <2>1 DEF Alike, Grown, Tainted
<1>3. ASSUME d > 1, NEW j, j = Caller(u, d) PROVE Lasts(j)
  <2>1. j \in Names /\ At(stack, j) /\ j # NoJob
    BY <1>1, <1>3, CallerIs
  <2>2. d - 1 \in 1 .. Depth(u)'
    BY <1>1, <1>3
  <2>3. RunOk(u, d - 1)'
    BY <2>2 DEF IInv, RunInv
  <2>4. stack'[u][d - 1].run.job = j
    BY <1>3 DEF Alike, Caller
  <2>5. At(stack', j)
    BY <2>1, <2>3, <2>4 DEF RunOk
  <2>6. QED
    BY <2>1, <2>5
<1>4. ASSUME stack'[u][d].run.failed, NEW j, j = stack'[u][d].run.job PROVE Suspect(F, j)'
  <2>1. j = stack[u][d].run.job /\ Suspect(F, j)
    BY <1>4 DEF Alike
  <2>2. RunOk(u, d) /\ RunOk(u, d)'
    BY <1>1 DEF IInv, RunInv
  <2>3. j # NoJob
    BY <1>4, <2>2 DEF RunOk, NoRun
  <2>4. At(stack, j) /\ At(stack', j) /\ j \in Names
    BY <1>4, <2>1, <2>2, <2>3 DEF RunOk, At
  <2>5. Lasts(j)
    BY <2>4
  <2>6. QED
    BY <2>1, <2>5 DEF Lasts, Suspect
<1>5. QED
  BY <1>2, <1>3, <1>4 DEF SpreadsTo

\* A job that remains lasts.
LEMMA RemainsLasts ==
  ASSUME NEW j, Remains(j)
  PROVE  Lasts(j)
  BY DEF Remains, Lasts

\* When the frames of a thread come or go, the others go on to wait.
LEMMA OthersWatch ==
  ASSUME WatchInv, NEW t \in Threads, Others(t), pc'[t] \notin {"scan", "sleepOwner"},
         \A u \in Threads : u # t => stack'[u] = stack[u]
  PROVE  WatchInv'
<1>1. \A u \in Threads : u # t => Top(u)' = Top(u)
  BY DEF Top, Depth
<1>2. \A u \in Threads : u # t => Top(u).call' = Top(u).call /\ (~Over(Top(u)) => ~Over(Top(u))')
  BY <1>1 DEF Over
<1>3. WatchOk(t)'
  BY DEF WatchOk
<1>4. QED
  BY <1>2, <1>3, WatchStays

\* A new call has not failed.
LEMMA CallFails ==
  ASSUME NEW F, FailureInv(F), IInv, IInv', NEW t \in Threads, Calling(t)
  PROVE  FailureInv(F)'
<1>0. PICK c \in Calls, p \in Names \union {NoJob} : \E f :
        /\ f = NewFrame(c, p) /\ Pushes(stack, stack', t, f) /\ pc' = [pc EXCEPT ![t] = "enqueue"]
        /\ IF Depth(t) = 0 THEN c \in TopCalls ELSE pc[t] = "task" /\ c \in CallsIn(Task(Run(t).job))
  BY DEF Calling
<1>1. PICK f :
        /\ f = NewFrame(c, p) /\ Pushes(stack, stack', t, f) /\ pc' = [pc EXCEPT ![t] = "enqueue"]
        /\ IF Depth(t) = 0 THEN c \in TopCalls ELSE pc[t] = "task" /\ c \in CallsIn(Task(Run(t).job))
  BY <1>0
<1>2. Stacks(stack) /\ Stacks(stack') /\ FramesOk(F) /\ WatchInv /\ pc \in [Threads -> Pcs] /\ "enqueue" \in Pcs
      /\ \A u \in Threads : Depth(u) = Len(stack[u]) /\ Len(stack[u]) \in Nat
  BY <1>1, PartsOf, DepthIs DEF FailureInv, Pushes, Pcs
<1>3. Shorter(stack', stack, t)
  BY <1>1, <1>2, PushShorter
<1>4. \A j \in Names : At(stack, j) /\ At(stack', j) => Lasts(j)
  BY <1>3, PushRemains, RemainsLasts
<1>5. /\ f.call = c /\ f.run = NoRun /\ ~f.failed
      /\ \A i \in JobsOf(c) : ~f.jobs[i].failed
  <2>1. f.call = c /\ f.run = NoRun /\ \A i \in JobsOf(c) : f.jobs[i] = NewJob(TasksOf[c][i])
    BY <1>1, NewFrameType
  <2>2. ~f.failed
    BY <1>1 DEF NewFrame
  <2>3. \A k : ~NewJob(k).failed
    BY DEF NewJob
  <2>4. QED
    BY <2>1, <2>2, <2>3
<1>6. ASSUME NEW u \in Threads, NEW d \in 1 .. Len(stack'[u])
      PROVE  SpreadsTo(F, u, d)
  <2>1. CASE u # t \/ d # Len(stack[t]) + 1
    <3>1. d \in 1 .. Len(stack[u]) /\ stack'[u][d] = stack[u][d]
          /\ (d > 1 => stack'[u][d - 1] = stack[u][d - 1])
      <4>1. Pushes(stack, stack', t, f) /\ Len(stack[u]) \in Nat /\ Len(stack[t]) \in Nat
        BY <1>1, <1>2
      <4>2. QED
        BY <1>6, <2>1, <4>1 DEF Pushes
    <3>2. Alike(u, d)
      BY <1>6, <3>1 DEF Alike
    <3>3. stack'[u][d].run.failed => Suspect(F, stack[u][d].run.job)
      BY <1>2, <3>1 DEF FramesOk, FailOk
    <3>4. QED
      BY <1>2, <1>4, <3>2, <3>3, AlikeSpreads
  <2>2. CASE u = t /\ d = Len(stack[t]) + 1
    <3>1. stack'[u][d] = f
      BY <1>1, <2>2 DEF Pushes
    <3>2. ASSUME d > 1, NEW j, j = stack'[u][d - 1].run.job PROVE c \in CallsIn(Task(j)')
      <4>1. Depth(t) > 0 /\ d - 1 = Depth(t) /\ Depth(t) \in 1 .. Len(stack[t])
        BY <1>2, <2>2, <3>2
      <4>2. stack'[u][d - 1] = Top(t)
        BY <1>1, <2>2, <4>1 DEF Pushes, Top
      <4>3. j = Run(t).job
        BY <3>2, <4>2 DEF Run
      <4>4. j = Caller(u, d)'
        BY <3>2 DEF Caller
      <4>5. Task(j)' = Task(j)
        <5>1. d \in 1 .. Depth(u)' /\ d - 1 \in 1 .. Depth(u)'
          BY <1>6, <4>1, <2>2 DEF Depth
        <5>2. NestOk(u, d)' /\ RunOk(u, d - 1)'
          BY <5>1 DEF IInv, NestInv, RunInv
        <5>3. j # NoJob
          BY <3>2, <5>2 DEF NestOk
        <5>4. RunOk(t, Depth(t))
          BY <1>2, <4>1 DEF IInv, RunInv
        <5>5. At(stack, j)
          BY <4>1, <4>3, <5>3, <5>4 DEF RunOk, Run, Top
        <5>6. Remains(j)
          BY <1>3, <5>5, PushRemains DEF At
        <5>7. QED
          BY <5>6 DEF Remains
      <4>6. QED
        BY <1>1, <4>1, <4>3, <4>5
    <3>3. Pushed(u, d)
      BY <1>5, <3>1, <3>2 DEF Pushed
    <3>4. ~stack'[u][d].run.failed /\ ~(d \in 1 .. Len(stack[u]))
      BY <1>2, <1>5, <2>2, <3>1 DEF NoRun
    <3>5. ~Grown(F, u, d)
      BY <3>4 DEF Grown
    <3>6. QED
      BY <3>3, <3>4, <3>5 DEF SpreadsTo
  <2>3. QED
    BY <2>1, <2>2
<1>7. FramesOk(F)'
  BY <1>2, <1>6, FramesMove DEF Spreads, SpreadsTo
<1>8. Others(t) /\ pc'[t] = "enqueue"
  BY <1>1, <1>2, OneMoves
<1>9. WatchInv'
  BY <1>1, <1>2, <1>8, OthersWatch DEF Pushes
<1>10. QED
  BY <1>7, <1>9 DEF FailureInv

\* A call that fails does so with the task that made it.
LEMMA ReturnFails ==
  ASSUME NEW F, FailureInv(F), IInv, IInv', NEW t \in Threads, Return(t)
  PROVE  FailureInv(F)'
<1>1. PICK e : e = Depth(t) - 1 /\ AfterReturn(t, e)
  BY ReturnIs
<1>2. Shorter(stack, stack', t)
  BY <1>1 DEF AfterReturn
<1>3. /\ Stacks(stack) /\ Stacks(stack') /\ FramesOk(F) /\ WatchInv /\ pc \in [Threads -> Pcs]
      /\ pc[t] = "loop" /\ Owned(t) # NoJob /\ Depth(t) > 0 /\ CallFailed(t) \in BOOLEAN
      /\ \A u \in Threads : Depth(u) = Len(stack[u]) /\ Len(stack[u]) \in Nat /\ Len(stack'[u]) \in Nat
  BY <1>2, PartsOf, ReturnsOver, DepthIs DEF FailureInv, Shorter, Stacks, IsStack
<1>4. \A j \in Names : At(stack, j) /\ At(stack', j) => Lasts(j)
  BY <1>2, PopRemains, RemainsLasts
<1>5. Len(stack[t]) = Len(stack'[t]) + 1 /\ e = Len(stack'[t])
  BY <1>1, <1>2, <1>3 DEF Shorter
<1>6. CallFailed(t) => Tainted(Top(t))
  <2>1. Job(Owned(t)) = Top(t).jobs[Top(t).joining] /\ Top(t).joining \in JobsOf(Top(t).call)
    BY <1>3, OwnedJob
  <2>2. QED
    BY <2>1 DEF CallFailed, Tainted
<1>7. CallFailed(t) /\ e # 0 => Suspect(F, stack[t][e].run.job)
  <2>1. Depth(t) \in 1 .. Depth(t) /\ Top(t) = stack[t][Depth(t)] /\ (e # 0 => Depth(t) > 1)
    BY <1>1, <1>3 DEF Top
  <2>2. BlameOk(F, t, Depth(t))
    BY <1>3, <2>1 DEF FramesOk
  <2>3. QED
    BY <1>1, <1>6, <2>1, <2>2 DEF BlameOk, Caller
<1>8. ASSUME NEW u \in Threads, NEW d \in 1 .. Len(stack'[u])
      PROVE  SpreadsTo(F, u, d)
  <2>1. d \in 1 .. Len(stack[u]) /\ (d > 1 => d - 1 \in 1 .. Len(stack'[u]))
    BY <1>2, <1>3, <1>5 DEF Shorter
  <2>2. Alike(u, d)
    BY <1>2, <1>8, <2>1 DEF Alike, Shorter
  <2>3. stack'[u][d].run.failed => Suspect(F, stack[u][d].run.job)
    <3>1. CASE u = t /\ d = e
      <4>1. e # 0
        BY <1>3, <1>5, <3>1
      <4>2. stack'[t][e].run.failed = CallFailed(t)
        BY <1>1, <4>1 DEF AfterReturn
      <4>3. QED
        BY <1>7, <3>1, <4>1, <4>2
    <3>2. CASE u # t \/ d # e
      <4>1. stack'[u][d].run = stack[u][d].run
        BY <1>2, <1>5, <3>2 DEF Shorter
      <4>2. QED
        BY <1>3, <2>1, <4>1 DEF FramesOk, FailOk
    <3>3. QED
      BY <3>1, <3>2
  <2>4. QED
    BY <1>3, <1>4, <2>2, <2>3, AlikeSpreads
<1>9. FramesOk(F)'
  BY <1>3, <1>8, FramesMove DEF Spreads, SpreadsTo
<1>10. PICK v \in {"out", "finish", "task"} : pc' = [pc EXCEPT ![t] = v]
  <2>1. CASE e = 0
    BY <1>1, <2>1 DEF AfterReturn
  <2>2. CASE e # 0
    BY <1>1, <2>2 DEF AfterReturn
  <2>3. QED
    BY <2>1, <2>2
<1>11. Others(t) /\ pc'[t] = v
  BY <1>3, <1>10, OneMoves DEF Pcs
<1>12. WatchInv'
  BY <1>2, <1>3, <1>10, <1>11, OthersWatch DEF Shorter
<1>13. QED
  BY <1>9, <1>12 DEF FailureInv

\* A call enters the queue, and workers are spawned.
LEMMA EntersFails ==
  ASSUME NEW F, FailureInv(F), IInv, IInv', NEW t \in Threads, NEW new, Enters(t, new)
  PROVE  FailureInv(F)'
<1>1. /\ Spawned(stack, stack', new) /\ pc'[t] = "loop" /\ \A w \in new : pc'[w] = "start"
      /\ \A u \in Threads : u # t /\ u \notin new => pc'[u] = pc[u] \/ (pc[u] \in Sleeping /\ pc'[u] \in Awakened)
  BY DEF Enters
<1>2. /\ Stacks(stack) /\ Stacks(stack') /\ FramesOk(F) /\ WatchInv
      /\ \A w \in new : Len(stack[w]) = 0 /\ Len(stack'[w]) = 1 /\ stack'[w][1] = WorkerFrame
      /\ \A u \in Threads : u \notin new => stack'[u] = stack[u]
  BY <1>1, PartsOf DEF FailureInv, Spawned
<1>3. \A j \in Names : At(stack, j) /\ At(stack', j) => Lasts(j)
  BY <1>1, SpawnedRemains, RemainsLasts
<1>4. ASSUME NEW u \in Threads, NEW d \in 1 .. Len(stack'[u])
      PROVE  SpreadsTo(F, u, d)
  <2>1. CASE u \in new
    <3>0. Len(stack[u]) = 0 /\ Len(stack'[u]) = 1 /\ stack'[u][1] = WorkerFrame
      BY <1>2, <2>1
    <3>1. d = 1 /\ stack'[u][d] = WorkerFrame /\ ~(d \in 1 .. Len(stack[u]))
      BY <3>0
    <3>2. WorkerFrame.call = NoCall /\ ~WorkerFrame.failed /\ ~WorkerFrame.run.failed
      BY DEF WorkerFrame, NoRun
    <3>3. Pushed(u, d) /\ ~Grown(F, u, d)
      BY <3>1, <3>2 DEF Pushed, JobsOf, Grown
    <3>4. QED
      BY <3>1, <3>2, <3>3 DEF SpreadsTo
  <2>2. CASE u \notin new
    <3>1. stack'[u] = stack[u]
      BY <1>2, <2>2
    <3>2. Alike(u, d)
      BY <1>4, <3>1 DEF Alike
    <3>3. stack'[u][d].run.failed => Suspect(F, stack[u][d].run.job)
      BY <1>2, <1>4, <3>1 DEF FramesOk, FailOk, Depth
    <3>4. QED
      BY <1>2, <1>3, <3>2, <3>3, AlikeSpreads
  <2>3. QED
    BY <2>1, <2>2
<1>5. FramesOk(F)'
  BY <1>2, <1>4, FramesMove DEF Spreads, SpreadsTo
<1>6. ASSUME NEW u \in Threads PROVE WatchOk(u)'
  <2>1. CASE pc'[u] \notin {"scan", "sleepOwner"}
    BY <2>1 DEF WatchOk
  <2>2. CASE pc'[u] \in {"scan", "sleepOwner"}
    <3>1. u # t /\ u \notin new /\ pc'[u] = pc[u]
      BY <1>1, <2>2 DEF Sleeping, Awakened
    <3>2. Top(u)' = Top(u) /\ WatchOk(u)
      BY <1>2, <3>1 DEF Top, Depth, WatchInv
    <3>3. QED
      BY <2>2, <3>1, <3>2 DEF WatchOk, Over
  <2>3. QED
    BY <2>1, <2>2
<1>7. QED
  BY <1>5, <1>6 DEF FailureInv, WatchInv

\* The first step of a call that has been made.
LEMMA EnqueueFails ==
  ASSUME NEW F, FailsFirst(F), FailureInv(F), IInv, IInv', NEW t \in Threads,
         NEW new \in SUBSET (Workers \ Created), Enqueue(t, new)
  PROVE  FailureInv(F)'
<1>1. CASE OverCommits(Top(t).call, Top(t).parent)
  BY <1>1, MovesFail DEF Enqueue
<1>2. CASE ~OverCommits(Top(t).call, Top(t).parent)
  <2>1. Enters(t, new)
    BY <1>2, EnqueueEnters
  <2>2. QED
    BY <2>1, EntersFails
<1>3. QED
  BY <1>1, <1>2

\* Where there is nothing, nothing has failed.
LEMMA NothingFailed ==
  ASSUME NEW F, Nothing
  PROVE  FailureInv(F)
<1>1. \A t \in Threads : Depth(t) = 0 /\ pc[t] \notin {"scan", "sleepOwner"}
  BY DEF Nothing, Depth
<1>2. QED
  BY <1>1 DEF FailureInv, FramesOk, WatchInv, WatchOk

\* When the pool is reset there is nothing left that could have failed.
LEMMA ResetFails ==
  ASSUME NEW F, NEW t \in Threads, Reset(t)
  PROVE  FailureInv(F)'
<1>1. \A u \in Threads : stack'[u] = <<>> /\ pc'[u] \in {"out", "off"}
  BY DEF Reset
<1>2. \A u \in Threads : Depth(u)' = 0
  BY <1>1 DEF Depth
<1>3. QED
  BY <1>1, <1>2 DEF FailureInv, FramesOk, WatchInv, WatchOk

\* Every step of a thread keeps the failures explained, and nobody misses one.
LEMMA StepFails ==
  ASSUME NEW F, FailsFirst(F), FailureInv(F), IInv, IInv', NEW t \in Threads, Client(t) \/ Library(t)
  PROVE  FailureInv(F)'
<1>1. CASE Client(t)
  <2>1. ASSUME NEW c \in TopCalls, Call(t, c) PROVE FailureInv(F)'
    BY <2>1, CallClientStep, CallFails
  <2>2. ASSUME NEW n \in NumThreads, SetNumThreads(t, n) PROVE FailureInv(F)'
    BY <2>2, NothingFails DEF SetNumThreads
  <2>3. ASSUME Shutdown(t) PROVE FailureInv(F)'
    BY <2>3, MovesFail
  <2>4. QED
    BY <1>1, <2>1, <2>2, <2>3 DEF Client
<1>2. CASE LoopNext(t)
  <2>1. CASE WorkerExits(t)
    BY <2>1, MovesFail
  <2>2. CASE JoinNext(t) \/ Return(t) \/ InheritFailure(t)
    BY <2>2, JoinNextFails, ReturnFails, InheritFails
  <2>3. CASE CancelOwned(t) \/ Take(t)
    BY <2>3, CalmStepsFail
  <2>4. CASE StartScan(t) \/ PassOver(t) \/ Sleep(t)
    BY <2>4, StartScanFails, PassOverFails, SleepFails
  <2>5. QED
    BY <1>2, <2>1, <2>2, <2>3, <2>4 DEF LoopNext
<1>3. CASE TaskNext(t)
  <2>1. CASE CallInTask(t)
    BY <2>1, CallInTaskStep, CallFails
  <2>2. CASE ~CallInTask(t)
    BY <1>3, <2>2, CalmStepsFail DEF TaskNext
  <2>3. QED
    BY <2>1, <2>2
<1>4. CASE LockNext(t)
  <2>1. ASSUME NEW new \in SUBSET (Workers \ Created), Enqueue(t, new) PROVE FailureInv(F)'
    BY <2>1, EnqueueFails
  <2>2. CASE Start(t) \/ WakeUp(t) \/ WakeWaiters(t)
    BY <2>2, MovesFail
  <2>3. CASE Finish(t)
    BY <2>3, FinishFails
  <2>4. QED
    BY <1>4, <2>1, <2>2, <2>3 DEF LockNext
<1>5. CASE Reset(t)
  BY <1>5, ResetFails
<1>6. QED
  BY <1>1, <1>2, <1>3, <1>4, <1>5 DEF Library

\* In a program whose tasks that may fail are the first of their calls, no owner
\* sleeps on a job that has failed and that nobody works on: worker_thread wakes
\* every owner it has to.
THEOREM FailuresReachOwners ==
  ASSUME NEW F, FailsFirst(F)
  PROVE  Spec => []FailureReachesOwner
<1>1. Init => IInv /\ FailureInv(F)
  <2>1. Init => Nothing
    BY DEF Init, Nothing
  <2>2. QED
    BY <2>1, InitInv, NothingFailed
<1>2. IInv /\ FailureInv(F) /\ [Next]_vars => (IInv /\ FailureInv(F))'
  <2>1. SUFFICES ASSUME IInv, FailureInv(F), [Next]_vars PROVE IInv' /\ FailureInv(F)'
    OBVIOUS
  <2>2. IInv'
    BY <2>1, NextInv
  <2>3. CASE UNCHANGED vars
    BY <2>1, <2>2, <2>3, NothingFails DEF vars
  <2>4. ASSUME NEW t \in Threads, Client(t) \/ Library(t) PROVE FailureInv(F)'
    BY <2>1, <2>2, <2>4, StepFails
  <2>5. QED
    BY <2>1, <2>2, <2>3, <2>4 DEF Next
<1>3. IInv /\ FailureInv(F) => FailureReachesOwner
  <2>1. SUFFICES ASSUME IInv, FailureInv(F), NEW t \in Threads, pc[t] = "sleepOwner" PROVE ~Cancels(t)
    BY DEF FailureReachesOwner
  <2>2. Depth(t) > 0 /\ Stacks(stack)
    BY <2>1, WaitersOwn, PartsOf
  <2>3. Top(t).call # NoCall /\ ~Over(Top(t))
    BY <2>1 DEF FailureInv, WatchInv, WatchOk
  <2>4. QED
    BY <2>2, <2>3, OwnedIs, CancelsIs
<1>4. QED
  BY <1>1, <1>2, <1>3, PTL DEF Spec

\* So it is with every program of parallel loops: a call of halide_do_par_for has
\* one task.
THEOREM ParForFailuresReachOwners ==
  ASSUME \A c \in Calls : Len(TasksOf[c]) = 1
  PROVE  Spec => []FailureReachesOwner
<1>1. FailsFirst(Tasks)
  <2>1. MayFail \subseteq Tasks
    BY ProgramAssumption
  <2>2. ASSUME NEW c \in Calls, NEW i \in DOMAIN TasksOf[c] PROVE i = 1
    <3>1. TasksOf[c] \in Seq(Tasks) /\ Len(TasksOf[c]) = 1
      BY ProgramAssumption
    <3>2. QED
      BY <2>2, <3>1
  <2>3. QED
    BY <2>1, <2>2 DEF FailsFirst
<1>2. QED
  BY <1>1, FailuresReachOwners

-----------------------------------------------------------------------------
(* Programs in which no task waits for another: nobody sleeps for what is over *)

\* All that is called is in C.
Within(C) == \A t \in Threads : \A d \in 1 .. Len(stack[t]) : stack[t][d].call \in C \union {NoCall}

\* An owner has something to wait for, and nothing of it is left to be taken.
Awaits(f) == f.jobs[f.joining].extent # 0 \/ f.jobs[f.joining].active # 0
Spent(f) == f.jobs[f.joining].extent = 0

Waiting == Sleeping \union {"scan"}

\* What those know who sleep or are about to.
WaitOk(t) ==
    /\ pc[t] \in {"sleepA", "sleepB"} => Top(t).call = NoCall
    /\ pc[t] = "sleepOwner" => Top(t).call # NoCall /\ Spent(Top(t))
    /\ pc[t] \in {"scan", "sleepOwner"} /\ Top(t).call # NoCall => Awaits(Top(t))
    /\ pc[t] = "scan" /\ Top(t).call # NoCall =>
          \A i \in 1 .. cursor - 1 : queue[i] # <<t, Depth(t), Top(t).joining>>

WaitInv == \A t \in Threads : WaitOk(t)

\* How old the frames are: those above are younger, and so are those that a task
\* has called, than the frame of its job.
AgesOk(n, age) ==
    /\ n \in Nat /\ age \in [Threads \X Nat -> 0 .. n]
    /\ \A t \in Threads : \A d, e \in 1 .. Len(stack[t]) : d < e => age[<<t, d>>] < age[<<t, e>>]
    /\ \A t \in Threads : \A d \in 1 .. Len(stack[t]) : \A j :
          d < Len(stack[t]) /\ j = stack[t][d].run.job => age[<<j[1], j[2]>>] < age[<<t, d + 1>>]

AgeInv == \E n, age : AgesOk(n, age)

LoopsInv(C) == Within(C) /\ WaitInv /\ AgeInv

\* A task that is there does not wait for another.
LEMMA TaskWithin ==
  ASSUME NEW C, NothingBlocks(C), Within(C), Stacks(stack), NEW j \in Names, At(stack, j)
  PROVE  Acquires[Task(j)] = <<>> /\ Needs(j) = 0 /\ CallsIn(Task(j)) \subseteq C /\ ~Serial(j)
<1>1. PICK c, i : c = stack[j[1]][j[2]].call /\ i = j[3]
  OBVIOUS
<1>2. j[1] \in Threads /\ j[2] \in 1 .. Len(stack[j[1]]) /\ i \in JobsOf(c)
  BY <1>1, Places
<1>3. c \in C /\ c \in Calls /\ i \in DOMAIN TasksOf[c]
  BY <1>1, <1>2 DEF Within, JobsOf, NothingBlocks
<1>4. Task(j) = TasksOf[c][i] /\ Task(j) \in Range(TasksOf[c])
  BY <1>1, <1>3 DEF Task, Frame, Range
<1>5. Acquires[Task(j)] = <<>> /\ MinThreads[Task(j)] = 0 /\ CallsIn(Task(j)) \subseteq C
  BY <1>3, <1>4 DEF NothingBlocks
<1>6. Task(j) \in Tasks
  BY <1>2, <1>3, <1>4, TasksType
<1>7. Loop[Task(j)] # "serial"
  BY <1>5, <1>6, ProgramAssumption
<1>8. QED
  BY <1>5, <1>7 DEF Needs, Serial

\* When no call is made, all that is called still is in C.
LEMMA WithinStays ==
  ASSUME NEW C, Within(C), KeepsCalls(stack, stack')
  PROVE  Within(C)'
  BY DEF Within, KeepsCalls

\* A call made by what is in C is in C.
LEMMA CallWithin ==
  ASSUME NEW C, NothingBlocks(C), Within(C), IInv, NEW t \in Threads, Calling(t)
  PROVE  Within(C)'
<1>1. PICK c \in Calls, p \in Names \union {NoJob} : \E f :
        /\ f = NewFrame(c, p) /\ Pushes(stack, stack', t, f) /\ pc' = [pc EXCEPT ![t] = "enqueue"]
        /\ IF Depth(t) = 0 THEN c \in TopCalls ELSE pc[t] = "task" /\ c \in CallsIn(Task(Run(t).job))
  BY DEF Calling
<1>2. PICK f : f = NewFrame(c, p) /\ Pushes(stack, stack', t, f)
  BY <1>1
<1>3. Stacks(stack)
  BY PartsOf
<1>4. c \in C
  <2>1. CASE Depth(t) = 0
    BY <1>1, <2>1 DEF NothingBlocks
  <2>2. CASE Depth(t) # 0
    <3>1. pc[t] \in Busy /\ c \in CallsIn(Task(Run(t).job))
      BY <1>1, <2>2 DEF Busy
    <3>2. PICK j \in Names : j = Run(t).job /\ At(stack, j)
      BY <3>1, InTask
    <3>3. QED
      BY <1>3, <3>1, <3>2, TaskWithin
  <2>3. QED
    BY <2>1, <2>2
<1>5. f.call = c
  BY <1>2 DEF NewFrame
<1>6. ASSUME NEW u \in Threads, NEW d \in 1 .. Len(stack'[u]) PROVE stack'[u][d].call \in C \union {NoCall}
  <2>1. Len(stack[u]) \in Nat
    BY <1>3 DEF Stacks, IsStack
  <2>2. CASE u # t
    BY <1>2, <1>6, <2>2 DEF Pushes, Within
  <2>3. CASE u = t /\ d \in 1 .. Len(stack[t])
    BY <1>2, <2>3 DEF Pushes, Within
  <2>4. CASE u = t /\ d = Len(stack[t]) + 1
    BY <1>2, <1>4, <1>5, <2>4 DEF Pushes
  <2>5. QED
    BY <1>2, <1>6, <2>1, <2>2, <2>3, <2>4 DEF Pushes
<1>7. QED
  BY <1>6 DEF Within

\* The ages stay as long as no frame is put on top of another.
LEMMA AgesStay ==
  ASSUME AgeInv,
         \A u \in Threads :
             /\ Len(stack[u]) \in Nat /\ Len(stack'[u]) \in Nat
             /\ Len(stack'[u]) <= Len(stack[u]) \/ Len(stack'[u]) <= 1
             /\ \A d \in 1 .. Len(stack'[u]) : d < Len(stack'[u]) => stack'[u][d].run.job = stack[u][d].run.job
  PROVE  AgeInv'
<1>1. PICK n, age : AgesOk(n, age)
  BY DEF AgeInv
<1>2. ASSUME NEW u \in Threads, NEW d \in 1 .. Len(stack'[u]), NEW e \in 1 .. Len(stack'[u]), d < e
      PROVE  age[<<u, d>>] < age[<<u, e>>]
  <2>1. d \in 1 .. Len(stack[u]) /\ e \in 1 .. Len(stack[u])
    BY <1>2
  <2>2. QED
    BY <1>1, <1>2, <2>1 DEF AgesOk
<1>3. ASSUME NEW u \in Threads, NEW d \in 1 .. Len(stack'[u]), d < Len(stack'[u]), NEW j, j = stack'[u][d].run.job
      PROVE  age[<<j[1], j[2]>>] < age[<<u, d + 1>>]
  <2>1. d \in 1 .. Len(stack[u]) /\ d < Len(stack[u]) /\ j = stack[u][d].run.job
    BY <1>3
  <2>2. QED
    BY <1>1, <2>1 DEF AgesOk
<1>4. AgesOk(n, age)'
  BY <1>1, <1>2, <1>3 DEF AgesOk
<1>5. QED
  BY <1>4 DEF AgeInv

\* So they do when the calls and who works for them stay.
LEMMA AgesKept ==
  ASSUME AgeInv, NEW t \in Threads, Stacks(stack), KeepsCalls(stack, stack'), OtherRuns(stack, stack', t)
  PROVE  AgeInv'
<1>1. ASSUME NEW u \in Threads
      PROVE  /\ Len(stack[u]) \in Nat /\ Len(stack'[u]) = Len(stack[u])
             /\ \A d \in 1 .. Len(stack'[u]) : d < Len(stack'[u]) => stack'[u][d].run.job = stack[u][d].run.job
  BY DEF Stacks, IsStack, KeepsCalls, OtherRuns
<1>2. QED
  BY <1>1, AgesStay

\* What a frame that is not the top one works on is there.
LEMMA BelowIsThere ==
  ASSUME IInv, NEW u \in Threads, NEW d \in 1 .. Depth(u), d < Depth(u), NEW j, j = stack[u][d].run.job
  PROVE  j \in Names /\ At(stack, j) /\ j # NoJob
<1>1. Depth(u) \in Nat
  BY PartsOf, DepthIs
<1>2. PICK e : e = d + 1
  OBVIOUS
<1>3. e \in 1 .. Depth(u) /\ e > 1 /\ e - 1 = d
  BY <1>1, <1>2
<1>4. Caller(u, e) = j
  BY <1>3 DEF Caller
<1>5. QED
  BY <1>3, <1>4, CallerIs

\* A new frame is the youngest.
LEMMA AgesGrow ==
  ASSUME AgeInv, IInv, NEW t \in Threads, Calling(t)
  PROVE  AgeInv'
<1>0. PICK f : /\ Pushes(stack, stack', t, f)
               /\ Depth(t) = 0 \/ pc[t] = "task"
  BY DEF Calling
<1>1. PICK n, age : AgesOk(n, age)
  BY DEF AgeInv
<1>2. /\ Stacks(stack) /\ \A u \in Threads : Depth(u) = Len(stack[u]) /\ Len(stack[u]) \in Nat
      /\ Len(stack'[t]) = Len(stack[t]) + 1 /\ \A u \in Threads : u # t => stack'[u] = stack[u]
      /\ \A d \in 1 .. Len(stack[t]) : stack'[t][d] = stack[t][d]
  BY <1>0, PartsOf, DepthIs DEF Pushes
<1>3. PICK k, new : /\ k = <<t, Len(stack[t]) + 1>>
                    /\ new = [x \in Threads \X Nat |-> IF x = k THEN n + 1 ELSE age[x]]
  OBVIOUS
<1>4. /\ n \in Nat /\ n + 1 \in Nat /\ k \in Threads \X Nat /\ new[k] = n + 1
      /\ \A x \in Threads \X Nat : age[x] \in 0 .. n /\ (x # k => new[x] = age[x])
  BY <1>1, <1>2, <1>3 DEF AgesOk
<1>5. new \in [Threads \X Nat -> 0 .. n + 1]
  BY <1>3, <1>4
<1>6. \A u \in Threads : \A d \in 1 .. Len(stack[u]) :
         <<u, d>> \in Threads \X Nat /\ <<u, d>> # k /\ new[<<u, d>>] = age[<<u, d>>] /\ age[<<u, d>>] \in 0 .. n
  <2>1. SUFFICES ASSUME NEW u \in Threads, NEW d \in 1 .. Len(stack[u]) PROVE <<u, d>> \in Threads \X Nat /\ <<u, d>> # k
    BY <1>4
  <2>2. d \in Nat /\ (d # Len(stack[t]) + 1 \/ u # t)
    BY <1>2, <2>1
  <2>3. QED
    BY <1>2, <1>3, <2>1, <2>2
<1>7. \A u \in Threads : \A d \in 1 .. Len(stack'[u]) :
         \/ d \in 1 .. Len(stack[u]) /\ stack'[u][d] = stack[u][d]
         \/ u = t /\ d = Len(stack[t]) + 1
  <2>1. SUFFICES ASSUME NEW u \in Threads, NEW d \in 1 .. Len(stack'[u])
                 PROVE  \/ d \in 1 .. Len(stack[u]) /\ stack'[u][d] = stack[u][d]
                        \/ u = t /\ d = Len(stack[t]) + 1
    OBVIOUS
  <2>2. Len(stack[u]) \in Nat /\ Len(stack[t]) \in Nat
    BY <1>2
  <2>3. CASE u = t
    BY <1>2, <2>1, <2>2, <2>3
  <2>4. CASE u # t
    BY <1>2, <2>1, <2>4
  <2>5. QED
    BY <2>3, <2>4
<1>8. ASSUME NEW u \in Threads, NEW d \in 1 .. Len(stack'[u]), NEW e \in 1 .. Len(stack'[u]), d < e
      PROVE  new[<<u, d>>] < new[<<u, e>>]
  <2>1. d \in 1 .. Len(stack[u])
    BY <1>2, <1>7, <1>8
  <2>2. CASE e \in 1 .. Len(stack[u])
    <3>1. age[<<u, d>>] < age[<<u, e>>]
      BY <1>1, <1>8, <2>1, <2>2 DEF AgesOk
    <3>2. QED
      BY <1>6, <2>1, <2>2, <3>1
  <2>3. CASE u = t /\ e = Len(stack[t]) + 1
    BY <1>3, <1>4, <1>6, <2>1, <2>3
  <2>4. QED
    BY <1>7, <2>2, <2>3
<1>9. ASSUME NEW u \in Threads, NEW d \in 1 .. Len(stack'[u]), d < Len(stack'[u]), NEW j, j = stack'[u][d].run.job
      PROVE  new[<<j[1], j[2]>>] < new[<<u, d + 1>>]
  <2>1. d \in 1 .. Len(stack[u]) /\ j = stack[u][d].run.job /\ d \in Nat
    BY <1>2, <1>7, <1>9
  <2>2. j \in Names /\ At(stack, j)
    <3>1. CASE d < Len(stack[u])
      BY <1>2, <2>1, <3>1, BelowIsThere
    <3>2. CASE ~(d < Len(stack[u]))
      <4>1. u = t /\ d = Depth(t) /\ Depth(t) # 0
        BY <1>2, <1>9, <2>1, <3>2
      <4>2. pc[t] \in Busy /\ j = Run(t).job
        BY <1>0, <2>1, <4>1 DEF Busy, Run, Top
      <4>3. QED
        BY <4>2, InTask
    <3>3. QED
      BY <3>1, <3>2
  <2>3. j[1] \in Threads /\ j[2] \in 1 .. Len(stack[j[1]])
    BY <2>2, Places
  <2>4. new[<<j[1], j[2]>>] = age[<<j[1], j[2]>>] /\ age[<<j[1], j[2]>>] \in 0 .. n
    BY <1>6, <2>3
  <2>5. CASE d < Len(stack[u])
    <3>1. age[<<j[1], j[2]>>] < age[<<u, d + 1>>]
      BY <1>1, <2>1, <2>5 DEF AgesOk
    <3>2. d + 1 \in 1 .. Len(stack[u])
      BY <1>2, <2>1, <2>5
    <3>3. new[<<u, d + 1>>] = age[<<u, d + 1>>]
      BY <1>6, <3>2
    <3>4. QED
      BY <2>4, <3>1, <3>3
  <2>6. CASE ~(d < Len(stack[u]))
    <3>1. u = t /\ d = Len(stack[t])
      BY <1>2, <1>9, <2>1, <2>6
    <3>2. new[<<u, d + 1>>] = n + 1
      BY <1>3, <1>4, <3>1
    <3>3. QED
      BY <1>4, <2>4, <3>2
  <2>7. QED
    BY <2>5, <2>6
<1>10. AgesOk(n + 1, new)'
  BY <1>4, <1>5, <1>8, <1>9 DEF AgesOk
<1>11. QED
  BY <1>10 DEF AgeInv

\* Frames that keep their calls, and all but one of them what they work on.
LEMMA KeptFrames ==
  ASSUME NEW C, Within(C), AgeInv, IInv, NEW t \in Threads, KeepsCalls(stack, stack'), OtherRuns(stack, stack', t)
  PROVE  Within(C)' /\ AgeInv'
  BY WithinStays, AgesKept, PartsOf

\* The frames after a return.
LEMMA ReturnFrames ==
  ASSUME NEW C, Within(C), AgeInv, IInv, NEW t \in Threads, Shorter(stack, stack', t)
  PROVE  Within(C)' /\ AgeInv'
<1>1. ASSUME NEW u \in Threads
      PROVE  /\ Len(stack[u]) \in Nat /\ Len(stack'[u]) \in Nat /\ Len(stack'[u]) <= Len(stack[u])
             /\ \A d \in 1 .. Len(stack'[u]) : stack'[u][d].run.job = stack[u][d].run.job /\ stack'[u][d].call = stack[u][d].call
  <2>1. Len(stack[u]) \in Nat /\ Len(stack'[u]) \in Nat
    BY DEF Shorter, Stacks, IsStack
  <2>2. CASE u = t
    BY <2>1, <2>2 DEF Shorter
  <2>3. CASE u # t
    BY <2>1, <2>3 DEF Shorter
  <2>4. QED
    BY <2>2, <2>3
<1>2. AgeInv'
  BY <1>1, AgesStay
<1>3. ASSUME NEW u \in Threads, NEW d \in 1 .. Len(stack'[u]) PROVE stack'[u][d].call \in C \union {NoCall}
  <2>1. d \in 1 .. Len(stack[u])
    BY <1>1, <1>3
  <2>2. QED
    BY <1>1, <1>3, <2>1 DEF Within
<1>4. QED
  BY <1>2, <1>3 DEF Within

\* Those after workers have been spawned.
LEMMA SpawnedFrames ==
  ASSUME NEW C, Within(C), AgeInv, NEW new, Spawned(stack, stack', new)
  PROVE  Within(C)' /\ AgeInv'
<1>1. /\ \A w \in new : Len(stack[w]) = 0 /\ Len(stack'[w]) = 1 /\ stack'[w][1] = WorkerFrame
      /\ \A u \in Threads : u \notin new => stack'[u] = stack[u]
      /\ \A u \in Threads : Len(stack[u]) \in Nat
  BY DEF Spawned, Stacks, IsStack
<1>2. ASSUME NEW u \in Threads
      PROVE  /\ Len(stack[u]) \in Nat /\ Len(stack'[u]) \in Nat
             /\ Len(stack'[u]) <= Len(stack[u]) \/ Len(stack'[u]) <= 1
             /\ \A d \in 1 .. Len(stack'[u]) : d < Len(stack'[u]) => stack'[u][d].run.job = stack[u][d].run.job
  <2>1. CASE u \in new
    <3>1. Len(stack[u]) = 0 /\ Len(stack'[u]) = 1
      BY <1>1, <2>1
    <3>2. \A d \in 1 .. 1 : ~(d < 1)
      OBVIOUS
    <3>3. QED
      BY <3>1, <3>2
  <2>2. CASE u \notin new
    BY <1>1, <2>2
  <2>3. QED
    BY <2>1, <2>2
<1>3. AgeInv'
  BY <1>2, AgesStay
<1>4. ASSUME NEW u \in Threads, NEW d \in 1 .. Len(stack'[u]) PROVE stack'[u][d].call \in C \union {NoCall}
  <2>1. CASE u \in new
    BY <1>1, <1>4, <2>1 DEF WorkerFrame
  <2>2. CASE u \notin new
    BY <1>1, <1>4, <2>2 DEF Within
  <2>3. QED
    BY <2>1, <2>2
<1>5. QED
  BY <1>3, <1>4 DEF Within

\* Where there are no frames everything is well.
LEMMA NoFrames ==
  ASSUME NEW C, \A u \in Threads : Len(stack[u]) = 0 /\ pc[u] \notin Waiting
  PROVE  LoopsInv(C)
<1>1. Within(C)
  BY DEF Within
<1>2. WaitInv
  BY DEF WaitInv, WaitOk, Waiting, Sleeping
<1>3. PICK age : age = [x \in Threads \X Nat |-> 0]
  OBVIOUS
<1>4. age \in [Threads \X Nat -> 0 .. 0]
  BY <1>3
<1>5. AgesOk(0, age)
  BY <1>4 DEF AgesOk
<1>6. QED
  BY <1>1, <1>2, <1>5 DEF LoopsInv, AgeInv

\* Who does not wait has nothing to know.
LEMMA NotWaiting ==
  ASSUME NEW t, pc'[t] \notin Waiting
  PROVE  WaitOk(t)'
  BY DEF WaitOk, Waiting, Sleeping

\* Somebody goes on waiting for what he waited for.
KeepsWaiting(u) ==
    /\ pc'[u] = pc[u] /\ Depth(u)' = Depth(u) /\ Top(u).call' = Top(u).call /\ Top(u).joining' = Top(u).joining
    /\ Top(u).call # NoCall =>
          /\ Spent(Top(u)) => Spent(Top(u))'
          /\ (pc[u] = "scan" \/ Spent(Top(u))) /\ Awaits(Top(u)) => Awaits(Top(u))'
    /\ pc[u] = "scan" => queue' = queue /\ cursor' = cursor

\* Then he still knows what he knew.
LEMMA WaitsMove ==
  ASSUME WaitInv, \A u \in Threads : pc'[u] \in Waiting => WaitOk(u)' \/ KeepsWaiting(u)
  PROVE  WaitInv'
<1>1. SUFFICES ASSUME NEW u \in Threads PROVE WaitOk(u)'
  BY DEF WaitInv
<1>2. CASE KeepsWaiting(u)
  <2>1. WaitOk(u)
    BY DEF WaitInv
  <2>2. (pc[u] \in {"sleepA", "sleepB"} => Top(u).call = NoCall)'
    BY <1>2, <2>1 DEF WaitOk, KeepsWaiting
  <2>3. (pc[u] = "sleepOwner" => Top(u).call # NoCall /\ Spent(Top(u)))'
    BY <1>2, <2>1 DEF WaitOk, KeepsWaiting
  <2>4. (pc[u] \in {"scan", "sleepOwner"} /\ Top(u).call # NoCall => Awaits(Top(u)))'
    BY <1>2, <2>1 DEF WaitOk, KeepsWaiting
  <2>5. (pc[u] = "scan" /\ Top(u).call # NoCall =>
          \A i \in 1 .. cursor - 1 : queue[i] # <<u, Depth(u), Top(u).joining>>)'
    BY <1>2, <2>1 DEF WaitOk, KeepsWaiting
  <2>6. QED
    BY <2>2, <2>3, <2>4, <2>5 DEF WaitOk
<1>3. CASE pc'[u] \notin Waiting
  BY <1>3, NotWaiting
<1>4. QED
  BY <1>2, <1>3

\* The scan of the queue is not disturbed by the others.
LEMMA ScanGoesOn ==
  ASSUME IInv, NEW t \in Threads, NEW u \in Threads, u # t, Client(t) \/ Library(t), pc[u] = "scan", pc'[u] = "scan"
  PROVE  queue' = queue /\ cursor' = cursor /\ pc[t] \notin Locked
<1>1. pc[t] \notin {"loop", "scan"} /\ ~LockFree
  BY PartsOf DEF ScanInv, Locked, LockFree
<1>2. CASE Client(t)
  BY <1>1, <1>2 DEF Client, Call, SetNumThreads, Shutdown, pool, Locked
<1>3. ~LoopNext(t)
  BY <1>1 DEF LoopNext, WorkerExits, JoinNext, Return, CancelOwned, InheritFailure, StartScan, PassOver, Take, Sleep
<1>4. CASE TaskNext(t)
  BY <1>1, <1>4 DEF TaskNext, CallInTask, ReleaseSemaphore, IterationEnds, TaskFails, Claim, ClaimEnds, pool, Locked
<1>5. ~LockNext(t)
  BY <1>1 DEF LockNext, Enqueue, Start, WakeUp, WakeWaiters, Finish
<1>6. ~Reset(t)
  BY DEF Reset
<1>7. QED
  BY <1>2, <1>3, <1>4, <1>5, <1>6 DEF Library

\* Who waits has a frame.
LEMMA WaitersHave ==
  ASSUME IInv, NEW u \in Threads, pc[u] \in Waiting
  PROVE  Depth(u) > 0 /\ Stacks(stack) /\ PcOk(u) /\ Depth(u) \in Nat /\ Depth(u) \in 1 .. Depth(u)
<1>1. pc[u] \notin Busy /\ pc[u] \notin {"out", "off", "join"}
  BY DEF Waiting, Sleeping, Busy
<1>2. QED
  BY <1>1, InLoop

\* What an owner waits for, before and after a step that keeps the calls.
LEMMA AwaitsIs ==
  ASSUME IInv, Stacks(stack'), KeepsCalls(stack, stack'), NEW u \in Threads, Depth(u) > 0, Top(u).call # NoCall,
         NEW o, o = JobName(u, Depth(u), Top(u).joining), Top(u).joining' = Top(u).joining
  PROVE  /\ o \in Names /\ At(stack, o) /\ o[1] = u /\ o[2] = Depth(u) /\ o[3] = Top(u).joining
         /\ Spent(Top(u)) <=> JobAt(stack, o).extent = 0
         /\ Spent(Top(u))' <=> JobAt(stack', o).extent = 0
         /\ Awaits(Top(u)) <=> JobAt(stack, o).extent # 0 \/ JobAt(stack, o).active # 0
         /\ Awaits(Top(u))' <=> JobAt(stack', o).extent # 0 \/ JobAt(stack', o).active # 0
<1>1. Stacks(stack) /\ JoinInv
  BY PartsOf DEF IInv
<1>2. Depth(u) \in 1 .. Len(stack[u]) /\ Depth(u) \in 1 .. Depth(u) /\ Top(u) = stack[u][Depth(u)]
  BY <1>1, TopIs DEF Top
<1>3. Top(u).joining \in JobsOf(stack[u][Depth(u)].call)
  BY <1>1, <1>2 DEF JoinInv, JoinOk
<1>4. /\ o \in Names /\ At(stack, o) /\ o[1] = u /\ o[2] = Depth(u) /\ o[3] = Top(u).joining
      /\ \A z : JobAt(z, o) = z[u][Depth(u)].jobs[Top(u).joining]
  BY <1>1, <1>2, <1>3, NameOf
<1>5. Top(u)' = stack'[u][Depth(u)]
  BY <1>2 DEF Top, Depth, KeepsCalls
<1>6. QED
  BY <1>2, <1>4, <1>5 DEF Spent, Awaits

\* A job that somebody waits for is not over unless he is woken.
StillOpen(u, o) ==
    /\ JobAt(stack, o).extent = 0 => JobAt(stack', o).extent = 0
    /\ pc[u] = "scan" => JobAt(stack', o).extent = JobAt(stack, o).extent
    /\ pc[u] = "scan" \/ JobAt(stack, o).extent = 0 => (JobAt(stack, o).active # 0 => JobAt(stack', o).active # 0)

\* The invariants after a step that keeps the calls.
LEMMA KeptLoops ==
  ASSUME NEW C, LoopsInv(C), IInv, NEW t \in Threads, Client(t) \/ Library(t), Others(t), Stacks(stack'),
         KeepsCalls(stack, stack'), KeepsJoins(stack, stack'), OtherRuns(stack, stack', t), WaitOk(t)',
         \A u \in Threads, o \in Names :
             u # t /\ pc[u] \in {"scan", "sleepOwner"} /\ pc'[u] = pc[u] /\ At(stack, o)
             /\ o[1] = u /\ o[2] = Depth(u) /\ o[3] = Top(u).joining => StillOpen(u, o)
  PROVE  LoopsInv(C)'
<1>1. Within(C)' /\ AgeInv'
  BY KeptFrames DEF LoopsInv
<1>2. ASSUME NEW u \in Threads, u # t, pc'[u] \in Waiting PROVE KeepsWaiting(u)
  <2>1. pc'[u] = pc[u] /\ pc[u] \in Waiting
    BY <1>2 DEF Others, Waiting, Sleeping, Awakened
  <2>2. Depth(u) > 0 /\ Stacks(stack)
    BY <2>1, WaitersHave
  <2>3. Depth(u)' = Depth(u) /\ Top(u).call' = Top(u).call /\ Top(u).joining' = Top(u).joining
    <3>1. Depth(u) = Len(stack[u]) /\ Len(stack[u]) \in 1 .. Len(stack[u])
      BY <2>2, TopIs
    <3>2. QED
      BY <3>1 DEF Depth, Top, KeepsCalls, KeepsJoins
  <2>4. pc[u] = "scan" => queue' = queue /\ cursor' = cursor
    BY <1>2, <2>1, ScanGoesOn
  <2>5. ASSUME Top(u).call # NoCall
        PROVE  /\ Spent(Top(u)) => Spent(Top(u))'
               /\ pc[u] = "scan" \/ Spent(Top(u)) => (Awaits(Top(u)) => Awaits(Top(u))')
    <3>1. PICK o : o = JobName(u, Depth(u), Top(u).joining)
      OBVIOUS
    <3>2. /\ o \in Names /\ At(stack, o) /\ o[1] = u /\ o[2] = Depth(u) /\ o[3] = Top(u).joining
          /\ Spent(Top(u)) <=> JobAt(stack, o).extent = 0
          /\ Spent(Top(u))' <=> JobAt(stack', o).extent = 0
          /\ Awaits(Top(u)) <=> JobAt(stack, o).extent # 0 \/ JobAt(stack, o).active # 0
          /\ Awaits(Top(u))' <=> JobAt(stack', o).extent # 0 \/ JobAt(stack', o).active # 0
      BY <2>2, <2>3, <2>5, <3>1, AwaitsIs
    <3>3. pc[u] \in {"scan", "sleepOwner"}
      BY <2>1, <2>5 DEF LoopsInv, WaitInv, WaitOk, Waiting, Sleeping
    <3>4. StillOpen(u, o)
      BY <1>2, <2>1, <3>2, <3>3
    <3>5. QED
      BY <3>2, <3>4 DEF StillOpen
  <2>6. QED
    BY <2>1, <2>3, <2>4, <2>5 DEF KeepsWaiting
<1>3. WaitInv'
  BY <1>2, WaitsMove DEF LoopsInv
<1>4. QED
  BY <1>1, <1>3 DEF LoopsInv

\* After a calm step.
LEMMA CalmLoops ==
  ASSUME NEW C, LoopsInv(C), IInv, NEW t \in Threads, Client(t) \/ Library(t), Calm(t), WaitOk(t)'
  PROVE  LoopsInv(C)'
<1>1. /\ Others(t) /\ Stacks(stack') /\ KeepsCalls(stack, stack') /\ KeepsJoins(stack, stack') /\ OtherRuns(stack, stack', t)
  BY DEF Calm
<1>2. ASSUME NEW u \in Threads, NEW o \in Names, u # t, pc'[u] = pc[u], At(stack, o) PROVE StillOpen(u, o)
  <2>1. pc[u] = "scan" => SameExtents(stack, stack')
    BY <1>2, ScanGoesOn DEF Calm
  <2>2. QED
    BY <1>2, <2>1 DEF Calm, StillOpen, SameExtents
<1>3. QED
  BY <1>1, <1>2, KeptLoops

\* After one that does nothing to the frames.
LEMMA StillLoops ==
  ASSUME NEW C, LoopsInv(C), IInv, NEW t \in Threads, Client(t) \/ Library(t), stack' = stack, Others(t), WaitOk(t)'
  PROVE  LoopsInv(C)'
<1>1. /\ Stacks(stack) /\ Stacks(stack') /\ KeepsCalls(stack, stack') /\ KeepsJoins(stack, stack')
      /\ KeepsJobs(stack, stack') /\ OtherRuns(stack, stack', t)
  BY PartsOf, StillKeeps
<1>2. \A u \in Threads, o \in Names : At(stack, o) => StillOpen(u, o)
  BY <1>1 DEF KeepsJobs, SameExtents, SameActive, StillOpen
<1>3. QED
  BY <1>1, <1>2, KeptLoops

\* After one that leaves the others' frames alone.
LEMMA OthersWait ==
  ASSUME WaitInv, IInv, NEW t \in Threads, Client(t) \/ Library(t), Others(t), pc'[t] \notin Waiting,
         \A u \in Threads : u # t => Depth(u)' = Depth(u) /\ (Depth(u) > 0 => Top(u)' = Top(u))
  PROVE  WaitInv'
<1>1. ASSUME NEW u \in Threads, pc'[u] \in Waiting PROVE KeepsWaiting(u)
  <2>1. u # t /\ pc'[u] = pc[u] /\ pc[u] \in Waiting
    BY <1>1 DEF Others, Waiting, Sleeping, Awakened
  <2>2. Depth(u) > 0
    BY <2>1, WaitersHave
  <2>3. Top(u)' = Top(u) /\ Depth(u)' = Depth(u)
    BY <2>1, <2>2
  <2>4. pc[u] = "scan" => queue' = queue /\ cursor' = cursor
    BY <2>1, ScanGoesOn
  <2>5. QED
    BY <2>1, <2>3, <2>4 DEF KeepsWaiting, Spent, Awaits
<1>2. QED
  BY <1>1, WaitsMove

\* Nothing adds up to nothing.
LEMMA TotalOfNothing ==
  ASSUME NEW f, \A x \in DOMAIN f : f[x] = 0
  PROVE  Total(f) = 0
<1>1. ASSUME NEW x \in DOMAIN f PROVE {x} \X (1 .. f[x]) = {}
  BY <1>1
<1>2. UNION {{x} \X (1 .. f[x]) : x \in DOMAIN f} = {}
  BY <1>1
<1>3. QED
  BY <1>2, FS_EmptySet DEF Total

\* Nobody needs any threads.
LEMMA NoNeeds ==
  ASSUME NEW C, NothingBlocks(C), Within(C), IInv, NEW p
  PROVE  NeedsBelow(p) = 0
<1>1. ASSUME NEW f \in Below(p) PROVE Needs(WorksOn(f)) = 0
  <2>1. f \in Frames /\ WorksOn(f) # NoJob
    BY DEF Below
  <2>2. PICK t \in Threads : \E d \in 1 .. Depth(t) : f = <<t, d>>
    BY <2>1, FramesAre
  <2>3. PICK d \in 1 .. Depth(t) : f = <<t, d>>
    BY <2>2
  <2>4. RunOk(t, d) /\ WorksOn(f) = stack[t][d].run.job
    BY <2>3 DEF IInv, RunInv, WorksOn
  <2>5. At(stack, WorksOn(f)) /\ WorksOn(f) \in Names
    BY <2>1, <2>4 DEF RunOk, At
  <2>6. QED
    BY <2>5, TaskWithin, PartsOf
<1>2. PICK g : g = [f \in Below(p) |-> Needs(WorksOn(f))]
  OBVIOUS
<1>3. \A x \in DOMAIN g : g[x] = 0
  BY <1>1, <1>2
<1>4. QED
  BY <1>2, <1>3, TotalOfNothing DEF NeedsBelow

\* The greater of two numbers is one of them.
LEMMA MaxIs ==
  ASSUME NEW n \in Nat
  PROVE  Max({1, n}) \in Nat
<1>1. \E x \in {1, n} : \A y \in {1, n} : x >= y
  <2>1. CASE n >= 1
    BY <2>1
  <2>2. CASE ~(n >= 1)
    BY <2>2
  <2>3. QED
    BY <2>1, <2>2
<1>2. Max({1, n}) \in {1, n}
  BY <1>1, Zenon DEF Max
<1>3. QED
  BY <1>2

\* There always are threads enough.
LEMMA ThreadsSuffice ==
  ASSUME NEW C, NothingBlocks(C), Within(C), IInv, NEW j \in Names, At(stack, j)
  PROVE  EnoughThreads(j)
<1>1. Needs(j) = 0 /\ Stacks(stack)
  BY TaskWithin, PartsOf
<1>2. PICK p : p = Frame(j).parent
  OBVIOUS
<1>3. CASE p = NoJob
  <2>1. Created \subseteq Threads
    BY DEF Created, Threads
  <2>2. IsFiniteSet(Created)
    BY <2>1, FS_Subset, ThreadsAssumption
  <2>3. threadsCreated \in Nat
    BY <2>2, FS_CardinalityType DEF threadsCreated
  <2>4. reserved = 0
    BY NoNeeds DEF IInv, BalanceInv
  <2>5. QED
    BY <1>1, <1>2, <1>3, <2>3, <2>4 DEF EnoughThreads, ThreadsAvailable
<1>4. CASE p # NoJob
  <2>1. j[1] \in Threads /\ j[2] \in 1 .. Depth(j[1]) /\ p = stack[j[1]][j[2]].parent
    BY <1>2, Places DEF Depth, Frame
  <2>2. NestOk(j[1], j[2])
    BY <2>1 DEF IInv, NestInv
  <2>3. j[2] > 1 /\ p = Caller(j[1], j[2])
    <3>1. j[2] # 1 /\ p = stack[j[1]][j[2] - 1].run.job
      BY <1>4, <2>1, <2>2 DEF NestOk
    <3>2. j[2] \in Nat /\ j[2] >= 1
      BY <2>1, Places
    <3>3. QED
      BY <3>1, <3>2 DEF Caller
  <2>4. p \in Names /\ At(stack, p)
    BY <2>1, <2>3, CallerIs
  <2>5. Needs(p) = 0
    BY <1>1, <2>4, TaskWithin
  <2>6. Job(p).reserved = 0
    BY <2>4, NoNeeds DEF IInv, BalanceInv
  <2>7. ThreadsAvailable(p) = 0 * Max({1, Job(p).active}) - 0
    BY <1>4, <2>5, <2>6 DEF ThreadsAvailable
  <2>8. Max({1, Job(p).active}) \in Nat
    <3>1. Job(p).active \in Nat
      BY <1>1, <2>4, JobsType, JobIs DEF IsJob
    <3>2. QED
      BY <3>1, MaxIs
  <2>9. QED
    BY <1>1, <1>2, <2>7, <2>8 DEF EnoughThreads
<1>5. QED
  BY <1>3, <1>4

\* An owner that comes to its own job takes it.
LEMMA OwnIsTaken ==
  ASSUME NEW C, NothingBlocks(C), Within(C), IInv, NEW t \in Threads, NEW j \in Names, At(stack, j)
  PROVE  Eligible(t, j) /\ Runnable(j)
<1>1. Needs(j) = 0 /\ Stacks(stack) /\ ~Serial(j) /\ Acquires[Task(j)] = <<>>
  BY TaskWithin, PartsOf
<1>2. EnoughThreads(j)
  BY ThreadsSuffice
<1>3. CanUseThisStack(t, j)
  BY <1>1 DEF CanUseThisStack
<1>4. CanAddWorker(j)
  BY <1>1 DEF CanAddWorker, Serial
<1>5. QED
  BY <1>1, <1>2, <1>3, <1>4, NothingToAcquire DEF Eligible

\* Who looks for a job to run owns one that is not over, or none.
LEMMA StartScanLoops ==
  ASSUME NEW C, LoopsInv(C), IInv, NEW t \in Threads, StartScan(t)
  PROVE  LoopsInv(C)'
<1>1. /\ pc[t] = "loop" /\ pc' = [pc EXCEPT ![t] = "scan"] /\ stack' = stack /\ cursor' = 1
      /\ Owned(t) # NoJob => Running(Owned(t))
  BY DEF StartScan
<1>2. Depth(t) > 0 /\ Stacks(stack) /\ pc \in [Threads -> Pcs] /\ "scan" \in Pcs
  BY <1>1, InLoop, PartsOf DEF Busy, Pcs
<1>3. Others(t) /\ pc'[t] = "scan"
  BY <1>1, <1>2, OneMoves
<1>4. Top(t).call # NoCall => Awaits(Top(t))
  <2>1. SUFFICES ASSUME Top(t).call # NoCall PROVE Awaits(Top(t))
    OBVIOUS
  <2>2. Owned(t) # NoJob
    BY <1>2, <2>1, OwnedIs
  <2>3. Job(Owned(t)) = Top(t).jobs[Top(t).joining]
    BY <1>1, <2>2, OwnedJob
  <2>4. QED
    BY <1>1, <2>2, <2>3 DEF Running, Awaits
<1>5. Top(t)' = Top(t) /\ ~(1 <= 1 - 1)
  BY <1>1 DEF Top, Depth
<1>6. WaitOk(t)'
  BY <1>1, <1>3, <1>4, <1>5 DEF WaitOk, Awaits
<1>7. QED
  BY <1>1, <1>3, <1>6, StillLoops DEF Library, LoopNext

\* The scan has come to the end without a job: the owned one is not in the queue.
LEMMA SleepLoops ==
  ASSUME NEW C, NothingBlocks(C), LoopsInv(C), IInv, NEW t \in Threads, Sleep(t)
  PROVE  LoopsInv(C)'
<1>1. PICK v : /\ v = SleepPc(t) /\ pc[t] = "scan" /\ cursor > Len(queue) /\ pc' = [pc EXCEPT ![t] = v]
               /\ stack' = stack
  BY DEF Sleep
<1>2. Depth(t) > 0 /\ Stacks(stack) /\ pc \in [Threads -> Pcs] /\ queue \in Seq(Names) /\ Len(queue) \in Nat
      /\ cursor \in Nat
  BY <1>1, WaitersOwn, PartsOf DEF ScanInv
<1>3. v \in Pcs \ {"scan"} /\ (v = "sleepOwner" <=> Owned(t) # NoJob)
  BY <1>1 DEF SleepPc, Pcs, Sleeping
<1>4. Others(t) /\ pc'[t] = v
  BY <1>1, <1>2, <1>3, OneMoves
<1>5. WaitOk(t) /\ Within(C)
  BY DEF LoopsInv, WaitInv
<1>6. Top(t).call # NoCall => Spent(Top(t))
  <2>1. SUFFICES ASSUME Top(t).call # NoCall PROVE Spent(Top(t))
    OBVIOUS
  <2>2. Owned(t) # NoJob /\ Owned(t) = <<t, Depth(t), Top(t).joining>>
    BY <1>2, <2>1, OwnedIs
  <2>3. /\ Owned(t) \in Names /\ At(stack, Owned(t)) /\ Enqueued(Owned(t))
        /\ Job(Owned(t)) = Top(t).jobs[Top(t).joining] /\ Job(Owned(t)).extent \in Nat
    BY <1>1, <2>2, OwnedJob
  <2>4. \A i \in 1 .. cursor - 1 : queue[i] # Owned(t)
    BY <1>1, <1>5, <2>1, <2>2 DEF WaitOk
  <2>5. \A i \in 1 .. Len(queue) : queue[i] # Owned(t)
    BY <1>1, <1>2, <2>4
  <2>6. Owned(t) \notin Range(queue)
    BY <1>2, <2>5 DEF Range
  <2>7. ~Waits(Owned(t))
    BY <2>3, <2>6 DEF IInv, QueueInv
  <2>8. ~Serial(Owned(t))
    BY <1>2, <1>5, <2>3, TaskWithin
  <2>9. QED
    BY <2>3, <2>7, <2>8 DEF Waits, Spent
<1>7. Top(t)' = Top(t)
  BY <1>1 DEF Top, Depth
<1>8. Owned(t) = NoJob <=> Top(t).call = NoCall
  BY <1>2, OwnedIs
<1>9. WaitOk(t)'
  BY <1>1, <1>3, <1>4, <1>5, <1>6, <1>7, <1>8 DEF WaitOk, Awaits, Spent
<1>10. QED
  BY <1>1, <1>4, <1>9, StillLoops DEF Library, LoopNext

\* The job the scan passes over is not the owned one.
LEMMA PassOverLoops ==
  ASSUME NEW C, NothingBlocks(C), LoopsInv(C), IInv, NEW t \in Threads, PassOver(t)
  PROVE  LoopsInv(C)'
<1>1. PICK j : /\ j = queue[cursor] /\ pc[t] = "scan" /\ pc' = pc /\ cursor <= Len(queue) /\ cursor' = cursor + 1
               /\ queue' = queue /\ ~(Eligible(t, j) /\ Runnable(j))
  BY DEF PassOver
<1>2. /\ Depth(t) > 0 /\ Stacks(stack) /\ Depth(t) \in Nat /\ Depth(t) = Len(stack[t]) /\ Depth(t) \in 1 .. Len(stack[t])
      /\ cursor \in Nat /\ cursor >= 1 /\ Len(queue) \in Nat /\ DOMAIN queue = 1 .. Len(queue)
  BY <1>1, WaitersOwn, PartsOf, TopIs DEF ScanInv
<1>3. Calm(t)
  BY PassOverStep
<1>4. KeepsCalls(stack, stack') /\ KeepsJoins(stack, stack') /\ SameExtents(stack, stack') /\ Stacks(stack')
  BY <1>1, <1>3 DEF Calm
<1>5. WaitOk(t) /\ Within(C)
  BY DEF LoopsInv, WaitInv
<1>6. Top(t).call' = Top(t).call /\ Top(t).joining' = Top(t).joining /\ Depth(t)' = Depth(t)
  BY <1>2, <1>4 DEF Top, Depth, KeepsCalls, KeepsJoins
<1>7. ASSUME Top(t).call # NoCall
      PROVE  Awaits(Top(t))' /\ \A i \in 1 .. cursor' - 1 : queue'[i] # <<t, Depth(t), Top(t).joining>>
  <2>1. PICK o : o = JobName(t, Depth(t), Top(t).joining)
    OBVIOUS
  <2>2. /\ o \in Names /\ At(stack, o)
        /\ Awaits(Top(t)) <=> JobAt(stack, o).extent # 0 \/ JobAt(stack, o).active # 0
        /\ Awaits(Top(t))' <=> JobAt(stack', o).extent # 0 \/ JobAt(stack', o).active # 0
    BY <1>2, <1>4, <1>6, <1>7, <2>1, AwaitsIs
  <2>3. Awaits(Top(t))
    BY <1>1, <1>5, <1>7 DEF WaitOk
  <2>4. Awaits(Top(t))'
    BY <1>3, <1>4, <2>2, <2>3 DEF Calm, SameExtents
  <2>5. j # o
    BY <1>1, <1>5, <2>2, OwnIsTaken
  <2>6. \A i \in 1 .. cursor - 1 : queue[i] # o
    BY <1>1, <1>5, <1>7, <2>1 DEF WaitOk, JobName
  <2>7. \A i \in 1 .. cursor' - 1 : i \in 1 .. cursor - 1 \/ i = cursor
    BY <1>1, <1>2
  <2>8. QED
    BY <1>1, <2>1, <2>4, <2>5, <2>6, <2>7 DEF JobName
<1>8. WaitOk(t)'
  BY <1>1, <1>6, <1>7 DEF WaitOk
<1>9. QED
  BY <1>3, <1>8, CalmLoops DEF Library, LoopNext

\* The other calm steps.
LEMMA CalmStepsLoop ==
  ASSUME NEW C, LoopsInv(C), IInv, NEW t \in Threads,
         \/ Take(t) \/ CancelOwned(t) \/ ReleaseSemaphore(t) \/ IterationEnds(t) \/ TaskFails(t)
         \/ Claim(t) \/ ClaimEnds(t)
  PROVE  LoopsInv(C)'
<1>1. Calm(t)
  BY TakeStep, CancelOwnedStep, ReleaseSemaphoreStep, IterationEndsStep, TaskFailsStep, ClaimStep, ClaimEndsStep
<1>2. pc'[t] \notin Waiting
  <2>1. pc \in [Threads -> Pcs]
    BY PartsOf
  <2>2. CASE Take(t) \/ CancelOwned(t)
    BY <2>1, <2>2 DEF Take, CancelOwned, Waiting, Sleeping
  <2>3. CASE ReleaseSemaphore(t) \/ IterationEnds(t) \/ TaskFails(t)
    BY <2>1, <2>3 DEF ReleaseSemaphore, IterationEnds, TaskFails, Waiting, Sleeping
  <2>4. CASE Claim(t) \/ ClaimEnds(t)
    BY <2>1, <2>4 DEF Claim, ClaimEnds, Waiting, Sleeping
  <2>5. QED
    BY <2>2, <2>3, <2>4
<1>3. QED
  BY <1>1, <1>2, NotWaiting, CalmLoops DEF Library, LoopNext, TaskNext

\* A thread moves on that does not go to wait.
LEMMA MoveLoops ==
  ASSUME NEW C, LoopsInv(C), IInv, NEW t \in Threads, Client(t) \/ Library(t), NEW v \in Pcs, stack' = stack,
         v \notin Waiting,
         \/ pc' = [pc EXCEPT ![t] = v]
         \/ \E reasons \in SUBSET Sleeping : pc' = [Broadcast(pc, reasons) EXCEPT ![t] = v]
  PROVE  LoopsInv(C)'
<1>1. pc \in [Threads -> Pcs]
  BY PartsOf
<1>2. Others(t) /\ pc'[t] = v
  BY <1>1, OneMoves, BroadcastKeeps
<1>3. QED
  BY <1>2, NotWaiting, StillLoops

\* The steps of a thread that change no frame.
LEMMA MovesLoop ==
  ASSUME NEW C, LoopsInv(C), IInv, NEW t \in Threads,
         \/ Start(t) \/ WorkerExits(t) \/ WakeUp(t) \/ WakeWaiters(t) \/ Shutdown(t)
         \/ Library(t) /\ pc[t] = "enqueue" /\ pc' = [pc EXCEPT ![t] = "aborted"] /\ stack' = stack
  PROVE  LoopsInv(C)'
<1>1. {"loop", "exited", "task", "join", "aborted"} \subseteq Pcs \ Waiting
      /\ {"sleepA", "sleepOwner"} \in SUBSET Sleeping /\ Sleeping \in SUBSET Sleeping
  BY DEF Pcs, Sleeping, Waiting
<1>2. stack' = stack /\ (Client(t) \/ Library(t))
  BY DEF Start, WorkerExits, WakeUp, WakeWaiters, Shutdown, Client, Library, LoopNext, LockNext
<1>3. CASE Start(t) \/ WakeUp(t)
  BY <1>1, <1>2, <1>3, MoveLoops DEF Start, WakeUp
<1>4. CASE WorkerExits(t)
  BY <1>1, <1>2, <1>4, MoveLoops DEF WorkerExits
<1>5. CASE WakeWaiters(t)
  BY <1>1, <1>2, <1>5, MoveLoops DEF WakeWaiters
<1>6. CASE Shutdown(t)
  BY <1>1, <1>2, <1>6, MoveLoops DEF Shutdown
<1>7. CASE Library(t) /\ pc[t] = "enqueue" /\ pc' = [pc EXCEPT ![t] = "aborted"] /\ stack' = stack
  BY <1>1, <1>2, <1>7, MoveLoops
<1>8. QED
  BY <1>3, <1>4, <1>5, <1>6, <1>7

\* An owner that goes on to its next job.
LEMMA JoinNextLoops ==
  ASSUME NEW C, LoopsInv(C), IInv, NEW t \in Threads, JoinNext(t)
  PROVE  LoopsInv(C)'
<1>1. JoinGoesOn(t) /\ Stacks(stack) /\ pc \in [Threads -> Pcs]
  BY JoinNextStep, PartsOf
<1>2. /\ pc' = pc /\ pc[t] = "loop" /\ KeepsCalls(stack, stack') /\ KeepsRuns(stack, stack')
      /\ \A u \in Threads : \A d \in 1 .. Len(stack[u]) : u # t \/ d # Len(stack[t]) => stack'[u][d] = stack[u][d]
  BY <1>1, Zenon DEF JoinGoesOn
<1>3. Others(t) /\ pc'[t] \notin Waiting /\ OtherRuns(stack, stack', t)
  BY <1>1, <1>2, NobodyMoves DEF Waiting, Sleeping, KeepsRuns, OtherRuns
<1>4. ASSUME NEW u \in Threads, u # t PROVE Depth(u)' = Depth(u) /\ (Depth(u) > 0 => Top(u)' = Top(u))
  <2>1. Depth(u)' = Depth(u)
    BY <1>2 DEF KeepsCalls, Depth
  <2>2. ASSUME Depth(u) > 0 PROVE Depth(u) \in 1 .. Len(stack[u])
    BY <1>1, <2>2, TopIs
  <2>3. QED
    BY <1>2, <1>4, <2>1, <2>2 DEF Top
<1>5. WaitInv'
  BY <1>3, <1>4, OthersWait DEF Library, LoopNext, LoopsInv
<1>6. QED
  BY <1>2, <1>3, <1>5, KeptFrames DEF LoopsInv

\* An owner that inherits a failure wakes all the others.
LEMMA InheritLoops ==
  ASSUME NEW C, LoopsInv(C), IInv, NEW t \in Threads, InheritFailure(t)
  PROVE  LoopsInv(C)'
<1>1. Inherited(t)
  BY InheritFailureStep
<1>2. /\ Stacks(stack') /\ pc'[t] = "loop" /\ Others(t) /\ KeepsCalls(stack, stack')
      /\ KeepsJoins(stack, stack') /\ KeepsRuns(stack, stack')
      /\ \A k \in Names : At(stack, k) =>
            JobAt(stack', k).active = JobAt(stack, k).active /\ JobAt(stack', k).extent = JobAt(stack, k).extent
  BY <1>1 DEF Inherited
<1>3. WaitOk(t)' /\ OtherRuns(stack, stack', t)
  BY <1>2, NotWaiting DEF Waiting, Sleeping, KeepsRuns, OtherRuns
<1>4. \A u \in Threads, o \in Names : At(stack, o) => StillOpen(u, o)
  BY <1>2 DEF StillOpen
<1>5. QED
  BY <1>2, <1>3, <1>4, KeptLoops DEF Library, LoopNext

\* Who waits for a job that is over is woken by the thread that has done the last of it.
LEMMA FinishLoops ==
  ASSUME NEW C, LoopsInv(C), IInv, NEW t \in Threads, Finish(t)
  PROVE  LoopsInv(C)'
<1>1. PICK j : j = Run(t).job
  OBVIOUS
<1>2. Ends(t, j) /\ Stacks(stack)
  BY <1>1, FinishStep, PartsOf
<1>3. /\ Stacks(stack') /\ LockFree /\ pc'[t] = "loop" /\ Others(t)
      /\ KeepsCalls(stack, stack') /\ KeepsJoins(stack, stack') /\ OtherRuns(stack, stack', t)
  BY <1>2 DEF Ends
<1>4. WaitOk(t)'
  BY <1>3, NotWaiting DEF Waiting, Sleeping
<1>5. ASSUME NEW u \in Threads, NEW o \in Names, u # t, pc[u] \in {"scan", "sleepOwner"}, pc'[u] = pc[u], At(stack, o),
             o[1] = u, o[2] = Depth(u), o[3] = Top(u).joining
      PROVE  StillOpen(u, o)
  <2>1. pc[u] = "sleepOwner"
    BY <1>3, <1>5 DEF LockFree, Locked
  <2>2. /\ JobAt(stack, o).extent = 0 => JobAt(stack', o).extent = 0
        /\ o # j => JobAt(stack', o).active = JobAt(stack, o).active
    BY <1>2, <1>5 DEF Ends
  <2>3. CASE o # j
    BY <2>1, <2>2, <2>3 DEF StillOpen
  <2>4. CASE o = j
    <3>1. Depth(u) > 0 /\ Top(u).call # NoCall
      BY <2>1, WaitersOwn DEF LoopsInv, WaitInv, WaitOk
    <3>2. Owned(u) = <<u, Depth(u), Top(u).joining>>
      BY <1>2, <3>1, OwnedIs
    <3>3. o = <<o[1], o[2], o[3]>>
      BY DEF Names
    <3>4. OwnerIsSleeping(j)
      BY <1>5, <2>1, <2>4, <3>2, <3>3 DEF OwnerIsSleeping
    <3>5. ~(JobAt(stack', j).active = 0 /\ JobAt(stack', j).extent = 0)
      BY <1>2, <1>5, <2>1, <3>4 DEF Ends
    <3>6. QED
      BY <2>1, <2>2, <2>4, <3>5 DEF StillOpen
  <2>5. QED
    BY <2>3, <2>4
<1>6. QED
  BY <1>3, <1>4, <1>5, KeptLoops DEF Library, LockNext

\* A call is made.
LEMMA CallLoops ==
  ASSUME NEW C, NothingBlocks(C), LoopsInv(C), IInv, NEW t \in Threads, Client(t) \/ Library(t), Calling(t)
  PROVE  LoopsInv(C)'
<1>1. PICK f : Pushes(stack, stack', t, f) /\ pc' = [pc EXCEPT ![t] = "enqueue"]
  BY DEF Calling
<1>2. pc \in [Threads -> Pcs] /\ "enqueue" \in Pcs
  BY PartsOf DEF Pcs
<1>3. Others(t) /\ pc'[t] \notin Waiting
  BY <1>1, <1>2, OneMoves DEF Waiting, Sleeping
<1>4. \A u \in Threads : u # t => Depth(u)' = Depth(u) /\ Top(u)' = Top(u)
  BY <1>1 DEF Pushes, Depth, Top
<1>5. WaitInv'
  BY <1>3, <1>4, OthersWait DEF LoopsInv
<1>6. QED
  BY <1>5, CallWithin, AgesGrow DEF LoopsInv

\* A call returns.
LEMMA ReturnLoops ==
  ASSUME NEW C, LoopsInv(C), IInv, NEW t \in Threads, Return(t)
  PROVE  LoopsInv(C)'
<1>1. PICK e : e = Depth(t) - 1 /\ AfterReturn(t, e)
  BY ReturnIs
<1>2. Shorter(stack, stack', t) /\ pc \in [Threads -> Pcs] /\ CallFailed(t) \in BOOLEAN
  BY <1>1, PartsOf, ReturnsOver DEF AfterReturn
<1>3. PICK v \in {"out", "finish", "task"} : pc' = [pc EXCEPT ![t] = v]
  <2>1. CASE e = 0
    BY <1>1, <2>1 DEF AfterReturn
  <2>2. CASE e # 0
    BY <1>1, <2>2 DEF AfterReturn
  <2>3. QED
    BY <2>1, <2>2
<1>4. Others(t) /\ pc'[t] \notin Waiting
  BY <1>2, <1>3, OneMoves DEF Pcs, Waiting, Sleeping
<1>5. \A u \in Threads : u # t => Depth(u)' = Depth(u) /\ Top(u)' = Top(u)
  BY <1>2 DEF Shorter, Depth, Top
<1>6. WaitInv'
  BY <1>4, <1>5, OthersWait DEF Library, LoopNext, LoopsInv
<1>7. QED
  BY <1>2, <1>6, ReturnFrames DEF LoopsInv

\* A call enters the queue, and workers are spawned.
LEMMA EntersLoops ==
  ASSUME NEW C, LoopsInv(C), IInv, NEW t \in Threads, NEW new, Enters(t, new)
  PROVE  LoopsInv(C)'
<1>1. /\ Spawned(stack, stack', new) /\ LockFree /\ pc'[t] = "loop" /\ \A w \in new : pc'[w] = "start"
      /\ \A u \in Threads : u # t /\ u \notin new => pc'[u] = pc[u] \/ (pc[u] \in Sleeping /\ pc'[u] \in Awakened)
  BY DEF Enters
<1>2. \A u \in Threads : u \notin new => stack'[u] = stack[u]
  BY <1>1 DEF Spawned
<1>3. ASSUME NEW u \in Threads, pc'[u] \in Waiting PROVE KeepsWaiting(u)
  <2>1. u # t /\ u \notin new /\ pc'[u] = pc[u]
    BY <1>1, <1>3 DEF Waiting, Sleeping, Awakened
  <2>2. Depth(u)' = Depth(u) /\ Top(u)' = Top(u)
    BY <1>2, <2>1 DEF Depth, Top
  <2>3. pc[u] # "scan"
    BY <1>1 DEF LockFree, Locked
  <2>4. QED
    BY <2>1, <2>2, <2>3 DEF KeepsWaiting, Spent, Awaits
<1>4. WaitInv'
  BY <1>3, WaitsMove DEF LoopsInv
<1>5. QED
  BY <1>1, <1>4, SpawnedFrames DEF LoopsInv

\* The first step of a call that has been made.
LEMMA EnqueueLoops ==
  ASSUME NEW C, LoopsInv(C), IInv, NEW t \in Threads, NEW new \in SUBSET (Workers \ Created), Enqueue(t, new)
  PROVE  LoopsInv(C)'
<1>1. CASE OverCommits(Top(t).call, Top(t).parent)
  <2>1. Library(t)
    BY DEF Library, LockNext
  <2>2. pc[t] = "enqueue" /\ pc' = [pc EXCEPT ![t] = "aborted"] /\ stack' = stack
    BY <1>1 DEF Enqueue
  <2>3. QED
    BY <2>1, <2>2, MovesLoop
<1>2. CASE ~OverCommits(Top(t).call, Top(t).parent)
  <2>1. Enters(t, new)
    BY <1>2, EnqueueEnters
  <2>2. QED
    BY <2>1, EntersLoops
<1>3. QED
  BY <1>1, <1>2

\* The number of threads is set.
LEMMA SetNumThreadsLoops ==
  ASSUME NEW C, LoopsInv(C), IInv, NEW t \in Threads, NEW n \in NumThreads, SetNumThreads(t, n)
  PROVE  LoopsInv(C)'
<1>1. stack' = stack /\ pc' = pc /\ pc[t] = "out" /\ Client(t)
  BY DEF SetNumThreads, Client
<1>2. Others(t) /\ pc'[t] \notin Waiting
  BY <1>1, NobodyMoves, PartsOf DEF Waiting, Sleeping
<1>3. QED
  BY <1>1, <1>2, NotWaiting, StillLoops

\* The pool is reset.
LEMMA ResetLoops ==
  ASSUME NEW C, LoopsInv(C), IInv, NEW t \in Threads, Reset(t)
  PROVE  LoopsInv(C)'
<1>1. \A u \in Threads : stack'[u] = <<>> /\ pc'[u] \in {"out", "off"}
  BY DEF Reset
<1>2. \A u \in Threads : Len(stack'[u]) = 0 /\ pc'[u] \notin Waiting
  BY <1>1 DEF Waiting, Sleeping
<1>3. \A u \in Threads : Len(stack[u]) \in Nat
  BY PartsOf DEF Stacks, IsStack
<1>4. \A d : d \notin 1 .. 0
  OBVIOUS
<1>5. AgeInv'
  <2>1. \A u \in Threads : Len(stack'[u]) \in Nat /\ Len(stack'[u]) <= 1 /\ \A d : d \notin 1 .. Len(stack'[u])
    BY <1>2, <1>4
  <2>2. QED
    BY <1>3, <2>1, AgesStay DEF LoopsInv
<1>6. Within(C)'
  BY <1>2, <1>4 DEF Within
<1>7. WaitInv'
  BY <1>2, NotWaiting DEF WaitInv
<1>8. QED
  BY <1>5, <1>6, <1>7 DEF LoopsInv

\* Nothing happens.
LEMMA NothingLoops ==
  ASSUME NEW C, LoopsInv(C), UNCHANGED vars
  PROVE  LoopsInv(C)'
<1>1. stack' = stack /\ pc' = pc /\ queue' = queue /\ cursor' = cursor
  BY DEF vars
<1>2. Within(C)'
  BY <1>1 DEF LoopsInv, Within
<1>3. WaitInv'
  BY <1>1 DEF LoopsInv, WaitInv, WaitOk, Spent, Awaits, Top, Depth
<1>4. AgeInv'
  BY <1>1 DEF LoopsInv, AgeInv, AgesOk
<1>5. QED
  BY <1>2, <1>3, <1>4 DEF LoopsInv

\* Every step of a thread keeps the sleepers waiting for what is not over.
LEMMA StepLoops ==
  ASSUME NEW C, NothingBlocks(C), LoopsInv(C), IInv, NEW t \in Threads, Client(t) \/ Library(t)
  PROVE  LoopsInv(C)'
<1>1. CASE Client(t)
  <2>1. ASSUME NEW c \in TopCalls, Call(t, c) PROVE LoopsInv(C)'
    BY <1>1, <2>1, CallClientStep, CallLoops
  <2>2. ASSUME NEW n \in NumThreads, SetNumThreads(t, n) PROVE LoopsInv(C)'
    BY <2>2, SetNumThreadsLoops
  <2>3. ASSUME Shutdown(t) PROVE LoopsInv(C)'
    BY <2>3, MovesLoop
  <2>4. QED
    BY <1>1, <2>1, <2>2, <2>3 DEF Client
<1>2. CASE LoopNext(t)
  <2>1. CASE WorkerExits(t)
    BY <2>1, MovesLoop
  <2>2. CASE JoinNext(t) \/ Return(t) \/ InheritFailure(t)
    BY <2>2, JoinNextLoops, ReturnLoops, InheritLoops
  <2>3. CASE CancelOwned(t) \/ Take(t)
    BY <2>3, CalmStepsLoop
  <2>4. CASE StartScan(t) \/ PassOver(t) \/ Sleep(t)
    BY <2>4, StartScanLoops, PassOverLoops, SleepLoops
  <2>5. QED
    BY <1>2, <2>1, <2>2, <2>3, <2>4 DEF LoopNext
<1>3. CASE TaskNext(t)
  <2>1. CASE CallInTask(t)
    BY <1>3, <2>1, CallInTaskStep, CallLoops DEF Library
  <2>2. CASE ~CallInTask(t)
    BY <1>3, <2>2, CalmStepsLoop DEF TaskNext
  <2>3. QED
    BY <2>1, <2>2
<1>4. CASE LockNext(t)
  <2>1. ASSUME NEW new \in SUBSET (Workers \ Created), Enqueue(t, new) PROVE LoopsInv(C)'
    BY <2>1, EnqueueLoops
  <2>2. CASE Start(t) \/ WakeUp(t) \/ WakeWaiters(t)
    BY <2>2, MovesLoop
  <2>3. CASE Finish(t)
    BY <2>3, FinishLoops
  <2>4. QED
    BY <1>4, <2>1, <2>2, <2>3 DEF LockNext
<1>5. CASE Reset(t)
  BY <1>5, ResetLoops
<1>6. QED
  BY <1>1, <1>2, <1>3, <1>4, <1>5 DEF Library

\* Among numbers that are bounded there is a largest.
LEMMA Largest ==
  ASSUME NEW n \in Nat, NEW f, NEW S, S # {}, \A u \in S : f[u] \in 0 .. n
  PROVE  \E u \in S : \A v \in S : f[v] <= f[u]
<1>1. PICK R : R = OpToRel(<, Nat)
  OBVIOUS
<1>2. IsWellFoundedOn(R, Nat)
  BY <1>1, NatLessThanWellFounded
<1>3. \A i, k \in Nat : <<i, k>> \in R <=> i < k
  BY <1>1 DEF OpToRel
<1>4. PICK T : T = {n - f[u] : u \in S}
  OBVIOUS
<1>5. T \subseteq Nat /\ T # {}
  BY <1>4
<1>6. PICK m \in T : \A i \in T : ~(<<i, m>> \in R)
  BY <1>2, <1>5, WFMin
<1>7. PICK u \in S : m = n - f[u]
  BY <1>4
<1>8. ASSUME NEW v \in S PROVE f[v] <= f[u]
  <2>1. n - f[v] \in T
    BY <1>4
  <2>2. ~(n - f[v] < m)
    BY <1>3, <1>5, <1>6, <2>1
  <2>3. QED
    BY <1>7, <2>2
<1>9. QED
  BY <1>8

\* Who sleeps in a call waits for the work of another thread.
LEMMA SleepersAwait ==
  ASSUME NEW C, LoopsInv(C), IInv, NEW u \in Threads, pc[u] = "sleepOwner"
  PROVE  \E v \in Threads : \E e \in 1 .. Depth(v) :
            \E o \in Names : stack[v][e].run.job = o /\ o[1] = u /\ o[2] = Depth(u) /\ At(stack, o)
<1>1. Depth(u) > 0 /\ Stacks(stack)
  BY WaitersOwn, PartsOf
<1>2. Top(u).call # NoCall /\ Spent(Top(u)) /\ Awaits(Top(u))
  BY DEF LoopsInv, WaitInv, WaitOk
<1>3. PICK o : o = JobName(u, Depth(u), Top(u).joining)
  OBVIOUS
<1>4. JoinInv /\ Depth(u) \in 1 .. Len(stack[u]) /\ Depth(u) \in 1 .. Depth(u) /\ Top(u) = stack[u][Depth(u)]
  BY <1>1, TopIs DEF IInv, Top
<1>5. Top(u).joining \in JobsOf(stack[u][Depth(u)].call)
  BY <1>2, <1>4 DEF JoinInv, JoinOk
<1>6. /\ o \in Names /\ At(stack, o) /\ o[1] = u /\ o[2] = Depth(u)
      /\ \A z : JobAt(z, o) = z[u][Depth(u)].jobs[Top(u).joining]
  BY <1>1, <1>3, <1>4, <1>5, NameOf
<1>7. Job(o).active # 0
  BY <1>2, <1>4, <1>6, JobIs DEF Spent, Awaits
<1>8. Cardinality(RunsOf(o)) # 0
  BY <1>6, <1>7 DEF IInv, ActiveInv
<1>9. RunsOf(o) # {}
  BY <1>8, FS_EmptySet
<1>10. PICK f \in Frames : stack[f[1]][f[2]].run.job = o
  BY <1>9 DEF RunsOf
<1>11. PICK v \in Threads : \E e \in 1 .. Depth(v) : f = <<v, e>>
  BY FramesAre
<1>12. QED
  BY <1>6, <1>10, <1>11

\* When nobody is awake, who has more than one frame sleeps in a call.
LEMMA DeepSleepers ==
  ASSUME NEW C, LoopsInv(C), IInv, NEW v \in Threads, pc[v] \in Idle, Depth(v) > 1 \/ (v \in Clients /\ pc[v] # "out")
  PROVE  pc[v] = "sleepOwner"
<1>1. Stacks(stack) /\ PcOk(v) /\ Depth(v) \in Nat /\ Clients \intersect Workers = {}
  BY PartsOf, DepthIs, ProgramAssumption DEF IInv, PcInv
<1>2. pc[v] \notin {"out", "off", "exited"} /\ Depth(v) > 0
  <2>1. CASE Depth(v) > 1
    BY <1>1, <2>1 DEF PcOk
  <2>2. CASE v \in Clients /\ pc[v] # "out"
    BY <1>1, <2>2 DEF PcOk, Idle, Sleeping
  <2>3. QED
    BY <2>1, <2>2
<1>3. pc[v] \in Sleeping
  BY <1>2 DEF Idle
<1>4. NestOk(v, Depth(v)) /\ Top(v) = stack[v][Depth(v)]
  BY <1>1, <1>2 DEF IInv, NestInv, Top
<1>5. Top(v).call # NoCall
  BY <1>1, <1>4 DEF NestOk
<1>6. WaitOk(v)
  BY DEF LoopsInv, WaitInv
<1>7. QED
  BY <1>3, <1>5, <1>6 DEF WaitOk, Sleeping

\* Of those who sleep in a call, the one with the youngest frame waits for a job
\* that somebody works on: who is awake, or has made a call that is younger.
LEMMA SomebodyAwake ==
  ASSUME NEW C, LoopsInv(C), IInv
  PROVE  NeverStuck
<1>1. SUFFICES ASSUME NEW c \in Clients, pc[c] # "out", \A t \in Threads : pc[t] \in Idle PROVE FALSE
  BY DEF NeverStuck
<1>2. c \in Threads /\ pc[c] = "sleepOwner"
  BY <1>1, DeepSleepers DEF Threads
<1>3. PICK n, age : AgesOk(n, age)
  BY DEF LoopsInv, AgeInv
<1>4. \A u \in Threads : Depth(u) \in Nat /\ Depth(u) = Len(stack[u])
  BY PartsOf, DepthIs
<1>5. PICK S, f : S = {u \in Threads : pc[u] = "sleepOwner"} /\ f = [u \in S |-> age[<<u, Depth(u)>>]]
  OBVIOUS
<1>6. S # {} /\ n \in Nat /\ \A u \in S : f[u] \in 0 .. n
  BY <1>2, <1>3, <1>4, <1>5 DEF AgesOk
<1>7. PICK u \in S : \A v \in S : f[v] <= f[u]
  BY <1>6, Largest
<1>8. PICK v \in Threads : \E e \in 1 .. Depth(v) :
         \E o \in Names : stack[v][e].run.job = o /\ o[1] = u /\ o[2] = Depth(u) /\ At(stack, o)
  BY <1>5, <1>7, SleepersAwait
<1>9. PICK e \in 1 .. Depth(v), o \in Names : stack[v][e].run.job = o /\ o[1] = u /\ o[2] = Depth(u) /\ At(stack, o)
  BY <1>8
<1>10. e < Depth(v)
  <2>1. PcOk(v) /\ pc[v] \notin Busy
    BY <1>1 DEF IInv, PcInv, Idle, Busy, Sleeping
  <2>2. o # NoJob
    BY NullAssumption DEF Names
  <2>3. e # Depth(v)
    BY <1>4, <1>9, <2>1, <2>2 DEF PcOk, Top
  <2>4. QED
    BY <1>4, <2>3
<1>11. v \in S
  <2>1. Depth(v) > 1
    BY <1>4, <1>10
  <2>2. QED
    BY <1>1, <1>5, <2>1, DeepSleepers
<1>12. age[<<u, Depth(u)>>] < age[<<v, e + 1>>]
  BY <1>3, <1>4, <1>9, <1>10 DEF AgesOk
<1>13. age[<<v, e + 1>>] <= age[<<v, Depth(v)>>]
  <2>1. e + 1 \in 1 .. Len(stack[v]) /\ Depth(v) \in 1 .. Len(stack[v]) /\ (e + 1 = Depth(v) \/ e + 1 < Depth(v))
    BY <1>4, <1>10
  <2>2. age[<<v, e + 1>>] \in 0 .. n
    BY <1>3, <1>4, <1>10 DEF AgesOk
  <2>3. CASE e + 1 = Depth(v)
    BY <1>6, <2>2, <2>3
  <2>4. CASE e + 1 < Depth(v)
    <3>1. age[<<v, e + 1>>] < age[<<v, Depth(v)>>]
      BY <1>3, <2>1, <2>4 DEF AgesOk
    <3>2. age[<<v, Depth(v)>>] \in 0 .. n
      BY <1>3, <1>4, <2>1 DEF AgesOk
    <3>3. QED
      BY <1>6, <2>2, <3>1, <3>2
  <2>5. QED
    BY <2>1, <2>3, <2>4
<1>14. age[<<v, e + 1>>] \in 0 .. n
  BY <1>3, <1>4, <1>10 DEF AgesOk
<1>15. f[v] <= f[u] /\ f[u] = age[<<u, Depth(u)>>] /\ f[v] = age[<<v, Depth(v)>>] /\ f[u] \in 0 .. n /\ f[v] \in 0 .. n
  BY <1>5, <1>6, <1>7, <1>11
<1>16. QED
  BY <1>6, <1>12, <1>13, <1>14, <1>15

\* In a program whose tasks do not wait for each other the sleepers always wait for
\* what is not over.
LEMMA LoopsInvariance ==
  ASSUME NEW C, NothingBlocks(C)
  PROVE  Spec => [](IInv /\ LoopsInv(C))
<1>1. Init => IInv /\ LoopsInv(C)
  <2>1. Init => \A u \in Threads : Len(stack[u]) = 0 /\ pc[u] \notin Waiting
    BY DEF Init, Waiting, Sleeping
  <2>2. QED
    BY <2>1, InitInv, NoFrames
<1>2. IInv /\ LoopsInv(C) /\ [Next]_vars => (IInv /\ LoopsInv(C))'
  <2>1. SUFFICES ASSUME IInv, LoopsInv(C), [Next]_vars PROVE IInv' /\ LoopsInv(C)'
    OBVIOUS
  <2>2. IInv'
    BY <2>1, NextInv
  <2>3. CASE UNCHANGED vars
    BY <2>1, <2>2, <2>3, NothingLoops
  <2>4. ASSUME NEW t \in Threads, Client(t) \/ Library(t) PROVE LoopsInv(C)'
    BY <2>1, <2>4, StepLoops
  <2>5. QED
    BY <2>1, <2>2, <2>3, <2>4 DEF Next
<1>3. QED
  BY <1>1, <1>2, PTL DEF Spec

\* A program of parallel loops, in loops to any depth, is never stuck, whatever fails
\* and however many threads there are: while a call is under way somebody is awake.
\* (Where tasks wait for semaphores, the pool may be stuck: a run shows it.)
THEOREM LoopsAreNeverStuck ==
  ASSUME NEW C, NothingBlocks(C)
  PROVE  Spec => []NeverStuck
<1>1. IInv /\ LoopsInv(C) => NeverStuck
  BY SomebodyAwake
<1>2. QED
  BY <1>1, LoopsInvariance, PTL

\* In such a program no failure leaves an owner asleep either, whichever task it is
\* that fails: who sleeps has a job that somebody works on.
THEOREM LoopFailuresReachOwners ==
  ASSUME NEW C, NothingBlocks(C)
  PROVE  Spec => []FailureReachesOwner
<1>1. IInv /\ LoopsInv(C) => FailureReachesOwner
  <2>1. SUFFICES ASSUME IInv, LoopsInv(C), NEW t \in Threads, pc[t] = "sleepOwner" PROVE ~Cancels(t)
    BY DEF FailureReachesOwner
  <2>2. Depth(t) > 0 /\ Stacks(stack)
    BY <2>1, WaitersOwn, PartsOf
  <2>3. Top(t).call # NoCall /\ Top(t).jobs[Top(t).joining].active # 0
    BY <2>1 DEF LoopsInv, WaitInv, WaitOk, Spent, Awaits
  <2>4. Owned(t) # NoJob
    BY <2>2, <2>3, OwnedIs
  <2>5. QED
    BY <2>2, <2>3, <2>4, CancelsIs DEF Over
<1>2. QED
  BY <1>1, LoopsInvariance, PTL
=============================================================================
