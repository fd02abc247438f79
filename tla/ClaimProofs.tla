---------------------------- MODULE ClaimProofs ----------------------------
(***************************************************************************)
(* ClaimWorker for every number of jobs, workers and attempts and every    *)
(* content of the batches. RunInv carries the bookkeeping of runs and of   *)
(* the objects in memory; RowInv, on top of it, what an import has made    *)
(* of its items as long as engines run one at a time.                      *)
(***************************************************************************)
EXTENDS ClaimWorker, TLAPS

RowsTyped == live \in [Items -> Nat] /\ aside \subseteq Items /\ back \subseteq Items

USE DEF rows, RowsTyped

\* What a function of the queue may make of a job: it stays a record of the
\* same batch, and neither creates nor uncreates it.
Follows(q, r) == r \in Job /\ r.batch = q.batch /\ (r.stage = "unborn" <=> q.stage = "unborn")

LEMMA JobRecords ==
  ASSUME NEW q \in Job
  PROVE  /\ \A s \in TerminalStages \cup {"running"} :
              Follows(q, Saved(q, s)) /\ Saved(q, s).attempts = q.attempts
         /\ Follows(q, Gutted(q)) /\ Gutted(q).attempts = q.attempts
         /\ Gutted(q).stage = q.stage
         /\ Follows(q, MarkedCancelled(q)) /\ MarkedCancelled(q).attempts = q.attempts
         /\ OnDisk(q) => Follows(q, Swept(q)) /\ Swept(q).attempts = q.attempts
         /\ OnDisk(q) => Follows(q, MarkedRunning(q)) /\ MarkedRunning(q).attempts = q.attempts + 1
<1>1. ASSUME NEW s \in TerminalStages \cup {"running"}
      PROVE  Follows(q, Saved(q, s)) /\ Saved(q, s).attempts = q.attempts
  BY DEF Follows, Saved, OnDisk, Job, Stages, TerminalStages, Payloads
<1>2. Follows(q, Gutted(q)) /\ Gutted(q).attempts = q.attempts /\ Gutted(q).stage = q.stage
  BY DEF Follows, Gutted, Job, Payloads
<1>3. Follows(q, MarkedCancelled(q)) /\ MarkedCancelled(q).attempts = q.attempts
  BY <1>1 DEF MarkedCancelled, TerminalStages, Follows
<1>4. OnDisk(q) => Follows(q, Swept(q)) /\ Swept(q).attempts = q.attempts
  BY DEF Follows, Swept, OnDisk, Job, Stages
<1>5. OnDisk(q) => Follows(q, MarkedRunning(q)) /\ MarkedRunning(q).attempts = q.attempts + 1
  <2>1. q.attempts + 1 \in Nat
    BY DEF Job
  <2> QED
    BY <2>1 DEF Follows, MarkedRunning, OnDisk, Job, Stages
<1> QED
  BY <1>1, <1>2, <1>3, <1>4, <1>5

\* Jobs that follow their records, with the attempts they had.
JobsFollow(jobs) ==
  /\ jobs \in [Jobs -> Job]
  /\ \A k \in Jobs : Follows(job[k], jobs[k]) /\ jobs[k].attempts = job[k].attempts

LEMMA SetAsideFollows == TypeOK => JobsFollow(SetAside)
<1> SUFFICES ASSUME TypeOK PROVE JobsFollow(SetAside)
  OBVIOUS
<1>1. ASSUME NEW k \in Jobs
      PROVE  Follows(job[k], SetAside[k]) /\ SetAside[k].attempts = job[k].attempts
  <2>1. job[k] \in Job
    BY DEF TypeOK
  <2>2. Follows(job[k], job[k])
    BY <2>1 DEF Follows
  <2>3. Follows(job[k], Saved(job[k], "failed")) /\ Saved(job[k], "failed").attempts = job[k].attempts
    BY <2>1, JobRecords DEF TerminalStages
  <2> QED
    BY <2>2, <2>3 DEF SetAside
<1> QED
  BY <1>1 DEF JobsFollow, Follows, SetAside

\* One job of a function changed.
LEMMA OneFollows ==
  ASSUME TypeOK, NEW jobs, JobsFollow(jobs), NEW j \in Jobs, NEW q,
         Follows(jobs[j], q), q.attempts = jobs[j].attempts
  PROVE  JobsFollow([jobs EXCEPT ![j] = q])
BY DEF JobsFollow, Follows

\* Taking the next job spends one of its attempts.
LEMMA TakenFollows ==
  ASSUME RunInv, NEW j \in Jobs, NextUp(j)
  PROVE  /\ Taken(j) \in [Jobs -> Job]
         /\ \A k \in Jobs : Follows(job[k], Taken(j)[k])
         /\ \A k \in Jobs \ {j} : Taken(j)[k] = SetAside[k] /\ Taken(j)[k].attempts = job[k].attempts
         /\ Taken(j)[j] = MarkedRunning(job[j])
         /\ Taken(j)[j].attempts = job[j].attempts + 1 /\ OnDisk(Taken(j)[j])
         /\ started[j] + 1 <= Taken(j)[j].attempts /\ Taken(j)[j].attempts <= MaxAttempts
<1>1. /\ SetAside \in [Jobs -> Job]
      /\ \A k \in Jobs : Follows(job[k], SetAside[k]) /\ SetAside[k].attempts = job[k].attempts
  BY SetAsideFollows DEF RunInv, JobsFollow
<1>2. job[j] \in Job /\ OnDisk(job[j]) /\ job[j].attempts < MaxAttempts
  BY DEF RunInv, TypeOK, NextUp, Pending, Waiting
<1>3. SetAside[j] = job[j]
  BY <1>2, MaxAttemptsAssumption DEF SetAside, Poisoned, Job
<1>4. Follows(job[j], MarkedRunning(job[j])) /\ MarkedRunning(job[j]).attempts = job[j].attempts + 1
  BY <1>2, JobRecords
<1>5. Taken(j) = [SetAside EXCEPT ![j] = MarkedRunning(job[j])]
  BY <1>1, <1>3 DEF Taken
<1>6. OnDisk(MarkedRunning(job[j]))
  BY <1>2 DEF OnDisk, MarkedRunning, Job
<1>7. /\ started[j] + 1 <= job[j].attempts + 1 /\ job[j].attempts + 1 <= MaxAttempts
  BY <1>2, MaxAttemptsAssumption DEF RunInv, StartsCounted, TypeOK, Job
<1> HIDE DEF Taken
<1> QED
  BY <1>1, <1>4, <1>5, <1>6, <1>7 DEF Follows

\* Jobs that follow, with every running engine still on its job, keep what
\* RunInv says of the two.
LEMMA FollowingKeepsInv ==
  ASSUME RunInv, JobsFollow(job'), started' = started,
         \A w \in Workers :
           /\ Running(w)' => Running(w) /\ run'[w].id = run[w].id
           /\ run'[w].at = "placing" => run'[w].item \in Items
  PROVE  RunsOwnJobs' /\ StartsCounted'
<1>1. RunsOwnJobs'
  BY DEF RunInv, RunsOwnJobs, JobsFollow, Follows
<1>2. StartsCounted'
  BY DEF RunInv, StartsCounted, JobsFollow
<1> QED
  BY <1>1, <1>2

\* The end of a run frees its worker, its object and its mirror, and no other.
LEMMA SettleKeepsInv ==
  ASSUME RunInv, NEW w \in Workers, Running(w), NEW s \in TerminalStages, Settle(w, s),
         RowsTyped', handled' \subseteq Items, UNCHANGED <<started, cancels, overlapped>>
  PROVE  RunInv'
<1> DEFINE j == run[w].id
<1>1. j \in Jobs /\ job[j] \in Job /\ TypeOK
  BY DEF RunInv, RunsOwnJobs, TypeOK
<1>2. JobsFollow(job')
  <2>1. JobsFollow(job)
    BY <1>1 DEF JobsFollow, Follows, TypeOK
  <2>2. JobsFollow([job EXCEPT ![j] = Saved(@, s)])
    BY <1>1, <2>1, JobRecords, OneFollows
  <2>3. JobsFollow([job EXCEPT ![j] = Gutted(@)])
    BY <1>1, <2>1, JobRecords, OneFollows
  <2> QED
    BY <2>2, <2>3 DEF Settle, Ended
<1>3. run' = [run EXCEPT ![w] = Idle] /\ run \in [Workers -> Run] /\ Idle \in Run
  BY <1>1 DEF Settle, TypeOK, Idle, Run
<1>4. \A v \in Workers : /\ (Running(v)' <=> v # w /\ Running(v)) /\ (v # w => run'[v] = run[v])
                         /\ run'[v].at = "placing" => run'[v].item \in Items
  BY <1>3 DEF Running, Idle, RunInv, RunsOwnJobs
<1>5. TypeOK'
  BY <1>1, <1>2, <1>3 DEF Settle, TypeOK, JobsFollow
<1>6. ObjectsRun'
  <2>1. ASSUME NEW k \in Jobs
        PROVE  listed'[k] \in {NoWorker, listed[k]} /\ listed'[k] # w /\ (k \in hooked' => k \in hooked /\ k # j)
    BY <1>1, WorkersAssumption DEF Settle, ObjectsRun, RunInv, TypeOK
  <2>2. ASSUME NEW k \in Jobs, k # j PROVE listed'[k] = listed[k]
    BY <1>1, <2>2 DEF Settle, TypeOK
  <2> QED
    BY <1>1, <1>4, <2>1, <2>2, WorkersAssumption DEF ObjectsRun, RunInv, TypeOK, Running
<1> QED
  BY <1>2, <1>4, <1>5, <1>6, FollowingKeepsInv DEF RunInv

\* A claim engine moving on, its progress mirrored.
LEMMA MoveKeepsInv ==
  ASSUME RunInv, NEW w \in Workers, Running(w),
         NEW at \in {"form", "reading", "saving"}, NEW todo \in SUBSET Items,
         Move(w, at, todo), job' \in {job, [job EXCEPT ![run[w].id] = Saved(@, "running")]},
         UNCHANGED <<current, engine, active, rows, history>>
  PROVE  RunInv'
<1> DEFINE j == run[w].id
<1> DEFINE r == [run[w] EXCEPT !.at = at, !.todo = todo]
<1>1. j \in Jobs /\ job[j] \in Job /\ TypeOK
  BY DEF RunInv, RunsOwnJobs, TypeOK
<1>2. JobsFollow(job')
  <2>1. JobsFollow(job)
    BY <1>1 DEF JobsFollow, Follows, TypeOK
  <2>2. JobsFollow([job EXCEPT ![j] = Saved(@, "running")])
    BY <1>1, <2>1, JobRecords, OneFollows
  <2> QED
    BY <2>1, <2>2
<1>3. run' = [run EXCEPT ![w] = r] /\ run \in [Workers -> Run] /\ run[w] \in Run
  BY <1>1 DEF Move, TypeOK
<1>4. r \in Run /\ r.id = j /\ r.at = at
  BY <1>3 DEF Run
<1> HIDE DEF r
<1>5. \A v \in Workers : /\ (Running(v)' <=> Running(v)) /\ run'[v].id = run[v].id
                         /\ run'[v].at = "placing" => run'[v].item \in Items
  BY <1>3, <1>4 DEF Running, RunInv, RunsOwnJobs
<1>6. TypeOK'
  BY <1>1, <1>2, <1>3, <1>4 DEF TypeOK, JobsFollow, engine, history
<1>7. ObjectsRun'
  BY <1>1, <1>5, WorkersAssumption DEF ObjectsRun, RunInv, TypeOK, engine
<1> QED
  BY <1>2, <1>5, <1>6, <1>7, FollowingKeepsInv DEF RunInv, history

\* An item dealt with: the run goes on or settles.
LEMMA ProceedKeepsInv ==
  ASSUME RunInv, NEW w \in Workers, Running(w), NEW at \in {"reading", "saving"}, NEW i \in Items,
         Proceed(w, at, i), RowsTyped', Handled(i)
  PROVE  RunInv'
<1> DEFINE rest == run[w].todo \ {i}
<1> DEFINE r == [run[w] EXCEPT !.at = at, !.todo = rest, !.item = NoItem, !.known = FALSE]
<1>1. TypeOK /\ handled' \subseteq Items
  BY DEF RunInv, TypeOK, Handled
<1>2. CASE rest = {}
  <2>1. Settle(w, "done")
    BY <1>2 DEF Proceed
  <2> QED
    BY <1>1, <2>1, SettleKeepsInv DEF Handled, TerminalStages
<1>3. CASE rest # {}
  <2>1. /\ run' = [run EXCEPT ![w] = r]
        /\ UNCHANGED <<job, current, engine, active, started, cancels, overlapped>>
    BY <1>3 DEF Proceed, Handled
  <2>2. run \in [Workers -> Run] /\ run[w] \in Run
    BY <1>1 DEF TypeOK
  <2>3. r \in Run /\ r.id = run[w].id /\ r.at = at
    BY <2>2 DEF Run
  <2> HIDE DEF r
  <2>4. \A v \in Workers : /\ (Running(v)' <=> Running(v)) /\ run'[v].id = run[v].id
                           /\ run'[v].at = "placing" => run'[v].item \in Items
    BY <2>1, <2>2, <2>3 DEF Running, RunInv, RunsOwnJobs
  <2>5. TypeOK'
    BY <1>1, <2>1, <2>2, <2>3 DEF TypeOK, engine
  <2>6. ObjectsRun'
    BY <1>1, <2>1, <2>4, WorkersAssumption DEF ObjectsRun, RunInv, TypeOK, engine
  <2>7. JobsFollow(job')
    BY <1>1, <2>1 DEF JobsFollow, Follows, TypeOK
  <2> QED
    BY <2>1, <2>4, <2>5, <2>6, <2>7, FollowingKeepsInv DEF RunInv
<1> QED
  BY <1>2, <1>3

\* A row more or none.
LEMMA StoredRows ==
  ASSUME TypeOK, NEW i \in Items, NEW known \in BOOLEAN, Stored(i, known)
  PROVE  RowsTyped'
BY DEF TypeOK, Stored

\* A row deleted, set aside or brought back: no row is new.
LEMMA TouchedRows ==
  ASSUME TypeOK, NEW i \in Touched, TouchRow(i)
  PROVE  /\ RowsTyped' /\ UNCHANGED <<files, engine, active, history>>
         /\ \A k \in Items : live'[k] <= live[k]
BY ItemsAssumption DEF TypeOK, TouchRow, RemoveRow, SetRowAside, BringBack

\* The idle worker's object a job is handed to.
LEMMA LaunchKeepsInv ==
  ASSUME RunInv, NEW j \in Jobs, NEW at \in {"unpacking", "reading"}, NEW todo \in SUBSET Items,
         Launch(j, at, todo),
         \/ UNCHANGED engine
         \/ /\ listed' = [listed EXCEPT ![j] = current]
            /\ memory' = [memory EXCEPT ![j] = "none"]
            /\ hooked' = hooked \cup {j}
  PROVE  RunInv'
<1> DEFINE r == [Idle EXCEPT !.at = at, !.id = j, !.todo = todo]
<1>1. TypeOK /\ current \in Workers /\ run[current].at = "idle" /\ NextUp(j)
  BY DEF RunInv, TypeOK, Launch, CanTick
<1>2. /\ job' = Taken(j) /\ run' = [run EXCEPT ![current] = r]
      /\ started' = [started EXCEPT ![j] = @ + 1]
      /\ overlapped' \in BOOLEAN
      /\ UNCHANGED <<current, active, rows, handled, cancels>>
  BY DEF Launch, Counted, Overlap, RunInv, TypeOK
<1>3. r \in Run /\ r.id = j /\ r.at = at
  BY DEF Idle, Run
<1> HIDE DEF r
<1>4. \A v \in Workers : v # current => run'[v] = run[v]
  BY <1>1, <1>2 DEF TypeOK
<1>5. run'[current] = r
  BY <1>1, <1>2 DEF TypeOK
<1>6. /\ job' \in [Jobs -> Job] /\ \A k \in Jobs : Follows(job[k], job'[k])
      /\ \A k \in Jobs \ {j} : job'[k].attempts = job[k].attempts
      /\ OnDisk(job'[j]) /\ started[j] + 1 <= job'[j].attempts /\ job'[j].attempts <= MaxAttempts
  BY <1>1, <1>2, TakenFollows
<1>7. TypeOK'
  <2>1. run' \in [Workers -> Run] /\ started' \in [Jobs -> Nat]
    BY <1>1, <1>2, <1>3 DEF TypeOK
  <2>2. /\ listed' \in [Jobs -> Workers \cup {NoWorker}]
        /\ memory' \in [Jobs -> {"none", "failed", "cancelling"}]
        /\ hooked' \subseteq Jobs
    BY <1>1 DEF TypeOK, engine
  <2> QED
    BY <1>1, <1>2, <1>6, <2>1, <2>2 DEF TypeOK
<1>8. RunsOwnJobs'
  BY <1>3, <1>4, <1>5, <1>6 DEF RunsOwnJobs, RunInv, Running, Follows, OnDisk
<1>9. StartsCounted'
  BY <1>1, <1>2, <1>6 DEF StartsCounted, RunInv, TypeOK
<1>10. ObjectsRun'
  <2>1. \A k \in Jobs : listed[k] # current
    BY <1>1, WorkersAssumption DEF RunInv, ObjectsRun, Running
  <2>2. CASE UNCHANGED engine
    BY <1>1, <1>4, <2>1, <2>2 DEF ObjectsRun, RunInv, Running, TypeOK, engine
  <2>3. CASE listed' = [listed EXCEPT ![j] = current] /\ hooked' = hooked \cup {j}
    <3>1. /\ run'[current].at \notin {"idle", "stuck"} /\ run'[current].id = j
          /\ listed'[j] = current /\ current # NoWorker
      BY <1>1, <1>3, <1>5, <2>3, WorkersAssumption DEF TypeOK
    <3>2. ASSUME NEW k \in Jobs, k # j
          PROVE  /\ listed'[k] # NoWorker => /\ run'[listed'[k]].at \notin {"idle", "stuck"}
                                             /\ run'[listed'[k]].id = k
                 /\ k \in hooked' => listed'[k] # NoWorker
      <4>1. listed'[k] = listed[k]
        BY <1>1, <2>3, <3>2 DEF TypeOK
      <4>2. listed[k] # NoWorker => listed[k] \in Workers /\ run'[listed[k]] = run[listed[k]]
        BY <1>1, <1>4, <2>1 DEF TypeOK
      <4> QED
        BY <2>3, <3>2, <4>1, <4>2 DEF ObjectsRun, RunInv, Running
    <3> QED
      BY <3>1, <3>2 DEF ObjectsRun, Running
  <2> QED
    BY <2>2, <2>3
<1> QED
  BY <1>7, <1>8, <1>9, <1>10 DEF RunInv

\* A job taken and ended at once, or left running with nothing behind it.
LEMMA TakenKeepsInv ==
  ASSUME RunInv, NEW j \in Jobs, NextUp(j),
         NEW q, Follows(Taken(j)[j], q), q.attempts = Taken(j)[j].attempts,
         job' = [Taken(j) EXCEPT ![j] = q],
         started' \in {started, [started EXCEPT ![j] = @ + 1]},
         \A w \in Workers : /\ Running(w)' => Running(w) /\ run'[w].id = run[w].id
                            /\ run'[w].at = "placing" => run'[w].item \in Items
  PROVE  /\ job' \in [Jobs -> Job] /\ started' \in [Jobs -> Nat]
         /\ RunsOwnJobs' /\ StartsCounted'
<1>1. /\ Taken(j) \in [Jobs -> Job]
      /\ \A k \in Jobs : Follows(job[k], Taken(j)[k])
      /\ \A k \in Jobs \ {j} : Taken(j)[k].attempts = job[k].attempts
      /\ started[j] + 1 <= Taken(j)[j].attempts /\ Taken(j)[j].attempts <= MaxAttempts
  BY TakenFollows
<1> HIDE DEF Taken
<1>2. /\ job' \in [Jobs -> Job] /\ \A k \in Jobs : Follows(job[k], job'[k])
      /\ \A k \in Jobs \ {j} : job'[k].attempts = job[k].attempts
      /\ started[j] + 1 <= job'[j].attempts /\ job'[j].attempts <= MaxAttempts
  BY <1>1 DEF Follows
<1>3. started \in [Jobs -> Nat] /\ started' \in [Jobs -> Nat]
  BY DEF RunInv, TypeOK
<1>4. RunsOwnJobs'
  BY <1>2 DEF RunsOwnJobs, RunInv, Follows
<1>5. StartsCounted'
  <2>1. started'[j] <= started[j] + 1 /\ \A k \in Jobs \ {j} : started'[k] = started[k]
    BY <1>3
  <2>2. started[j] \in Nat /\ started'[j] \in Nat /\ job'[j].attempts \in Nat
    BY <1>2, <1>3 DEF Job
  <2>3. started'[j] <= job'[j].attempts
    BY <1>2, <2>1, <2>2
  <2> QED
    BY <1>2, <2>1, <2>3 DEF StartsCounted, RunInv
<1> QED
  BY <1>2, <1>3, <1>4, <1>5

LEMMA RunInvInit == Init => RunInv
<1> SUFFICES ASSUME Init PROVE RunInv
  OBVIOUS
<1>1. TypeOK
  BY DEF Init, TypeOK, Unborn, Job, Stages, Payloads, Idle, Run
<1>2. \A w \in Workers : ~Running(w) /\ run[w].at # "placing"
  BY DEF Init, Running, Idle
<1> QED
  BY <1>1, <1>2, MaxAttemptsAssumption
  DEF Init, RunInv, RunsOwnJobs, StartsCounted, ObjectsRun, Unborn

LEMMA RunInvNext == RunInv /\ [Next]_vars => RunInv'
<1> SUFFICES ASSUME RunInv, [Next]_vars PROVE RunInv'
  OBVIOUS
<1>0. TypeOK /\ JobsFollow(job)
  BY DEF RunInv, TypeOK, JobsFollow, Follows
<1> USE DEF history, engine, files
<1>1. ASSUME NEW b \in Batches, Enqueue(b) PROVE RunInv'
  <2>1. PICK j \in Jobs : job[j] = Unborn /\ job' = [job EXCEPT ![j] = NewJob(b)]
    BY <1>1 DEF Enqueue
  <2>2. NewJob(b) \in Job /\ NewJob(b).attempts = 0 /\ NewJob(b).batch = b /\ Unborn.attempts = 0
    BY DEF NewJob, Job, Stages, Payloads, Unborn
  <2>3. current' \in Workers \cup {NoWorker}
    BY <1>0, <1>1 DEF Enqueue, StartedWorker, TypeOK
  <2>4. TypeOK'
    BY <1>0, <1>1, <2>1, <2>2, <2>3 DEF Enqueue, TypeOK
  <2>5. RunsOwnJobs'
    BY <1>0, <1>1, <2>1, <2>2 DEF Enqueue, RunInv, RunsOwnJobs, Running, Unborn, NewJob, TypeOK
  <2>6. StartsCounted'
    BY <1>0, <1>1, <2>1, <2>2, MaxAttemptsAssumption DEF Enqueue, RunInv, StartsCounted, TypeOK
  <2> QED
    BY <1>1, <2>4, <2>5, <2>6 DEF Enqueue, RunInv, ObjectsRun, Running
<1>2. ASSUME NEW j \in Jobs, Cancel(j) PROVE RunInv'
  <2>1. JobsFollow(job')
    <3> DEFINE q == IF j \in hooked THEN Saved(job[j], "running") ELSE job[j]
    <3>1. Follows(job[j], q) /\ q.attempts = job[j].attempts
      BY <1>0, JobRecords DEF JobsFollow, TypeOK
    <3>2. Follows(q, MarkedCancelled(q)) /\ MarkedCancelled(q).attempts = q.attempts
      BY <3>1, JobRecords DEF Follows
    <3>3. job' = [job EXCEPT ![j] = MarkedCancelled(q)]
      BY <1>0, <1>2 DEF Cancel, TypeOK
    <3> HIDE DEF q
    <3> QED
      BY <1>0, <3>1, <3>2, <3>3, OneFollows DEF Follows
  <2>2. \A w \in Workers : /\ run'[w] \in Run /\ run'[w].at = run[w].at /\ run'[w].id = run[w].id
                           /\ run'[w].item = run[w].item
    <3> SUFFICES ASSUME NEW w \in Workers
                 PROVE  /\ run'[w] \in Run /\ run'[w].at = run[w].at /\ run'[w].id = run[w].id
                        /\ run'[w].item = run[w].item
      OBVIOUS
    <3>1. run[w] \in Run /\ run'[w] \in {run[w], [run[w] EXCEPT !.cancelled = TRUE]}
      BY <1>0, <1>2 DEF Cancel, TypeOK
    <3> QED
      BY <3>1 DEF Run
  <2>3. TypeOK'
    BY <1>0, <1>2, <2>1, <2>2 DEF Cancel, TypeOK, JobsFollow
  <2>4. ObjectsRun'
    BY <1>0, <1>2, <2>2 DEF Cancel, ObjectsRun, RunInv, Running, TypeOK
  <2> QED
    BY <1>2, <2>1, <2>2, <2>3, <2>4, FollowingKeepsInv DEF Cancel, RunInv, RunsOwnJobs, Running
<1>3. ASSUME NEW j \in Jobs, Sweep(j) PROVE RunInv'
  <2>1. OnDisk(job[j])
    BY <1>3 DEF Sweep, Terminal, TerminalStages, OnDisk
  <2>2. JobsFollow(job')
    BY <1>0, <1>3, <2>1, JobRecords, OneFollows DEF Sweep, TypeOK
  <2>3. TypeOK'
    BY <1>0, <1>3, <2>2 DEF Sweep, TypeOK, JobsFollow
  <2> QED
    BY <1>3, <2>2, <2>3, FollowingKeepsInv DEF Sweep, RunInv, RunsOwnJobs, ObjectsRun, Running
<1>4. ASSUME NEW j \in Jobs, Forget(j) PROVE RunInv'
  <2>1. TypeOK'
    BY <1>0, <1>4 DEF Forget, TypeOK
  <2> QED
    BY <1>4, <2>1 DEF Forget, RunInv, RunsOwnJobs, StartsCounted, ObjectsRun, Running
<1>5. ASSUME NEW i \in Touched, TouchRow(i) PROVE RunInv'
  <2>1. RowsTyped' /\ UNCHANGED <<files, engine, active, history>>
    BY <1>0, <1>5, TouchedRows
  <2>2. TypeOK'
    BY <1>0, <2>1 DEF TypeOK, files, engine, history
  <2> QED
    BY <2>1, <2>2 DEF files, engine, history, RunInv, RunsOwnJobs, StartsCounted, ObjectsRun, Running
<1>6. ASSUME TickSetsAside PROVE RunInv'
  <2>1. JobsFollow(job')
    BY <1>0, <1>6, SetAsideFollows DEF TickSetsAside
  <2>2. TypeOK'
    BY <1>0, <1>6, <2>1 DEF TickSetsAside, TypeOK, JobsFollow
  <2> QED
    BY <1>6, <2>1, <2>2, FollowingKeepsInv DEF TickSetsAside, RunInv, RunsOwnJobs, ObjectsRun, Running
<1>7. ASSUME NEW j \in Jobs, LaunchClaim(j) PROVE RunInv'
  <2>1. Launch(j, "unpacking", {}) /\ listed' = [listed EXCEPT ![j] = current]
        /\ memory' = [memory EXCEPT ![j] = "none"] /\ hooked' = hooked \cup {j}
    BY <1>7 DEF LaunchClaim
  <2>2. {} \in SUBSET Items /\ "unpacking" \in {"unpacking", "reading"}
    OBVIOUS
  <2> QED
    BY <2>1, <2>2, LaunchKeepsInv
<1>8. ASSUME NEW j \in Jobs, LaunchBill(j) PROVE RunInv'
  <2>1. Content(j) \subseteq Items
    BY <1>8, ItemsAssumption DEF LaunchBill, Launch, NextUp, Pending, Waiting, OnDisk, Content, RunInv, RunsOwnJobs
  <2> QED
    BY <1>8, <2>1, LaunchKeepsInv DEF LaunchBill
<1>9. ASSUME NEW j \in Jobs, RerunEmptied(j) PROVE RunInv'
  <2>1. NextUp(j) /\ Taken(j)[j] \in Job /\ Taken(j) \in [Jobs -> Job]
    BY <1>9, TakenFollows DEF RerunEmptied
  <2>2. PICK q \in {Saved(Taken(j)[j], "done"), Gutted(Taken(j)[j])} : job' = [Taken(j) EXCEPT ![j] = q]
    BY <1>9 DEF RerunEmptied, Ended
  <2>3. Follows(Taken(j)[j], q) /\ q.attempts = Taken(j)[j].attempts
    BY <2>1, JobRecords DEF TerminalStages
  <2>4. started' = [started EXCEPT ![j] = @ + 1] /\ UNCHANGED run
    BY <1>9 DEF RerunEmptied, Counted
  <2>5. /\ job' \in [Jobs -> Job] /\ started' \in [Jobs -> Nat]
        /\ RunsOwnJobs' /\ StartsCounted'
    BY <2>1, <2>2, <2>3, <2>4, TakenKeepsInv DEF Running, RunInv, RunsOwnJobs
  <2>6. TypeOK'
    BY <1>0, <1>9, <2>5 DEF RerunEmptied, Counted, Overlap, TypeOK
  <2>7. ObjectsRun'
    BY <1>0, <1>9 DEF RerunEmptied, ObjectsRun, RunInv, Running, TypeOK
  <2> QED
    BY <2>5, <2>6, <2>7 DEF RunInv
<1>10. ASSUME NEW j \in Jobs, FailLaunch(j) PROVE RunInv'
  <2>1. NextUp(j) /\ Taken(j)[j] \in Job /\ Taken(j) \in [Jobs -> Job]
    BY <1>10, TakenFollows DEF FailLaunch
  <2>2. job' \in [Jobs -> Job] /\ RunsOwnJobs' /\ StartsCounted'
    <3>1. CASE job' = [Taken(j) EXCEPT ![j] = Saved(@, "failed")]
      <4>1. Follows(Taken(j)[j], Saved(Taken(j)[j], "failed")) /\ Saved(Taken(j)[j], "failed").attempts = Taken(j)[j].attempts
        BY <2>1, JobRecords DEF TerminalStages
      <4>2. job' = [Taken(j) EXCEPT ![j] = Saved(Taken(j)[j], "failed")]
        BY <3>1
      <4> QED
        BY <1>10, <2>1, <4>1, <4>2, TakenKeepsInv DEF FailLaunch, Running, RunInv, RunsOwnJobs
    <3>2. CASE job' = [SetAside EXCEPT ![j] = Saved(@, "failed")]
      <4>1. JobsFollow(SetAside) /\ SetAside[j] \in Job
        BY <1>0, SetAsideFollows DEF JobsFollow
      <4>2. JobsFollow(job')
        BY <1>0, <3>2, <4>1, JobRecords, OneFollows DEF TerminalStages
      <4> QED
        BY <1>10, <4>2, FollowingKeepsInv DEF FailLaunch, JobsFollow, Running, RunInv, RunsOwnJobs
    <3> QED
      BY <1>10, <3>1, <3>2 DEF FailLaunch
  <2>3. TypeOK'
    BY <1>0, <1>10, <2>2 DEF FailLaunch, Overlap, TypeOK
  <2> QED
    BY <1>10, <2>2, <2>3 DEF FailLaunch, RunInv, ObjectsRun, Running
<1>11. ASSUME NEW j \in Jobs, Jam(j) PROVE RunInv'
  <2>1. NextUp(j) /\ CanTick /\ current \in Workers
    BY <1>0, <1>11 DEF Jam, CanTick, TypeOK
  <2>2. run' \in [Workers -> Run] /\ run'[current].at = "stuck"
        /\ \A v \in Workers \ {current} : run'[v] = run[v]
    BY <1>0, <1>11, <2>1 DEF Jam, TypeOK, Run
  <2>3. \A v \in Workers : /\ (Running(v)' <=> Running(v)) /\ (Running(v) => run'[v] = run[v])
                           /\ run'[v].at = "placing" => run'[v].item \in Items
    BY <2>1, <2>2 DEF Running, CanTick, RunInv, RunsOwnJobs
  <2>4. ObjectsRun'
    BY <1>0, <1>11, <2>3, WorkersAssumption DEF Jam, ObjectsRun, RunInv, Running, TypeOK
  <2>5. job' \in [Jobs -> Job] /\ RunsOwnJobs' /\ StartsCounted'
    <3>1. CASE job' = [SetAside EXCEPT ![j] = Gutted(@)]
      <4>1. JobsFollow(SetAside) /\ SetAside[j] \in Job
        BY <1>0, SetAsideFollows DEF JobsFollow
      <4>2. JobsFollow(job')
        BY <1>0, <3>1, <4>1, JobRecords, OneFollows
      <4> QED
        BY <1>11, <2>3, <4>2, FollowingKeepsInv DEF Jam, JobsFollow
    <3>2. CASE job' = Taken(j)
      <4>1. Taken(j) \in [Jobs -> Job] /\ Follows(Taken(j)[j], Taken(j)[j])
        BY <2>1, TakenFollows DEF Follows
      <4> HIDE DEF Taken
      <4>2. job' = [Taken(j) EXCEPT ![j] = Taken(j)[j]]
        BY <3>2, <4>1
      <4> QED
        BY <1>11, <2>1, <2>3, <4>1, <4>2, TakenKeepsInv DEF Jam
    <3> QED
      BY <1>11, <3>1, <3>2 DEF Jam
  <2>6. TypeOK'
    BY <1>0, <1>11, <2>2, <2>5 DEF Jam, Overlap, TypeOK
  <2> QED
    BY <2>4, <2>5, <2>6 DEF RunInv
<1>12. ASSUME NEW w \in Workers, Unpacked(w) PROVE RunInv'
  BY <1>12, MoveKeepsInv DEF Unpacked, At, Running, Mirror
<1>13. ASSUME NEW w \in Workers, FormRead(w) PROVE RunInv'
  <2>1. Running(w) /\ run[w].id \in Jobs /\ job[run[w].id].batch \in Batches
    BY <1>13 DEF FormRead, At, Running, RunInv, RunsOwnJobs
  <2>2. Content(run[w].id) \subseteq Items /\ Receipts(run[w].id) \subseteq Items
    BY <2>1, ItemsAssumption DEF Content, Receipts
  <2> QED
    BY <1>13, <2>1, <2>2, MoveKeepsInv DEF FormRead, Mirror
<1>14. ASSUME NEW w \in Workers, StopAfterForm(w) \/ StopReading(w) \/ FailRun(w) PROVE RunInv'
  <2>1. Running(w) /\ \E s \in TerminalStages : Settle(w, s)
    BY <1>14 DEF StopAfterForm, StopReading, FailRun, At, Running, TerminalStages
  <2>2. RowsTyped' /\ handled' \subseteq Items /\ UNCHANGED <<started, cancels, overlapped>>
    BY <1>0, <1>14 DEF StopAfterForm, StopReading, FailRun, TypeOK
  <2> QED
    BY <2>1, <2>2, SettleKeepsInv
<1>15. ASSUME NEW w \in Workers, GroupRead(w) PROVE RunInv'
  <2>1. Running(w) /\ run[w].id \in Jobs /\ job[run[w].id].batch \in Batches /\ run[w].todo \subseteq Items
    BY <1>0, <1>15 DEF GroupRead, At, Running, RunInv, RunsOwnJobs, TypeOK, Run
  <2>2. Content(run[w].id) \subseteq Items
    BY <2>1, ItemsAssumption DEF Content
  <2>3. PICK g \in SUBSET run[w].todo :
           IF g = run[w].todo THEN Move(w, "saving", Content(run[w].id)) ELSE Move(w, "reading", run[w].todo \ g)
    BY <1>15 DEF GroupRead, Group
  <2>4. Mirror(w) /\ UNCHANGED <<current, engine, active, rows, history>>
    BY <1>15 DEF GroupRead
  <2>5. run[w].todo \ g \subseteq Items
    BY <2>1
  <2> QED
    BY <2>1, <2>2, <2>3, <2>4, <2>5, MoveKeepsInv DEF Mirror
<1>16. ASSUME NEW w \in Workers, NEW i \in Items, LookUp(w, i) PROVE RunInv'
  <2> DEFINE r == [run[w] EXCEPT !.at = "placing", !.item = i, !.known = Known(i)]
  <2>1. run' = [run EXCEPT ![w] = r] /\ run \in [Workers -> Run] /\ run[w] \in Run /\ Running(w)
    BY <1>0, <1>16 DEF LookUp, TypeOK, At, Running
  <2>2. r \in Run /\ r.id = run[w].id /\ r.at = "placing" /\ r.item = i
    BY <2>1 DEF Run, Known
  <2> HIDE DEF r
  <2>3. \A v \in Workers : /\ (Running(v)' <=> Running(v)) /\ run'[v].id = run[v].id
                           /\ run'[v].at = "placing" => run'[v].item \in Items
    BY <2>1, <2>2 DEF Running, RunInv, RunsOwnJobs
  <2>4. TypeOK'
    BY ZenonT(30), <1>0, <1>16, <2>1, <2>2 DEF LookUp, TypeOK
  <2>5. ObjectsRun'
    BY <1>0, <1>16, <2>3, WorkersAssumption DEF LookUp, ObjectsRun, RunInv, TypeOK
  <2>6. JobsFollow(job')
    BY <1>0, <1>16 DEF LookUp
  <2> QED
    BY <1>16, <2>3, <2>4, <2>5, <2>6, FollowingKeepsInv DEF LookUp, RunInv
<1>17. ASSUME NEW w \in Workers, PlaceRow(w) PROVE RunInv'
  <2>1. Running(w) /\ run[w].item \in Items /\ run[w].known \in BOOLEAN
    BY <1>0, <1>17 DEF PlaceRow, At, Running, RunInv, RunsOwnJobs, TypeOK, Run
  <2>2. RowsTyped'
    BY <1>0, <1>17, <2>1, StoredRows DEF PlaceRow
  <2> QED
    BY <1>17, <2>1, <2>2, ProceedKeepsInv DEF PlaceRow
<1>18. ASSUME NEW w \in Workers, BillsUnpacked(w) PROVE RunInv'
  <2>1. Running(w) /\ run[w].id \in Jobs /\ job[run[w].id].batch \in Batches
    BY <1>18 DEF BillsUnpacked, At, Running, RunInv, RunsOwnJobs
  <2>2. Content(run[w].id) \subseteq Items
    BY <2>1, ItemsAssumption DEF Content
  <2> QED
    BY <1>18, <2>1, <2>2, MoveKeepsInv DEF BillsUnpacked
<1>19. ASSUME NEW w \in Workers, NEW i \in Items, ReadBill(w, i) PROVE RunInv'
  <2>1. Running(w) /\ Known(i) \in BOOLEAN
    BY <1>19 DEF ReadBill, At, Running, Known
  <2>2. RowsTyped'
    BY <1>0, <1>19, <2>1, StoredRows DEF ReadBill, TypeOK
  <2> QED
    BY <1>19, <2>1, <2>2, ProceedKeepsInv DEF ReadBill
<1>20. ASSUME Disable PROVE RunInv'
  <2>1. run' \in [Workers -> Run]
    BY <1>0, <1>20 DEF Disable, TypeOK, Idle, Run
  <2>2. \A v \in Workers : /\ (Running(v)' <=> Running(v)) /\ (Running(v) => run'[v] = run[v])
                           /\ run'[v].at = "placing" => run'[v].item \in Items
    BY <1>20 DEF Disable, Running, Idle, RunInv, RunsOwnJobs
  <2>3. TypeOK'
    BY <1>0, <1>20, <2>1 DEF Disable, TypeOK
  <2>4. ObjectsRun'
    BY <1>0, <1>20, <2>2 DEF Disable, ObjectsRun, RunInv, TypeOK, Running
  <2> QED
    BY <1>0, <1>20, <2>2, <2>3, <2>4, FollowingKeepsInv DEF Disable, RunInv
<1>21. CASE Enable
  <2>1. TypeOK'
    BY <1>0, <1>21 DEF Enable, TypeOK
  <2> QED
    BY <1>21, <2>1 DEF Enable, RunInv, RunsOwnJobs, StartsCounted, ObjectsRun, Running
<1>22. CASE Restart
  <2>1. run' \in [Workers -> Run] /\ \A v \in Workers : ~Running(v)' /\ run'[v].at # "placing"
    BY <1>22 DEF Restart, Running, Idle, Run
  <2>2. JobsFollow(job')
    <3>1. PICK expired \in SUBSET {j \in Jobs : active /\ Terminal(job[j])} :
             job' = [j \in Jobs |-> IF j \in expired THEN Swept(job[j]) ELSE job[j]]
      BY <1>22 DEF Restart
    <3>2. \A k \in expired : OnDisk(job[k]) /\ job[k] \in Job
      BY <1>0 DEF Terminal, TerminalStages, OnDisk, TypeOK
    <3> QED
      BY <1>0, <3>1, <3>2, JobRecords DEF JobsFollow, Follows
  <2>3. TypeOK'
    BY <1>0, <1>22, <2>1, <2>2 DEF Restart, TypeOK, JobsFollow
  <2>4. ObjectsRun'
    BY <1>22 DEF Restart, ObjectsRun
  <2> QED
    BY <1>22, <2>1, <2>2, <2>3, <2>4, FollowingKeepsInv DEF Restart, RunInv
<1>23. CASE UNCHANGED vars
  BY <1>23 DEF vars, RunInv, TypeOK, RunsOwnJobs, StartsCounted, ObjectsRun, Running
<1> QED
  BY <1>1, <1>2, <1>3, <1>4, <1>5, <1>6, <1>7, <1>8, <1>9, <1>10, <1>11, <1>12, <1>13, <1>14, <1>15,
     <1>16, <1>17, <1>18, <1>19, <1>20, <1>21, <1>22, <1>23
  DEF Next, Tick, Step

\* No engine, and so no import, is ever out of the bounds of its bookkeeping.
LEMMA RunInvAlways == Spec => []RunInv
<1>1. Init => RunInv
  BY RunInvInit
<1>2. RunInv /\ [Next]_vars => RunInv'
  BY RunInvNext
<1> QED
  BY <1>1, <1>2, PTL DEF Spec

\* Every variable stays in its type.
THEOREM TypeCorrect == Spec => []TypeOK
<1>1. RunInv => TypeOK
  BY DEF RunInv
<1> QED
  BY <1>1, RunInvAlways, PTL

\* No import is handed to an engine more than MAX_ATTEMPTS times, by however
\* many workers and through however many crashes.
THEOREM StartsAreBounded == Spec => []StartsBounded
<1>1. RunInv => StartsBounded
  BY MaxAttemptsAssumption DEF RunInv, StartsCounted, StartsBounded, TypeOK, Job
<1> QED
  BY <1>1, RunInvAlways, PTL

\* A tick leaves an ended job as it is.
LEMMA TickKeepsEnded ==
  ASSUME RunInv, Tick, NEW j \in Jobs, Terminal(job[j])
  PROVE  job'[j] = job[j]
<1>1. SetAside[j] = job[j]
  BY DEF SetAside, Poisoned, Waiting
<1>2. ASSUME NEW k \in Jobs, NextUp(k)
      PROVE  k # j /\ Taken(k) \in [Jobs -> Job] /\ Taken(k)[j] = job[j]
  <2>1. k # j
    BY <1>2 DEF NextUp, Pending, Waiting
  <2> QED
    BY <1>1, <1>2, <2>1, TakenFollows
<1>3. CASE TickSetsAside
  BY <1>1, <1>3 DEF TickSetsAside
<1>4. ASSUME NEW k \in Jobs,
             LaunchClaim(k) \/ LaunchBill(k) \/ RerunEmptied(k) \/ FailLaunch(k) \/ Jam(k)
      PROVE  job'[j] = job[j]
  <2>1. NextUp(k)
    BY <1>4 DEF LaunchClaim, LaunchBill, Launch, RerunEmptied, FailLaunch, Jam
  <2>2. k # j /\ Taken(k) \in [Jobs -> Job] /\ Taken(k)[j] = job[j]
    BY <1>2, <2>1
  <2>3. \/ job' = Taken(k)
        \/ \E q : job' = [Taken(k) EXCEPT ![k] = q]
        \/ \E q : job' = [SetAside EXCEPT ![k] = q]
    BY <1>4 DEF LaunchClaim, LaunchBill, Launch, RerunEmptied, Ended, FailLaunch, Jam
  <2>4. SetAside \in [Jobs -> Job]
    BY SetAsideFollows DEF RunInv, JobsFollow
  <2> HIDE DEF Taken, SetAside
  <2> QED
    BY <1>1, <2>2, <2>3, <2>4
<1> QED
  BY <1>3, <1>4 DEF Tick

\* An engine's step is on its own job.
LEMMA StepKeepsOthers ==
  ASSUME RunInv, NEW w \in Workers, Step(w)
  PROVE  Running(w) /\ \A j \in Jobs : j # run[w].id => job'[j] = job[j]
<1>1. Running(w)
  BY DEF Step, Unpacked, FormRead, StopAfterForm, GroupRead, StopReading, PlaceRow, BillsUnpacked,
         FailRun, LookUp, ReadBill, At, Running
<1>2. ASSUME NEW s, Settle(w, s), NEW j \in Jobs, j # run[w].id PROVE job'[j] = job[j]
  BY <1>2 DEF Settle, Ended, RunInv, TypeOK
<1>3. ASSUME Mirror(w), NEW j \in Jobs, j # run[w].id PROVE job'[j] = job[j]
  BY <1>3 DEF Mirror, RunInv, TypeOK
<1>4. \/ \E s \in {"done", "failed", "cancelled"} : Settle(w, s)
      \/ Mirror(w)
      \/ job' = job
      \/ job' = [job EXCEPT ![run[w].id] = Saved(@, "running")]
  BY DEF Step, Unpacked, FormRead, StopAfterForm, GroupRead, StopReading, PlaceRow, BillsUnpacked,
         FailRun, LookUp, ReadBill, Proceed
<1>5. ASSUME job' = [job EXCEPT ![run[w].id] = Saved(@, "running")], NEW j \in Jobs, j # run[w].id
      PROVE  job'[j] = job[j]
  BY <1>5 DEF RunInv, TypeOK
<1> QED
  BY <1>1, <1>2, <1>3, <1>4, <1>5

\* An ended import that no engine is on stays ended: only the mirror of a
\* running engine's object could write over it, and none is left.
THEOREM EndedStaysEnded == Spec => EndedStays
<1>1. ASSUME RunInv, [Next]_vars, NEW j \in Jobs, Terminal(job[j]),
             \A w \in Workers : Running(w) => run[w].id # j
      PROVE  job'[j].stage \in {job[j].stage, "swept"}
  <2>0. job \in [Jobs -> Job]
    BY <1>1 DEF RunInv, TypeOK
  <2>1. ASSUME NEW b \in Batches, Enqueue(b) PROVE job'[j] = job[j]
    <3>1. PICK k \in Jobs : job[k] = Unborn /\ job' = [job EXCEPT ![k] = NewJob(b)]
      BY <2>1 DEF Enqueue
    <3>2. k # j
      BY <1>1, <3>1 DEF Unborn, Terminal, TerminalStages
    <3> QED
      BY <2>0, <3>1, <3>2
  <2>2. ASSUME NEW k \in Jobs, Cancel(k) PROVE job'[j] = job[j]
    <3>1. j \notin hooked
      BY <1>1 DEF RunInv, ObjectsRun, TypeOK
    <3> QED
      BY <1>1, <2>0, <2>2, <3>1 DEF Cancel, MarkedCancelled, Waiting
  <2>3. ASSUME NEW k \in Jobs, Sweep(k) PROVE job'[j].stage \in {job[j].stage, "swept"}
    BY <2>0, <2>3 DEF Sweep, Swept, Job
  <2>4. CASE Restart
    BY <2>0, <2>4 DEF Restart, Swept, Job
  <2>5. CASE Tick
    BY <1>1, <2>5, TickKeepsEnded
  <2>6. ASSUME NEW w \in Workers, Step(w) PROVE job'[j] = job[j]
    BY <1>1, <2>6, StepKeepsOthers
  <2>7. CASE UNCHANGED vars \/ Disable \/ Enable \/ (\E i \in Touched : TouchRow(i))
             \/ (\E k \in Jobs : Forget(k))
    BY <2>7 DEF vars, files, Disable, Enable, TouchRow, RemoveRow, SetRowAside, BringBack, Forget
  <2> QED
    BY <1>1, <2>1, <2>2, <2>3, <2>4, <2>5, <2>6, <2>7 DEF Next
<1>2. RunInv /\ [Next]_vars =>
        [\A j \in Jobs :
           Terminal(job[j]) /\ (\A w \in Workers : Running(w) => run[w].id # j)
             => job'[j].stage \in {job[j].stage, "swept"}]_vars
  BY <1>1
<1> QED
  BY <1>2, RunInvAlways, PTL DEF EndedStays, Spec

-----------------------------------------------------------------------------
(* What an import has made of its items                                    *)

\* What the functions of the queue do to the files of a job.
Clean(q) == Terminal(q) => q.payload = "dropped"

LEMMA JobPayloads ==
  ASSUME NEW q \in Job, Clean(q)
  PROVE  /\ \A s \in TerminalStages : Clean(Saved(q, s)) /\ Saved(q, s).stage \in {s, q.stage}
                                      /\ ~Waiting(Saved(q, s))
         /\ Clean(Saved(q, "running")) /\ Saved(q, "running").payload = q.payload
         /\ Saved(q, "running").stage \in {"running", q.stage}
         /\ Clean(Gutted(q)) /\ Gutted(q).stage = q.stage
         /\ Gutted(q).payload = "dropped" => q.payload = "dropped"
         /\ Clean(MarkedRunning(q)) /\ MarkedRunning(q).payload = q.payload
         /\ MarkedRunning(q).stage = "running"
         /\ Clean(MarkedCancelled(q)) /\ ~Waiting(MarkedCancelled(q))
         /\ MarkedCancelled(q).stage \in {"cancelled", q.stage}
         /\ ~Waiting(q) => MarkedCancelled(q) = q
         /\ Clean(Swept(q)) /\ Swept(q).payload = q.payload /\ Swept(q).stage = "swept"
<1>1. \A s \in TerminalStages : Clean(Saved(q, s)) /\ Saved(q, s).stage \in {s, q.stage}
                                /\ ~Waiting(Saved(q, s))
  BY DEF Clean, Saved, Job, Terminal, TerminalStages, OnDisk, Waiting
<1>2. /\ Clean(Saved(q, "running")) /\ Saved(q, "running").payload = q.payload
      /\ Saved(q, "running").stage \in {"running", q.stage}
  BY DEF Clean, Saved, Job, Terminal, TerminalStages
<1>3. /\ Clean(Gutted(q)) /\ Gutted(q).stage = q.stage
      /\ Gutted(q).payload = "dropped" => q.payload = "dropped"
  BY DEF Clean, Gutted, Job, Terminal
<1>4. /\ Clean(MarkedRunning(q)) /\ MarkedRunning(q).payload = q.payload
      /\ MarkedRunning(q).stage = "running"
  BY DEF Clean, MarkedRunning, Job, Terminal, TerminalStages
<1>5. /\ Clean(MarkedCancelled(q)) /\ ~Waiting(MarkedCancelled(q))
      /\ MarkedCancelled(q).stage \in {"cancelled", q.stage}
      /\ ~Waiting(q) => MarkedCancelled(q) = q
  BY <1>1 DEF MarkedCancelled, TerminalStages
<1>6. Clean(Swept(q)) /\ Swept(q).payload = q.payload /\ Swept(q).stage = "swept"
  BY DEF Clean, Swept, Job, Terminal, TerminalStages
<1> QED
  BY <1>1, <1>2, <1>3, <1>4, <1>5, <1>6

OnIt(j) == \E w \in Workers : Running(w) /\ run[w].id = j
Engaged(j) == Waiting(job[j]) \/ OnIt(j)

\* What a step may do to a job, for RowInv to go on holding of it.
Lasts(j) == /\ job[j].stage # "unborn" => job'[j].batch = job[j].batch /\ job'[j].stage # "unborn"
            /\ job'[j].attempts >= job[j].attempts
            /\ Clean(job'[j])
DoneBefore(j) == job'[j].stage = "done" /\ j \notin cancels' /\ ~overlapped' => job[j].stage = "done"
DroppedBefore(j) ==
  job'[j].payload = "dropped" /\ job'[j].attempts < MaxAttempts /\ Engaged(j)'
    => j \in cancels' \/ overlapped' \/ (job[j].payload = "dropped" /\ Engaged(j))
HistoriesGrow == cancels \subseteq cancels' /\ handled \subseteq handled' /\ (overlapped => overlapped')

LEMMA JobsKeepRowInv ==
  ASSUME RunInv, RunInv', RowInv, HistoriesGrow,
         \A j \in Jobs : Lasts(j) /\ DroppedBefore(j)
                         /\ (DoneBefore(j) \/ (job[j].stage # "unborn" /\ ItemsOf[job[j].batch] \subseteq handled'))
  PROVE  DroppedByCancel' /\ EndedDropped' /\ DoneMeansHandled'
<1>1. \A j \in Jobs : job[j] \in Job /\ job'[j] \in Job
  BY DEF RunInv, TypeOK
<1>2. EndedDropped'
  BY DEF EndedDropped, Lasts, Clean
<1>3. DroppedByCancel'
  <2> SUFFICES ASSUME NEW j \in Jobs, job'[j].payload = "dropped", job'[j].attempts < MaxAttempts, Engaged(j)'
               PROVE  j \in cancels' \/ overlapped'
    BY DEF DroppedByCancel, Engaged, OnIt
  <2>1. j \in cancels' \/ overlapped' \/ (job[j].payload = "dropped" /\ Engaged(j))
    BY DEF DroppedBefore
  <2>2. job[j].attempts < MaxAttempts
    BY <1>1, MaxAttemptsAssumption DEF Lasts, Job
  <2>3. job[j].payload = "dropped" /\ Engaged(j) => j \in cancels \/ overlapped
    BY <2>2 DEF RowInv, DroppedByCancel, Engaged, OnIt
  <2> QED
    BY <2>1, <2>3 DEF HistoriesGrow
<1>4. DoneMeansHandled'
  <2> SUFFICES ASSUME NEW j \in Jobs, job'[j].stage = "done", j \notin cancels', ~overlapped'
               PROVE  ItemsOf[job'[j].batch] \subseteq handled'
    BY DEF DoneMeansHandled, Content
  <2>1. CASE job[j].stage = "unborn"
    BY <2>1 DEF Lasts, DoneBefore
  <2>2. CASE job[j].stage # "unborn"
    BY <2>2 DEF Lasts, DoneBefore, HistoriesGrow, RowInv, DoneMeansHandled, Content
  <2> QED
    BY <2>1, <2>2
<1> QED
  BY <1>2, <1>3, <1>4

\* Engines that stop or go on as they are, and rows that go, disturb nothing.
LEMMA QuietKeepsRowInv ==
  ASSUME RunInv, RunInv', RowInv, HistoriesGrow, \A j \in Jobs : Lasts(j),
         \A w \in Workers : Running(w)' =>
           /\ Running(w) /\ run'[w].at = run[w].at /\ run'[w].id = run[w].id /\ run'[w].todo = run[w].todo
           /\ run'[w].item = run[w].item /\ run'[w].known = run[w].known,
         \A i \in Items : live'[i] <= live[i]
  PROVE  (~overlapped => OneAtATime)' /\ RestHandled' /\ LookHolds' /\ OneRowPerFile'
<1>1. \A i \in Items : live[i] \in Nat /\ live'[i] \in Nat
  BY DEF RunInv, TypeOK
<1>2. (~overlapped => OneAtATime)'
  BY DEF RowInv, OneAtATime, HistoriesGrow
<1>3. RestHandled'
  <2> SUFFICES ASSUME NEW w \in Workers, MakesRows(w)'
               PROVE  ItemsOf[job'[run'[w].id].batch] \ run'[w].todo \subseteq handled'
    BY DEF RestHandled, Content
  <2>1. Running(w)'
    BY DEF MakesRows, At, Running
  <2>2. run[w].id \in Jobs /\ job'[run[w].id].batch = job[run[w].id].batch /\ run'[w].id = run[w].id
    BY <2>1 DEF RunInv, RunsOwnJobs, Lasts
  <2>3. MakesRows(w)
    BY <2>1, <2>2 DEF MakesRows, At, IsBill, Content
  <2> QED
    BY <2>1, <2>2, <2>3 DEF RowInv, RestHandled, Content, HistoriesGrow
<1>4. LookHolds'
  <2> SUFFICES ASSUME NEW w \in Workers, run'[w].at = "placing", ~overlapped'
               PROVE  run'[w].known \/ Kind[run'[w].item] = "line" \/ live'[run'[w].item] = 0
    BY DEF LookHolds
  <2>1. Running(w)' /\ run'[w].item \in Items
    BY DEF Running, RunInv, RunsOwnJobs
  <2> QED
    BY <1>1, <2>1 DEF RowInv, LookHolds, HistoriesGrow
<1>5. OneRowPerFile'
  BY <1>1 DEF RowInv, OneRowPerFile, HistoriesGrow
<1> QED
  BY <1>2, <1>3, <1>4, <1>5

\* A step of one engine, the others as they were.
LEMMA EngineKeepsRowInv ==
  ASSUME RunInv, RunInv', RowInv, HistoriesGrow, \A j \in Jobs : Lasts(j),
         NEW w \in Workers, Running(w), overlapped' = overlapped,
         \A v \in Workers : v # w => run'[v] = run[v],
         MakesRows(w)' => /\ run'[w].id = run[w].id
                          /\ ItemsOf[job[run[w].id].batch] \ run'[w].todo \subseteq handled',
         run'[w].at = "placing" =>
           run'[w].known \/ Kind[run'[w].item] = "line" \/ live'[run'[w].item] = 0,
         OneRowPerFile'
  PROVE  (~overlapped => OneAtATime)' /\ RestHandled' /\ LookHolds' /\ OneRowPerFile'
<1>1. \A v \in Workers : v # w /\ ~overlapped => ~Running(v)
  BY DEF RowInv, OneAtATime
<1>2. (~overlapped => OneAtATime)'
  BY <1>1 DEF OneAtATime, Running
<1>3. RestHandled'
  <2> SUFFICES ASSUME NEW v \in Workers, MakesRows(v)'
               PROVE  ItemsOf[job'[run'[v].id].batch] \ run'[v].todo \subseteq handled'
    BY DEF RestHandled, Content
  <2>1. ASSUME NEW u \in Workers, Running(u)
        PROVE  run[u].id \in Jobs /\ job'[run[u].id].batch = job[run[u].id].batch
    BY <2>1 DEF RunInv, RunsOwnJobs, Lasts
  <2>2. CASE v = w
    BY <2>1, <2>2
  <2>3. CASE v # w
    <3>1. Running(v) /\ run'[v] = run[v]
      BY <2>3 DEF MakesRows, At, Running
    <3>2. MakesRows(v)
      BY <2>1, <3>1 DEF MakesRows, At, IsBill, Content
    <3> QED
      BY <2>1, <3>1, <3>2 DEF RowInv, RestHandled, Content, HistoriesGrow
  <2> QED
    BY <2>2, <2>3
<1>4. LookHolds'
  <2> SUFFICES ASSUME NEW v \in Workers, run'[v].at = "placing", ~overlapped
               PROVE  run'[v].known \/ Kind[run'[v].item] = "line" \/ live'[run'[v].item] = 0
    BY DEF LookHolds
  <2>1. v = w
    BY <1>1 DEF Running
  <2> QED
    BY <2>1
<1> QED
  BY <1>2, <1>3, <1>4

\* An engine's progress, its stage written or not.
LEMMA ProgressKeepsJobs ==
  ASSUME RunInv, RowInv, NEW w \in Workers, Running(w),
         job' \in {job, [job EXCEPT ![run[w].id] = Saved(@, "running")]},
         \A v \in Workers : Running(v)' => Running(v) /\ run'[v].id = run[v].id
  PROVE  \A j \in Jobs : Lasts(j) /\ DoneBefore(j) /\ DroppedBefore(j)
<1> SUFFICES ASSUME NEW j \in Jobs PROVE Lasts(j) /\ DoneBefore(j) /\ DroppedBefore(j)
  OBVIOUS
<1>1. job \in [Jobs -> Job] /\ job[j] \in Job /\ Clean(job[j])
  BY DEF RunInv, TypeOK, RowInv, EndedDropped, Clean
<1>2. /\ Follows(job[j], Saved(job[j], "running")) /\ Saved(job[j], "running").attempts = job[j].attempts
      /\ Clean(Saved(job[j], "running")) /\ Saved(job[j], "running").payload = job[j].payload
      /\ Saved(job[j], "running").stage \in {"running", job[j].stage}
  BY <1>1, JobRecords, JobPayloads
<1>3. job'[j] = job[j] \/ (j = run[w].id /\ job'[j] = Saved(job[j], "running"))
  BY <1>1
<1>4. Lasts(j)
  BY <1>1, <1>2, <1>3 DEF Lasts, Follows, Job
<1>5. DoneBefore(j)
  BY <1>2, <1>3 DEF DoneBefore
<1>6. OnIt(j)' => OnIt(j)
  BY DEF OnIt
<1>7. DroppedBefore(j)
  BY <1>2, <1>3, <1>6 DEF DroppedBefore, Engaged, OnIt
<1> QED
  BY <1>4, <1>5, <1>7

\* The end of a run.
LEMMA SettleKeepsJobs ==
  ASSUME RunInv, RowInv, NEW w \in Workers, Running(w), NEW s \in TerminalStages, Settle(w, s),
         UNCHANGED <<cancels, overlapped>>
  PROVE  \A j \in Jobs : Lasts(j) /\ DroppedBefore(j) /\ (DoneBefore(j) \/ (j = run[w].id /\ s = "done"))
<1> SUFFICES ASSUME NEW j \in Jobs
             PROVE  Lasts(j) /\ DroppedBefore(j) /\ (DoneBefore(j) \/ (j = run[w].id /\ s = "done"))
  OBVIOUS
<1>1. job \in [Jobs -> Job] /\ job[j] \in Job /\ Clean(job[j])
  BY DEF RunInv, TypeOK, RowInv, EndedDropped, Clean
<1>2. /\ Follows(job[j], Saved(job[j], s)) /\ Saved(job[j], s).attempts = job[j].attempts
      /\ Follows(job[j], Gutted(job[j])) /\ Gutted(job[j]).attempts = job[j].attempts
      /\ Clean(Saved(job[j], s)) /\ Saved(job[j], s).stage \in {s, job[j].stage} /\ ~Waiting(Saved(job[j], s))
      /\ Clean(Gutted(job[j])) /\ Gutted(job[j]).stage = job[j].stage
      /\ Gutted(job[j]).payload = "dropped" => job[j].payload = "dropped"
  BY <1>1, JobRecords, JobPayloads
<1>3. \/ job'[j] = job[j] /\ j # run[w].id
      \/ j = run[w].id /\ job'[j] \in {Saved(job[j], s), Gutted(job[j])}
  BY <1>1 DEF Settle, Ended
<1>4. Lasts(j)
  BY <1>1, <1>2, <1>3 DEF Lasts, Follows, Job
<1>5. DoneBefore(j) \/ (j = run[w].id /\ s = "done")
  BY <1>2, <1>3 DEF DoneBefore
<1>6. \A v \in Workers : Running(v)' => v # w /\ Running(v) /\ run'[v].id = run[v].id
  BY DEF Settle, RunInv, TypeOK, Running, Idle
<1>7. ~overlapped => ~OnIt(j)'
  BY <1>6 DEF OnIt, RowInv, OneAtATime
<1>8. DroppedBefore(j)
  BY <1>2, <1>3, <1>6, <1>7 DEF DroppedBefore, Engaged, OnIt
<1> QED
  BY <1>4, <1>5, <1>8

\* A row is made of an item that has none, or that has been recognised.
LEMMA StoredOnce ==
  ASSUME RunInv, RowInv, NEW i \in Items, NEW known \in BOOLEAN, Stored(i, known), overlapped' = overlapped,
         ~overlapped => known \/ Kind[i] = "line" \/ live[i] = 0
  PROVE  OneRowPerFile'
BY DEF RunInv, TypeOK, RowInv, OneRowPerFile, Stored

\* An item dealt with: what is left to do shrinks by it, and when nothing is
\* left the import has handled everything.
LEMMA ProceedKeepsRowInv ==
  ASSUME RunInv, RunInv', RowInv, NEW w \in Workers, Running(w), MakesRows(w),
         NEW at \in {"reading", "saving"}, NEW i \in Items,
         Proceed(w, at, i), Handled(i), OneRowPerFile'
  PROVE  RowInv'
<1> DEFINE j == run[w].id
<1> DEFINE rest == run[w].todo \ {i}
<1>1. HistoriesGrow /\ UNCHANGED <<cancels, overlapped>> /\ handled' = handled \cup {i}
  BY DEF Handled, HistoriesGrow
<1>2. j \in Jobs /\ job[j].stage # "unborn" /\ run \in [Workers -> Run] /\ run[w] \in Run
  BY DEF RunInv, RunsOwnJobs, TypeOK
<1>3. ItemsOf[job[j].batch] \ rest \subseteq handled'
  BY <1>1 DEF RowInv, RestHandled, Content
<1>4. CASE rest = {}
  <2>1. Settle(w, "done")
    BY <1>4 DEF Proceed
  <2>2. \A k \in Jobs : Lasts(k) /\ DroppedBefore(k) /\ (DoneBefore(k) \/ k = j)
    BY <1>1, <2>1, SettleKeepsJobs DEF TerminalStages
  <2>3. DroppedByCancel' /\ EndedDropped' /\ DoneMeansHandled'
    BY <1>1, <1>2, <1>3, <1>4, <2>2, JobsKeepRowInv
  <2>4. run'[w] = Idle /\ \A v \in Workers : v # w => run'[v] = run[v]
    BY <1>2, <2>1 DEF Settle
  <2>5. ~MakesRows(w)' /\ run'[w].at # "placing"
    BY <2>4 DEF Idle, MakesRows, At
  <2>6. (~overlapped => OneAtATime)' /\ RestHandled' /\ LookHolds'
    BY <1>1, <2>2, <2>4, <2>5, EngineKeepsRowInv
  <2> QED
    BY <2>3, <2>6 DEF RowInv
<1>5. CASE rest # {}
  <2>1. /\ run'[w] = [run[w] EXCEPT !.at = at, !.todo = rest, !.item = NoItem, !.known = FALSE]
        /\ \A v \in Workers : v # w => run'[v] = run[v]
        /\ job' = job
    BY <1>2, <1>5 DEF Proceed
  <2>2. run'[w].id = j /\ run'[w].todo = rest /\ run'[w].at = at
    BY <1>2, <2>1 DEF Run
  <2>3. \A v \in Workers : Running(v)' => Running(v) /\ run'[v].id = run[v].id
    BY <2>1, <2>2 DEF Running
  <2>4. \A k \in Jobs : Lasts(k) /\ DoneBefore(k) /\ DroppedBefore(k)
    BY <2>1, <2>3, ProgressKeepsJobs
  <2>5. DroppedByCancel' /\ EndedDropped' /\ DoneMeansHandled'
    BY <1>1, <2>4, JobsKeepRowInv
  <2>6. (~overlapped => OneAtATime)' /\ RestHandled' /\ LookHolds'
    BY <1>1, <1>3, <2>1, <2>2, <2>4, EngineKeepsRowInv
  <2> QED
    BY <2>5, <2>6 DEF RowInv
<1> QED
  BY <1>4, <1>5

\* A claim engine moving on to its receipts, or an engine to its rows.
LEMMA MoveKeepsRowInv ==
  ASSUME RunInv, RunInv', RowInv, NEW w \in Workers, Running(w),
         NEW at \in {"form", "reading", "saving"}, NEW todo, Move(w, at, todo),
         job' \in {job, [job EXCEPT ![run[w].id] = Saved(@, "running")]},
         UNCHANGED <<rows, history>>,
         at = "form" \/ (at = "reading" /\ ~IsBill(run[w].id)) \/ todo = Content(run[w].id)
  PROVE  RowInv'
<1>1. run' = [run EXCEPT ![w] = [run[w] EXCEPT !.at = at, !.todo = todo]] /\ run[w] \in Run /\ run \in [Workers -> Run]
  BY DEF Move, RunInv, TypeOK
<1>2. /\ run'[w].at = at /\ run'[w].todo = todo /\ run'[w].id = run[w].id
      /\ \A v \in Workers : v # w => run'[v] = run[v]
  BY <1>1 DEF Run
<1>3. \A v \in Workers : Running(v)' => Running(v) /\ run'[v].id = run[v].id
  BY <1>2 DEF Running
<1>4. \A k \in Jobs : Lasts(k) /\ DoneBefore(k) /\ DroppedBefore(k)
  BY <1>3, ProgressKeepsJobs
<1>5. HistoriesGrow /\ overlapped' = overlapped /\ OneRowPerFile'
  BY DEF HistoriesGrow, history, OneRowPerFile, RowInv
<1>6. DroppedByCancel' /\ EndedDropped' /\ DoneMeansHandled'
  BY <1>4, <1>5, JobsKeepRowInv
<1>7. MakesRows(w)' => ItemsOf[job[run[w].id].batch] \ run'[w].todo \subseteq handled'
  <2>1. run[w].id \in Jobs /\ job'[run[w].id].batch = job[run[w].id].batch
    BY <1>4 DEF RunInv, RunsOwnJobs, Lasts
  <2> QED
    BY <1>2, <2>1 DEF MakesRows, At, IsBill, Content
<1>8. (~overlapped => OneAtATime)' /\ RestHandled' /\ LookHolds'
  BY <1>2, <1>4, <1>5, <1>7, EngineKeepsRowInv
<1> QED
  BY <1>5, <1>6, <1>8 DEF RowInv

\* A run that is given up.
LEMMA GiveUpKeepsRowInv ==
  ASSUME RunInv, RunInv', RowInv, NEW w \in Workers, Running(w), NEW s \in {"failed", "cancelled"},
         Settle(w, s), UNCHANGED <<rows, history>>
  PROVE  RowInv'
<1>1. HistoriesGrow /\ UNCHANGED <<cancels, overlapped>> /\ OneRowPerFile'
  BY DEF HistoriesGrow, history, OneRowPerFile, RowInv
<1>2. \A k \in Jobs : Lasts(k) /\ DroppedBefore(k) /\ DoneBefore(k)
  BY <1>1, SettleKeepsJobs DEF TerminalStages
<1>3. DroppedByCancel' /\ EndedDropped' /\ DoneMeansHandled'
  BY <1>1, <1>2, JobsKeepRowInv
<1>4. run'[w] = Idle /\ \A v \in Workers : v # w => run'[v] = run[v]
  BY DEF Settle, RunInv, TypeOK
<1>5. ~MakesRows(w)' /\ run'[w].at # "placing"
  BY <1>4 DEF Idle, MakesRows, At
<1>6. (~overlapped => OneAtATime)' /\ RestHandled' /\ LookHolds'
  BY <1>1, <1>2, <1>4, <1>5, EngineKeepsRowInv
<1> QED
  BY <1>1, <1>3, <1>6 DEF RowInv

\* The jobs a tick does not take: only poisoned ones are touched.
LEMMA AsideKeepsJob ==
  ASSUME RunInv, RowInv, NEW k \in Jobs, job'[k] = SetAside[k], OnIt(k)' => OnIt(k)
  PROVE  Lasts(k) /\ DoneBefore(k) /\ DroppedBefore(k)
<1>1. job[k] \in Job /\ Clean(job[k])
  BY DEF RunInv, TypeOK, RowInv, EndedDropped, Clean
<1>2. CASE Poisoned(job[k])
  <2>1. job'[k] = Saved(job[k], "failed") /\ job[k].attempts >= MaxAttempts
    BY <1>2 DEF SetAside, Poisoned
  <2>2. /\ Follows(job[k], job'[k]) /\ job'[k].attempts = job[k].attempts
        /\ Clean(job'[k]) /\ job'[k].stage \in {"failed", job[k].stage}
    BY <1>1, <2>1, JobRecords, JobPayloads DEF TerminalStages
  <2> QED
    BY <1>1, <2>1, <2>2, MaxAttemptsAssumption DEF Lasts, Follows, DoneBefore, DroppedBefore, Job
<1>3. CASE ~Poisoned(job[k])
  BY <1>1, <1>3 DEF SetAside, Lasts, DoneBefore, DroppedBefore, Engaged, Job
<1> QED
  BY <1>2, <1>3

\* The job a tick takes.
LEMMA TakenKeepsJob ==
  ASSUME RunInv, RowInv, NEW j \in Jobs, NextUp(j), NEW q, job'[j] = q,
         \/ q = MarkedRunning(job[j])
         \/ \E s \in TerminalStages : q \in {Saved(job[j], s), Saved(MarkedRunning(job[j]), s)}
         \/ q \in {Gutted(job[j]), Gutted(MarkedRunning(job[j]))}
  PROVE  Lasts(j) /\ Waiting(job[j])
<1>1. job[j] \in Job /\ Clean(job[j]) /\ Waiting(job[j]) /\ OnDisk(job[j])
  BY DEF RunInv, TypeOK, RowInv, EndedDropped, Clean, NextUp, Pending, Waiting
<1>2. /\ Follows(job[j], MarkedRunning(job[j])) /\ MarkedRunning(job[j]).attempts = job[j].attempts + 1
      /\ Clean(MarkedRunning(job[j])) /\ MarkedRunning(job[j]) \in Job
  BY <1>1, JobRecords, JobPayloads DEF Follows
<1> DEFINE m == MarkedRunning(job[j])
<1> HIDE DEF m
<1>3. \A s \in TerminalStages : Follows(m, Saved(m, s)) /\ Saved(m, s).attempts = m.attempts /\ Clean(Saved(m, s))
  BY <1>2, JobRecords, JobPayloads DEF m
<1>4. /\ Follows(m, Gutted(m)) /\ Gutted(m).attempts = m.attempts /\ Clean(Gutted(m))
      /\ \A r \in {Gutted(job[j])} \cup {Saved(job[j], s) : s \in TerminalStages} :
           Follows(job[j], r) /\ r.attempts = job[j].attempts /\ Clean(r)
  BY <1>1, <1>2, JobRecords, JobPayloads DEF m
<1>5. job[j].attempts \in Nat /\ m.attempts = job[j].attempts + 1 /\ Follows(job[j], m) /\ Clean(m)
  BY <1>1, <1>2 DEF Job, m
<1>6. \/ q \in {m, Gutted(m)} \/ \E s \in TerminalStages : q = Saved(m, s)
      \/ q \in {Gutted(job[j])} \cup {Saved(job[j], s) : s \in TerminalStages}
  BY DEF m
<1>7. Follows(job[j], q) /\ q.attempts >= job[j].attempts /\ Clean(q)
  BY <1>3, <1>4, <1>5, <1>6 DEF Follows
<1> QED
  BY <1>1, <1>7 DEF Lasts, Follows

\* A job handed to an engine: from then on either it is the only one, or
\* overlapped says that it is not.
LEMMA LaunchKeepsRowInv ==
  ASSUME RunInv, RunInv', RowInv, NEW j \in Jobs, NEW at \in {"unpacking", "reading"}, NEW todo,
         Launch(j, at, todo), at = "unpacking" \/ todo = Content(j)
  PROVE  RowInv'
<1>1. /\ current \in Workers /\ run[current].at = "idle" /\ NextUp(j) /\ job[j].payload = "kept"
      /\ job' = Taken(j) /\ UNCHANGED <<rows, handled, cancels>>
      /\ overlapped' = (overlapped \/ \E w \in Workers : Running(w))
  BY DEF RunInv, TypeOK, Launch, CanTick, Counted, Overlap
<1>2. /\ run'[current].at = at /\ run'[current].id = j /\ run'[current].todo = todo
      /\ \A v \in Workers : v # current => run'[v] = run[v]
  BY <1>1 DEF Launch, RunInv, TypeOK, Idle
<1>3. /\ \A k \in Jobs \ {j} : job'[k] = SetAside[k]
      /\ job'[j] = MarkedRunning(job[j])
  BY <1>1, TakenFollows
<1>4. \A k \in Jobs : Lasts(k) /\ DoneBefore(k) /\ DroppedBefore(k)
  <2>1. ASSUME NEW k \in Jobs \ {j} PROVE Lasts(k) /\ DoneBefore(k) /\ DroppedBefore(k)
    <3>1. OnIt(k)' => OnIt(k)
      BY <1>2 DEF OnIt, Running
    <3> QED
      BY <1>3, <3>1, AsideKeepsJob
  <2>2. Lasts(j)
    BY <1>1, <1>3, TakenKeepsJob
  <2>3. job'[j].payload = "kept" /\ job'[j].stage = "running"
    BY <1>1, <1>3, JobPayloads DEF RunInv, TypeOK, RowInv, EndedDropped, Clean
  <2> QED
    BY <2>1, <2>2, <2>3 DEF DoneBefore, DroppedBefore
<1>5. HistoriesGrow
  BY <1>1 DEF HistoriesGrow
<1>6. DroppedByCancel' /\ EndedDropped' /\ DoneMeansHandled'
  BY <1>4, <1>5, JobsKeepRowInv
<1>7. ~overlapped' => \A v \in Workers : v # current => ~Running(v)'
  BY <1>1, <1>2 DEF Running
<1>8. (~overlapped => OneAtATime)' /\ LookHolds' /\ OneRowPerFile'
  BY <1>1, <1>2, <1>7 DEF OneAtATime, LookHolds, Running, OneRowPerFile, RowInv
<1>9. RestHandled'
  <2> SUFFICES ASSUME NEW v \in Workers, MakesRows(v)'
               PROVE  ItemsOf[job'[run'[v].id].batch] \ run'[v].todo \subseteq handled'
    BY DEF RestHandled, Content
  <2>1. CASE v = current
    <3>1. todo = ItemsOf[job[j].batch] /\ job'[j].batch = job[j].batch
      BY <1>2, <1>4, <2>1, TakenKeepsJob, <1>1, <1>3 DEF MakesRows, At, Content, Lasts, Waiting, OnDisk
    <3> QED
      BY <1>2, <2>1, <3>1
  <2>2. CASE v # current
    <3>1. Running(v) /\ run'[v] = run[v]
      BY <1>2, <2>2 DEF MakesRows, At, Running
    <3>2. run[v].id \in Jobs /\ job'[run[v].id].batch = job[run[v].id].batch
      BY <1>4, <3>1 DEF RunInv, RunsOwnJobs, Lasts
    <3>3. MakesRows(v)
      BY <3>1, <3>2 DEF MakesRows, At, IsBill, Content
    <3> QED
      BY <1>1, <3>1, <3>2, <3>3 DEF RowInv, RestHandled, Content
  <2> QED
    BY <2>1, <2>2
<1> QED
  BY <1>6, <1>8, <1>9 DEF RowInv

\* What the steps that leave the engines alone, or stop them, have in common.
LEMMA RestKeepsRowInv ==
  ASSUME RunInv, RunInv', RowInv, HistoriesGrow,
         \A j \in Jobs : Lasts(j) /\ DoneBefore(j) /\ DroppedBefore(j),
         \A w \in Workers : Running(w)' =>
           /\ Running(w) /\ run'[w].at = run[w].at /\ run'[w].id = run[w].id /\ run'[w].todo = run[w].todo
           /\ run'[w].item = run[w].item /\ run'[w].known = run[w].known,
         \A i \in Items : live'[i] <= live[i]
  PROVE  RowInv'
<1>1. DroppedByCancel' /\ EndedDropped' /\ DoneMeansHandled'
  BY JobsKeepRowInv
<1>2. (~overlapped => OneAtATime)' /\ RestHandled' /\ LookHolds' /\ OneRowPerFile'
  BY QuietKeepsRowInv
<1> QED
  BY <1>1, <1>2 DEF RowInv

LEMMA RowInvInit == Init => RowInv
<1> SUFFICES ASSUME Init PROVE RowInv
  OBVIOUS
<1>1. \A w \in Workers : run[w].at = "idle"
  BY DEF Init, Idle
<1>2. \A j \in Jobs : job[j].stage = "unborn"
  BY DEF Init, Unborn
<1>3. \A i \in Items : live[i] = 0
  BY DEF Init
<1> QED
  BY <1>1, <1>2, <1>3
  DEF RowInv, OneAtATime, Running, RestHandled, MakesRows, At, DroppedByCancel, Waiting, OnDisk,
      EndedDropped, Terminal, TerminalStages, LookHolds, DoneMeansHandled, OneRowPerFile

LEMMA RowInvNext == RunInv /\ RowInv /\ [Next]_vars => RowInv'
<1> SUFFICES ASSUME RunInv, RowInv, [Next]_vars PROVE RowInv'
  OBVIOUS
<1>0. /\ RunInv' /\ job \in [Jobs -> Job] /\ run \in [Workers -> Run]
      /\ \A k \in Jobs : Clean(job[k]) /\ job[k].attempts \in Nat
      /\ \A i \in Items : live[i] \in Nat
  BY RunInvNext DEF RunInv, TypeOK, RowInv, EndedDropped, Clean, Job
<1>01. ASSUME NEW k \in Jobs, job'[k] = job[k], OnIt(k)' => OnIt(k)
       PROVE  Lasts(k) /\ DoneBefore(k) /\ DroppedBefore(k)
  BY <1>0, <1>01 DEF Lasts, DoneBefore, DroppedBefore, Engaged
<1>02. ASSUME UNCHANGED run PROVE \A k \in Jobs : OnIt(k)' => OnIt(k)
  BY <1>02 DEF OnIt, Running
<1> USE DEF history, engine, files
<1>1. ASSUME NEW b \in Batches, Enqueue(b) PROVE RowInv'
  <2>1. PICK j \in Jobs : job[j] = Unborn /\ job' = [job EXCEPT ![j] = NewJob(b)]
    BY <1>1 DEF Enqueue
  <2>2. Lasts(j) /\ DoneBefore(j) /\ DroppedBefore(j)
    BY <1>0, <2>1 DEF Lasts, DoneBefore, DroppedBefore, NewJob, Unborn, Clean, Terminal, TerminalStages
  <2>3. \A k \in Jobs : Lasts(k) /\ DoneBefore(k) /\ DroppedBefore(k)
    BY <1>0, <1>01, <1>02, <1>1, <2>1, <2>2 DEF Enqueue
  <2> QED
    BY <1>0, <1>1, <2>3, RestKeepsRowInv DEF Enqueue, HistoriesGrow, Running
<1>2. ASSUME NEW j \in Jobs, Cancel(j) PROVE RowInv'
  <2>1. \A w \in Workers : /\ (Running(w)' <=> Running(w)) /\ run'[w].at = run[w].at /\ run'[w].id = run[w].id
                           /\ run'[w].todo = run[w].todo /\ run'[w].item = run[w].item /\ run'[w].known = run[w].known
    <3> SUFFICES ASSUME NEW w \in Workers
                 PROVE  /\ (Running(w)' <=> Running(w)) /\ run'[w].at = run[w].at /\ run'[w].id = run[w].id
                        /\ run'[w].todo = run[w].todo /\ run'[w].item = run[w].item /\ run'[w].known = run[w].known
      OBVIOUS
    <3>1. run[w] \in Run /\ run'[w] \in {run[w], [run[w] EXCEPT !.cancelled = TRUE]}
      BY <1>0, <1>2 DEF Cancel
    <3> QED
      BY <3>1 DEF Run, Running
  <2>2. \A k \in Jobs : OnIt(k)' => OnIt(k)
    BY <2>1 DEF OnIt
  <2>3. \A k \in Jobs \ {j} : job'[k] = job[k]
    BY <1>0, <1>2 DEF Cancel
  <2>4. Lasts(j) /\ DoneBefore(j) /\ DroppedBefore(j)
    <3> DEFINE q == IF j \in hooked THEN Saved(job[j], "running") ELSE job[j]
    <3>1. /\ job[j] \in Job /\ job'[j] = MarkedCancelled(q)
          /\ cancels' = IF Waiting(job[j]) THEN cancels \cup {j} ELSE cancels
      BY <1>0, <1>2 DEF Cancel
    <3>2. /\ Follows(job[j], q) /\ q.attempts = job[j].attempts /\ Clean(q)
          /\ q.payload = job[j].payload /\ q.stage \in {"running", job[j].stage}
      BY SMTT(30), <1>0, <3>1, JobRecords, JobPayloads DEF Follows
    <3>3. ~OnDisk(job[j]) => q = job[j]
      BY DEF Saved
    <3> HIDE DEF q
    <3>4. /\ Follows(q, job'[j]) /\ job'[j].attempts = q.attempts /\ Clean(job'[j]) /\ ~Waiting(job'[j])
          /\ job'[j].stage \in {"cancelled", q.stage} /\ (~Waiting(q) => job'[j] = q)
      BY <3>1, <3>2, JobRecords, JobPayloads DEF Follows
    <3>5. Lasts(j)
      BY <1>0, <3>2, <3>4 DEF Lasts, Follows
    <3>6. DoneBefore(j)
      BY <3>2, <3>4 DEF DoneBefore
    <3>7. DroppedBefore(j)
      <4>1. CASE Waiting(job[j])
        BY <3>1, <4>1 DEF DroppedBefore
      <4>2. CASE Terminal(job[j])
        BY <1>0, <2>2, <3>4, <4>2 DEF DroppedBefore, Engaged, Clean
      <4>3. CASE ~OnDisk(job[j])
        BY <2>2, <3>3, <3>4, <4>3 DEF DroppedBefore, Engaged, Waiting
      <4> QED
        BY <4>1, <4>2, <4>3 DEF Waiting
    <3> QED
      BY <3>5, <3>6, <3>7
  <2>5. \A k \in Jobs : Lasts(k) /\ DoneBefore(k) /\ DroppedBefore(k)
    BY <1>01, <2>2, <2>3, <2>4
  <2>6. HistoriesGrow /\ UNCHANGED rows
    BY <1>2 DEF Cancel, HistoriesGrow
  <2> QED
    BY <1>0, <2>1, <2>5, <2>6, RestKeepsRowInv
<1>3. ASSUME NEW j \in Jobs, Sweep(j) PROVE RowInv'
  <2>1. job'[j] = Swept(job[j]) /\ OnDisk(job[j]) /\ \A k \in Jobs \ {j} : job'[k] = job[k]
    BY <1>0, <1>3 DEF Sweep, Terminal, TerminalStages, OnDisk
  <2>2. \A k \in Jobs : OnIt(k)' => OnIt(k)
    BY <1>02, <1>3 DEF Sweep
  <2>3. /\ Follows(job[j], job'[j]) /\ job'[j].attempts = job[j].attempts /\ Clean(job'[j])
        /\ job'[j].payload = job[j].payload /\ job'[j].stage = "swept"
    BY <1>0, <2>1, JobRecords, JobPayloads
  <2>4. Lasts(j) /\ DoneBefore(j) /\ DroppedBefore(j)
    BY <1>0, <2>2, <2>3 DEF Lasts, DoneBefore, DroppedBefore, Engaged, Waiting, OnDisk, Follows
  <2>5. \A k \in Jobs : Lasts(k) /\ DoneBefore(k) /\ DroppedBefore(k)
    BY <1>01, <2>1, <2>2, <2>4
  <2> QED
    BY <1>0, <1>3, <2>5, RestKeepsRowInv DEF Sweep, HistoriesGrow, Running
<1>4. CASE UNCHANGED vars \/ Enable \/ \E j \in Jobs : Forget(j)
  <2>1. \A k \in Jobs : Lasts(k) /\ DoneBefore(k) /\ DroppedBefore(k)
    BY <1>01, <1>02, <1>4 DEF vars, Enable, Forget
  <2> QED
    BY <1>0, <1>4, <2>1, RestKeepsRowInv DEF vars, Enable, Forget, HistoriesGrow, Running
<1>5. ASSUME NEW i \in Touched, TouchRow(i) PROVE RowInv'
  <2>0. UNCHANGED <<files, engine, active, history>> /\ \A k \in Items : live'[k] <= live[k]
    BY <1>0, <1>5, TouchedRows DEF RunInv
  <2>1. \A k \in Jobs : Lasts(k) /\ DoneBefore(k) /\ DroppedBefore(k)
    BY <1>01, <1>02, <2>0 DEF files, engine, history
  <2> QED
    BY <1>0, <2>0, <2>1, RestKeepsRowInv DEF files, engine, history, HistoriesGrow, Running
<1>6. CASE TickSetsAside
  <2>1. \A k \in Jobs : Lasts(k) /\ DoneBefore(k) /\ DroppedBefore(k)
    BY <1>02, <1>6, AsideKeepsJob DEF TickSetsAside
  <2> QED
    BY <1>0, <1>6, <2>1, RestKeepsRowInv DEF TickSetsAside, HistoriesGrow, Running
<1>7. ASSUME NEW j \in Jobs, LaunchClaim(j) \/ LaunchBill(j) PROVE RowInv'
  <2>1. Launch(j, "unpacking", {}) \/ Launch(j, "reading", Content(j))
    BY <1>7 DEF LaunchClaim, LaunchBill
  <2> QED
    BY <1>0, <2>1, LaunchKeepsRowInv
<1>8. ASSUME NEW j \in Jobs, RerunEmptied(j) \/ FailLaunch(j) \/ Jam(j) PROVE RowInv'
  <2>1. NextUp(j) /\ overlapped' = (overlapped \/ \E w \in Workers : Running(w))
        /\ UNCHANGED <<rows, handled, cancels>>
    BY <1>8 DEF RerunEmptied, FailLaunch, Jam, Counted, Overlap
  <2>2. HistoriesGrow
    BY <2>1 DEF HistoriesGrow
  <2>3. \A w \in Workers : Running(w)' =>
           /\ Running(w) /\ run'[w].at = run[w].at /\ run'[w].id = run[w].id /\ run'[w].todo = run[w].todo
           /\ run'[w].item = run[w].item /\ run'[w].known = run[w].known
    <3>1. run' = run \/ run' = [run EXCEPT ![current].at = "stuck"]
      BY <1>8 DEF RerunEmptied, FailLaunch, Jam
    <3>2. \A w \in Workers : run'[w] = run[w] \/ run'[w] = [run[w] EXCEPT !.at = "stuck"]
      BY <1>0, <3>1
    <3>3. \A w \in Workers : [run[w] EXCEPT !.at = "stuck"].at = "stuck"
      BY <1>0 DEF Run
    <3> QED
      BY <3>2, <3>3 DEF Running
  <2>4. \A k \in Jobs : OnIt(k)' => OnIt(k)
    BY <2>3 DEF OnIt
  <2>5. /\ SetAside \in [Jobs -> Job] /\ SetAside[j] = job[j]
        /\ Taken(j) \in [Jobs -> Job] /\ Taken(j)[j] = MarkedRunning(job[j])
        /\ \A k \in Jobs \ {j} : Taken(j)[k] = SetAside[k]
    <3>1. SetAside[j] = job[j]
      BY <1>0, <2>1, MaxAttemptsAssumption DEF SetAside, Poisoned, NextUp, Pending
    <3> QED
      BY <2>1, <3>1, TakenFollows, SetAsideFollows DEF RunInv, JobsFollow
  <2>6. Waiting(job[j]) /\ job[j].attempts < MaxAttempts
    BY <2>1 DEF NextUp, Pending
  <2>7. \/ job'[j] = MarkedRunning(job[j])
        \/ job'[j] = Saved(MarkedRunning(job[j]), "done") /\ RerunEmptied(j)
        \/ job'[j] \in {Saved(job[j], "failed"), Saved(MarkedRunning(job[j]), "failed")}
        \/ job'[j] \in {Gutted(job[j]), Gutted(MarkedRunning(job[j]))}
    BY <1>8, <2>5 DEF RerunEmptied, FailLaunch, Jam, Ended
  <2>8. \A k \in Jobs \ {j} : job'[k] = SetAside[k]
    BY <1>8, <2>5 DEF RerunEmptied, FailLaunch, Jam, Ended
  <2>9. \A k \in Jobs \ {j} : Lasts(k) /\ DoneBefore(k) /\ DroppedBefore(k)
    BY <2>4, <2>8, AsideKeepsJob
  <2>10. Lasts(j)
    BY <2>1, <2>7, TakenKeepsJob DEF TerminalStages
  <2>11. RerunEmptied(j) => j \in cancels' \/ overlapped'
    BY <2>1, <2>6 DEF RerunEmptied, RowInv, DroppedByCancel
  <2>12. DoneBefore(j) /\ DroppedBefore(j)
    <3> DEFINE m == MarkedRunning(job[j])
    <3>1. /\ m \in Job /\ Clean(m) /\ m.payload = job[j].payload /\ m.stage = "running" /\ job[j] \in Job
      BY <1>0, <2>6, JobRecords, JobPayloads DEF Follows, Waiting
    <3> HIDE DEF m
    <3>2. /\ Saved(m, "failed").stage \in {"failed", "running"} /\ ~Waiting(Saved(m, "failed"))
          /\ Saved(job[j], "failed").stage \in {"failed", job[j].stage} /\ ~Waiting(Saved(job[j], "failed"))
          /\ Gutted(m).stage = "running" /\ (Gutted(m).payload = "dropped" => job[j].payload = "dropped")
          /\ Gutted(job[j]).stage = job[j].stage
          /\ (Gutted(job[j]).payload = "dropped" => job[j].payload = "dropped")
      BY <1>0, <3>1, JobPayloads DEF TerminalStages
    <3>3. OnIt(j)' => overlapped'
      BY <2>1, <2>4 DEF OnIt
    <3>4. \/ job'[j] \in {m, Saved(m, "failed"), Saved(job[j], "failed"), Gutted(job[j]), Gutted(m)}
          \/ RerunEmptied(j)
      BY <2>7 DEF m
    <3> QED
      BY <2>6, <2>11, <3>1, <3>2, <3>3, <3>4 DEF DoneBefore, DroppedBefore, Engaged
  <2> QED
    BY <1>0, <2>1, <2>2, <2>3, <2>9, <2>10, <2>12, RestKeepsRowInv
<1>9. ASSUME NEW w \in Workers, Unpacked(w) \/ FormRead(w) \/ GroupRead(w) \/ BillsUnpacked(w) PROVE RowInv'
  <2>1. Running(w)
    BY <1>9 DEF Unpacked, FormRead, GroupRead, BillsUnpacked, At, Running
  <2>2. /\ job' \in {job, [job EXCEPT ![run[w].id] = Saved(@, "running")]} /\ UNCHANGED <<rows, history>>
        /\ \/ Move(w, "form", {})
           \/ \E todo : Move(w, "reading", todo) /\ ~IsBill(run[w].id)
           \/ \E at \in {"reading", "saving"} : Move(w, at, Content(run[w].id))
    BY <1>9 DEF Unpacked, FormRead, GroupRead, BillsUnpacked, Mirror, At
  <2> QED
    BY <1>0, <2>1, <2>2, MoveKeepsRowInv
<1>10. ASSUME NEW w \in Workers, StopAfterForm(w) \/ StopReading(w) \/ FailRun(w) PROVE RowInv'
  <2>1. Running(w) /\ UNCHANGED <<rows, history>> /\ \E s \in {"failed", "cancelled"} : Settle(w, s)
    BY <1>10 DEF StopAfterForm, StopReading, FailRun, At, Running
  <2> QED
    BY <1>0, <2>1, GiveUpKeepsRowInv
<1>11. ASSUME NEW w \in Workers, NEW i \in Items, LookUp(w, i) PROVE RowInv'
  <2>1. Running(w) /\ MakesRows(w) /\ UNCHANGED <<job, rows, history>>
    BY <1>11 DEF LookUp, At, Running, MakesRows
  <2>2. /\ run'[w].at = "placing" /\ run'[w].id = run[w].id /\ run'[w].todo = run[w].todo
        /\ run'[w].item = i /\ run'[w].known = Known(i)
        /\ \A v \in Workers : v # w => run'[v] = run[v]
    BY <1>0, <1>11 DEF LookUp, Run
  <2>3. \A v \in Workers : Running(v)' => Running(v) /\ run'[v].id = run[v].id
    BY <2>1, <2>2 DEF Running
  <2>4. \A k \in Jobs : Lasts(k) /\ DoneBefore(k) /\ DroppedBefore(k)
    BY <2>1, <2>3, ProgressKeepsJobs
  <2>5. HistoriesGrow /\ overlapped' = overlapped /\ OneRowPerFile'
    BY <2>1 DEF HistoriesGrow, OneRowPerFile, RowInv
  <2>6. DroppedByCancel' /\ EndedDropped' /\ DoneMeansHandled'
    BY <1>0, <2>4, <2>5, JobsKeepRowInv
  <2>7. ItemsOf[job[run[w].id].batch] \ run'[w].todo \subseteq handled'
    BY <2>1, <2>2 DEF RowInv, RestHandled, Content
  <2>8. Known(i) \/ Kind[i] = "line" \/ live'[i] = 0
    BY <1>0, <2>1 DEF Known
  <2>9. (~overlapped => OneAtATime)' /\ RestHandled' /\ LookHolds'
    BY <1>0, <2>1, <2>2, <2>4, <2>5, <2>7, <2>8, EngineKeepsRowInv
  <2> QED
    BY <2>5, <2>6, <2>9 DEF RowInv
<1>12. ASSUME NEW w \in Workers, PlaceRow(w) PROVE RowInv'
  <2>1. /\ Running(w) /\ MakesRows(w) /\ run[w].item \in Items /\ run[w].known \in BOOLEAN
        /\ Proceed(w, "saving", run[w].item) /\ Handled(run[w].item) /\ Stored(run[w].item, run[w].known)
    BY <1>0, <1>12 DEF PlaceRow, At, Running, MakesRows, RunInv, RunsOwnJobs, Run
  <2>2. ~overlapped => run[w].known \/ Kind[run[w].item] = "line" \/ live[run[w].item] = 0
    BY <1>12 DEF PlaceRow, At, RowInv, LookHolds
  <2>3. OneRowPerFile'
    BY <2>1, <2>2, StoredOnce DEF Handled
  <2> QED
    BY <1>0, <2>1, <2>3, ProceedKeepsRowInv
<1>13. ASSUME NEW w \in Workers, NEW i \in Items, ReadBill(w, i) PROVE RowInv'
  <2>1. /\ Running(w) /\ MakesRows(w) /\ Known(i) \in BOOLEAN
        /\ Proceed(w, "reading", i) /\ Handled(i) /\ (Stored(i, Known(i)) \/ UNCHANGED rows)
    BY <1>13 DEF ReadBill, At, Running, MakesRows, Known
  <2>2. Known(i) \/ Kind[i] = "line" \/ live[i] = 0
    BY <1>0 DEF Known
  <2>3. OneRowPerFile'
    <3>1. CASE Stored(i, Known(i))
      BY <2>1, <2>2, <3>1, StoredOnce DEF Handled
    <3>2. CASE UNCHANGED rows
      BY <2>1, <3>2 DEF Handled, OneRowPerFile, RowInv
    <3> QED
      BY <2>1, <3>1, <3>2
  <2> QED
    BY <1>0, <2>1, <2>3, ProceedKeepsRowInv
<1>14. CASE Disable
  <2>1. \A v \in Workers : Running(v)' => Running(v) /\ run'[v] = run[v]
    BY <1>14 DEF Disable, Running, Idle
  <2>2. \A k \in Jobs : Lasts(k) /\ DoneBefore(k) /\ DroppedBefore(k)
    BY <1>01, <1>14, <2>1 DEF Disable, OnIt
  <2> QED
    BY <1>0, <1>14, <2>1, <2>2, RestKeepsRowInv DEF Disable, HistoriesGrow
<1>15. CASE Restart
  <2>1. \A v \in Workers : ~Running(v)'
    BY <1>15 DEF Restart, Running, Idle
  <2>2. \A k \in Jobs : ~OnIt(k)'
    BY <2>1 DEF OnIt
  <2>3. ASSUME NEW k \in Jobs PROVE Lasts(k) /\ DoneBefore(k) /\ DroppedBefore(k)
    <3>1. job'[k] = job[k] \/ (job'[k] = Swept(job[k]) /\ Terminal(job[k]))
      BY <1>0, <1>15 DEF Restart
    <3>2. CASE job'[k] = job[k]
      BY <1>01, <2>2, <3>2
    <3>3. CASE job'[k] = Swept(job[k]) /\ Terminal(job[k])
      <4>1. /\ Follows(job[k], job'[k]) /\ job'[k].attempts = job[k].attempts /\ Clean(job'[k])
            /\ job'[k].stage = "swept"
        BY <1>0, <3>3, JobRecords, JobPayloads DEF Terminal, TerminalStages, OnDisk
      <4> QED
        BY <1>0, <2>2, <4>1 DEF Lasts, DoneBefore, DroppedBefore, Engaged, Waiting, OnDisk, Follows
    <3> QED
      BY <3>1, <3>2, <3>3
  <2> QED
    BY <1>0, <1>15, <2>1, <2>3, RestKeepsRowInv DEF Restart, HistoriesGrow
<1> QED
  BY <1>1, <1>2, <1>3, <1>4, <1>5, <1>6, <1>7, <1>8, <1>9, <1>10, <1>11, <1>12, <1>13, <1>14, <1>15
  DEF Next, Tick, Step

LEMMA RowInvAlways == Spec => []RowInv
<1>1. Init => RowInv
  BY RowInvInit
<1>2. RunInv /\ RowInv /\ [Next]_vars => RowInv'
  BY RowInvNext
<1> QED
  BY <1>1, <1>2, RunInvAlways, PTL DEF Spec

\* As long as no job is taken while an engine runs, an import that nobody
\* cancelled says 'done' only when everything in it became a row or was
\* reported, whatever crashes and lost final writes its runs went through.
THEOREM NothingDoneUnhandled == Spec => []DoneMeansHandled
<1>1. RowInv => DoneMeansHandled
  BY DEF RowInv
<1> QED
  BY <1>1, RowInvAlways, PTL

\* As long as no job is taken while an engine runs, a file has one row at most
\* that is not marked as a duplicate, however often it is uploaded or read.
THEOREM NoFileTwice == Spec => []OneRowPerFile
<1>1. RowInv => OneRowPerFile
  BY DEF RowInv
<1> QED
  BY <1>1, RowInvAlways, PTL

-----------------------------------------------------------------------------
(* The queue is one of RetriedJobs.                                        *)

LEMMA JobPhases ==
  ASSUME NEW q \in Job
  PROVE  /\ PhaseOf("unborn") = "absent" /\ PhaseOf("queued") = "waiting" /\ PhaseOf("running") = "waiting"
         /\ PhaseOf("done") = "finished" /\ PhaseOf("failed") = "abandoned"
         /\ PhaseOf("cancelled") = "dropped" /\ PhaseOf("swept") = "swept"
         /\ Waiting(q) <=> PhaseOf(q.stage) = "waiting"
         /\ Terminal(q) <=> PhaseOf(q.stage) \in Retried!Ends
         /\ OnDisk(q) <=> PhaseOf(q.stage) \in Retried!Ends \cup {"waiting"}
         /\ \A s : Saved(q, s).stage = IF OnDisk(q) THEN s ELSE q.stage
         /\ Gutted(q).stage = q.stage /\ Swept(q).stage = "swept" /\ MarkedRunning(q).stage = "running"
<1>1. /\ PhaseOf("unborn") = "absent" /\ PhaseOf("queued") = "waiting" /\ PhaseOf("running") = "waiting"
      /\ PhaseOf("done") = "finished" /\ PhaseOf("failed") = "abandoned"
      /\ PhaseOf("cancelled") = "dropped" /\ PhaseOf("swept") = "swept"
  BY DEF PhaseOf, PhaseIn
<1>2. q.stage \in {"unborn", "queued", "running", "done", "failed", "cancelled", "swept"}
  BY DEF Job, Stages, TerminalStages
<1>3. /\ Waiting(q) <=> PhaseOf(q.stage) = "waiting"
      /\ Terminal(q) <=> PhaseOf(q.stage) \in Retried!Ends
      /\ OnDisk(q) <=> PhaseOf(q.stage) \in Retried!Ends \cup {"waiting"}
  BY <1>1, <1>2 DEF Waiting, Terminal, TerminalStages, OnDisk, Retried!Ends
<1>4. /\ \A s : Saved(q, s).stage = IF OnDisk(q) THEN s ELSE q.stage
      /\ Gutted(q).stage = q.stage /\ Swept(q).stage = "swept" /\ MarkedRunning(q).stage = "running"
  BY DEF Saved, Gutted, Swept, MarkedRunning, Job
<1> QED
  BY <1>1, <1>3, <1>4

\* What RetriedJobs sees of a queue whose jobs are these.
LEMMA PhasesAre ==
  ASSUME NEW jobs, job' = jobs
  PROVE  /\ phase' = [k \in Jobs |-> PhaseOf(jobs[k].stage)]
         /\ tries' = [k \in Jobs |-> jobs[k].attempts]
BY DEF phase, tries

\* A job changes, and no other.
LEMMA PhaseChanges ==
  ASSUME RunInv, NEW j \in Jobs, NEW q, q.attempts = job[j].attempts, job' = [job EXCEPT ![j] = q]
  PROVE  phase' = [phase EXCEPT ![j] = PhaseOf(q.stage)] /\ tries' = tries
<1>1. \A k \in Jobs : job'[k] = IF k = j THEN q ELSE job[k]
  BY DEF RunInv, TypeOK
<1>2. \A k \in Jobs : PhaseOf(job'[k].stage) = IF k = j THEN PhaseOf(q.stage) ELSE PhaseOf(job[k].stage)
  BY <1>1
<1>3. phase' = [phase EXCEPT ![j] = PhaseOf(q.stage)]
  BY <1>2 DEF phase
<1>4. tries' = tries
  BY <1>1 DEF tries
<1> QED
  BY <1>3, <1>4

\* A run goes on with its job, or what is no run stays none.
LEMMA OnStays ==
  ASSUME \A v \in Workers : (Running(v)' <=> Running(v)) /\ (Running(v) => run'[v].id = run[v].id)
  PROVE  on' = on
BY DEF on

LEMMA RetriedTick ==
  ASSUME RunInv, Tick
  PROVE  Retried!Next
<1> DEFINE S == {k \in Jobs : Poisoned(job[k])}
<1>0. job \in [Jobs -> Job] /\ run \in [Workers -> Run] /\ current \in Workers \cup {NoWorker}
  BY DEF RunInv, TypeOK
<1>1. S \in SUBSET Retried!Spent
  <2>1. ASSUME NEW k \in S PROVE k \in Jobs /\ phase[k] = "waiting" /\ tries[k] >= MaxAttempts
    BY <1>0, <2>1, JobPhases DEF Poisoned, phase, tries
  <2> QED
    BY <2>1 DEF Retried!Spent
<1>2. ASSUME NEW k \in Jobs
      PROVE  /\ PhaseOf(SetAside[k].stage) = IF k \in S THEN "abandoned" ELSE phase[k]
             /\ SetAside[k].attempts = tries[k]
  <2>1. job[k] \in Job
    BY <1>0
  <2>2. CASE Poisoned(job[k])
    <3>1. SetAside[k] = Saved(job[k], "failed") /\ OnDisk(job[k])
      BY <2>2 DEF SetAside, Poisoned, Waiting
    <3>2. Saved(job[k], "failed").stage = "failed" /\ PhaseOf("failed") = "abandoned"
      BY <2>1, <3>1, JobPhases
    <3>3. Saved(job[k], "failed").attempts = job[k].attempts
      BY <2>1, JobRecords DEF TerminalStages
    <3> QED
      BY <2>2, <3>1, <3>2, <3>3 DEF tries
  <2>3. CASE ~Poisoned(job[k])
    BY <2>3 DEF SetAside, phase, tries
  <2> QED
    BY <2>2, <2>3
<1>3. SetAside \in [Jobs -> Job]
  BY SetAsideFollows DEF RunInv, JobsFollow
<1> HIDE DEF S
\* The next job, and what becomes of it.
<1>4. ASSUME CanTick, NEW j \in Jobs, NextUp(j), NEW q, job' = [SetAside EXCEPT ![j] = q]
      PROVE  /\ current \in Workers /\ on[current] = 0 /\ phase[j] = "waiting" /\ tries[j] < MaxAttempts
             /\ phase' = Retried!With(j, PhaseOf(q.stage), S)
             /\ q.attempts = job[j].attempts => tries' = tries
             /\ q.attempts = job[j].attempts + 1 => tries' = Retried!Counted(j)
  <2>1. current \in Workers /\ ~Running(current) /\ on[current] = 0
    BY <1>0, <1>4 DEF CanTick, Running, on
  <2>2. phase[j] = "waiting" /\ tries[j] = job[j].attempts /\ tries[j] < MaxAttempts
    BY <1>0, <1>4, JobPhases DEF NextUp, Pending, phase, tries
  <2>3. \A k \in Jobs : job'[k] = IF k = j THEN q ELSE SetAside[k]
    BY <1>3, <1>4
  <2>4. phase' = Retried!With(j, PhaseOf(q.stage), S)
    <3>1. \A k \in Jobs : PhaseOf(job'[k].stage)
                              = IF k = j THEN PhaseOf(q.stage) ELSE IF k \in S THEN "abandoned" ELSE phase[k]
      BY <1>2, <2>3
    <3>2. phase' = [k \in Jobs |-> PhaseOf(job'[k].stage)]
      BY DEF phase
    <3> QED
      BY <3>1, <3>2 DEF Retried!With
  <2>5. \A k \in Jobs : job'[k].attempts = IF k = j THEN q.attempts ELSE tries[k]
    BY <1>2, <2>3
  <2>6. tries' = [k \in Jobs |-> job'[k].attempts] /\ tries = [k \in Jobs |-> tries[k]]
    BY DEF tries
  <2>7. q.attempts = job[j].attempts => tries' = tries
    <3> HIDE DEF tries
    <3> QED
      BY <2>2, <2>5, <2>6
  <2>8. q.attempts = job[j].attempts + 1 => tries' = Retried!Counted(j)
    <3> HIDE DEF tries
    <3> QED
      BY <2>2, <2>5, <2>6 DEF Retried!Counted
  <2> QED
    BY <2>1, <2>2, <2>4, <2>7, <2>8
<1>5. ASSUME NEW j \in Jobs, NextUp(j)
      PROVE  /\ SetAside[j] = job[j] /\ job[j] \in Job /\ OnDisk(job[j])
             /\ Taken(j) = [SetAside EXCEPT ![j] = MarkedRunning(job[j])]
             /\ Taken(j)[j] = MarkedRunning(job[j])
             /\ MarkedRunning(job[j]) \in Job /\ MarkedRunning(job[j]).attempts = job[j].attempts + 1
             /\ OnDisk(MarkedRunning(job[j]))
             /\ \A q : [Taken(j) EXCEPT ![j] = q] = [SetAside EXCEPT ![j] = q]
  <2>1. job[j] \in Job /\ OnDisk(job[j]) /\ job[j].attempts < MaxAttempts
    BY <1>0, <1>5 DEF NextUp, Pending, Waiting
  <2>2. SetAside[j] = job[j]
    BY <2>1, MaxAttemptsAssumption DEF SetAside, Poisoned, Job
  <2>3. Taken(j) = [SetAside EXCEPT ![j] = MarkedRunning(job[j])]
    BY <1>3, <2>2 DEF Taken
  <2>4. /\ MarkedRunning(job[j]) \in Job /\ MarkedRunning(job[j]).attempts = job[j].attempts + 1
        /\ OnDisk(MarkedRunning(job[j]))
    BY <2>1, JobRecords, JobPhases DEF Follows, OnDisk
  <2> HIDE DEF Taken
  <2>5. Taken(j)[j] = MarkedRunning(job[j]) /\ \A q : [Taken(j) EXCEPT ![j] = q] = [SetAside EXCEPT ![j] = q]
    BY <1>3, <2>3
  <2> QED
    BY <2>1, <2>2, <2>3, <2>4, <2>5
<1> HIDE DEF Taken, SetAside
<1>6. CASE TickSetsAside
  <2>1. \A k \in Jobs : PhaseOf(job'[k].stage) = (IF k \in S THEN "abandoned" ELSE phase[k]) /\ job'[k].attempts = tries[k]
    BY <1>2, <1>6 DEF TickSetsAside
  <2>2. phase' = Retried!All(S, "abandoned")
    <3>1. phase' = [k \in Jobs |-> PhaseOf(job'[k].stage)]
      BY DEF phase
    <3> QED
      BY <2>1, <3>1 DEF Retried!All
  <2>3. tries' = tries
    BY <2>1 DEF tries
  <2>4. on' = on
    BY <1>6 DEF TickSetsAside, on, Running
  <2>5. Retried!GiveUp
    BY <1>1, <2>2, <2>3, <2>4 DEF Retried!GiveUp
  <2> QED
    BY <2>5 DEF Retried!Next
\* Handed to an engine.
<1>7. ASSUME NEW j \in Jobs, LaunchClaim(j) \/ LaunchBill(j) PROVE Retried!Next
  <2>1. PICK at, todo : at \in {"unpacking", "reading"} /\ Launch(j, at, todo)
    BY <1>7 DEF LaunchClaim, LaunchBill
  <2>2. CanTick /\ NextUp(j) /\ job' = Taken(j)
    BY <2>1 DEF Launch
  <2>3. job' = [SetAside EXCEPT ![j] = MarkedRunning(job[j])] /\ job[j] \in Job
        /\ MarkedRunning(job[j]).attempts = job[j].attempts + 1
    BY <1>5, <2>2
  <2>4. PhaseOf(MarkedRunning(job[j]).stage) = "waiting"
    BY <2>3, JobPhases
  <2>5. /\ current \in Workers /\ on[current] = 0 /\ phase[j] = "waiting" /\ tries[j] < MaxAttempts
        /\ phase' = Retried!With(j, "waiting", S) /\ tries' = Retried!Counted(j)
    BY <1>4, <2>2, <2>3, <2>4
  <2>6. on' = [on EXCEPT ![current] = j]
    <3>1. run' = [run EXCEPT ![current] = [Idle EXCEPT !.at = at, !.id = j, !.todo = todo]]
      BY <2>1 DEF Launch
    <3>2. \A w \in Workers : w # current => run'[w] = run[w]
      BY <1>0, <2>5, <3>1
    <3>3. run'[current].at = at /\ run'[current].id = j
      BY <1>0, <2>5, <3>1 DEF Idle
    <3>4. \A w \in Workers : Running(w)' <=> w = current \/ Running(w)
      BY <2>1, <2>5, <3>2, <3>3 DEF Running
    <3> QED
      BY <2>5, <3>2, <3>3, <3>4 DEF on
  <2>7. Retried!TakeUp(current, j)
    BY <1>1, <2>5, <2>6 DEF Retried!TakeUp
  <2> QED
    BY <2>5, <2>7 DEF Retried!Next
\* Taken, and handed to none.
<1>8. ASSUME NEW j \in Jobs, CanTick, NextUp(j), NEW q, job' = [SetAside EXCEPT ![j] = q], on' = on,
             \/ q.attempts = job[j].attempts + 1 /\ PhaseOf(q.stage) \in {"waiting", "finished", "abandoned"}
             \/ q.attempts = job[j].attempts /\ PhaseOf(q.stage) \in {"waiting", "abandoned"}
      PROVE  Retried!Next
  <2>1. /\ current \in Workers /\ on[current] = 0 /\ phase[j] = "waiting" /\ tries[j] < MaxAttempts
        /\ phase' = Retried!With(j, PhaseOf(q.stage), S)
        /\ q.attempts = job[j].attempts => tries' = tries
        /\ q.attempts = job[j].attempts + 1 => tries' = Retried!Counted(j)
    BY <1>4, <1>8
  <2>2. Retried!TakeUp(current, j)
    BY <1>1, <1>8, <2>1 DEF Retried!TakeUp
  <2> QED
    BY <2>1, <2>2 DEF Retried!Next
<1>9. ASSUME NEW j \in Jobs, RerunEmptied(j) PROVE Retried!Next
  <2> DEFINE m == MarkedRunning(job[j])
  <2>1. CanTick /\ NextUp(j) /\ on' = on
    BY <1>9, OnStays DEF RerunEmptied, Running
  <2>2. Taken(j)[j] = m /\ m \in Job /\ m.attempts = job[j].attempts + 1 /\ OnDisk(m) /\ m.stage = "running"
    BY <1>5, <2>1, JobPhases
  <2>3. PICK q \in {Saved(m, "done"), Gutted(m)} : job' = [SetAside EXCEPT ![j] = q]
    BY <1>5, <1>9, <2>1, <2>2 DEF RerunEmptied, Ended
  <2> HIDE DEF m
  <2>4. q.attempts = m.attempts /\ PhaseOf(q.stage) \in {"waiting", "finished"}
    BY <2>2, <2>3, JobRecords, JobPhases DEF TerminalStages
  <2> QED
    BY <1>8, <2>1, <2>2, <2>3, <2>4
<1>10. ASSUME NEW j \in Jobs, FailLaunch(j) PROVE Retried!Next
  <2> DEFINE m == MarkedRunning(job[j])
  <2>1. CanTick /\ NextUp(j) /\ on' = on
    BY <1>10, OnStays DEF FailLaunch, Running
  <2>2. Taken(j)[j] = m /\ m \in Job /\ m.attempts = job[j].attempts + 1 /\ OnDisk(m) /\ m.stage = "running"
        /\ SetAside[j] = job[j] /\ job[j] \in Job /\ OnDisk(job[j])
    BY <1>5, <2>1, JobPhases
  <2>3. PICK r \in {m, job[j]} : job' = [SetAside EXCEPT ![j] = Saved(r, "failed")]
    BY <1>5, <1>10, <2>1, <2>2 DEF FailLaunch
  <2> HIDE DEF m
  <2>4. Saved(r, "failed").attempts = r.attempts /\ PhaseOf(Saved(r, "failed").stage) = "abandoned"
    BY <2>2, <2>3, JobRecords, JobPhases DEF TerminalStages
  <2> QED
    BY <1>8, <2>1, <2>2, <2>3, <2>4
<1>11. ASSUME NEW j \in Jobs, Jam(j) PROVE Retried!Next
  <2> DEFINE m == MarkedRunning(job[j])
  <2>1. CanTick /\ NextUp(j)
    BY <1>11 DEF Jam
  <2>2. m \in Job /\ m.attempts = job[j].attempts + 1 /\ m.stage = "running"
        /\ SetAside[j] = job[j] /\ job[j] \in Job /\ Waiting(job[j])
    BY <1>5, <2>1, JobPhases DEF NextUp, Pending
  <2>3. on' = on
    <3>1. current \in Workers /\ run[current].at = "idle"
      BY <1>0, <2>1 DEF CanTick
    <3>2. run'[current].at = "stuck" /\ \A v \in Workers \ {current} : run'[v] = run[v]
      BY <1>0, <1>11, <3>1 DEF Jam, Run
    <3> QED
      BY <3>1, <3>2, OnStays DEF Running
  <2>4. job' = [SetAside EXCEPT ![j] = Gutted(job[j])] \/ job' = [SetAside EXCEPT ![j] = m]
    BY <1>5, <1>11, <2>1, <2>2 DEF Jam
  <2>5. Gutted(job[j]).attempts = job[j].attempts /\ PhaseOf(Gutted(job[j]).stage) = "waiting"
        /\ PhaseOf(m.stage) = "waiting"
    BY <2>2, JobRecords, JobPhases
  <2> HIDE DEF m
  <2> QED
    BY <1>8, <2>1, <2>2, <2>3, <2>4, <2>5
<1> QED
  BY <1>6, <1>7, <1>9, <1>10, <1>11 DEF Tick

\* A run ends: its job ends too, or its last write was lost.
LEMMA RetriedSettle ==
  ASSUME RunInv, NEW w \in Workers, Running(w), NEW s \in TerminalStages, Settle(w, s)
  PROVE  Retried!Leave(w)
<1> DEFINE j == run[w].id
<1>1. /\ job \in [Jobs -> Job] /\ run \in [Workers -> Run]
      /\ j \in Jobs /\ job[j] \in Job /\ job[j].stage # "unborn" /\ on[w] = j /\ j # 0
  BY JobsAssumption DEF RunInv, RunsOwnJobs, TypeOK, on
<1>2. on' = [on EXCEPT ![w] = 0]
  <2>1. run'[w] = Idle /\ \A v \in Workers : v # w => run'[v] = run[v]
    BY <1>1 DEF Settle
  <2>2. \A v \in Workers : Running(v)' <=> v # w /\ Running(v)
    BY <2>1 DEF Running, Idle
  <2> QED
    BY <2>1, <2>2 DEF on
<1>3. PICK q \in {Saved(job[j], s), Gutted(job[j])} : job' = [job EXCEPT ![j] = q]
  BY DEF Settle, Ended
<1>4. q.attempts = job[j].attempts
  BY <1>1, <1>3, JobRecords
<1>5. PhaseOf(q.stage) = phase[j] \/ (OnDisk(job[j]) /\ PhaseOf(q.stage) \in Retried!Ends)
  <2>1. PhaseOf(s) \in Retried!Ends
    BY DEF TerminalStages, PhaseOf, PhaseIn, Retried!Ends
  <2> QED
    BY <1>1, <1>3, <2>1, JobPhases DEF phase
<1>6. OnDisk(job[j]) => phase[j] \in Retried!Ends \cup {"waiting"}
  BY <1>1, JobPhases DEF phase
<1> HIDE DEF j
<1>7. phase' = [phase EXCEPT ![j] = PhaseOf(q.stage)] /\ tries' = tries
  BY <1>1, <1>3, <1>4, PhaseChanges
<1>8. PhaseOf(q.stage) = phase[j] => phase' = phase
  BY <1>7 DEF phase
<1> QED
  BY <1>1, <1>2, <1>5, <1>6, <1>7, <1>8 DEF Retried!Leave, Retried!MayEnd

\* A stage written while the engine goes on: over an end, it reopens the job.
LEMMA RetriedMirror ==
  ASSUME RunInv, NEW w \in Workers, Running(w), on' = on,
         job' \in {job, [job EXCEPT ![run[w].id] = Saved(@, "running")]}
  PROVE  [Retried!Next]_(Retried!vars)
<1> DEFINE j == run[w].id
<1>1. j \in Jobs /\ job[j] \in Job /\ on[w] = j /\ j # 0
  BY JobsAssumption DEF RunInv, RunsOwnJobs, TypeOK, on
<1> DEFINE q == Saved(job[j], "running")
<1>2. /\ q.attempts = job[j].attempts
      /\ PhaseOf(q.stage) = IF OnDisk(job[j]) THEN "waiting" ELSE phase[j]
      /\ OnDisk(job[j]) => phase[j] \in Retried!Ends \cup {"waiting"}
  BY <1>1, JobRecords, JobPhases DEF phase
<1>3. job' = job \/ job' = [job EXCEPT ![j] = q]
  OBVIOUS
<1> HIDE DEF q, j
<1>4. CASE job' = job
  BY <1>4 DEF phase, tries, Retried!vars
<1>5. CASE job' = [job EXCEPT ![j] = q]
  <2>1. phase' = [phase EXCEPT ![j] = PhaseOf(q.stage)] /\ tries' = tries
    BY <1>1, <1>2, <1>5, PhaseChanges
  <2>2. CASE PhaseOf(q.stage) = phase[j]
    <3>1. phase' = phase
      BY <2>1, <2>2 DEF phase
    <3> QED
      BY <2>1, <3>1 DEF Retried!vars
  <2>3. CASE PhaseOf(q.stage) # phase[j]
    <3>1. Retried!Reopen(w)
      BY <1>1, <1>2, <2>1, <2>3 DEF Retried!Reopen
    <3> QED
      BY <3>1 DEF Retried!Next
  <2> QED
    BY <2>2, <2>3
<1> QED
  BY <1>3, <1>4, <1>5

LEMMA RetriedRun ==
  ASSUME RunInv, NEW w \in Workers, Step(w)
  PROVE  [Retried!Next]_(Retried!vars)
<1>0. run \in [Workers -> Run] /\ Running(w)
  BY StepKeepsOthers DEF RunInv, TypeOK
\* What changes of the run is neither whether it runs nor its job.
<1>1. ASSUME NEW r, run' = [run EXCEPT ![w] = r], r.at \notin {"idle", "stuck"}, r.id = run[w].id
      PROVE  on' = on
  <2>1. \A v \in Workers : (Running(v)' <=> Running(v)) /\ run'[v].id = run[v].id
    BY <1>0, <1>1 DEF Running
  <2> QED
    BY <2>1, OnStays
<1>2. ASSUME NEW s \in TerminalStages, Settle(w, s) PROVE Retried!Next
  BY <1>0, <1>2, RetriedSettle DEF Retried!Next
<1>3. ASSUME NEW at \in {"form", "reading", "saving"}, NEW todo, Move(w, at, todo),
             job' \in {job, [job EXCEPT ![run[w].id] = Saved(@, "running")]}
      PROVE  [Retried!Next]_(Retried!vars)
  <2> DEFINE r == [run[w] EXCEPT !.at = at, !.todo = todo]
  <2>1. run' = [run EXCEPT ![w] = r] /\ r.at = at /\ r.id = run[w].id
    BY <1>0, <1>3 DEF Move, Run
  <2> HIDE DEF r
  <2>2. on' = on
    BY <1>1, <2>1
  <2> QED
    BY <1>0, <1>3, <2>2, RetriedMirror
<1>4. ASSUME NEW at \in {"reading", "saving"}, NEW i, Proceed(w, at, i) PROVE [Retried!Next]_(Retried!vars)
  <2>1. CASE Settle(w, "done")
    BY <1>2, <2>1 DEF TerminalStages
  <2>2. CASE ~Settle(w, "done")
    <3> DEFINE r == [run[w] EXCEPT !.at = at, !.todo = run[w].todo \ {i}, !.item = NoItem, !.known = FALSE]
    <3>1. run' = [run EXCEPT ![w] = r] /\ job' = job
      BY <1>4, <2>2 DEF Proceed
    <3>2. r.at = at /\ r.id = run[w].id
      BY <1>0 DEF Run
    <3> HIDE DEF r
    <3>3. on' = on
      BY <1>1, <3>1, <3>2
    <3> QED
      BY <3>1, <3>3 DEF Retried!vars, phase, tries
  <2> QED
    BY <2>1, <2>2
<1>5. ASSUME NEW i, LookUp(w, i) PROVE [Retried!Next]_(Retried!vars)
  <2> DEFINE r == [run[w] EXCEPT !.at = "placing", !.item = i, !.known = Known(i)]
  <2>1. run' = [run EXCEPT ![w] = r] /\ job' = job /\ r.at = "placing" /\ r.id = run[w].id
    BY <1>0, <1>5 DEF LookUp, Run
  <2> HIDE DEF r
  <2>2. on' = on
    BY <1>1, <2>1
  <2> QED
    BY <2>1, <2>2 DEF Retried!vars, phase, tries
<1>6. CASE Unpacked(w) \/ FormRead(w) \/ GroupRead(w) \/ BillsUnpacked(w)
  <2>1. job' \in {job, [job EXCEPT ![run[w].id] = Saved(@, "running")]}
    BY <1>6 DEF Unpacked, FormRead, GroupRead, BillsUnpacked, Mirror
  <2>2. \E at \in {"form", "reading", "saving"} : \E todo : Move(w, at, todo)
    BY <1>6 DEF Unpacked, FormRead, GroupRead, BillsUnpacked
  <2> QED
    BY <1>3, <2>1, <2>2
<1>7. CASE StopAfterForm(w) \/ StopReading(w) \/ FailRun(w)
  BY <1>2, <1>7 DEF StopAfterForm, StopReading, FailRun, TerminalStages
<1>8. CASE PlaceRow(w) \/ \E i \in Items : ReadBill(w, i)
  BY <1>4, <1>8 DEF PlaceRow, ReadBill
<1> QED
  BY <1>5, <1>6, <1>7, <1>8 DEF Step

\* A cancel drops a job that waits, or one its engine's object has reopened.
LEMMA RetriedCancel ==
  ASSUME RunInv, NEW j \in Jobs, Cancel(j)
  PROVE  [Retried!Next]_(Retried!vars)
<1>0. job \in [Jobs -> Job] /\ run \in [Workers -> Run] /\ job[j] \in Job
  BY DEF RunInv, TypeOK
<1>1. on' = on
  <2>1. \A v \in Workers : run'[v].at = run[v].at /\ run'[v].id = run[v].id
    BY <1>0 DEF Cancel, Run
  <2> QED
    BY <2>1, OnStays DEF Running
<1> DEFINE r == IF j \in hooked THEN Saved(job[j], "running") ELSE job[j]
<1> DEFINE q == MarkedCancelled(r)
<1>2. r \in Job /\ r.attempts = job[j].attempts
  BY <1>0, JobRecords DEF Follows
<1>3. q.attempts = job[j].attempts
  <2> HIDE DEF r
  <2> QED
    BY <1>2, JobRecords
<1>4. job' = [job EXCEPT ![j] = q]
  BY DEF Cancel
<1>5. Waiting(job[j]) \/ (j \in hooked /\ OnDisk(job[j])) => PhaseOf(q.stage) = "dropped"
  <2> SUFFICES ASSUME Waiting(job[j]) \/ (j \in hooked /\ OnDisk(job[j])) PROVE PhaseOf(q.stage) = "dropped"
    OBVIOUS
  <2>1. Waiting(r)
    <3>1. OnDisk(job[j])
      BY DEF Waiting
    <3>2. PhaseOf(Saved(job[j], "running").stage) = "waiting" /\ Saved(job[j], "running") \in Job
      BY <1>0, <3>1, JobPhases, JobRecords, SMTT(40) DEF Follows
    <3>3. Waiting(Saved(job[j], "running"))
      BY <3>2, JobPhases
    <3> QED
      BY <3>3
  <2> HIDE DEF r
  <2>2. q = Saved(r, "cancelled") /\ OnDisk(r)
    BY <2>1 DEF MarkedCancelled, Waiting
  <2> HIDE DEF q
  <2> QED
    BY <1>2, <2>2, JobPhases
<1>6. ~Waiting(job[j]) /\ ~(j \in hooked /\ OnDisk(job[j])) => q = job[j]
  BY DEF MarkedCancelled, Saved
<1> HIDE DEF q, r
<1>7. phase' = [phase EXCEPT ![j] = PhaseOf(q.stage)] /\ tries' = tries
  BY <1>3, <1>4, PhaseChanges
<1>8. CASE Waiting(job[j]) \/ (j \in hooked /\ OnDisk(job[j]))
  <2>1. phase' = Retried!All({j}, "dropped")
    BY <1>5, <1>7, <1>8 DEF Retried!All, phase
  <2>2. phase[j] = "waiting" \/ (Retried!MayEnd(j) /\ ~Retried!Free(j))
    <3>1. CASE Waiting(job[j])
      BY <1>0, <3>1, JobPhases DEF phase
    <3>2. CASE j \in hooked /\ OnDisk(job[j])
      <4>1. listed[j] \in Workers /\ on[listed[j]] = j
        BY <3>2 DEF RunInv, TypeOK, ObjectsRun, on
      <4>2. phase[j] \in Retried!Ends \cup {"waiting"}
        BY <1>0, <3>2, JobPhases DEF phase
      <4> QED
        BY <4>1, <4>2 DEF Retried!MayEnd, Retried!Free
    <3> QED
      BY <1>8, <3>1, <3>2
  <2>3. Retried!Drop
    BY <1>1, <1>7, <2>1, <2>2 DEF Retried!Drop
  <2> QED
    BY <2>3 DEF Retried!Next
<1>9. CASE ~(Waiting(job[j]) \/ (j \in hooked /\ OnDisk(job[j])))
  <2>1. phase' = phase
    BY <1>6, <1>7, <1>9 DEF phase
  <2> QED
    BY <1>1, <1>7, <2>1 DEF Retried!vars
<1> QED
  BY <1>8, <1>9

LEMMA RetriedStep ==
  ASSUME RunInv, [Next]_vars
  PROVE  [Retried!Next]_(Retried!vars)
<1>0. job \in [Jobs -> Job] /\ run \in [Workers -> Run]
  BY DEF RunInv, TypeOK
<1>1. ASSUME NEW b \in Batches, Enqueue(b) PROVE Retried!Next
  <2>1. PICK j \in Jobs : job[j] = Unborn /\ job' = [job EXCEPT ![j] = NewJob(b)]
    BY <1>1 DEF Enqueue
  <2> DEFINE q == NewJob(b)
  <2>2. q.attempts = job[j].attempts /\ PhaseOf(q.stage) = "waiting"
    BY <2>1 DEF NewJob, Unborn, PhaseOf, PhaseIn
  <2>3. phase[j] = "absent"
    BY <2>1 DEF phase, PhaseOf, PhaseIn, Unborn
  <2> HIDE DEF q
  <2>4. phase' = [phase EXCEPT ![j] = "waiting"] /\ tries' = tries
    BY <2>1, <2>2, PhaseChanges DEF q
  <2>5. on' = on
    BY <1>1, OnStays DEF Enqueue, Running
  <2>6. Retried!Submit(j)
    BY <2>3, <2>4, <2>5 DEF Retried!Submit
  <2> QED
    BY <2>6 DEF Retried!Next
<1>2. ASSUME NEW j \in Jobs, Sweep(j) PROVE Retried!Next
  <2> DEFINE q == Swept(job[j])
  <2>1. phase[j] \in Retried!Ends /\ OnDisk(job[j]) /\ job[j] \in Job
    BY <1>0, <1>2, JobPhases DEF Sweep, phase
  <2>2. q.attempts = job[j].attempts /\ PhaseOf(q.stage) = "swept"
    BY <2>1, JobRecords, JobPhases
  <2>3. job' = [job EXCEPT ![j] = q]
    BY <1>2 DEF Sweep
  <2> HIDE DEF q
  <2>4. phase' = [phase EXCEPT ![j] = "swept"] /\ tries' = tries
    BY <2>2, <2>3, PhaseChanges
  <2>5. phase' = Retried!All({j}, "swept")
    BY <2>4 DEF Retried!All, phase
  <2>6. on' = on
    BY <1>2, OnStays DEF Sweep, Running
  <2>7. Retried!Sweep
    BY <2>1, <2>4, <2>5, <2>6 DEF Retried!Sweep, Retried!Swept
  <2> QED
    BY <2>7 DEF Retried!Next
<1>3. CASE Restart
  <2>1. PICK S \in SUBSET {j \in Jobs : active /\ Terminal(job[j])} :
           job' = [j \in Jobs |-> IF j \in S THEN Swept(job[j]) ELSE job[j]]
    BY <1>3 DEF Restart
  <2>2. \A j \in S : /\ phase[j] \in Retried!Ends /\ PhaseOf(Swept(job[j]).stage) = "swept"
                     /\ Swept(job[j]).attempts = job[j].attempts
    BY <1>0, JobRecords, JobPhases DEF phase
  <2>3. \A j \in Jobs : /\ PhaseOf(job'[j].stage) = IF j \in S THEN "swept" ELSE phase[j]
                        /\ job'[j].attempts = job[j].attempts
    BY <2>1, <2>2 DEF phase
  <2>4. phase' = Retried!All(S, "swept")
    <3>1. phase' = [j \in Jobs |-> PhaseOf(job'[j].stage)]
      BY DEF phase
    <3> QED
      BY <2>3, <3>1 DEF Retried!All
  <2>5. tries' = tries
    BY <2>3 DEF tries
  <2>6. on' = [w \in Workers |-> 0]
    BY <1>3 DEF Restart, on, Running, Idle
  <2>7. S \in SUBSET {j \in Jobs : phase[j] \in Retried!Ends}
    BY <2>2
  <2>8. Retried!Restart
    BY <2>4, <2>5, <2>6, <2>7 DEF Retried!Restart, Retried!Swept
  <2> QED
    BY <2>8 DEF Retried!Next
\* Nothing happens to the queue.
<1>4. CASE \/ \E j \in Jobs : Forget(j)
           \/ \E i \in Touched : TouchRow(i)
           \/ Disable \/ Enable \/ UNCHANGED vars
  <2>1. job' = job /\ \A v \in Workers : (Running(v)' <=> Running(v)) /\ (Running(v) => run'[v].id = run[v].id)
    BY <1>4 DEF Forget, TouchRow, RemoveRow, SetRowAside, BringBack, Disable, Enable, vars, files, Running, Idle
  <2>2. on' = on
    BY <2>1, OnStays
  <2> QED
    BY <2>1, <2>2 DEF phase, tries, Retried!vars
<1>5. CASE Tick
  BY <1>5, RetriedTick
<1>6. CASE \E w \in Workers : Step(w)
  BY <1>6, RetriedRun
<1>7. CASE \E j \in Jobs : Cancel(j)
  BY <1>7, RetriedCancel
<1> QED
  BY <1>1, <1>2, <1>3, <1>4, <1>5, <1>6, <1>7 DEF Next

\* The claim queue with its workers and engines implements RetriedJobs: an
\* import is handed to an engine only while it waits and only MAX_ATTEMPTS
\* times, each counted before; what changes after its end is the doing of an
\* engine still on it, and a job that was swept stays away.
THEOREM ImportsAreRetriedJobs == Spec => JobsAreRetried
<1>1. Init => Retried!Init
  <2> SUFFICES ASSUME Init PROVE Retried!Init
    OBVIOUS
  <2>1. \A j \in Jobs : PhaseOf(job[j].stage) = "absent" /\ job[j].attempts = 0
    BY DEF Init, Unborn, PhaseOf, PhaseIn
  <2>2. \A w \in Workers : ~Running(w)
    BY DEF Init, Running, Idle
  <2> QED
    BY <2>1, <2>2 DEF Retried!Init, phase, tries, on
<1>2. RunInv /\ [Next]_vars => [Retried!Next]_(Retried!vars)
  BY RetriedStep
<1> QED
  BY <1>1, <1>2, RunInvAlways, PTL DEF Spec, JobsAreRetried, Retried!Spec
=============================================================================
