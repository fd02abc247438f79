------------------------- MODULE EmailWorkerProofs -------------------------
(***************************************************************************)
(* EmailWorker for every mailbox, number of jobs, workers and attempts.    *)
(* One inductive invariant, RunInv, carries the bookkeeping of runs: that  *)
(* no job is run twice at once needs the in-flight set to be exact, which  *)
(* in turn needs that no job is run twice (or the end of one run would     *)
(* release the other).                                                     *)
(***************************************************************************)
EXTENDS EmailWorker, TLAPS

\* A claimed, failed, finished or wiped record is still a job record.
LEMMA JobRecords ==
  ASSUME NEW q \in Job
  PROVE  /\ Buried(q) \in Job /\ Claimed(q) \in Job /\ Failed(q) \in Job
         /\ Finished(q) \in Job /\ Wiped(q) \in Job
         /\ Claimed(q).attempts = q.attempts + 1
         /\ Buried(q).attempts = q.attempts /\ Failed(q).attempts = q.attempts
         /\ Finished(q).attempts = q.attempts /\ Wiped(q).attempts = q.attempts
         /\ Claimed(q).status = "processing"
         /\ Wiped(q).status \in {q.status, "cleared"}
         /\ q.status = "unborn" => Wiped(q).status = "unborn"
         /\ Claimed(q).mail = q.mail /\ Buried(q).mail = q.mail /\ Failed(q).mail = q.mail
         /\ Finished(q).mail = q.mail /\ Wiped(q).mail = q.mail
<1>1. /\ Buried(q) \in Job /\ Buried(q).attempts = q.attempts /\ Buried(q).mail = q.mail
  BY DEF Buried, Job, Statuses
<1>2. /\ Claimed(q) \in Job /\ Claimed(q).attempts = q.attempts + 1
      /\ Claimed(q).mail = q.mail /\ Claimed(q).status = "processing"
  <2>1. q.attempts + 1 \in Nat
    BY DEF Job
  <2>2. Claimed(q) \in Job
    BY <2>1 DEF Claimed, Job, Statuses
  <2>3. Claimed(q).attempts = q.attempts + 1
    BY DEF Claimed, Job, Statuses
  <2>4. Claimed(q).mail = q.mail /\ Claimed(q).status = "processing"
    BY DEF Claimed, Job, Statuses
  <2> QED
    BY <2>2, <2>3, <2>4
<1>3. Failed(q) \in Job /\ Failed(q).attempts = q.attempts /\ Failed(q).mail = q.mail
  <2>1. CASE OutOfAttempts(q)
    BY <1>1, <2>1 DEF Failed
  <2>2. CASE ~OutOfAttempts(q)
    BY <2>2 DEF Failed, Job, Statuses
  <2> QED
    BY <2>1, <2>2
<1>4. Finished(q) \in Job /\ Finished(q).attempts = q.attempts /\ Finished(q).mail = q.mail
  BY DEF Finished, Job, Statuses
<1>5. /\ Wiped(q) \in Job /\ Wiped(q).attempts = q.attempts /\ Wiped(q).mail = q.mail
      /\ Wiped(q).status \in {q.status, "cleared"}
      /\ q.status = "unborn" => Wiped(q).status = "unborn"
  BY DEF Wiped, OnDisk, Job, Statuses
<1> QED
  BY <1>1, <1>2, <1>3, <1>4, <1>5

\* Ending one run releases its job and no other: the in-flight set stays exact
\* because no two runs share a job.
LEMMA EndRunKeepsExact ==
  ASSUME RunInv, NEW w \in Workers, Busy(w), EndRun(w)
  PROVE  /\ run' \in [Workers -> Run] /\ inFlight' \subseteq Jobs
         /\ OneRunPerJob' /\ InFlightExact'
         /\ \A v \in Workers : v # w => run'[v] = run[v]
         /\ run'[w] = Idle
<1>1. run' = [run EXCEPT ![w] = Idle] /\ run \in [Workers -> Run]
  BY DEF EndRun, RunInv, TypeOK
<1>2. Idle \in Run
  BY DEF Idle, Run
<1>3. \A v \in Workers : (v # w => run'[v] = run[v]) /\ run'[w] = Idle
  BY <1>1
<1>4. \A v \in Workers : Busy(v)' <=> v # w /\ Busy(v)
  BY <1>3 DEF Busy, Idle
<1>5. OneRunPerJob'
  BY <1>3, <1>4 DEF OneRunPerJob, RunInv
<1>6. InFlightExact'
  BY <1>3, <1>4 DEF InFlightExact, EndRun, RunInv, OneRunPerJob
<1> QED
  BY <1>1, <1>2, <1>3, <1>5, <1>6 DEF EndRun, RunInv, TypeOK

\* A run that goes on with the same job leaves the in-flight set exact.
LEMMA RunMovesKeepsExact ==
  ASSUME RunInv, NEW w \in Workers, Busy(w), NEW r \in Run,
         r.at # "idle", r.id = run[w].id,
         run' = [run EXCEPT ![w] = r], inFlight' = inFlight
  PROVE  run' \in [Workers -> Run] /\ OneRunPerJob' /\ InFlightExact'
<1>1. run \in [Workers -> Run]
  BY DEF RunInv, TypeOK
<1>2. \A v \in Workers : (Busy(v)' <=> Busy(v)) /\ run'[v].id = run[v].id
  BY <1>1 DEF Busy
<1>3. OneRunPerJob'
  BY <1>2 DEF OneRunPerJob, RunInv
<1>4. InFlightExact'
  BY <1>2 DEF InFlightExact, RunInv
<1> QED
  BY <1>1, <1>3, <1>4

\* A row added by a run, and the run going on, whatever the document.
LEMMA AddRowKeepsInv ==
  ASSUME RunInv, NEW w \in Workers, Busy(w), NEW d \in Docs, AddRow(w, d),
         UNCHANGED <<job, current, inFlight, active, started, held, unread>>
  PROVE  RunInv'
<1> USE DEF RunInv
<1> DEFINE r == [run[w] EXCEPT !.at = "storing", !.doc = NoDoc, !.todo = @ \ {d}]
<1>1. run' = [run EXCEPT ![w] = r] /\ run[w] \in Run
  BY DEF AddRow, TypeOK
<1>2. r \in Run /\ r.at = "storing" /\ r.id = run[w].id
  BY <1>1 DEF Run
<1> HIDE DEF r
<1>3. run' \in [Workers -> Run] /\ OneRunPerJob' /\ InFlightExact'
  BY <1>1, <1>2, RunMovesKeepsExact
<1>4. run[w].id \in Jobs /\ job[run[w].id].mail \in Mails
  BY DEF RunsOwnJobs, JobsHaveMail
<1>5. TypeOK'
  BY <1>3, <1>4 DEF AddRow, TypeOK, Row, NewRow, Standings
<1>6. RunsOwnJobs'
  BY <1>1, <1>2 DEF RunsOwnJobs, Busy, TypeOK
<1> QED
  BY <1>3, <1>5, <1>6 DEF StartsCounted, JobsHaveMail

LEMMA RunInvInit == Init => RunInv
<1> SUFFICES ASSUME Init PROVE RunInv
  OBVIOUS
<1>1. TypeOK
  BY DEF Init, TypeOK, Unborn, Job, Statuses, Idle, Run
<1>2. \A w \in Workers : ~Busy(w)
  BY DEF Init, Busy, Idle
<1>3. InFlightExact
  BY <1>2 DEF Init, InFlightExact
<1>4. StartsCounted /\ JobsHaveMail
  BY MaxAttemptsAssumption DEF Init, StartsCounted, JobsHaveMail, Unborn
<1> QED
  BY <1>1, <1>2, <1>3, <1>4 DEF RunInv, OneRunPerJob, RunsOwnJobs

LEMMA RunInvNext == RunInv /\ [Next]_vars => RunInv'
<1> SUFFICES ASSUME RunInv, [Next]_vars PROVE RunInv'
  OBVIOUS
<1> USE DEF RunInv
<1>1. ASSUME NEW m \in Mails, Enqueue(m) PROVE RunInv'
  <2>1. PICK j \in Jobs : job[j] = Unborn /\ job' = [job EXCEPT ![j] = NewJob(m)]
    BY <1>1 DEF Enqueue
  <2>2. NewJob(m) \in Job
    BY DEF NewJob, Job, Statuses
  <2>3. TypeOK'
    BY <1>1, <2>1, <2>2 DEF Enqueue, TypeOK
  <2>4. RunsOwnJobs'
    BY <1>1, <2>1 DEF Enqueue, RunsOwnJobs, Busy, Unborn, TypeOK
  <2>5. StartsCounted' /\ JobsHaveMail'
    BY <1>1, <2>1, MaxAttemptsAssumption DEF Enqueue, StartsCounted, JobsHaveMail, TypeOK, Unborn, NewJob
  <2> QED
    BY <1>1, <2>3, <2>4, <2>5 DEF Enqueue, OneRunPerJob, InFlightExact, Busy
<1>2. ASSUME NEW j \in Jobs, DelayPasses(j) PROVE RunInv'
  <2>1. TypeOK'
    BY <1>2 DEF DelayPasses, TypeOK, Job
  <2>2. \A k \in Jobs : /\ job'[k].status = job[k].status /\ job'[k].attempts = job[k].attempts
                        /\ job'[k].mail = job[k].mail
    BY <1>2 DEF DelayPasses, TypeOK, Job
  <2> QED
    BY <1>2, <2>1, <2>2 DEF DelayPasses, OneRunPerJob, InFlightExact, Busy, RunsOwnJobs, StartsCounted, JobsHaveMail
<1>3. ASSUME NEW j \in Jobs, GiveUp(j) PROVE RunInv'
  <2>1. (\A w \in Workers : Busy(w) => run[w].id # j) /\ Actionable(job[j])
    BY <1>3 DEF GiveUp, NextDue, Eligible, Pending, InFlightExact
  <2>2. /\ job' = [job EXCEPT ![j] = Buried(job[j])] /\ Buried(job[j]) \in Job
        /\ Buried(job[j]).attempts = job[j].attempts /\ Buried(job[j]).mail = job[j].mail
    BY <1>3, JobRecords DEF GiveUp, TypeOK
  <2>3. TypeOK'
    BY <1>3, <2>2 DEF GiveUp, TypeOK
  <2>4. RunsOwnJobs'
    BY <1>3, <2>1, <2>2 DEF GiveUp, RunsOwnJobs, Busy, TypeOK
  <2>5. StartsCounted' /\ JobsHaveMail'
    BY <1>3, <2>1, <2>2 DEF GiveUp, StartsCounted, JobsHaveMail, Actionable, TypeOK
  <2> QED
    BY <1>3, <2>3, <2>4, <2>5 DEF GiveUp, OneRunPerJob, InFlightExact, Busy
<1>4. ASSUME NEW j \in Jobs, SkipRecorded(j) PROVE RunInv'
  <2>1. (\A w \in Workers : Busy(w) => run[w].id # j) /\ Actionable(job[j])
    BY <1>4 DEF SkipRecorded, NextDue, Eligible, Pending, InFlightExact
  <2> DEFINE q == Finished(Claimed(job[j]))
  <2>2. job' = [job EXCEPT ![j] = q]
    BY <1>4 DEF SkipRecorded
  <2>3. q \in Job /\ q.attempts = job[j].attempts + 1 /\ q.mail = job[j].mail
    BY JobRecords DEF TypeOK
  <2>4. job[j].attempts \in Nat /\ job[j].attempts < MaxAttempts /\ started[j] \in Nat
    BY <1>4, MaxAttemptsAssumption DEF SkipRecorded, OutOfAttempts, TypeOK, Job
  <2> HIDE DEF q
  <2>5. TypeOK'
    BY <1>4, <2>2, <2>3 DEF SkipRecorded, TypeOK
  <2>6. RunsOwnJobs'
    BY <1>4, <2>1, <2>2 DEF SkipRecorded, RunsOwnJobs, Busy, TypeOK
  <2>7. StartsCounted' /\ JobsHaveMail'
    BY <1>4, <2>1, <2>2, <2>3, <2>4, MaxAttemptsAssumption
    DEF SkipRecorded, StartsCounted, JobsHaveMail, Actionable, TypeOK
  <2> QED
    BY <1>4, <2>5, <2>6, <2>7 DEF SkipRecorded, OneRunPerJob, InFlightExact, Busy
<1>5. ASSUME NEW j \in Jobs, BeginRun(j) PROVE RunInv'
  <2> DEFINE r == [at |-> "parsing", id |-> j, todo |-> Unrecorded(job[j].mail), lost |-> {}, doc |-> NoDoc]
  <2>1. current \in Workers /\ ~Busy(current)
    BY <1>5 DEF BeginRun, CanTick, TypeOK
  <2>2. (\A w \in Workers : Busy(w) => run[w].id # j) /\ Actionable(job[j]) /\ job[j].mail \in Mails
    BY <1>5 DEF BeginRun, NextDue, Eligible, Pending, Actionable, InFlightExact, JobsHaveMail
  <2>3. run' = [run EXCEPT ![current] = r] /\ run \in [Workers -> Run] /\ inFlight' = inFlight \cup {j}
    BY <1>5 DEF BeginRun, TypeOK
  <2>4. r \in Run
    BY <2>2, DocsAssumption DEF Unrecorded, Run
  <2>5. r.at = "parsing" /\ r.id = j
    OBVIOUS
  <2>6. job' = [job EXCEPT ![j] = Claimed(job[j])]
    BY <1>5 DEF BeginRun
  <2>7. /\ Claimed(job[j]) \in Job /\ Claimed(job[j]).attempts = job[j].attempts + 1
        /\ Claimed(job[j]).mail = job[j].mail /\ Claimed(job[j]).status = "processing"
    BY JobRecords DEF TypeOK
  <2>8. job[j].attempts \in Nat /\ job[j].attempts < MaxAttempts /\ started[j] \in Nat
    BY <1>5, MaxAttemptsAssumption DEF BeginRun, OutOfAttempts, TypeOK, Job
  <2> HIDE DEF r
  <2>9. TypeOK'
    <3>1. job' \in [Jobs -> Job]
      BY <2>6, <2>7 DEF TypeOK
    <3>2. run' \in [Workers -> Run] /\ inFlight' \subseteq Jobs
      BY <2>3, <2>4 DEF TypeOK
    <3>3. started' \in [Jobs -> Nat] /\ held' \subseteq Jobs
      BY <1>5, <2>8 DEF BeginRun, TypeOK
    <3> QED
      BY <1>5, <3>1, <3>2, <3>3 DEF BeginRun, TypeOK
  <2>10. \A w \in Workers : (w # current => run'[w] = run[w]) /\ run'[current] = r
    BY <2>1, <2>3
  <2>11. \A w \in Workers : Busy(w)' <=> w = current \/ Busy(w)
    BY <2>5, <2>10 DEF Busy
  <2>12. OneRunPerJob' /\ InFlightExact'
    BY <2>1, <2>2, <2>3, <2>5, <2>10, <2>11 DEF OneRunPerJob, InFlightExact
  <2>13. RunsOwnJobs'
    BY <2>2, <2>5, <2>6, <2>7, <2>10, <2>11 DEF RunsOwnJobs, TypeOK
  <2>14. StartsCounted' /\ JobsHaveMail'
    BY <1>5, <2>2, <2>6, <2>7, <2>8, MaxAttemptsAssumption
    DEF BeginRun, StartsCounted, JobsHaveMail, TypeOK
  <2> QED
    BY <2>9, <2>12, <2>13, <2>14
<1>6. ASSUME NEW w \in Workers, HoldAfterParse(w) PROVE RunInv'
  <2>1. Busy(w) /\ EndRun(w)
    BY <1>6 DEF HoldAfterParse, Busy
  <2>2. /\ run' \in [Workers -> Run] /\ inFlight' \subseteq Jobs
        /\ OneRunPerJob' /\ InFlightExact'
        /\ \A v \in Workers : v # w => run'[v] = run[v]
        /\ run'[w] = Idle
    BY <2>1, EndRunKeepsExact
  <2>3. TypeOK'
    BY <1>6, <2>1, <2>2 DEF HoldAfterParse, TypeOK, RunsOwnJobs
  <2>4. RunsOwnJobs'
    BY <1>6, <2>2 DEF HoldAfterParse, RunsOwnJobs, Busy, Idle
  <2> QED
    BY <1>6, <2>2, <2>3, <2>4 DEF HoldAfterParse, StartsCounted, JobsHaveMail
<1>7. ASSUME NEW w \in Workers, ParseAnswers(w) PROVE RunInv'
  <2>0. PICK lost \in SUBSET run[w].todo : Read(w, lost)
    BY <1>7 DEF ParseAnswers
  <2> DEFINE r == [run[w] EXCEPT !.at = "storing", !.todo = @ \ lost, !.lost = lost]
  <2>1. Busy(w) /\ run' = [run EXCEPT ![w] = r] /\ inFlight' = inFlight /\ run[w] \in Run
    BY <1>7, <2>0 DEF ParseAnswers, Read, Busy, TypeOK
  <2>2. r \in Run /\ r.at = "storing" /\ r.id = run[w].id
    BY <2>1 DEF Run
  <2> HIDE DEF r
  <2>3. run' \in [Workers -> Run] /\ OneRunPerJob' /\ InFlightExact'
    BY <2>1, <2>2, RunMovesKeepsExact
  <2>4. TypeOK'
    BY <1>7, <2>3 DEF ParseAnswers, TypeOK
  <2>5. RunsOwnJobs'
    BY <1>7, <2>1, <2>2 DEF ParseAnswers, RunsOwnJobs, Busy, TypeOK
  <2> QED
    BY <1>7, <2>3, <2>4, <2>5 DEF ParseAnswers, StartsCounted, JobsHaveMail
<1>8. ASSUME NEW w \in Workers, FailRun(w) PROVE RunInv'
  <2>1. Busy(w) /\ EndRun(w)
    BY <1>8 DEF FailRun, Busy
  <2>2. /\ run' \in [Workers -> Run] /\ inFlight' \subseteq Jobs
        /\ OneRunPerJob' /\ InFlightExact'
        /\ \A v \in Workers : v # w => run'[v] = run[v]
        /\ run'[w] = Idle
    BY <2>1, EndRunKeepsExact
  <2> DEFINE j == run[w].id
             q == IF OnDisk(job[j]) THEN Failed(job[j]) ELSE job[j]
  <2>3. j \in Jobs /\ job[j].status # "unborn"
    BY <2>1 DEF RunsOwnJobs
  <2>4. job' \in {job, [job EXCEPT ![j] = q]}
    BY <1>8 DEF FailRun
  <2>5. q \in Job /\ q.attempts = job[j].attempts /\ q.mail = job[j].mail
    BY <2>3, JobRecords DEF TypeOK
  <2>6. \A v \in Workers : v # w /\ Busy(v) => run[v].id # j
    BY <2>1 DEF OneRunPerJob
  <2> HIDE DEF q
  <2>7. \A k \in Jobs : /\ job'[k] \in Job
                        /\ job'[k].attempts = job[k].attempts /\ job'[k].mail = job[k].mail
                        /\ k # j => job'[k] = job[k]
    BY <2>3, <2>4, <2>5 DEF TypeOK
  <2>8. TypeOK'
    BY <1>8, <2>2, <2>4, <2>5 DEF FailRun, TypeOK
  <2>9. RunsOwnJobs'
    BY <2>2, <2>6, <2>7 DEF RunsOwnJobs, Busy, Idle
  <2>10. StartsCounted' /\ JobsHaveMail'
    BY <1>8, <2>3, <2>7 DEF FailRun, StartsCounted, JobsHaveMail
  <2> QED
    BY <2>2, <2>8, <2>9, <2>10
<1>9. ASSUME NEW w \in Workers, NEW d \in Docs, StoreSkips(w, d) PROVE RunInv'
  <2> DEFINE r == [run[w] EXCEPT !.todo = @ \ {d}]
  <2>1. Busy(w) /\ run[w].at = "storing" /\ run' = [run EXCEPT ![w] = r] /\ inFlight' = inFlight /\ run[w] \in Run
    BY <1>9 DEF StoreSkips, Handed, Busy, TypeOK
  <2>2. r \in Run /\ r.at = "storing" /\ r.id = run[w].id
    BY <2>1 DEF Run
  <2> HIDE DEF r
  <2>3. run' \in [Workers -> Run] /\ OneRunPerJob' /\ InFlightExact'
    BY <2>1, <2>2, RunMovesKeepsExact
  <2>4. TypeOK'
    BY <1>9, <2>3 DEF StoreSkips, TypeOK
  <2>5. RunsOwnJobs'
    BY <1>9, <2>1, <2>2 DEF StoreSkips, RunsOwnJobs, Busy, TypeOK
  <2> QED
    BY <1>9, <2>3, <2>4, <2>5 DEF StoreSkips, StartsCounted, JobsHaveMail
<1>10. ASSUME NEW w \in Workers, NEW d \in Docs, StoreAdds(w, d) PROVE RunInv'
  <2> QED
    BY <1>10, AddRowKeepsInv DEF StoreAdds, Handed, Busy
<1>11. ASSUME NEW w \in Workers, PhotoKept(w) PROVE RunInv'
  <2>1. Busy(w) /\ run[w].doc \in Docs
    BY <1>11 DEF PhotoKept, RunsOwnJobs, Busy
  <2> QED
    BY <1>11, <2>1, AddRowKeepsInv DEF PhotoKept
<1>12. ASSUME NEW w \in Workers, NEW d \in Docs, StoreWaits(w, d) PROVE RunInv'
  <2> DEFINE r == [run[w] EXCEPT !.at = "keeping", !.doc = d]
  <2>1. Busy(w) /\ run' = [run EXCEPT ![w] = r] /\ inFlight' = inFlight /\ run[w] \in Run
    BY <1>12 DEF StoreWaits, Handed, Busy, TypeOK
  <2>2. r \in Run /\ r.at = "keeping" /\ r.id = run[w].id /\ r.doc = d
    BY <2>1 DEF Run
  <2> HIDE DEF r
  <2>3. run' \in [Workers -> Run] /\ OneRunPerJob' /\ InFlightExact'
    BY <2>1, <2>2, RunMovesKeepsExact
  <2>4. TypeOK'
    BY <1>12, <2>3 DEF StoreWaits, TypeOK
  <2>5. RunsOwnJobs'
    BY <1>12, <2>1, <2>2 DEF StoreWaits, RunsOwnJobs, Busy, TypeOK
  <2> QED
    BY <1>12, <2>3, <2>4, <2>5 DEF StoreWaits, StartsCounted, JobsHaveMail
<1>13. ASSUME NEW w \in Workers, FinishRun(w) PROVE RunInv'
  <2>1. Busy(w) /\ EndRun(w)
    BY <1>13 DEF FinishRun, Busy
  <2>2. /\ run' \in [Workers -> Run] /\ inFlight' \subseteq Jobs
        /\ OneRunPerJob' /\ InFlightExact'
        /\ \A v \in Workers : v # w => run'[v] = run[v]
        /\ run'[w] = Idle
    BY <2>1, EndRunKeepsExact
  <2> DEFINE j == run[w].id
             q == Finished(job[j])
  <2>3. j \in Jobs /\ job[j].status # "unborn"
    BY <2>1 DEF RunsOwnJobs
  <2>4. job' = [job EXCEPT ![j] = q]
    BY <1>13 DEF FinishRun
  <2>5. q \in Job /\ q.attempts = job[j].attempts /\ q.mail = job[j].mail
    BY <2>3, JobRecords DEF TypeOK
  <2>6. \A v \in Workers : v # w /\ Busy(v) => run[v].id # j
    BY <2>1 DEF OneRunPerJob
  <2> HIDE DEF q
  <2>7. TypeOK'
    <3>1. unread' \in [Jobs -> SUBSET Docs]
      <4>1. run[w].lost \in SUBSET Docs
        BY DEF TypeOK, Run
      <4> QED
        BY <1>13, <4>1 DEF FinishRun, TypeOK
    <3> QED
      BY <1>13, <2>2, <2>4, <2>5, <3>1 DEF FinishRun, TypeOK
  <2>8. RunsOwnJobs'
    BY <2>2, <2>4, <2>6 DEF RunsOwnJobs, Busy, Idle, TypeOK
  <2>9. StartsCounted' /\ JobsHaveMail'
    BY <1>13, <2>3, <2>4, <2>5 DEF FinishRun, StartsCounted, JobsHaveMail, TypeOK
  <2> QED
    BY <2>2, <2>7, <2>8, <2>9
<1>14. ASSUME StartWorker \/ Disable \/ Enable PROVE RunInv'
  <2>1. UNCHANGED <<job, run, inFlight, rows, started, held, unread>> /\ current' \in Workers \cup {NoWorker} /\ active' \in BOOLEAN
    BY <1>14 DEF StartWorker, Disable, Enable, TypeOK
  <2> QED
    BY <2>1 DEF TypeOK, OneRunPerJob, InFlightExact, Busy, RunsOwnJobs, StartsCounted, JobsHaveMail
<1>15. ASSUME ClearAll PROVE RunInv'
  <2>1. \A j \in Jobs : /\ job'[j] = Wiped(job[j]) /\ job'[j] \in Job
                        /\ job'[j].attempts = job[j].attempts /\ job'[j].mail = job[j].mail
                        /\ job'[j].status \in {job[j].status, "cleared"}
                        /\ job[j].status = "unborn" => job'[j].status = "unborn"
    <3> SUFFICES ASSUME NEW j \in Jobs
                 PROVE  /\ job'[j] = Wiped(job[j]) /\ job'[j] \in Job
                        /\ job'[j].attempts = job[j].attempts /\ job'[j].mail = job[j].mail
                        /\ job'[j].status \in {job[j].status, "cleared"}
                        /\ job[j].status = "unborn" => job'[j].status = "unborn"
      OBVIOUS
    <3>1. job'[j] = Wiped(job[j])
      BY <1>15 DEF ClearAll
    <3>2. job[j] \in Job
      BY DEF TypeOK
    <3> QED
      BY <3>1, <3>2, JobRecords
  <2>2. TypeOK'
    BY <1>15, <2>1 DEF ClearAll, TypeOK
  <2> QED
    BY <1>15, <2>1, <2>2 DEF ClearAll, OneRunPerJob, InFlightExact, Busy, RunsOwnJobs, StartsCounted, JobsHaveMail
<1>16. ASSUME Restart PROVE RunInv'
  <2>1. TypeOK'
    BY <1>16 DEF Restart, TypeOK, Idle, Run
  <2>2. \A w \in Workers : ~Busy(w)'
    BY <1>16 DEF Restart, Busy, Idle
  <2>3. OneRunPerJob' /\ InFlightExact' /\ RunsOwnJobs'
    BY <1>16, <2>2 DEF Restart, OneRunPerJob, InFlightExact, RunsOwnJobs
  <2> QED
    BY <1>16, <2>1, <2>3 DEF Restart, StartsCounted, JobsHaveMail
<1>17. ASSUME NEW x \in rows, Reject(x) \/ Revive(x) \/ DeleteRow(x) PROVE RunInv'
  <2>1. /\ UNCHANGED <<job, current, run, inFlight, active, started, held, unread>>
        /\ rows' \subseteq Row
    BY <1>17 DEF Reject, Revive, SetStanding, DeleteRow, TypeOK, Row, Standings
  <2> QED
    BY <2>1 DEF TypeOK, OneRunPerJob, InFlightExact, Busy, RunsOwnJobs, StartsCounted, JobsHaveMail
<1>18. CASE UNCHANGED vars
  BY <1>18 DEF vars, TypeOK, OneRunPerJob, InFlightExact, Busy, RunsOwnJobs, StartsCounted, JobsHaveMail
<1> QED
  BY <1>1, <1>2, <1>3, <1>4, <1>5, <1>6, <1>7, <1>8, <1>9, <1>10, <1>11, <1>12,
     <1>13, <1>14, <1>15, <1>16, <1>17, <1>18 DEF Next, Tick, Step

THEOREM RunInvariant == Spec => []RunInv
BY RunInvInit, RunInvNext, PTL DEF Spec

\* The types hold, for any mailbox and any number of jobs and workers.
THEOREM TypeCorrect == Spec => []TypeOK
BY RunInvariant, PTL DEF RunInv

\* Two workers never run the same email at once.
THEOREM NoJobRunTwice == Spec => []OneRunPerJob
BY RunInvariant, PTL DEF RunInv

\* An email is handed to the parser at most MaxAttempts times.
THEOREM RunsAreBounded == Spec => []RunsBounded
<1>1. RunInv => RunsBounded
  BY MaxAttemptsAssumption DEF RunInv, TypeOK, Job, StartsCounted, RunsBounded
<1> QED
  BY <1>1, RunInvariant, PTL

-----------------------------------------------------------------------------
(***************************************************************************)
(* What is stored: RowInv, on top of RunInv. It needs that the documents of *)
(* a mail can be told apart by name (NamesTellApart): where they cannot,   *)
(* DoneMeansBilled does not hold (MCEmailWorkerForward.cfg).               *)
(***************************************************************************)

\* What the worker skips as recorded has had a row for its bill.
LEMMA RecordedIsBilled ==
  ASSUME NamesTellApart, RowInv, NEW m \in Mails, NEW d \in DocsOf[m] \ Unrecorded(m)
  PROVE  BillOf[d] \in billed
<1>1. PICK r \in rows : SameMessagePart(r, m, d) \/ SameFile(r, d)
  BY DEF Unrecorded, Recorded
<1>2. r.doc \in DocsOf[r.mail] /\ BillOf[r.doc] \in billed
  BY DEF RowInv, RowsBilled
<1>3. r.doc = d
  BY <1>1, <1>2 DEF SameMessagePart, SameFile, NamesTellApart
<1> QED
  BY <1>2, <1>3

\* A step that adds no row and goes on with no run leaves what is stored right.
LEMMA NothingStored ==
  ASSUME RunInv, RowInv, rows' \subseteq rows, billed' = billed,
         \A w \in Workers : Busy(w)' => Busy(w) /\ run'[w] = run[w],
         \A j \in Jobs : job[j].status # "unborn" => job'[j].mail = job[j].mail,
         active' = active \/ Quiet
  PROVE  RowsBilled' /\ WorkBilled' /\ PhotosLast' /\ OneRowPerBill'
<1>1. RowsBilled' /\ OneRowPerBill'
  BY DEF RowInv, RowsBilled, OneRowPerBill
<1>2. \A w \in Workers : Busy(w) => job'[run[w].id].mail = job[run[w].id].mail
  BY DEF RunInv, RunsOwnJobs
<1>3. WorkBilled'
  BY <1>2 DEF RowInv, WorkBilled
<1>4. PhotosLast'
  BY DEF RowInv, PhotosLast, OnlyPhotosLeft, Busy, Quiet
<1> QED
  BY <1>1, <1>3, <1>4

\* A job that becomes "done" here is one whose bills are counted, or were not read.
LEMMA DoneKept ==
  ASSUME RowInv, billed \subseteq billed',
         \A j \in Jobs : job'[j].status = "done" =>
           \/ job[j].status = "done" /\ job'[j].mail = job[j].mail /\ unread'[j] = unread[j]
           \/ \A d \in DocsOf[job'[j].mail] : BillOf[d] \in billed \/ d \in unread'[j]
  PROVE  DoneMeansBilled'
BY DEF RowInv, DoneMeansBilled

\* A row that onInvoiceEmail adds is of the run's mail, and of a bill that had
\* no row, unless it is a photo.
LEMMA AddRowKeepsRows ==
  ASSUME RunInv, RowInv, NEW w \in Workers, Busy(w), NEW d \in run[w].todo,
         AddRow(w, d), ~Stored(d) \/ Kind[d] = "photo",
         UNCHANGED <<job, active, unread>>, run[w].at = "storing" \/ OnlyPhotosLeft(w)
  PROVE  RowInv'
<1> USE DEF RowInv
<1> DEFINE j == run[w].id
           r == NewRow(job[j].mail, d, j)
<1>1. rows' = rows \cup {r} /\ billed' = billed \cup {BillOf[d]}
  BY DEF AddRow
<1>2. run[w].todo \subseteq DocsOf[job[j].mail]
  BY DEF WorkBilled
<1>3. run \in [Workers -> Run]
  BY DEF RunInv, TypeOK
<1>4. /\ run'[w].at = "storing" /\ run'[w].todo = run[w].todo \ {d} /\ run'[w].id = j
      /\ run'[w].lost = run[w].lost
      /\ \A v \in Workers : v # w => run'[v] = run[v]
  BY <1>3 DEF AddRow, Run
<1> HIDE DEF j
<1>5. r.mail = job[j].mail /\ r.doc = d
  BY DEF NewRow
<1> HIDE DEF r
<1>6. RowsBilled'
  BY <1>1, <1>2, <1>5 DEF RowsBilled
<1>7. WorkBilled'
  BY <1>1, <1>2, <1>4 DEF WorkBilled, Busy, j
<1>8. PhotosLast'
  BY <1>4 DEF PhotosLast, OnlyPhotosLeft
<1>9. OneRowPerBill'
  BY <1>1, <1>5 DEF OneRowPerBill, Stored
<1>10. DoneMeansBilled'
  BY <1>1, DoneKept
<1> QED
  BY <1>6, <1>7, <1>8, <1>9, <1>10

LEMMA RowInvInit == Init => RowInv
BY DEF Init, RowInv, RowsBilled, WorkBilled, PhotosLast, OnlyPhotosLeft, OneRowPerBill,
       DoneMeansBilled, Busy, Idle, Unborn

LEMMA RowInvNext ==
  ASSUME NamesTellApart, RunInv, RowInv, [Next]_vars
  PROVE  RowInv'
<1>1. ASSUME NEW m \in Mails, Enqueue(m) PROVE RowInv'
  <2>1. PICK j \in Jobs : job[j] = Unborn /\ job' = [job EXCEPT ![j] = NewJob(m)]
    BY <1>1 DEF Enqueue
  <2>2. \A k \in Jobs : job[k].status # "unborn" => job'[k] = job[k]
    BY <2>1 DEF Unborn, RunInv, TypeOK
  <2>3. \A k \in Jobs : job'[k].status = "done" => job'[k] = job[k]
    BY <2>1 DEF NewJob, RunInv, TypeOK
  <2> QED
    BY <1>1, <2>2, <2>3, NothingStored, DoneKept DEF Enqueue, RowInv, Busy
<1>2. ASSUME NEW j \in Jobs, DelayPasses(j) PROVE RowInv'
  <2>1. \A k \in Jobs : job'[k].status = job[k].status /\ job'[k].mail = job[k].mail
    BY <1>2 DEF DelayPasses, RunInv, TypeOK, Job
  <2> QED
    BY <1>2, <2>1, NothingStored, DoneKept DEF DelayPasses, RowInv, Busy
<1>3. ASSUME StartWorker \/ Disable \/ Enable \/ UNCHANGED vars PROVE RowInv'
  BY <1>3, NothingStored, DoneKept DEF StartWorker, Disable, Enable, vars, RowInv, Busy
<1>4. ASSUME NEW j \in Jobs, GiveUp(j) PROVE RowInv'
  <2>1. \A k \in Jobs : job'[k].mail = job[k].mail /\ (job'[k].status = "done" => job[k].status = "done")
    BY <1>4 DEF GiveUp, Buried, RunInv, TypeOK, Job
  <2> QED
    BY <1>4, <2>1, NothingStored, DoneKept DEF GiveUp, RowInv, Busy
<1>5. ASSUME NEW j \in Jobs, SkipRecorded(j) PROVE RowInv'
  <2> DEFINE q == Finished(Claimed(job[j]))
  <2>1. job' = [job EXCEPT ![j] = q] /\ q.mail = job[j].mail
    BY <1>5, JobRecords DEF SkipRecorded, RunInv, TypeOK
  <2> HIDE DEF q
  <2>2. job[j].mail \in Mails
    BY <1>5 DEF SkipRecorded, NextDue, Eligible, Pending, Actionable, RunInv, JobsHaveMail
  <2>3. \A d \in DocsOf[job[j].mail] : BillOf[d] \in billed
    BY <1>5, <2>2, RecordedIsBilled DEF SkipRecorded
  <2>4. \A k \in Jobs : job'[k].mail = job[k].mail /\ (k # j => job'[k] = job[k])
    BY <2>1 DEF RunInv, TypeOK
  <2> QED
    BY <1>5, <2>3, <2>4, NothingStored, DoneKept DEF SkipRecorded, RowInv, Busy
<1>6. ASSUME NEW j \in Jobs, BeginRun(j) PROVE RowInv'
  <2> DEFINE m == job[j].mail
             r == [at |-> "parsing", id |-> j, todo |-> Unrecorded(m), lost |-> {}, doc |-> NoDoc]
  <2>1. current \in Workers /\ run' = [run EXCEPT ![current] = r]
    BY <1>6 DEF BeginRun, CanTick, RunInv, TypeOK
  <2>2. /\ run'[current].at = "parsing" /\ run'[current].id = j /\ run'[current].todo = Unrecorded(m)
        /\ run'[current].lost = {}
        /\ \A v \in Workers : v # current => run'[v] = run[v]
    BY <2>1 DEF RunInv, TypeOK
  <2>3. m \in Mails
    BY <1>6 DEF BeginRun, NextDue, Eligible, Pending, Actionable, RunInv, JobsHaveMail
  <2>4. \A k \in Jobs : job'[k].mail = job[k].mail /\ (job'[k].status = "done" => job[k].status = "done")
    BY <1>6, JobRecords DEF BeginRun, RunInv, TypeOK
  <2>5. \A d \in DocsOf[m] \ Unrecorded(m) : BillOf[d] \in billed
    BY <2>3, RecordedIsBilled
  <2>6. Unrecorded(m) \subseteq DocsOf[m]
    BY DEF Unrecorded
  <2> HIDE DEF m, r
  <2>7. WorkBilled'
    <3>1. ASSUME NEW w \in Workers, w # current, Busy(w)
          PROVE  job'[run[w].id].mail = job[run[w].id].mail
      BY <2>4, <3>1 DEF RunInv, RunsOwnJobs
    <3>2. job'[j].mail = m
      BY <2>4 DEF m
    <3> QED
      BY <1>6, <2>2, <2>5, <2>6, <3>1, <3>2 DEF BeginRun, RowInv, WorkBilled, Busy
  <2>8. PhotosLast'
    BY <1>6, <2>2 DEF BeginRun, RowInv, PhotosLast, OnlyPhotosLeft
  <2>9. DoneMeansBilled'
    BY <1>6, <2>4, DoneKept DEF BeginRun
  <2> QED
    BY <1>6, <2>7, <2>8, <2>9 DEF BeginRun, RowInv, RowsBilled, OneRowPerBill
<1>7. ASSUME NEW w \in Workers, HoldAfterParse(w) PROVE RowInv'
  <2>1. \A v \in Workers : Busy(v)' => Busy(v) /\ run'[v] = run[v]
    BY <1>7 DEF HoldAfterParse, EndRun, Busy, Idle, RunInv, TypeOK
  <2> QED
    BY <1>7, <2>1, NothingStored, DoneKept DEF HoldAfterParse, RowInv
<1>8. ASSUME NEW w \in Workers, ParseAnswers(w) PROVE RowInv'
  <2>1. PICK lost \in SUBSET run[w].todo : Read(w, lost)
    BY <1>8 DEF ParseAnswers
  <2>2. /\ active /\ active' = active /\ Busy(w) /\ rows' = rows /\ billed' = billed /\ job' = job
        /\ unread' = unread /\ run[w].at = "parsing"
        /\ run'[w].at = "storing" /\ run'[w].id = run[w].id
        /\ run'[w].todo = run[w].todo \ lost /\ run'[w].lost = lost
        /\ \A v \in Workers : v # w => run'[v] = run[v]
    BY <1>8, <2>1 DEF ParseAnswers, Read, Busy, RunInv, TypeOK, Run
  <2>3. WorkBilled'
    BY <2>2 DEF RowInv, WorkBilled, Busy
  <2> QED
    BY <2>2, <2>3 DEF RowInv, RowsBilled, PhotosLast, OnlyPhotosLeft, OneRowPerBill, DoneMeansBilled
<1>9. ASSUME NEW w \in Workers, FailRun(w) PROVE RowInv'
  <2>1. \A v \in Workers : Busy(v)' => Busy(v) /\ run'[v] = run[v]
    BY <1>9 DEF FailRun, EndRun, Busy, Idle, RunInv, TypeOK
  <2>2. \A k \in Jobs : job'[k].mail = job[k].mail /\ (job'[k].status = "done" => job[k].status = "done")
    <3>1. \A q \in Job : Failed(q).status # "done" /\ Failed(q).mail = q.mail
      BY DEF Failed, Buried, Job
    <3> QED
      BY <1>9, <3>1 DEF FailRun, RunInv, TypeOK
  <2> QED
    BY <1>9, <2>1, <2>2, NothingStored, DoneKept DEF FailRun, RowInv
<1>10. ASSUME NEW w \in Workers, NEW d \in Docs, StoreSkips(w, d) PROVE RowInv'
  <2>1. /\ active' = active /\ Busy(w) /\ rows' = rows /\ billed' = billed /\ job' = job
        /\ run[w].at = "storing" /\ run'[w].at = "storing"
        /\ run'[w].id = run[w].id /\ run'[w].todo = run[w].todo \ {d}
        /\ run'[w].lost = run[w].lost /\ unread' = unread
        /\ \A v \in Workers : v # w => run'[v] = run[v]
    BY <1>10 DEF StoreSkips, Handed, Busy, RunInv, TypeOK, Run
  <2>2. BillOf[d] \in billed
    BY <1>10 DEF StoreSkips, Stored, RowInv, RowsBilled
  <2>3. WorkBilled'
    BY <2>1, <2>2 DEF RowInv, WorkBilled, Busy
  <2> QED
    BY <2>1, <2>3 DEF RowInv, RowsBilled, PhotosLast, OnlyPhotosLeft, OneRowPerBill, DoneMeansBilled
<1>11. ASSUME NEW w \in Workers, NEW d \in Docs, StoreAdds(w, d) PROVE RowInv'
  BY <1>11, AddRowKeepsRows DEF StoreAdds, Handed, Busy
<1>12. ASSUME NEW w \in Workers, PhotoKept(w) PROVE RowInv'
  <2>1. Busy(w) /\ run[w].doc \in run[w].todo /\ OnlyPhotosLeft(w)
    BY <1>12 DEF PhotoKept, Busy, RowInv, PhotosLast
  <2> QED
    BY <1>12, <2>1, AddRowKeepsRows DEF PhotoKept, OnlyPhotosLeft
<1>13. ASSUME NEW w \in Workers, NEW d \in Docs, StoreWaits(w, d) PROVE RowInv'
  <2>1. /\ active' = active /\ Busy(w) /\ rows' = rows /\ billed' = billed /\ job' = job
        /\ d \in run[w].todo /\ OnlyPhotosLeft(w)
        /\ run'[w].at = "keeping" /\ run'[w].doc = d
        /\ run'[w].id = run[w].id /\ run'[w].todo = run[w].todo
        /\ run'[w].lost = run[w].lost /\ unread' = unread
        /\ \A v \in Workers : v # w => run'[v] = run[v]
    BY <1>13 DEF StoreWaits, Handed, OnlyPhotosLeft, Busy, RunInv, TypeOK, Run
  <2> QED
    BY <2>1 DEF RowInv, RowsBilled, WorkBilled, PhotosLast, OnlyPhotosLeft, OneRowPerBill,
                DoneMeansBilled, Busy
<1>14. ASSUME NEW w \in Workers, FinishRun(w) PROVE RowInv'
  <2> DEFINE j == run[w].id
             q == Finished(job[j])
  <2>1. \A v \in Workers : Busy(v)' => Busy(v) /\ run'[v] = run[v]
    BY <1>14 DEF FinishRun, EndRun, Busy, Idle, RunInv, TypeOK
  <2>2. j \in Jobs /\ \A d \in DocsOf[job[j].mail] : BillOf[d] \in billed \/ d \in run[w].lost
    BY <1>14 DEF FinishRun, Busy, RowInv, WorkBilled, RunInv, RunsOwnJobs
  <2>3. job' = [job EXCEPT ![j] = q] /\ q.mail = job[j].mail
    BY <1>14, <2>2, JobRecords DEF FinishRun, RunInv, TypeOK
  <2> HIDE DEF q
  <2>4. \A k \in Jobs : job'[k].mail = job[k].mail /\ (k # j => job'[k] = job[k])
    BY <2>3 DEF RunInv, TypeOK
  <2>5. unread'[j] = run[w].lost /\ \A k \in Jobs : k # j => unread'[k] = unread[k]
    BY <1>14, <2>2 DEF FinishRun, RunInv, TypeOK
  <2> QED
    BY <1>14, <2>1, <2>2, <2>4, <2>5, NothingStored, DoneKept DEF FinishRun, RowInv
<1>15. ASSUME ClearAll PROVE RowInv'
  <2>1. \A k \in Jobs : job'[k].mail = job[k].mail /\ (job'[k].status = "done" => job[k].status = "done")
    BY <1>15, JobRecords DEF ClearAll, RunInv, TypeOK
  <2> QED
    BY <1>15, <2>1, NothingStored, DoneKept DEF ClearAll, RowInv, Busy
<1>16. ASSUME Restart PROVE RowInv'
  BY <1>16, NothingStored, DoneKept DEF Restart, RowInv, Busy, Idle
<1>17. ASSUME NEW x \in rows, Reject(x) \/ Revive(x) \/ DeleteRow(x) PROVE RowInv'
  <2>1. UNCHANGED <<job, run, active, billed, unread>>
    BY <1>17 DEF Reject, Revive, SetStanding, DeleteRow
  <2>2. \A r \in rows' \ rows : r.mail = x.mail /\ r.doc = x.doc /\ r.standing # "live"
    BY <1>17 DEF Reject, Revive, SetStanding, DeleteRow, RunInv, TypeOK, Row
  <2>3. RowsBilled'
    BY <2>1, <2>2 DEF RowInv, RowsBilled
  <2>4. OneRowPerBill'
    BY <2>2 DEF RowInv, OneRowPerBill
  <2> QED
    BY <2>1, <2>3, <2>4 DEF RowInv, WorkBilled, PhotosLast, OnlyPhotosLeft, DoneMeansBilled, Busy
<1> QED
  BY <1>1, <1>2, <1>3, <1>4, <1>5, <1>6, <1>7, <1>8, <1>9, <1>10, <1>11, <1>12, <1>13,
     <1>14, <1>15, <1>16, <1>17 DEF Next, Tick, Step

THEOREM RowInvariant == ASSUME NamesTellApart PROVE Spec => []RowInv
<1>1. RunInv /\ RowInv /\ [Next]_vars => RowInv'
  BY RowInvNext
<1> QED
  BY <1>1, RowInvInit, RunInvariant, PTL DEF Spec

\* A job is deleted as finished only when every bill of its email has had a
\* row, whatever crashes, partial runs and redeliveries came before.
THEOREM NothingFinishedUnbilled == ASSUME NamesTellApart PROVE Spec => []DoneMeansBilled
BY RowInvariant, PTL DEF RowInv

\* A bill read from a text is not stored twice, however often it arrives.
THEOREM NoTextBillTwice == ASSUME NamesTellApart PROVE Spec => []OneRowPerBill
BY RowInvariant, PTL DEF RowInv

\* No row is made from a text while the account is disabled.
THEOREM TextsStoredWhileActive == ASSUME NamesTellApart PROVE Spec => NoTextRowWhileDisabled
<1>1. ASSUME RunInv, RowInv, [Next]_vars, NEW r \in Added, Kind[r.doc] # "photo" PROVE active
  <2>1. ASSUME NEW x \in rows, Reject(x) \/ Revive(x) \/ DeleteRow(x) PROVE FALSE
    <3>1. x \in Row
      BY <1>1 DEF RunInv, TypeOK
    <3>2. r = [x EXCEPT !.standing = "rejected"] \/ r = [x EXCEPT !.standing = "revived"]
      BY <1>1, <2>1 DEF Added, Reject, Revive, SetStanding, DeleteRow
    <3> QED
      BY <1>1, <3>1, <3>2 DEF Added, Row
  <2>2. rows' \subseteq rows \/ \E w \in Workers : PhotoKept(w) \/ \E d \in Docs : StoreAdds(w, d)
    BY <1>1, <2>1 DEF Next, Tick, Step, vars, Enqueue, DelayPasses, GiveUp,
        SkipRecorded, BeginRun, HoldAfterParse, ParseAnswers, FailRun, StoreSkips, StoreWaits,
        FinishRun, StartWorker, Disable, Enable, ClearAll, Restart
  <2>3. PICK w \in Workers : PhotoKept(w) \/ \E d \in Docs : StoreAdds(w, d)
    BY <1>1, <2>2 DEF Added
  <2>4. ~PhotoKept(w)
    BY <1>1 DEF PhotoKept, AddRow, NewRow, Added, RowInv, PhotosLast, OnlyPhotosLeft
  <2> QED
    BY <1>1, <2>3, <2>4 DEF StoreAdds, Handed, RowInv, PhotosLast, OnlyPhotosLeft
<1>2. RunInv /\ RowInv /\ [Next]_vars => [\A r \in Added : Kind[r.doc] # "photo" => active]_vars
  BY <1>1
<1> QED
  BY <1>2, RunInvariant, RowInvariant, PTL DEF Spec, NoTextRowWhileDisabled

-----------------------------------------------------------------------------
(* The queue is one of RetriedJobs.                                        *)

\* A run goes on with its job.
LEMMA OnMoves ==
  ASSUME RunInv, NEW w \in Workers, Busy(w), NEW r, r.at # "idle", r.id = run[w].id,
         run' = [run EXCEPT ![w] = r]
  PROVE  on' = on
<1>1. run \in [Workers -> Run]
  BY DEF RunInv, TypeOK
<1>2. \A v \in Workers : (Busy(v)' <=> Busy(v)) /\ run'[v].id = run[v].id
  BY <1>1 DEF Busy
<1> QED
  BY <1>2 DEF on

\* A run ends.
LEMMA OnLeft ==
  ASSUME RunInv, NEW w \in Workers, Busy(w), EndRun(w)
  PROVE  on[w] # 0 /\ on[w] = run[w].id /\ run[w].id \in Jobs /\ on' = [on EXCEPT ![w] = 0]
<1>1. run[w].id \in Jobs /\ run[w].id # 0
  BY JobsAssumption DEF RunInv, RunsOwnJobs
<1>2. \A v \in Workers : (v # w => run'[v] = run[v]) /\ run'[w] = Idle
  BY EndRunKeepsExact
<1>3. \A v \in Workers : Busy(v)' <=> v # w /\ Busy(v)
  BY <1>2 DEF Busy, Idle
<1>4. on' = [on EXCEPT ![w] = 0]
  BY <1>2, <1>3 DEF on
<1> QED
  BY <1>1, <1>4 DEF on

\* A job changes, and no other.
LEMMA PhaseChanges ==
  ASSUME RunInv, NEW j \in Jobs, NEW q \in Job, job' = [job EXCEPT ![j] = q]
  PROVE  /\ phase' = [phase EXCEPT ![j] = PhaseOf(q.status)]
         /\ q.attempts = job[j].attempts => tries' = tries
         /\ q.attempts = job[j].attempts + 1 => tries' = [tries EXCEPT ![j] = @ + 1]
<1>1. job \in [Jobs -> Job]
  BY DEF RunInv, TypeOK
<1>2. \A k \in Jobs : job'[k] = IF k = j THEN q ELSE job[k]
  BY <1>1
<1>3. phase' = [phase EXCEPT ![j] = PhaseOf(q.status)]
  <2>1. \A k \in Jobs : phase'[k] = PhaseOf(job'[k].status) /\ phase[k] = PhaseOf(job[k].status)
    BY DEF phase
  <2>2. phase' = [k \in Jobs |-> phase'[k]] /\ phase = [k \in Jobs |-> phase[k]]
    BY DEF phase
  <2>3. \A k \in Jobs : phase'[k] = IF k = j THEN PhaseOf(q.status) ELSE phase[k]
    BY <1>2, <2>1
  <2> HIDE DEF phase
  <2> QED
    BY <2>2, <2>3
<1>4. \A k \in Jobs : tries'[k] = IF k = j THEN q.attempts ELSE tries[k]
  BY <1>2 DEF tries
<1>5. tries' = [k \in Jobs |-> tries'[k]] /\ tries = [k \in Jobs |-> tries[k]]
  BY DEF tries
<1>6. tries[j] = job[j].attempts
  BY DEF tries
<1> HIDE DEF tries
<1> QED
  BY <1>3, <1>4, <1>5, <1>6

LEMMA JobPhases ==
  ASSUME NEW q \in Job
  PROVE  /\ PhaseOf("unborn") = "absent" /\ PhaseOf("pending") = "waiting" /\ PhaseOf("processing") = "waiting"
         /\ PhaseOf("done") = "finished" /\ PhaseOf("dead") = "abandoned" /\ PhaseOf("cleared") = "dropped"
         /\ Actionable(q) <=> PhaseOf(q.status) = "waiting"
         /\ OnDisk(q) <=> PhaseOf(q.status) \in {"waiting", "abandoned"}
         /\ Buried(q).status = "dead"
         /\ Failed(q).status \in {"pending", "dead"}
         /\ Finished(q).status = IF OnDisk(q) THEN "done" ELSE q.status
         /\ Wiped(q).status = IF OnDisk(q) THEN "cleared" ELSE q.status
<1>1. /\ PhaseOf("unborn") = "absent" /\ PhaseOf("pending") = "waiting" /\ PhaseOf("processing") = "waiting"
      /\ PhaseOf("done") = "finished" /\ PhaseOf("dead") = "abandoned" /\ PhaseOf("cleared") = "dropped"
  BY DEF PhaseOf, PhaseIn
<1>2. q.status \in {"unborn", "pending", "processing", "dead", "done", "cleared"}
  BY DEF Job, Statuses
<1>3. Actionable(q) <=> PhaseOf(q.status) = "waiting"
  BY <1>1, <1>2 DEF Actionable
<1>4. OnDisk(q) <=> PhaseOf(q.status) \in {"waiting", "abandoned"}
  BY <1>1, <1>2 DEF OnDisk
<1>5. Buried(q).status = "dead"
  BY DEF Buried, Job
<1>6. Failed(q).status \in {"pending", "dead"}
  BY <1>5 DEF Failed, Job
<1>7. Finished(q).status = IF OnDisk(q) THEN "done" ELSE q.status
  BY DEF Finished, Job
<1>8. Wiped(q).status = IF OnDisk(q) THEN "cleared" ELSE q.status
  BY DEF Wiped, Job
<1> QED
  BY <1>1, <1>3, <1>4, <1>5, <1>6, <1>7, <1>8

\* A tick takes up a job that RetriedJobs lets it take up.
LEMMA Takeable ==
  ASSUME RunInv, NEW j \in Jobs, CanTick, NextDue(j)
  PROVE  /\ current \in Workers /\ ~Busy(current) /\ on[current] = 0
         /\ \A w \in Workers : on[w] # j
         /\ phase[j] = "waiting" /\ job[j] \in Job /\ tries[j] = job[j].attempts
         /\ tries[j] \in Nat
<1>1. current \in Workers /\ ~Busy(current) /\ job[j] \in Job
  BY DEF CanTick, RunInv, TypeOK
<1>2. j \notin inFlight /\ Actionable(job[j])
  BY DEF NextDue, Eligible, Pending
<1>3. j # 0
  BY JobsAssumption
<1>4. \A w \in Workers : on[w] # j
  BY <1>2, <1>3 DEF on, RunInv, InFlightExact
<1>5. phase[j] = "waiting" /\ tries[j] = job[j].attempts
  BY <1>1, <1>2, JobPhases DEF phase, tries
<1>6. tries[j] \in Nat
  BY <1>1, <1>5 DEF Job
<1> QED
  BY <1>1, <1>4, <1>5, <1>6 DEF on

LEMMA RetriedTick ==
  ASSUME RunInv, NEW j \in Jobs, GiveUp(j) \/ SkipRecorded(j) \/ BeginRun(j)
  PROVE  Retried!Next
<1>1. CanTick /\ NextDue(j) /\ job[j] \in Job
  BY DEF GiveUp, SkipRecorded, BeginRun, RunInv, TypeOK
<1>2. /\ current \in Workers /\ ~Busy(current) /\ on[current] = 0
      /\ \A w \in Workers : on[w] # j
      /\ phase[j] = "waiting" /\ tries[j] = job[j].attempts /\ tries[j] \in Nat
  BY <1>1, Takeable
<1>3. CASE GiveUp(j)
  <2>1. tries[j] >= MaxAttempts
    BY <1>2, <1>3 DEF GiveUp, OutOfAttempts
  <2>2. job' = [job EXCEPT ![j] = Buried(job[j])] /\ run' = run
    BY <1>3 DEF GiveUp
  <2>3. phase' = [phase EXCEPT ![j] = "abandoned"] /\ tries' = tries
    <3> DEFINE q == Buried(job[j])
    <3>1. q \in Job /\ q.attempts = job[j].attempts /\ PhaseOf(q.status) = "abandoned"
      BY <1>1, JobRecords, JobPhases
    <3>2. job' = [job EXCEPT ![j] = q]
      BY <2>2
    <3> HIDE DEF q
    <3> QED
      BY <3>1, <3>2, PhaseChanges
  <2>4. on' = on
    BY <2>2 DEF on, Busy
  <2>5. {j} \in SUBSET Retried!Spent
    BY <1>2, <2>1 DEF Retried!Spent
  <2>6. phase' = Retried!All({j}, "abandoned")
    BY <2>3 DEF Retried!All, phase
  <2>7. Retried!GiveUp
    BY <2>3, <2>4, <2>5, <2>6 DEF Retried!GiveUp
  <2> QED
    BY <2>7 DEF Retried!Next
<1>4. CASE SkipRecorded(j) \/ BeginRun(j)
  <2> DEFINE q == IF BeginRun(j) THEN Claimed(job[j]) ELSE Finished(Claimed(job[j]))
  <2>1. job' = [job EXCEPT ![j] = q]
    BY <1>4 DEF SkipRecorded, BeginRun
  <2>2. tries[j] < MaxAttempts
    BY <1>2, <1>4, MaxAttemptsAssumption DEF SkipRecorded, BeginRun, OutOfAttempts
  <2>3. q \in Job /\ q.attempts = job[j].attempts + 1
    BY <1>1, JobRecords
  <2>4. PhaseOf(q.status) = IF BeginRun(j) THEN "waiting" ELSE "finished"
    <3>1. Claimed(job[j]) \in Job /\ Claimed(job[j]).status = "processing"
      BY <1>1, JobRecords
    <3>2. OnDisk(Claimed(job[j]))
      BY <3>1 DEF OnDisk
    <3> QED
      BY <3>1, <3>2, JobPhases
  <2> HIDE DEF q
  <2>5. phase' = [phase EXCEPT ![j] = PhaseOf(q.status)] /\ tries' = [tries EXCEPT ![j] = @ + 1]
    BY <2>1, <2>3, PhaseChanges
  <2>6. tries' = Retried!Counted(j)
    BY <2>5 DEF Retried!Counted
  <2>7. {} \in SUBSET Retried!Spent
    OBVIOUS
  <2>8. phase' = Retried!With(j, PhaseOf(q.status), {})
    BY <2>5 DEF Retried!With, phase
  <2>9. CASE BeginRun(j)
    <3>1. run' = [run EXCEPT ![current] =
                    [at |-> "parsing", id |-> j, todo |-> Unrecorded(job[j].mail), lost |-> {}, doc |-> NoDoc]]
      BY <2>9 DEF BeginRun
    <3>2. \A w \in Workers : /\ w # current => run'[w] = run[w]
                            /\ run'[current].at = "parsing" /\ run'[current].id = j
      BY <1>2, <3>1 DEF RunInv, TypeOK
    <3>3. on' = [on EXCEPT ![current] = j]
      BY <1>2, <3>2 DEF on, Busy
    <3>4. Retried!TakeUp(current, j)
      BY <1>2, <2>2, <2>4, <2>6, <2>7, <2>8, <2>9, <3>3 DEF Retried!TakeUp, Retried!Free
    <3> QED
      BY <1>2, <3>4 DEF Retried!Next
  <2>10. CASE ~BeginRun(j)
    <3>1. on' = on
      BY <1>4, <2>10 DEF SkipRecorded, on, Busy
    <3>2. Retried!TakeUp(current, j)
      BY <1>2, <2>2, <2>4, <2>6, <2>7, <2>8, <2>10, <3>1 DEF Retried!TakeUp, Retried!Free
    <3> QED
      BY <1>2, <3>2 DEF Retried!Next
  <2> QED
    BY <2>9, <2>10
<1> QED
  BY <1>3, <1>4

LEMMA RetriedRun ==
  ASSUME RunInv, NEW w \in Workers, Step(w)
  PROVE  [Retried!Next]_(Retried!vars)
<1>0. run \in [Workers -> Run] /\ job \in [Jobs -> Job]
  BY DEF RunInv, TypeOK
\* Between the answer and the end of a run only rows change.
<1>1. ASSUME Busy(w), NEW r, r.at # "idle", r.id = run[w].id, run' = [run EXCEPT ![w] = r], job' = job
      PROVE  UNCHANGED Retried!vars
  <2>1. on' = on
    BY <1>1, OnMoves
  <2>2. phase' = phase /\ tries' = tries
    BY <1>1 DEF phase, tries
  <2> QED
    BY <2>1, <2>2 DEF Retried!vars
<1>2. ASSUME ParseAnswers(w) \/ PhotoKept(w) \/ \E d \in Docs : StoreSkips(w, d) \/ StoreAdds(w, d) \/ StoreWaits(w, d)
      PROVE  UNCHANGED Retried!vars
  <2>1. Busy(w) /\ job' = job
    BY <1>2 DEF Busy, ParseAnswers, PhotoKept, StoreSkips, StoreAdds, StoreWaits, Handed
  <2>2. \E r : r.at # "idle" /\ r.id = run[w].id /\ run' = [run EXCEPT ![w] = r]
    <3>1. run[w] \in Run /\ run[w].at # "idle"
      BY <1>0, <2>1 DEF Busy
    <3>2. CASE ParseAnswers(w)
      <4>1. PICK lost : run' = [run EXCEPT ![w] = [run[w] EXCEPT !.at = "storing", !.todo = @ \ lost, !.lost = lost]]
        BY <3>2 DEF ParseAnswers, Read
      <4> QED
        BY <3>1, <4>1 DEF Run
    <3>3. ASSUME NEW d, AddRow(w, d) PROVE \E r : r.at # "idle" /\ r.id = run[w].id /\ run' = [run EXCEPT ![w] = r]
      <4>1. run' = [run EXCEPT ![w] = [run[w] EXCEPT !.at = "storing", !.doc = NoDoc, !.todo = @ \ {d}]]
        BY <3>3 DEF AddRow
      <4> QED
        BY <3>1, <4>1 DEF Run
    <3>4. ASSUME NEW d \in Docs, StoreSkips(w, d) \/ StoreWaits(w, d)
          PROVE  \E r : r.at # "idle" /\ r.id = run[w].id /\ run' = [run EXCEPT ![w] = r]
      <4>1. \/ run' = [run EXCEPT ![w] = [run[w] EXCEPT !.todo = @ \ {d}]]
            \/ run' = [run EXCEPT ![w] = [run[w] EXCEPT !.at = "keeping", !.doc = d]]
        BY <3>4 DEF StoreSkips, StoreWaits
      <4> QED
        BY <3>1, <4>1 DEF Run
    <3> QED
      BY <1>2, <3>2, <3>3, <3>4 DEF PhotoKept, StoreAdds
  <2> QED
    BY <1>1, <2>1, <2>2
\* The end of a run.
<1>3. ASSUME HoldAfterParse(w) \/ FailRun(w) \/ FinishRun(w)
      PROVE  Retried!Leave(w)
  <2>1. Busy(w) /\ EndRun(w)
    BY <1>3 DEF HoldAfterParse, FailRun, FinishRun, Busy
  <2> DEFINE j == run[w].id
  <2>2. on[w] # 0 /\ on[w] = j /\ j \in Jobs /\ on' = [on EXCEPT ![w] = 0] /\ job[j] \in Job
    BY <1>0, <2>1, OnLeft
  <2>3. \/ job' = job
        \/ OnDisk(job[j]) /\ job' = [job EXCEPT ![j] = Failed(job[j])]
        \/ OnDisk(job[j]) /\ job' = [job EXCEPT ![j] = Finished(job[j])]
    <3>1. job = [job EXCEPT ![j] = job[j]]
      BY <1>0
    <3>2. ~OnDisk(job[j]) => Finished(job[j]) = job[j]
      BY DEF Finished
    <3> QED
      BY <1>3, <3>1, <3>2 DEF HoldAfterParse, FailRun, FinishRun
  <2>4. OnDisk(job[j]) => phase[j] = "waiting"
    <3>1. job[j].status \in {"processing", "cleared"}
      BY <2>1 DEF RunInv, RunsOwnJobs
    <3> QED
      BY <2>2, <3>1, JobPhases DEF phase, OnDisk
  <2>5. phase[j] = PhaseOf(job[j].status) /\ phase = [phase EXCEPT ![j] = phase[j]]
    BY <2>2 DEF phase
  <2> HIDE DEF j
  <2>6. CASE job' = job
    <3>1. phase' = phase /\ tries' = tries
      BY <2>6 DEF phase, tries
    <3> QED
      BY <2>2, <3>1 DEF Retried!Leave
  <2>7. ASSUME OnDisk(job[j]), NEW q \in {Failed(job[j]), Finished(job[j])}, job' = [job EXCEPT ![j] = q]
        PROVE  Retried!Leave(w)
    <3>1. q \in Job /\ q.attempts = job[j].attempts /\ PhaseOf(q.status) \in {"waiting", "finished", "abandoned"}
      <4>1. CASE q = Failed(job[j])
        <5>1. q \in Job /\ q.attempts = job[j].attempts
          BY <2>2, <4>1, JobRecords
        <5>2. q.status \in {"pending", "dead"}
          BY <2>2, <4>1, JobPhases
        <5> QED
          BY <2>2, <5>1, <5>2, JobPhases
      <4>2. CASE q = Finished(job[j])
        <5>1. q \in Job /\ q.attempts = job[j].attempts
          BY <2>2, <4>2, JobRecords
        <5>2. q.status = "done"
          BY <2>2, <2>7, <4>2, JobPhases
        <5> QED
          BY <2>2, <5>1, <5>2, JobPhases
      <4> QED
        BY <2>7, <4>1, <4>2
    <3>2. phase' = [phase EXCEPT ![j] = PhaseOf(q.status)] /\ tries' = tries
      BY <2>2, <2>7, <3>1, PhaseChanges
    <3>3. phase' = phase \/ \E p \in Retried!Ends : phase' = [phase EXCEPT ![j] = p]
      BY <2>4, <2>5, <2>7, <3>1, <3>2 DEF Retried!Ends
    <3> QED
      BY <2>2, <2>4, <2>7, <3>2, <3>3 DEF Retried!Leave, Retried!MayEnd
  <2> QED
    BY <2>3, <2>6, <2>7
<1> QED
  BY <1>2, <1>3 DEF Step, Retried!Next

\* Clear all drops every job that has a file.
LEMMA RetriedClear ==
  ASSUME RunInv, ClearAll
  PROVE  Retried!Drop
<1>1. job \in [Jobs -> Job] /\ \A j \in Jobs : job'[j] = Wiped(job[j])
  BY DEF RunInv, TypeOK, ClearAll
<1> DEFINE S == {j \in Jobs : OnDisk(job[j])}
<1>2. \A j \in Jobs : PhaseOf(Wiped(job[j]).status) = IF j \in S THEN "dropped" ELSE PhaseOf(job[j].status)
  BY <1>1, JobPhases
<1>3. \A j \in S : PhaseOf(job[j].status) \in {"waiting", "abandoned"}
  BY <1>1, JobPhases
<1>4. S \in SUBSET {j \in Jobs : phase[j] \in {"waiting", "abandoned"}}
  BY <1>3 DEF phase
<1>5. phase' = Retried!All(S, "dropped")
  <2>1. \A j \in Jobs : PhaseOf(job[j].status)' = IF j \in S THEN "dropped" ELSE phase[j]
    BY <1>1, <1>2 DEF phase
  <2>2. phase' = [j \in Jobs |-> PhaseOf(job[j].status)']
    BY DEF phase
  <2> HIDE DEF S, phase
  <2> QED
    BY <2>1, <2>2 DEF Retried!All
<1>6. tries' = tries
  <2>1. \A j \in Jobs : job'[j].attempts = job[j].attempts
    BY <1>1, JobRecords
  <2> QED
    BY <2>1 DEF tries
<1>7. on' = on
  BY DEF ClearAll, on, Busy
<1> QED
  BY <1>4, <1>5, <1>6, <1>7 DEF Retried!Drop

LEMMA RetriedRestart ==
  ASSUME RunInv, Restart
  PROVE  Retried!Restart
<1>1. phase' = phase /\ tries' = tries
  BY DEF Restart, phase, tries
<1>2. \A w \in Workers : ~Busy(w)'
  BY DEF Restart, Busy, Idle
<1>3. on' = [w \in Workers |-> 0]
  BY <1>2 DEF on
<1>4. phase' = Retried!All({}, "swept")
  BY <1>1 DEF Retried!All, phase
<1>5. Retried!Swept
  BY <1>4 DEF Retried!Swept
<1> QED
  BY <1>1, <1>3, <1>5 DEF Retried!Restart

LEMMA RetriedStep ==
  ASSUME RunInv, [Next]_vars
  PROVE  [Retried!Next]_(Retried!vars)
<1>0. job \in [Jobs -> Job]
  BY DEF RunInv, TypeOK
\* Nothing happens to the queue.
<1>1. ASSUME job' = job, run' = run PROVE UNCHANGED Retried!vars
  BY <1>1 DEF Retried!vars, phase, tries, on, Busy
<1>2. ASSUME NEW m \in Mails, Enqueue(m) PROVE Retried!Next
  <2>1. PICK j \in Jobs : job[j] = Unborn /\ job' = [job EXCEPT ![j] = NewJob(m)]
    BY <1>2 DEF Enqueue
  <2> DEFINE q == NewJob(m)
  <2>2. q \in Job /\ q.attempts = job[j].attempts /\ PhaseOf(q.status) = "waiting"
    BY <2>1 DEF NewJob, Unborn, Job, Statuses, PhaseOf, PhaseIn
  <2>3. phase[j] = "absent"
    BY <2>1 DEF phase, PhaseOf, PhaseIn, Unborn
  <2> HIDE DEF q
  <2>4. phase' = [phase EXCEPT ![j] = "waiting"] /\ tries' = tries
    BY <2>1, <2>2, PhaseChanges DEF q
  <2>5. on' = on
    BY <1>2 DEF Enqueue, on, Busy
  <2>6. Retried!Submit(j)
    BY <2>3, <2>4, <2>5 DEF Retried!Submit
  <2> QED
    BY <2>6 DEF Retried!Next
<1>3. ASSUME NEW j \in Jobs, DelayPasses(j) PROVE UNCHANGED Retried!vars
  <2> DEFINE q == [job[j] EXCEPT !.waiting = FALSE]
  <2>1. q \in Job /\ q.attempts = job[j].attempts /\ q.status = job[j].status
    BY <1>0 DEF Job
  <2>2. job' = [job EXCEPT ![j] = q]
    BY <1>3 DEF DelayPasses
  <2> HIDE DEF q
  <2>3. phase' = [phase EXCEPT ![j] = PhaseOf(q.status)] /\ tries' = tries
    BY <2>1, <2>2, PhaseChanges
  <2>4. phase' = phase
    BY <2>1, <2>3 DEF phase
  <2>5. on' = on
    BY <1>3 DEF DelayPasses, on, Busy
  <2> QED
    BY <2>3, <2>4, <2>5 DEF Retried!vars
<1>4. CASE Tick
  BY <1>4, RetriedTick DEF Tick
<1>5. CASE \E w \in Workers : Step(w)
  BY <1>5, RetriedRun
<1>6. CASE ClearAll
  BY <1>6, RetriedClear DEF Retried!Next
<1>7. CASE Restart
  BY <1>7, RetriedRestart DEF Retried!Next
<1>8. CASE \/ \E r \in rows : Reject(r) \/ Revive(r) \/ DeleteRow(r)
           \/ StartWorker \/ Disable \/ Enable \/ UNCHANGED vars
  <2>1. job' = job /\ run' = run
    BY <1>8 DEF Reject, Revive, SetStanding, DeleteRow, StartWorker, Disable, Enable, vars
  <2> QED
    BY <1>1, <2>1
<1> QED
  BY <1>2, <1>3, <1>4, <1>5, <1>6, <1>7, <1>8 DEF Next

\* The email queue with its workers implements RetriedJobs: an email is handed
\* to a worker only while it waits and only MAX_ATTEMPTS times, each counted
\* before the work begins, never to two workers; and no failure, crash, disable
\* or Clear all brings back one that has ended.
THEOREM EmailsAreRetriedJobs == Spec => JobsAreRetried
<1>1. Init => Retried!Init
  <2> SUFFICES ASSUME Init PROVE Retried!Init
    OBVIOUS
  <2>1. \A j \in Jobs : PhaseOf(job[j].status) = "absent" /\ job[j].attempts = 0
    BY DEF Init, Unborn, PhaseOf, PhaseIn
  <2>2. \A w \in Workers : ~Busy(w)
    BY DEF Init, Busy, Idle
  <2> QED
    BY <2>1, <2>2 DEF Retried!Init, phase, tries, on
<1>2. RunInv /\ [Next]_vars => [Retried!Next]_(Retried!vars)
  BY RetriedStep
<1> QED
  BY <1>1, <1>2, RunInvariant, PTL DEF Spec, JobsAreRetried, Retried!Spec

\* What RetriedJobs is worth: whatever implements it, as here, tries no job
\* too often and gives none to two workers at once.
THEOREM RetriedIsBounded == JobsAreRetried => [](Retried!TypeOK /\ Retried!Bounded /\ Retried!Exclusive)
<1> DEFINE Inv == Retried!TypeOK /\ Retried!Bounded /\ Retried!Exclusive
<1> USE JobsAssumption, MaxAttemptsAssumption
<1>1. Retried!Init => Inv
  BY DEF Retried!Init, Retried!TypeOK, Retried!Bounded, Retried!Exclusive, Retried!Phases
<1>2. Inv /\ [Retried!Next]_(Retried!vars) => Inv'
  <2> SUFFICES ASSUME Inv, [Retried!Next]_(Retried!vars) PROVE Inv'
    OBVIOUS
  <2>1. /\ phase \in [Jobs -> Retried!Phases] /\ tries \in [Jobs -> Nat] /\ on \in [Workers -> Jobs \cup {0}]
        /\ \A j \in Jobs : tries[j] <= MaxAttempts
        /\ \A v, w \in Workers : v # w /\ on[v] # 0 => on[v] # on[w]
    BY DEF Retried!TypeOK, Retried!Bounded, Retried!Exclusive
  <2>2. ASSUME phase' \in [Jobs -> Retried!Phases], tries' \in [Jobs -> Nat], on' \in [Workers -> Jobs \cup {0}],
               \A j \in Jobs : tries'[j] <= MaxAttempts,
               \A v, w \in Workers : v # w /\ on'[v] # 0 => on'[v] # on'[w]
        PROVE  Inv'
    BY <2>2 DEF Retried!TypeOK, Retried!Bounded, Retried!Exclusive
  <2>3. \A S, p : p \in Retried!Phases =>
          /\ Retried!All(S, p) \in [Jobs -> Retried!Phases]
          /\ \A j \in Jobs : /\ Retried!With(j, p, S) \in [Jobs -> Retried!Phases]
                              /\ [phase EXCEPT ![j] = p] \in [Jobs -> Retried!Phases]
    BY <2>1 DEF Retried!All, Retried!With, Retried!Phases, Retried!Ends
  <2>4. {"absent", "waiting", "finished", "abandoned", "dropped", "swept"} \subseteq Retried!Phases
        /\ Retried!Ends \subseteq Retried!Phases
    BY DEF Retried!Phases, Retried!Ends
  <2> HIDE DEF Inv, phase, tries, on
  <2>5. ASSUME NEW w \in Workers, NEW j \in Jobs, Retried!TakeUp(w, j) PROVE Inv'
    <3>1. phase' \in [Jobs -> Retried!Phases]
      BY <2>3, <2>4, <2>5 DEF Retried!TakeUp
    <3>2. tries' \in [Jobs -> Nat] /\ \A k \in Jobs : tries'[k] <= MaxAttempts
      <4>1. tries' = tries \/ tries' = [tries EXCEPT ![j] = @ + 1]
        BY <2>5 DEF Retried!TakeUp, Retried!Counted
      <4>2. tries[j] + 1 \in Nat /\ tries[j] + 1 <= MaxAttempts
        BY <2>1, <2>5 DEF Retried!TakeUp
      <4> QED
        BY <2>1, <4>1, <4>2
    <3>3. on' = on \/ (on' = [on EXCEPT ![w] = j] /\ \A v \in Workers : on[v] # j)
      BY <2>5 DEF Retried!TakeUp, Retried!Free
    <3> QED
      BY <2>1, <2>2, <3>1, <3>2, <3>3
  <2>6. ASSUME NEW w \in Workers, Retried!Leave(w) PROVE Inv'
    <3>1. on' = [on EXCEPT ![w] = 0] /\ on[w] \in Jobs /\ tries' = tries
      BY <2>1, <2>6 DEF Retried!Leave
    <3>2. phase' \in [Jobs -> Retried!Phases]
      BY <2>1, <2>3, <2>4, <2>6, <3>1 DEF Retried!Leave
    <3> QED
      BY <2>1, <2>2, <3>1, <3>2
  <2>7. CASE \/ \E j \in Jobs : Retried!Submit(j)
             \/ Retried!GiveUp \/ Retried!Drop \/ Retried!Sweep
             \/ UNCHANGED Retried!vars
    <3>1. tries' = tries /\ on' = on
      BY <2>7 DEF Retried!Submit, Retried!GiveUp, Retried!Drop, Retried!Sweep, Retried!vars
    <3>2. phase' \in [Jobs -> Retried!Phases]
      BY <2>1, <2>3, <2>4, <2>7 DEF Retried!Submit, Retried!GiveUp, Retried!Drop, Retried!Sweep, Retried!Swept, Retried!vars
    <3> QED
      BY <2>1, <2>2, <3>1, <3>2
  <2>8. CASE Retried!Restart
    <3>1. phase' \in [Jobs -> Retried!Phases]
      BY <2>3, <2>4, <2>8 DEF Retried!Restart, Retried!Swept
    <3> QED
      BY <2>1, <2>2, <2>8, <3>1 DEF Retried!Restart
  <2>9. \A w \in Workers : ~Retried!Reopen(w)
    BY DEF Retried!Reopen
  <2> QED
    BY <2>5, <2>6, <2>7, <2>8, <2>9 DEF Retried!Next
<1> QED
  BY <1>1, <1>2, PTL DEF JobsAreRetried, Retried!Spec
=============================================================================
