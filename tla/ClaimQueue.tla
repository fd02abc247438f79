----------------------------- MODULE ClaimQueue -----------------------------
(***************************************************************************)
(* The records of main/claims/claim-queue.js: one job file per batch of    *)
(* uploaded files, with the files themselves (the payload) beside it, and  *)
(* what each function of that file makes of a job. The stages a running    *)
(* job goes through (unpacking, reading, saving...) are one here; no       *)
(* property tells them apart. A job swept an hour after it ended, and one  *)
(* never created, are both "no file" to the program.                       *)
(***************************************************************************)
EXTENDS Integers

CONSTANTS MaxAttempts,  \* MAX_ATTEMPTS
          Batches,      \* what a person may upload at once
          NoBatch       \* the batch of a job that does not exist yet

ASSUME MaxAttemptsAssumption == MaxAttempts \in Nat \ {0}
ASSUME NoBatchAssumption == NoBatch \notin Batches

TerminalStages == {"done", "failed", "cancelled"}
Stages == TerminalStages \cup {"unborn", "queued", "running", "swept"}

\* The uploaded files: on disk, unlinked while the job still lists them, or
\* dropped from the job as well.
Payloads == {"kept", "gone", "dropped"}

Job == [stage : Stages, attempts : Nat, batch : Batches \cup {NoBatch}, payload : Payloads]

Unborn == [stage |-> "unborn", attempts |-> 0, batch |-> NoBatch, payload |-> "dropped"]

\* The job enqueue() writes, its payload first.
NewJob(b) == [stage |-> "queued", attempts |-> 0, batch |-> b, payload |-> "kept"]

Terminal(job) == job.stage \in TerminalStages
OnDisk(job)   == job.stage \notin {"unborn", "swept"}

\* What enqueue() counts against MAX_QUEUED_PER_USER.
Waiting(job) == OnDisk(job) /\ ~Terminal(job)

\* Mutant of Pending: a cancelled job is not one of the terminal ones.
PendingOrCancelled(job) ==
  OnDisk(job) /\ job.stage \notin {"done", "failed"} /\ job.attempts < MaxAttempts

\* getPending() and getPoisoned() split the waiting jobs by their attempts.
Pending(job)  == Waiting(job) /\ job.attempts < MaxAttempts
Poisoned(job) == Waiting(job) /\ job.attempts >= MaxAttempts

\* Mutant of Saved: a file is written for a job whose own was swept.
SavedAnyway(job, stage) ==
  [job EXCEPT !.stage = stage, !.payload = IF stage \in TerminalStages THEN "dropped" ELSE @]

\* save(), markFailed(): the stage is written over whatever the file says, and
\* an ended job's payload goes with it.
Saved(job, stage) ==
  IF OnDisk(job)
  THEN [job EXCEPT !.stage = stage, !.payload = IF stage \in TerminalStages THEN "dropped" ELSE @]
  ELSE job

\* save() or markFailed() of an ended job that stops after the payload is
\* unlinked, by a failed write or a crash: the file is as it was.
Gutted(job) == [job EXCEPT !.payload = IF @ = "kept" THEN "gone" ELSE @]

\* markRunning()
MarkedRunning(job) == [job EXCEPT !.stage = "running", !.attempts = @ + 1]

\* markCancelled(): nothing for a job that has ended.
MarkedCancelled(job) == IF Waiting(job) THEN Saved(job, "cancelled") ELSE job

\* sweep(), of the job's file. Its payload went when it ended.
Swept(job) == [job EXCEPT !.stage = "swept"]
=============================================================================
