----------------------------- MODULE EmailQueue -----------------------------
(***************************************************************************)
(* The records of main/queue/email-queue.js: one job file per email on     *)
(* disk, and what each function of that file makes of it. A file is        *)
(* written whole or not at all (a temporary file renamed over the real     *)
(* one), so a job record changes in one step.                              *)
(*                                                                         *)
(* A job that was never created, one deleted because it finished and one   *)
(* deleted by Clear all are all "no file" to the program. They are told    *)
(* apart here ("unborn", "done", "cleared") so that properties can.        *)
(***************************************************************************)
EXTENDS Integers

CONSTANTS MaxAttempts,  \* MAX_ATTEMPTS
          Mails,        \* the messages of the mailbox
          NoMail        \* the mail of a job that does not exist yet

ASSUME MaxAttemptsAssumption == MaxAttempts \in Nat \ {0}
ASSUME NoMailAssumption == NoMail \notin Mails

Statuses == {"unborn", "pending", "processing", "dead", "done", "cleared"}

\* nextAttemptAt is kept as what isDue asks of it: whether it is still ahead.
Job == [status : Statuses, attempts : Nat, waiting : BOOLEAN, mail : Mails \cup {NoMail}]

Unborn == [status |-> "unborn", attempts |-> 0, waiting |-> FALSE, mail |-> NoMail]

\* The job enqueue() writes.
NewJob(m) == [status |-> "pending", attempts |-> 0, waiting |-> FALSE, mail |-> m]

\* A file exists for the job.
OnDisk(job) == job.status \in {"pending", "processing", "dead"}

\* What getPending() returns: a 'processing' job was abandoned by a restart, or
\* is running now, and only the worker can tell which.
Actionable(job) == job.status \in {"pending", "processing"}

IsDue(job) == ~job.waiting

OutOfAttempts(job) == job.attempts >= MaxAttempts

Buried(job) == [job EXCEPT !.status = "dead", !.waiting = FALSE]

\* Mutant of Claimed: only a first claim counts, not the reclaim of an
\* abandoned job.
FreshClaimed(job) ==
  [job EXCEPT !.status = "processing", !.waiting = FALSE,
              !.attempts = IF job.status = "pending" THEN @ + 1 ELSE @]

\* markProcessing(): every claim counts, the reclaim of an abandoned job too.
Claimed(job) == [job EXCEPT !.status = "processing", !.attempts = @ + 1, !.waiting = FALSE]

\* markFailed(): dead once the attempts are spent, else pending behind a delay.
Failed(job) == IF OutOfAttempts(job) THEN Buried(job)
               ELSE [job EXCEPT !.status = "pending", !.waiting = TRUE]

\* Mutant of Finished: a file is written for a job that has none.
FinishedAnyway(job) == [job EXCEPT !.status = "done"]

\* markDone() and clearAll() act on a file; without one they do nothing.
Finished(job) == IF OnDisk(job) THEN [job EXCEPT !.status = "done"] ELSE job
Wiped(job)    == IF OnDisk(job) THEN [job EXCEPT !.status = "cleared"] ELSE job
=============================================================================
