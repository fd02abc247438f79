----------------------------- MODULE EmailWorker -----------------------------
(***************************************************************************)
(* One account's email pipeline, from a message in the mailbox to the rows *)
(* it becomes: main/queue/email-worker.js over the job files of EmailQueue,*)
(* with the callback of main/utils/invoice-handler.js that stores a row.   *)
(* Accounts share nothing here, so one account is modelled.                *)
(*                                                                         *)
(* Node runs one callback at a time. A step is the code between two awaits *)
(* that really wait: for the model (parseInvoice) and for the photo fitter *)
(* (_keepPhoto). The store's functions are synchronous, so the code after  *)
(* an await of one of them is a microtask and nothing but a crash comes in *)
(* between: while a run is "storing" every other callback waits (Quiet).   *)
(*                                                                         *)
(* A worker is the object _getWorker() makes. stopWorker() only drops it   *)
(* from the map: a run started by it goes on, holding its own object, next *)
(* to whatever worker is started afterwards.                               *)
(***************************************************************************)
EXTENDS EmailQueue, FiniteSets

CONSTANTS Jobs,       \* ids of job files, in order of creation
          Workers,    \* worker objects
          NoWorker,   \* no worker in the map, or one that is not running
          Docs,       \* attachments and bodies, by content
          NoDoc,
          DocsOf,     \* [Mails -> SUBSET Docs]: what parseInvoice reads as documents
          Kind,       \* [Docs -> {"pdf", "photo", "body"}]
          NameOf,     \* the stored (sanitised) attachment name
          BillOf      \* the bill a document is a copy of

ASSUME JobsAssumption == Jobs \subseteq Nat \ {0}
ASSUME WorkersAssumption == NoWorker \notin Workers
ASSUME DocsAssumption == /\ NoDoc \notin Docs
                         /\ DocsOf \in [Mails -> SUBSET Docs]
                         /\ Kind \in [Docs -> {"pdf", "photo", "body"}]

VARIABLES
  job,       \* [Jobs -> Job]: the files under email-queue/
  current,   \* _workers.get(userId), when it is running
  run,       \* [Workers -> Run]: the _processNext call each worker is in
  inFlight,  \* _inFlight: the jobs this process is running
  active,    \* users.isActive
  rows,      \* the account's invoices, as far as this pipeline reads them
  started,   \* history: how often each job was handed to the parser
  held,      \* history: jobs whose last run was stopped because of a disable
  unread,    \* history: [Jobs -> documents the run that finished it did not read]
  billed     \* history: bills that have had a row

vars == <<job, current, run, inFlight, active, rows, started, held, unread, billed>>

Run == [at : {"idle", "parsing", "storing", "keeping"}, id : Jobs \cup {0},
        todo : SUBSET Docs, lost : SUBSET Docs, doc : Docs \cup {NoDoc}]
Idle == [at |-> "idle", id |-> 0, todo |-> {}, lost |-> {}, doc |-> NoDoc]

\* A row that went to 'error' or 'duplicate' no longer counts as stored; one
\* that came back from there (a person sent it again) counts, but may have been
\* stored a second time meanwhile.
Standings == {"live", "rejected", "revived"}
Row == [mail : Mails, doc : Docs, id : Jobs, standing : Standings]
NewRow(m, d, j) == [mail |-> m, doc |-> d, id |-> j, standing |-> "live"]

Busy(w) == run[w].at # "idle"
Quiet == \A w \in Workers : run[w].at # "storing"

-----------------------------------------------------------------------------
(* What has already produced a row                                         *)

\* Mutant of SameMessagePart: the Message-ID alone, which a mail's PDFs share.
SameMessage(r, m, d) == r.mail = m

\* findByMessage: the Message-ID with the stored filename, for a PDF; with the
\* source, for a body; in any status. A photo has no stored filename.
SameMessagePart(r, m, d) ==
  /\ r.mail = m
  /\ Kind[d] # "photo"
  /\ Kind[r.doc] = Kind[d]
  /\ NameOf[r.doc] = NameOf[d]

\* findByReceiptHash. A body is not a file.
SameFile(r, d) == r.doc = d /\ Kind[d] # "body" /\ r.standing # "rejected"

\* findEmailDuplicate.
Recorded(m, d) == \E r \in rows : SameMessagePart(r, m, d) \/ SameFile(r, d)

\* _unrecorded. The body of a mail with a PDF is not one of its DocsOf.
Unrecorded(m) == {d \in DocsOf[m] : ~Recorded(m, d)}

\* Mutant of Stored: the same file, not the same bill.
FileStored(d) == \E r \in rows : r.doc = d /\ r.standing # "rejected"

\* onInvoiceEmail's upfront check (findStored), on what was read of the bill.
Stored(d) == \E r \in rows : BillOf[r.doc] = BillOf[d] /\ r.standing # "rejected"

-----------------------------------------------------------------------------
(* The queue as the worker sees it                                         *)

Pending == {j \in Jobs : Actionable(job[j])}

\* Mutant of Eligible: without the in-flight set.
DueAnywhere == {j \in Pending : IsDue(job[j])}

\* _nextDue: due and not already running here; the oldest of them.
Eligible == {j \in Pending : IsDue(job[j]) /\ j \notin inFlight}
NextDue(j) == j \in Eligible /\ \A k \in Eligible : j <= k

Init ==
  /\ job = [j \in Jobs |-> Unborn]
  /\ current = NoWorker
  /\ run = [w \in Workers |-> Idle]
  /\ inFlight = {}
  /\ active = TRUE
  /\ rows = {}
  /\ started = [j \in Jobs |-> 0]
  /\ held = {}
  /\ unread = [j \in Jobs |-> {}]
  /\ billed = {}

\* The watcher writes a job for a message, and kicks the worker. The mailbox
\* may hand over the same message again: it is marked seen only afterwards.
Enqueue(m) ==
  /\ Quiet
  /\ \E j \in Jobs :
       /\ job[j] = Unborn
       /\ \A k \in Jobs : k < j => job[k] # Unborn
       /\ job' = [job EXCEPT ![j] = NewJob(m)]
  /\ UNCHANGED <<current, run, inFlight, active, rows, started, held, unread, billed>>

\* The retry delay of a failed job runs out.
DelayPasses(j) ==
  /\ Quiet
  /\ job[j].waiting
  /\ job' = [job EXCEPT ![j].waiting = FALSE]
  /\ UNCHANGED <<current, run, inFlight, active, rows, started, held, unread, billed>>

-----------------------------------------------------------------------------
(* _processNext, up to the wait for the parser                             *)

\* A tick: the poll, a kick, or the chain at the end of the last run. The look
\* at the account before a job is taken (_holdForInactiveAccount) never turns a
\* tick away: disabling stops the worker in the same step, and only an active
\* account gets one.
CanTick == Quiet /\ current # NoWorker /\ ~Busy(current) /\ Pending # {}

\* markProcessing finds the attempts spent and keeps the job as dead.
GiveUp(j) ==
  /\ CanTick /\ active /\ NextDue(j)
  /\ OutOfAttempts(job[j])
  /\ job' = [job EXCEPT ![j] = Buried(@)]
  /\ UNCHANGED <<current, run, inFlight, active, rows, started, held, unread, billed>>

\* markProcessing, then everything on the mail turns out to be recorded
\* already: markDone, without a reading.
SkipRecorded(j) ==
  /\ CanTick /\ active /\ NextDue(j)
  /\ ~OutOfAttempts(job[j])
  /\ DocsOf[job[j].mail] # {} /\ Unrecorded(job[j].mail) = {}
  /\ job' = [job EXCEPT ![j] = Finished(Claimed(@))]
  /\ started' = [started EXCEPT ![j] = @ + 1]
  /\ held' = held \ {j}
  /\ UNCHANGED <<current, run, inFlight, active, rows, unread, billed>>

\* markProcessing, and what is left of the mail goes to the parser.
BeginRun(j) ==
  /\ CanTick /\ active /\ NextDue(j)
  /\ ~OutOfAttempts(job[j])
  /\ DocsOf[job[j].mail] = {} \/ Unrecorded(job[j].mail) # {}
  /\ job' = [job EXCEPT ![j] = Claimed(@)]
  /\ inFlight' = inFlight \cup {j}
  /\ run' = [run EXCEPT ![current] =
               [at |-> "parsing", id |-> j, todo |-> Unrecorded(job[j].mail), lost |-> {}, doc |-> NoDoc]]
  /\ started' = [started EXCEPT ![j] = @ + 1]
  /\ held' = held \ {j}
  /\ UNCHANGED <<current, active, rows, unread, billed>>

-----------------------------------------------------------------------------
(* _processNext, from the parser's answer to the finally block             *)

\* Mutant of EndRun: a job that was run stays in flight.
EndRunUnreleased(w) ==
  /\ run' = [run EXCEPT ![w] = Idle]
  /\ UNCHANGED inFlight

\* The finally block: the job is no longer in flight, the worker free.
EndRun(w) ==
  /\ run' = [run EXCEPT ![w] = Idle]
  /\ inFlight' = inFlight \ {run[w].id}

\* The answer arrives for an account disabled meanwhile. The job stays
\* 'processing'; whatever worker is in the map now is stopped.
HoldAfterParse(w) ==
  /\ Quiet /\ run[w].at = "parsing"
  /\ ~active
  /\ EndRun(w)
  /\ current' = NoWorker
  /\ held' = held \cup {run[w].id}
  /\ UNCHANGED <<job, active, rows, started, unread, billed>>

\* The documents are read apart (Promise.allSettled): one whose reading throws,
\* or makes nothing of it, is logged and left out, all of them if need be.
Read(w, lost) ==
  run' = [run EXCEPT ![w].at = "storing", ![w].todo = @ \ lost, ![w].lost = lost]

\* Mutant of ParseAnswers: the account is looked at only before the reading.
ParseAnswersUnchecked(w) ==
  /\ Quiet /\ run[w].at = "parsing"
  /\ \E lost \in SUBSET run[w].todo : Read(w, lost)
  /\ UNCHANGED <<job, current, inFlight, active, rows, started, held, unread, billed>>

ParseAnswers(w) ==
  /\ Quiet /\ run[w].at = "parsing"
  /\ active
  /\ \E lost \in SUBSET run[w].todo : Read(w, lost)
  /\ UNCHANGED <<job, current, inFlight, active, rows, started, held, unread, billed>>

\* The mail cannot be taken apart for reading (extractText), or storing a row
\* throws: markFailed. Its write may fail too, which leaves the job
\* 'processing'. A job cleared meanwhile has no file.
FailRun(w) ==
  /\ \/ Quiet /\ run[w].at = "parsing"
     \/ Quiet /\ run[w].at = "keeping"
     \/ run[w].at = "storing" /\ run[w].todo # {}
  /\ EndRun(w)
  /\ job' \in {job, [job EXCEPT ![run[w].id] = IF OnDisk(@) THEN Failed(@) ELSE @]}
  /\ UNCHANGED <<current, active, rows, started, held, unread, billed>>

\* The next document handed to onInvoiceEmail: the texts (PDFs or the body)
\* come before the photos.
Handed(w, d) ==
  /\ run[w].at = "storing"
  /\ d \in run[w].todo
  /\ Kind[d] = "photo" => \A e \in run[w].todo : Kind[e] = "photo"

\* onInvoiceEmail on a document whose bill already has a row.
StoreSkips(w, d) ==
  /\ Handed(w, d)
  /\ Stored(d)
  /\ run' = [run EXCEPT ![w].todo = @ \ {d}]
  /\ UNCHANGED <<job, current, inFlight, active, rows, started, held, unread, billed>>

AddRow(w, d) ==
  /\ rows' = rows \cup {NewRow(job[run[w].id].mail, d, run[w].id)}
  /\ billed' = billed \cup {BillOf[d]}
  /\ run' = [run EXCEPT ![w].at = "storing", ![w].doc = NoDoc, ![w].todo = @ \ {d}]

\* onInvoiceEmail on a PDF or a body: the check and the row in one step.
StoreAdds(w, d) ==
  /\ Handed(w, d)
  /\ ~Stored(d) /\ Kind[d] # "photo"
  /\ AddRow(w, d)
  /\ UNCHANGED <<job, current, inFlight, active, started, held, unread>>

\* onInvoiceEmail on a photo: the check, then the wait for _keepPhoto.
StoreWaits(w, d) ==
  /\ Handed(w, d)
  /\ ~Stored(d) /\ Kind[d] = "photo"
  /\ run' = [run EXCEPT ![w].at = "keeping", ![w].doc = d]
  /\ UNCHANGED <<job, current, inFlight, active, rows, started, held, unread, billed>>

PhotoKept(w) ==
  /\ Quiet /\ run[w].at = "keeping"
  /\ AddRow(w, run[w].doc)
  /\ UNCHANGED <<job, current, inFlight, active, started, held, unread>>

\* Every document of the mail has been handed over: markDone.
FinishRun(w) ==
  /\ run[w].at = "storing" /\ run[w].todo = {}
  /\ EndRun(w)
  /\ job' = [job EXCEPT ![run[w].id] = Finished(@)]
  /\ unread' = [unread EXCEPT ![run[w].id] = run[w].lost]
  /\ UNCHANGED <<current, active, rows, started, held, billed>>

-----------------------------------------------------------------------------
(* Starting, stopping, clearing, restarting                                *)

\* startWorker, from the Start button or the watcher's resume. A stopped
\* worker's object is gone from the map, so a new one is made.
StartWorker ==
  /\ Quiet /\ active /\ current = NoWorker
  /\ \E w \in Workers : ~Busy(w) /\ current' = w
  /\ UNCHANGED <<job, run, inFlight, active, rows, started, held, unread, billed>>

\* An admin disables the account, which stops its worker.
Disable ==
  /\ Quiet /\ active
  /\ active' = FALSE
  /\ current' = NoWorker
  /\ UNCHANGED <<job, run, inFlight, rows, started, held, unread, billed>>

\* Enabling starts nothing.
Enable ==
  /\ Quiet /\ ~active
  /\ active' = TRUE
  /\ UNCHANGED <<job, current, run, inFlight, rows, started, held, unread, billed>>

\* "Clear all": the worker stopped, the queue wiped, the rows gone but those
\* in Xero or on their way to it. Nothing starts the worker again.
ClearAll ==
  /\ Quiet /\ active
  /\ current' = NoWorker
  /\ job' = [j \in Jobs |-> Wiped(job[j])]
  /\ rows' \in SUBSET rows
  /\ UNCHANGED <<run, inFlight, active, started, held, unread, billed>>

\* The account's rows go on living elsewhere: a send ends in 'error' or
\* 'duplicate', a person takes a row back from there, or deletes it.
SetStanding(r, from, to) ==
  /\ Quiet /\ r.standing \in from
  /\ rows' = (rows \ {r}) \cup {[r EXCEPT !.standing = to]}
  /\ UNCHANGED <<job, current, run, inFlight, active, started, held, unread, billed>>

Reject(r) == SetStanding(r, {"live", "revived"}, "rejected")
Revive(r) == SetStanding(r, {"rejected"}, "revived")

DeleteRow(r) ==
  /\ Quiet
  /\ rows' = rows \ {r}
  /\ UNCHANGED <<job, current, run, inFlight, active, started, held, unread, billed>>

\* The process dies, at any point, and boots again. Memory is gone; the files
\* and rows stay. recoverPendingJobs starts a worker if there is work and the
\* account is active.
Restart ==
  /\ run' = [w \in Workers |-> Idle]
  /\ inFlight' = {}
  /\ IF active /\ Pending # {} THEN current' \in Workers ELSE current' = NoWorker
  /\ UNCHANGED <<job, active, rows, started, held, unread, billed>>

Step(w) ==
  \/ HoldAfterParse(w) \/ ParseAnswers(w) \/ FailRun(w)
  \/ PhotoKept(w) \/ FinishRun(w)
  \/ \E d \in Docs : StoreSkips(w, d) \/ StoreAdds(w, d) \/ StoreWaits(w, d)

Tick ==
  \E j \in Jobs : GiveUp(j) \/ SkipRecorded(j) \/ BeginRun(j)

Next ==
  \/ \E m \in Mails : Enqueue(m)
  \/ \E j \in Jobs : DelayPasses(j)
  \/ Tick
  \/ \E w \in Workers : Step(w)
  \/ \E r \in rows : Reject(r) \/ Revive(r) \/ DeleteRow(r)
  \/ StartWorker \/ Disable \/ Enable \/ ClearAll \/ Restart

Spec == Init /\ [][Next]_vars

\* The poll fires every five seconds, a delay runs out, and a model call ends
\* one way or another (it has a timeout). Nothing is assumed about people: a
\* worker need not be started, nor an account enabled.
Fairness ==
  /\ WF_vars(Tick)
  /\ \A j \in Jobs : WF_vars(DelayPasses(j))
  /\ \A w \in Workers : WF_vars(Step(w))

FairSpec == Spec /\ Fairness

-----------------------------------------------------------------------------
(* Properties                                                              *)

\* What RetriedJobs sees of the jobs and of who is on them.
PhaseIn == [unborn |-> "absent", pending |-> "waiting", processing |-> "waiting", done |-> "finished",
            dead |-> "abandoned", cleared |-> "dropped"]
PhaseOf(status) == PhaseIn[status]

phase == [j \in Jobs |-> PhaseOf(job[j].status)]
tries == [j \in Jobs |-> job[j].attempts]
on    == [w \in Workers |-> IF Busy(w) THEN run[w].id ELSE 0]

TypeOK ==
  /\ job \in [Jobs -> Job]
  /\ current \in Workers \cup {NoWorker}
  /\ run \in [Workers -> Run]
  /\ inFlight \subseteq Jobs
  /\ active \in BOOLEAN
  /\ rows \subseteq Row
  /\ started \in [Jobs -> Nat]
  /\ held \subseteq Jobs
  /\ unread \in [Jobs -> SUBSET Docs]

\* No job is ever run by two workers at once, though a worker stopped mid-run
\* and the one started after it live side by side and the job's file says
\* 'processing' all the while (the in-flight set of email-worker.js).
OneRunPerJob ==
  \A v, w \in Workers : v # w /\ Busy(v) /\ Busy(w) => run[v].id # run[w].id

\* No email is handed to the parser more than MAX_ATTEMPTS times, whatever
\* mix of failures, lost failure writes, crashes and disables ends the runs
\* (every claim counts, on disk, before the work starts: markProcessing).
RunsBounded == \A j \in Jobs : started[j] <= MaxAttempts

\* What makes the two properties above inductive: the in-flight set is exactly
\* the jobs being run, a job being run has a file that says so (unless Clear
\* all deleted it), and no start goes uncounted.
InFlightExact == inFlight = {run[w].id : w \in {v \in Workers : Busy(v)}}

RunsOwnJobs ==
  \A w \in Workers : Busy(w) =>
    /\ run[w].id \in Jobs
    /\ job[run[w].id].status \in {"processing", "cleared"}
    /\ run[w].at = "keeping" => run[w].doc \in Docs

StartsCounted ==
  \A j \in Jobs : started[j] <= job[j].attempts /\ job[j].attempts <= MaxAttempts

JobsHaveMail == \A j \in Jobs : job[j].status # "unborn" => job[j].mail \in Mails

RunInv ==
  /\ TypeOK /\ OneRunPerJob /\ InFlightExact
  /\ RunsOwnJobs /\ StartsCounted /\ JobsHaveMail

\* An email's job is deleted as finished only when every bill that came with
\* it has had a row, over any number of partial runs and redeliveries
\* (the worker's skip of what is recorded already, and markDone), but for the
\* documents whose reading came to nothing in the run that finished it.
DoneMeansBilled ==
  \A j \in Jobs : job[j].status = "done" =>
    \A d \in DocsOf[job[j].mail] : BillOf[d] \in billed \/ d \in unread[j]

\* README.md:221 says it of every bill: a mail is "only removed from the queue
\* after successful processing". The code does not keep it: a document whose
\* reading throws is left out, and the job is finished (parser.js:993-994).
DoneMeansAllBilled ==
  \A j \in Jobs : job[j].status = "done" =>
    \A d \in DocsOf[job[j].mail] : BillOf[d] \in billed

\* A bill arriving twice, as another file or by a redelivered message, makes
\* one row that was never set aside, unless a copy is a photo: a photo's check and its row are apart
\* (onInvoiceEmail's findStored, before and after its only real wait).
OneRowPerBill ==
  \A r, s \in {q \in rows : q.standing = "live"} :
    r # s /\ BillOf[r.doc] = BillOf[s.doc] => "photo" \in {Kind[r.doc], Kind[s.doc]}

\* The rows a step adds, those whose standing it changes aside.
Added == {r \in rows' \ rows : r.standing = "live"}

\* Nothing read from a text is stored for an account that was disabled while
\* it was being read (the second check of _accountActive).
NoTextRowWhileDisabled ==
  [][\A r \in Added : Kind[r.doc] # "photo" => active]_vars

\* Within a message, the stored name tells its documents of a kind apart. It
\* holds of most mail; a forwarded message with two attached ones breaks it.
NamesTellApart ==
  \A m \in Mails : \A d, e \in DocsOf[m] :
    Kind[d] = Kind[e] /\ Kind[d] # "photo" /\ NameOf[d] = NameOf[e] => d = e

\* What makes the three properties above inductive: a row is of a document of
\* its mail and its bill is counted; a document of the mail is still in hand,
\* its bill is counted, or its reading came to nothing; once a photo is waited
\* for, or the account is disabled, only photos are left to store.
RowsBilled == \A r \in rows : r.doc \in DocsOf[r.mail] /\ BillOf[r.doc] \in billed

WorkBilled ==
  \A w \in Workers : Busy(w) =>
    LET all == DocsOf[job[run[w].id].mail]
    IN /\ run[w].todo \subseteq all
       /\ run[w].at = "parsing" => run[w].lost = {}
       /\ \A d \in all \ run[w].todo : BillOf[d] \in billed \/ d \in run[w].lost

OnlyPhotosLeft(w) == \A d \in run[w].todo : Kind[d] = "photo"

PhotosLast ==
  \A w \in Workers :
    /\ run[w].at = "keeping" => run[w].doc \in run[w].todo /\ OnlyPhotosLeft(w)
    /\ run[w].at = "storing" => active \/ OnlyPhotosLeft(w)

RowInv == RowsBilled /\ WorkBilled /\ PhotosLast /\ OneRowPerBill /\ DoneMeansBilled

\* The queue keeps what RetriedJobs says, and no job is ever with two workers
\* nor comes back after its end: a run that outlives its worker, or Clear all,
\* puts back no job file that is gone.
Retried == INSTANCE RetriedJobs WITH None <- 0, MaxTries <- MaxAttempts, Shared <- FALSE, Reopened <- FALSE
JobsAreRetried == Retried!Spec

\* As long as the account is active and a worker is up, every queued email
\* comes to an end, done or kept as dead, even if the process crashes for
\* ever (the poll, the retry delay and the count of attempts).
EveryJobSettles ==
  <>[](active /\ current # NoWorker)
    => \A j \in Jobs : Actionable(job[j]) ~> ~Actionable(job[j])

\* What email-worker.js says of stopWorker before Clear all: no job runs on
\* after the wipe, so nothing of a cleared job is stored.
NoRowAfterClear ==
  [][\A r \in Added : job[r.id].status # "cleared"]_vars

\* What email-worker.js says of a run held because of a disable: nothing is
\* lost, the job is there to be read when the account is enabled again.
HeldJobIsReadAgain ==
  [][\A j \in held : job'[j].status = "dead" => job[j].status = "dead"]_vars
=============================================================================
