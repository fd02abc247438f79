# A verification project for the Xero invoice app

The program (`src/main`, Node.js, one process, SQLite) reads bills from a
mailbox with a language model, keeps them as rows, and sends the rows to Xero.
This directory holds TLA+ modules of the parts of it where order, failure and
waiting matter, TLC runs of them, and theorems about them that TLAPS checks.

## 1. The system

One Node process serves everybody. It runs one callback at a time; SQLite and
most file writes are synchronous, so what can come between two steps of a
function is decided by its *real* waits: a call to the language model, to Xero,
to IMAP, to the image fitter, or a timer. An `await` of a synchronous store
function is only a microtask. State on disk (the database, job files, PDFs)
survives a crash; queues, chains, workers and in-flight sets are in memory and
do not. Accounts share almost nothing, so the models have one account.

| Component | State | Operations | Talks to | What is hard | What makes it correct |
|---|---|---|---|---|---|
| Email queue, worker (`queue/`, `intake/dedup.js`) | a JSON file per mail (status, attempts), `_workers`, `_inFlight` | enqueue, claim, fail, finish, bury, hold, wipe, poll, recover | watcher (enqueues), parser, row store | workers that outlive their stop, crash loops, partial runs, redelivery, disable mid-read | one run per job, bounded runs, nothing finished unbilled, one row per bill |
| Invoice rows (`utils/invoice-store.js`, `routes/invoices.js`) | rows: status, Xero id, figures | store, edit, move, report, delete, clear | every sender, email pipeline, UI | steps of people in the middle of a send | what is in Xero stays known and stays corrected in place |
| Sends to Xero (`utils/invoice-handler.js`, `queue/processor.js`, `xero/invoices.js`, `index.js`) | automatic chain, send queue, boot list (memory), the `submitting` claim (disk) | five callers of `submitInvoiceToXero`, release and retry at boot | Xero, rows | lost answers, restarts, two senders | one send at a time, no bill left behind, no blind repeat |
| Claim batches (`claims/claim-queue.js`, `-worker`, `-import`, `intake/bill-intake.js`) | a job file per batch with its payload, the engine's object in memory | import, take, cancel, fail, settle, sweep, recover | readers, row store, UI | cancel against finish, no in-flight guard, final saves that stop half way | bounded starts, nothing left out of a finished batch, one row per file, batches end |
| Mailbox watchers (`email/watcher-registry.js`, `email/idle-sweeper.js`, `routes/process.js`) | a connection per account with its timers and scan flags, the setting on disk | start, stop, reconnect, scan, resume, sweep | IMAP, email queue | a connection that was let go still answers, retries against stops, boot against people | no timer without its connection, off only for a reason, a stop stays one, what is marked seen was queued |
| Xero connection (`utils/token-cache.js`, `xero/oauth.js`, `jobs/xero-keepalive.js`) | the rotating refresh token on file, tokens and organisations in memory | read, reconnect, refresh, keep-alive, consent, disconnect | Xero, every sender and report | refreshes that meet, answers that are lost, a restart between rotation and save | one refresh at a time, the token on file works, nobody is asked to reconnect in vain |
| Language-model client (`utils/gemini-client.js`) | queue, slots, window and timer of an account; schemas known as refused | call, wait, rotate, retry | model API | slots, window and timer running out together; faults of many kinds in one call | limits kept, the queue moves, a call fails only with nothing left to ask |
| Receipts (`routes/receipts.js`, `utils/receipt-store.js`, `pairing.js`) | captured files, reading state | upload, read, resume, pair | language model, rows | boot resume against edits | each receipt read to an end, one row |
| Status sync (`xero/status-sync.js`) | rows' Xero statuses, the time of the last complete read | list, ask in batches, ask again for days, store, catch up | Xero, senders | changes during a read, sends stored late, partial failures | no change slips past the conditional read, no day of payment is lost |
| Change detector (`xero/change-detector.js`) | a cursor and a version stamp per company | look, page, announce | Xero, report cache | failures between pages, changes during a look, the cap on pages | nothing behind the cursor that was not announced |
| Reports (`xero/report-cache.js`, `routes/xero-reports.js`, `pages/XeroInsights.jsx`) | cached figures, requests under way, what the page shows | ask, force, share, clear, poll the version | Xero, change detector, UI | figures read before a clear and stored after it, a stamp adopted too early | a change announced reaches the screen |
| Accounts and sessions (`routes/auth.js`, `utils/sessions.js`, ...) | sessions, codes, links | sign in, renew, revoke, retain | everything | renewal against revocation | what is revoked stays revoked |
| Readers, matchers, reports, chat, UI, scripts | none that matters to the order of steps | | | | pure or presentational |

`PROJECT.json` lists every component with its files and why it is or is not
modelled, and under `hazards` each place where this code is hard to test.

## 2. Modules

| Module | What it is |
|---|---|
| `RetriedJobs` | abstract: a queue of jobs that workers take up, a bounded number of times |
| `EmailQueue` | one job file of `queue/email-queue.js`, operators on a job |
| `EmailWorker` | the pipeline over those jobs: watcher's enqueue, `_processNext` split at its waits, `onInvoiceEmail`, start, stop, disable, Clear all, restart; implements `RetriedJobs` |
| `MCEmailWorker` | a small mailbox, and `MCEmailWorker*.cfg` |
| `EmailWorkerProofs` | theorems about `EmailWorker`, the refinement of `RetriedJobs` among them, and what `RetriedJobs` is worth |
| `BillLedger` | abstract: rows that become bills somewhere else, one send at a time |
| `InvoiceSubmission` | rows, sends and Xero: every caller of `submitInvoiceToXero` and every route that moves, edits or deletes a row; implements `BillLedger` |
| `MCInvoiceSubmission` | one row, and two rows of one bill, with their `.cfg` files |
| `InvoiceSubmissionProofs` | theorems about `InvoiceSubmission`, the refinement of `BillLedger` among them, and what `BillLedger` is worth |
| `ClaimQueue` | one job file of `claims/claim-queue.js`, operators on a job |
| `ClaimWorker` | one account's batch imports: the upload, `_processNext`, the claim engine and the bill engine split at their waits, cancel, disable, expiry, restart; implements `RetriedJobs` |
| `MCClaimWorker` | claims and a bill to upload, and `MCClaimWorker*.cfg` |
| `ClaimProofs` | theorems about `ClaimWorker`, the refinement of `RetriedJobs` among them |
| `SingleFlight` | abstract: callers that share one request at a time |
| `XeroConnection` | an account's connection to Xero, cut at every await of the connection code; implements `SingleFlight` |
| `MCXeroConnection` | two organisations, with its `.cfg` files |
| `XeroConnectionProofs` | theorems about `XeroConnection`, the refinement of `SingleFlight` among them |
| `Watcher` | an account's mailbox watcher, with the connections it let go |
| `MCWatcher`, `WatcherProofs` | its runs, and theorems about it |
| `StatusSync` | the read of the rows' statuses back from Xero, call by call |
| `MCStatusSync`, `StatusSyncProofs` | its runs, and theorems about it |
| `ChangeDetector` | the look for changes in one company's books |
| `MCChangeDetector` | its runs |
| `LiveReports` | extends `ChangeDetector` with the report cache and the page: how a change gets to the screen |
| `MCLiveReports`, `LiveReportsProofs` | its runs, and theorems about it and `ChangeDetector` |
| `ModelClient` | the limiter of the language model's client, and the walk of a call over keys and models |
| `MCModelClient`, `ModelClientProofs` | its runs, and theorems about it |

### EmailWorker against the code

`job` is the directory of job files (`EmailQueue` has the transitions of one:
`Claimed`, `Failed`, `Finished`, `Buried`, `Wiped`). `current` is the worker in
`_workers`, `run` the `_processNext` call each worker object is in: `stopWorker`
only takes the object out of the map, so a run may outlive it. `inFlight` is
`_inFlight`. `rows` keeps of a row what the pipeline's look-ups read: mail,
document, and whether it stands, was set aside (`error`, `duplicate`), or came
back from there. `started`, `held`, `billed`, `unread` are history; `unread` are
the documents whose reading came to nothing in the run that finished their mail.

A call of `_processNext` is cut where it waits:

* to the reading: `GiveUp`, `SkipRecorded`, `BeginRun`;
* after it: `HoldAfterParse`, `ParseAnswers`, `FailRun`. The documents are read
  apart (`Promise.allSettled`): any of them may be lost (`Read`), and the run goes
  on with the others;
* one document after another, without a real wait (`at = "storing"`, during
  which no other callback runs: `Quiet`): `StoreSkips`, `StoreAdds`, and for a
  photo `StoreWaits`, then after `_keepPhoto`'s wait `PhotoKept`;
* `FinishRun` (`markDone`); `EndRun` is the `finally` block.

`Restart` may come at any point, also inside the synchronous part.

### RetriedJobs, and the two queues it describes

`RetriedJobs` says what both queues of job files promise, whatever fails: a job
is handed to a worker only while it waits, each time counted before the work
begins and at most `MaxTries` times; only a worker to whom it was handed finishes
it, only one, or its spent tries, gives it up; and what has ended stays so. Its
two constants are where the queues differ. The email worker has an in-flight set
and acts on files that are there (`Shared`, `Reopened` are FALSE); the claim
worker has no such set, and its engine's mirror writes over the stage of its job
whatever it is (both are TRUE), so a job with an engine on it may come back after
its end, and only such a one. A job's `phase` is read off its status or stage,
`tries` is `attempts`, and `on` the job of the run or engine that a worker object
is in. Retry delays, payloads, rows and the account are not seen there, nor is a
worker that is stuck with nothing running.

### InvoiceSubmission against the code

`row` is the table, `send` the calls of `submitInvoiceToXero` that wait, with
what they read when they claimed the row. A call first runs to the claim in one
step (`SubmitInvoiceToXero`: duplicate check, `Claim`); then either nothing
reaches Xero (`NotSent`) or it takes the document (`XeroCreates`, `XeroUpdates`);
then its answer comes (`Answered`) or is lost (`AnswerLost`). The callers are
the automatic chain (`AutoTurn`, and `HoldTurn` when the account was disabled
meanwhile), the Submit button (`SubmitNow`), the send queue of Submit all and
bulk send (`QueueSend`, `QueueTurn`) and the boot retry (`BootScan`,
`BootTurn`). `Edit`, `SetStatus`, `Report`, `Resolve`, `Delete`, `SetActive` are
what people and admins do meanwhile, `StoreRow` how rows come in. Xero is
external: a set of bills, each with the row and content it was made from. It
answers a create repeated with the same content with the bill it made before,
until `WindowPasses`.

Three writes in the code do not ask whether a row is being sent: a status set by
hand (`SetStatus`), a report (`Report`), and the chain's "held as pending"
(`HoldTurn`, which writes over any status, posted included). All of them are steps
of the model at any moment. What they cost is history: `seized` are the rows whose
status was once written over mid-send (`Overwrites`), `held` those that the chain
held. The properties say of each what is left of the promise for such rows, and
section 5 what is not.

`BillLedger` is what all of this promises, in six variables: whether a row is
here (`place`), what it shows (`shown`, its version), the bill it says it became
(`named`, its Xero id), the row of each send under way (`on`), and the bills with
what each shows (`docs`), and which rows are `loose`. A row is with at most one
send and is neither changed nor dropped meanwhile; a send makes a bill only of a
row that names none, and corrects only the bill its row names; a row comes to name
a bill only by a send that ends well, and only one of its own that shows what it
shows. A row pulled from under its send (`loose`, the rows in `seized`) is
released from this: it may be changed, dropped and sent again meanwhile, and trade
the bill it names, but never for none or for another row's. Statuses, callers, the
queues, the duplicate check, disables and the idempotency window are not seen
there. That a repeated create is answered with the bill made before is there only
as a send that lands on a bill which an earlier one made.

### ClaimWorker against the code

`job` is the directory of job files (`ClaimQueue` has what `markRunning`,
`save`, `markCancelled`, `sweep` make of one). `current` is the worker in
`_workers`; `run` is, per worker object, the engine it has started and its
locals: a disable drops the worker from the map and leaves the engine running.
`listed`, `memory` and `hooked` are `claim-import.js`'s `_jobs` and `_hooks`: the
engine a cancel reaches, the object of a run that ended, and whether the engine
still mirrors its stages to the file. Of the rows of an item, `live` counts those
never set aside; the item is in `aside` when some row of it is in `error` or
`duplicate`, where no look-up finds it, and in `back` when a person took one back
from there (`RemoveRow`, `SetRowAside`, `BringBack`). `started`, `handled`,
`cancels` and `overlapped` are history; `overlapped` says that a job was once taken
while an engine was running.

* `_processNext` up to the engine's first real wait is one step: `LaunchClaim`,
  `LaunchBill`, `RerunEmptied` (a job whose payload a cancel dropped and whose
  engine's last write then failed: it is done at once), `FailLaunch`, and `Jam`
  (the disk cannot be written: the worker stays busy with nothing running).
  Each begins by setting the poisoned jobs aside, and `TickSetsAside` is the
  tick that finds nothing else to do.
* The claim engine: `Unpacked`, `FormRead`, a `GroupRead` per model call, then
  per row `LookUp` (the look for a duplicate) and, after the wait for the chart
  of accounts, `PlaceRow`. A cancel is seen before a group of receipts only
  (`StopAfterForm`, `StopReading`).
* The bill engine: `BillsUnpacked`, a `ReadBill` per PDF.
* The last write of an engine (`Settle`) unlinks the payload before it writes
  the stage and may stop in between (`Ended`, `Gutted`); the worker is free
  either way. `FailRun` is an engine that refuses or throws.

### XeroConnection against the code

`config` is the account's configuration on disk (refresh token, and the app: its
Client ID and Secret, which `SaveApp` replaces), `health` the refusal remembered by
the fingerprint of app and token (`Fingerprint`);
`access`, `listed`, `rows` are the access tokens and the list of organisations
in memory and the rows of `xero_tenants`. `calls` are the callers that wait: a
cold read, an expired read, a direct reconnect, the keep-alive, a consent, a
disconnect. `reconnecting` and `renewing` are `token-cache.js`'s shared promises,
`refreshing` is `oauth.js`'s; `posts` are the requests to Xero's token endpoint,
each of which Xero may carry out, refuse, or carry out with nobody hearing of
it. Xero rotates: a token is good until it is used, its successor after that. It
refuses a token that is not (`invalid_grant`), and may come to refuse the app for a
grant (`XeroBars`: `invalid_client`, `unauthorized_client`) whatever the token is;
the pairs refused so are `barred`. `excuse` is history: the grants a person ended,
or whose answer was lost.

### Watcher against the code

One account. `imap` is `s.imap` and how far it is, `poll`, `debounce`, `retry`
the timers of the state object, `attempt` its count of tries. `scan` holds
`fetchInProgress`, `fetchPending` and every search and fetch not over, each with
the connection it is on: the watcher's ("live"), one that was asked to log out
and still answers ("stale"), or one whose socket is gone and of which only mails
already delivered are left ("cut"). A mail is a number in a mailbox; flags are
set by number on whatever mailbox is open then, as in the code. `enabled` is the
setting on disk, `wanted` what a person last asked for.

### StatusSync against the code

`sync` is one read of one company, from the listing of its rows (`SyncLists`) over
the three kinds of question (`Ways`: rows never read, rows to catch up,
everything that changed `Since`) and their batches (`XeroAnswers`,
`XeroAnswersInFull`, `FullFails`) to the store (`SyncStores`). `send` is a
document whose answer has come from Xero and is not stored yet. Time is a clock
that changes in Xero, reads and sends share; `Drift`, `SendTime` and `ListAge`
bound how much later things are stored than they were so, and `Slack` is the
five minutes the code allows for it.

### ChangeDetector and LiveReports against the code

The books of a company are a sequence of changes; a journal's number and any
time are positions in it. `row` is the company's row of `xero_change_cursor`,
`look` the look under way, with one action per call to Xero. `barred` says that
there is a reason to take no look (`_whyNotLive`: a scope, a Custom Connection, a
connection that needs reconnecting, the allowance). It lasts until `BarGoes`, which
nothing makes happen; meanwhile `LookSkipped` writes that the row is not live.
`LiveReports` adds
`cache` (with what a forced read's grace does to an entry), `fetches` (requests
under way, by report and whether forced: `_dedupe` shares them), and of the
page what it waits for, shows and last saw as the version. Figures are known by
the position they were read at; `late` marks figures that were read before a
clear and stored after it. `excused` is history: what the page adopted as known
or lost with a failed request.

### ModelClient against the code

`queue`, `stamps`, `running`, `timer` are the fields of `UserRateLimiter`
(`stamps` are ages), `Drains` is `_drain`, called by a new call, by the end of one
and by the timer. `calls` are the calls of the account: `After` is what the loop of
`callGemini` does on one answer, with `NextModel` and `NextKey` its two loops and
`BadRequest` the retry in plain JSON. `seen` (a call's answers) and `age` (since
it began) are history, kept apart from `stamps`.

### Abstractions

* A document is an atom with a bill (`BillOf`): two readings of it agree, and
  the fuzzy matcher of vendor, number and amount is taken as "same bill".
  Edits change the content (`version`), not the bill.
* A document that is read gives one row. The readers fall back to a guess; a
  reading that throws loses its document, and a mail that cannot be taken apart for
  reading at all fails its run.
* In `EmailWorker` a mail has a Message-ID, job files are readable, and the
  write of an attempt at the claim succeeds. `markDone` is one step.
* In `InvoiceSubmission` the amount check of the submit routes, the refusal
  when Xero has paid or voided the bill, and the auto-process switch are free
  choices or left out; a row that Submit all queues twice has one turn (a second
  does what another click would). The three
  routes that set a status are one action over the statuses they allow.
  Attachments and posting notes come between document and answer and change
  neither.
* In `ClaimWorker` a batch is a set of items, each of which becomes a row: a
  receipt (with or without a line of the form, which is matched to it), a line
  without one, a PDF. Archive entries that cannot be read, which the program
  reports, are not items. The stages between "queued" and an end are one. A file
  is its own duplicate and no other's; the fuzzy rules on vendor, date and
  amount are left out, which makes the look-up find less. The rows of an item
  are counted while none was set aside or brought back; after that only whether
  there are any.

* `XeroConnection` has the connection with a refresh token only (the Custom
  Connection's credentials do not rotate), `Watcher` one
  account with settings that are valid, `StatusSync` one company, `LiveReports`
  one company and reports that are not built on each other. Each leaves out the
  figures and texts themselves.
* In `ModelClient` sizes of `max_tokens` are ranks, a key or model is its place in
  the order tried, and what a caller does with a failure is left to it.

## 3. Runs

| Run | Bounds | Shows |
|---|---|---|
| `email_safety` | 2 jobs, 2 workers, 2 attempts, 3 mails: a PDF and a photo, another file of the same bill, a body | `OneRunPerJob`, `RunsBounded`, `DoneMeansBilled`, `OneRowPerBill`, `NoTextRowWhileDisabled`, `JobsAreRetried` (refines `RetriedJobs`) |
| `email_settles` | the same with one photographed bill | `EveryJobSettles` |
| `submission_safety` | 1 row, 1 edit, 2 sends, 2 Xero ids, the queue of Submit all | `NoBillLeftBehind`, `InXeroIsPosted`, `PostedMatches`, `NoBlindRepeat`, `KeepsLedger` (refines `BillLedger`) |
| `submission_pair` | 2 rows of one bill, 1 send, 1 Xero id, no edit, no send queue | `SetAsideHasOriginal`, `SendsEnd` |
| `claims_safety` | 2 jobs, 2 workers, 2 attempts, a claim of 2 receipts, rows left alone | `JobsAreRetried` (refines `RetriedJobs`), `DoneMeansHandled`, `EndedStays` |
| `claims_end` | 2 jobs, 2 workers, 1 attempt, a claim of 1 receipt, a bill, rows that are deleted, set aside and brought back | `OneRowPerFile`, `EveryImportEnds` |
| `connection_safety` | 2 calls, 2 organisations, 2 grants, 2 apps of which Xero may refuse one, 2 requests, 1 restart | `TokenOnFileWorks`, `NeverAskedInVain`, `OrganisationsAgree`, `NobodyStranded`, `RefreshIsShared` (refines `SingleFlight`) |
| `watcher` | 1 mail, 2 retries, 2 fetches not over, 3 faults | `TimersBelong`, `NeverSilentlyOff`, `StaysOff`, `SeenIsQueued`, `MailGetsQueued` |
| `status_sync` | 2 documents, 1 to a call, clock to 5, 1 fault | `NothingSlipsBy`, `PaidDayKept`, `RowsCatchUp` |
| `change_detector` | 4 changes of 2 kinds, 1 journal to a page, 2 pages to a look, 2 faults | `NothingPassedOver`, `EveryChangeNoticed` |
| `live_reports` | 2 journals, 1 report, 1 forced refresh, 1 fault | `CacheFollowsNotice`, `EveryChangeShown` |
| `model_client` | 3 calls, 2 keys, 2 models, 2 calls to a window of 2 ticks, 2 slots, 2 faults | `LimitsKept`, `FailsForAReason`, `NeverRepeated`, `QueueMoves` |

The type invariants are proved for every value of the constants (section 4), and
so is `StartsBounded` of the imports; no run repeats them. `OneSendPerRow` is part of
what `KeepsLedger` says (`BillLedger!Exclusive`).

Why these are enough. Two job files and two workers are what it takes for a
stopped run to meet its successor, and for a mail to be delivered twice or two
mails to carry one bill; two attempts are the least for which "the last one"
differs from the first; the mailbox has one document of each kind the code
treats apart. With two sends every pair of callers meets on the row, a third
could only wait as the second does; two ids leave room for a bill whose answer
was lost, or that was left behind by a status written mid-send, and a second. The
queue of Send to Xero (`Routes`) differs from Submit all's in what it takes and
refuses at a click, not in its turn; it is in the runs of section 5 and in every
theorem. Two rows are all that a duplicate check relates; the run with two has them
sent by the chain, the button and the boot retry.
For the imports two jobs are a claim uploaded twice, or a claim and a bill next
to each other (then with one attempt: a crash already leaves a job to be set
aside); groups of one receipt (`BatchSize = 1`) give the engine a point
between groups at which a cancel is seen and one at which it is not; two waiting
jobs (`MaxQueued`) are all there are, so that the limit is never in the way. What
becomes of rows after the import (`Touched`) matters to the look for a duplicate
only, and is in the run that checks what that look is for.
The bounds are constants (`MaxAttempts`, `Jobs`, `Workers`, `Sends`, `Ids`,
`MaxVersion`, `Routes`, `Touched`, `BatchSize`, `MaxQueued`, `MaxBarred`); when `Ids` are used up Xero takes no
more creates, which stops no other action. Symmetry is over workers, the two like receipts and, for two rows
of one bill, sends, ids and the rows, in runs without liveness only. One edit
(`MaxVersion = 1`) is what tells what a send read from what the row shows now.

In the connection two calls are what it takes to meet: one that asks and one
that joins, follows or comes in between; two organisations to disagree, two
grants for an old one and a new one, two apps for the one whose refusal is
remembered and the one saved after it. The watcher's mail comes, is processed and
may be marked unread, any number of times; two fetches not over are one of the
connection let go and one of the new one; two retries tell the last from the
others. Two documents in batches of one put every change before, between and
after two calls of a read; the clock has room for a read on each side of it, a
slack of two covers a send and a list that are a tick late each. With a page of
one journal and two pages a third journal meets the cap, the fourth comes after
it. A report read plainly and by force, two journals and one fault are what it
takes for a read, a clear and an announcement to come in every order. Three
calls with two slots and two to a window leave one that waits for either; two
faults refuse a call both its keys, or one key and one of the next one's models.
`MaxFaults` counts what fails once: a failed call, a restart, a disconnect, and of the
detector the coming of a reason to take no look, but not the looks that fail or are
skipped while it lasts.

Deadlock is checked in every run but `status_sync`, where time has a bound: once
the clock is at it and the last read is stored, nothing is left to happen.

### Fairness

`EmailWorker!Fairness`: a tick that stays possible is taken (the poll fires
every five seconds), a retry delay runs out (a timestamp), a step of a run is
taken (the model call has a timeout; the rest is code). Nothing is assumed of
people or of the mailbox, and crashes may go on for ever:
`EveryJobSettles` therefore rests on the count of attempts on disk.
`InvoiceSubmission!FairSpec`: a call to Xero ends, one way or another.
`Watcher!FairSpec`: timers fire, a handshake is answered or times out (`authTimeout`,
and the library's own limit on connecting), and a mail that was delivered is parsed and queued. Nothing limits
how long the server may take over an openBox, a search or a fetch (no
`socketTimeout` is set, `watcher-registry.js:324-333`), so that it answers those is a
premise of the property: `MailGetsQueued` is `ServerAnswers => MailGetsQueuedAnyway`, and
the second alone is refuted (section 5). Nothing is assumed of people, of boots or of
sweeps either: a watcher that is off is left out. `StatusSync!FairSpec` and
`ChangeDetector!DetectorSpec`: the job comes round, and a call to Xero ends; that what
bars a look ever goes is not assumed, and `EveryChangeNoticed` then asks that the row
says it is not live.
`LiveReports!Fairness`: also the page polls while it is open. `ModelClient` and
`XeroConnection` state none: `QueueMoves` and `NobodyStranded` say as invariants
what there is to wait for.
`ClaimWorker!Fairness`: a tick that stays possible is taken (the poll, every five
seconds), and an engine's next step is (the model call has a timeout, the rest is
local). `EveryImportEnds` holds of an account that is in the end active, with a
worker that is up and not jammed: nothing starts one but an upload or a boot with
something pending, and nothing frees a jammed one but a restart or a disable.

## 4. Proofs

Checked by TLAPS for every value of the constants that meets the named
assumptions (finite sets are not needed, nor is any bound but `MaxAttempts \in
Nat`, `MaxVersion \in Nat`).

*EmailWorker.* `RunInv` is inductive (`RunInvariant`). Type correctness and
`OneRunPerJob` alone are not: that the successor of a stopped worker leaves its
job alone needs that `inFlight` is exactly the jobs being run
(`InFlightExact`); that runs are bounded needs that each start was counted on
the file (`StartsCounted`), which needs that a run's file is still
`processing` or cleared (`RunsOwnJobs`). From it: `TypeCorrect`,
`NoJobRunTwice`, `RunsAreBounded`. On top of it `RowInv` (`RowInvariant`): the
documents of a mail that are neither in hand nor billed are none
(`WorkBilled`), and once a run waits for a photo, or the account was disabled,
only photos are left (`PhotosLast`). From it: `NothingFinishedUnbilled`,
`NoTextBillTwice`, `TextsStoredWhileActive`. What a reading lost is not in hand nor
billed, and `WorkBilled` says so of the run as `DoneMeansBilled` does of the job. These
three assume `NamesTellApart`
(stored names tell the documents of one mail apart), as they must:
`MCEmailWorkerForward.cfg` is what happens without (section 5).

Step by step (`RetriedStep`, under `RunInv`) each action of `EmailWorker` is one of
`RetriedJobs` or leaves what that sees alone: so `EmailsAreRetriedJobs`. It needs
`InFlightExact` (no worker is on the job a tick takes up), `RunsOwnJobs` (what a run
ends is still waiting, or has no file) and job ids that are not 0, the id of an
idle run. `RetriedIsBounded` is about the abstract queue alone: from its own
steps, no job is tried too often or with two workers.

*InvoiceSubmission.* No theorem assumes anything of what is written over a row
mid-send. `SendInv` is inductive (`SendInvariant`), and says of each of its parts what
such a write (`seized`) leaves of it: a send's row is marked and unchanged since the
claim, or seized, and was stored, shows no less and has the Xero id it had then in any
case (`SendsMarked`); an answered send carries a bill of its row with the content it
was claimed with (`SendsAnswered`); a row's id names a bill made for it
(`InXeroMatches`), for posted rows (`PostedIsInXero`); an id is one bill's
(`OneBillPerId`); a bill that no row names was never corrected (`BillsAsMade`:
otherwise a repeated create would be answered with a bill that differs from the row);
and what a restart cut off stays where nothing automatic takes it (`CutOffWaits`).
From it: `NeverSentTwiceAtOnce`,
`NothingLeftBehind`, `PostedOnceInXero`, `PostedShowsXero`,
`DuplicatesHaveOriginals`, and as action properties `IdsStayForever` and
`CutOffIsNotRepeated`.

`SubmissionKeepsLedger` is the refinement, with one lemma for each kind of step that
`BillLedger` sees (`ClaimIsSend`, `UnansweredIsFail`, `AnsweredIsLand`,
`UpdatesIsCorrect`, `CreatesIsMake`, `DeleteIsDrop`, `RestartIsRestart`,
`OverwriteIsLoosen`) and one for those it does not (`RowsUnseen`). That a row may be
dropped or sent again needs it to be under no send, or loose (`UnmarkedIsOpen`).
It is where `SendInv` is spent: an answer lands on a bill that shows what the row
shows because of `SendsMarked` and `SendsAnswered` together, although two waits
lie between the claim and the answer. `LedgerPromises` is about the abstract
module alone: its steps leave a row the name it has and the bill that goes with
it, whoever takes them.

*ClaimWorker.* `RunInv` is inductive (`RunInvAlways`): every start was counted on
the file before the engine began, and no job is taken that has used its attempts
(`StartsCounted`); an object in memory that has not ended is that of an engine
running its job (`ObjectsRun`); that job was created (`RunsOwnJobs`). From it:
`TypeCorrect`, `StartsAreBounded`, and the action property `EndedStaysEnded`
(needs `ObjectsRun`: the mirror a cancel writes through exists only while the
engine does). These hold with overlapping engines too. On top of it `RowInv`
(`RowInvAlways`): what an engine that makes rows has not left to do was handled
(`RestHandled`); a job that may still be run lost its payload to a cancel or not
at all (`DroppedByCancel`, with `EndedDropped`: otherwise an emptied job would be
run again and be done with nothing in it); what the look for a duplicate found is
still so when the row is made (`LookHolds`). From it: `NothingDoneUnhandled` and
`NoFileTwice`. Their three data conjuncts are conditional on `~overlapped`, as
they must be: engines do overlap (`OneAtATime`, section 5).
`ImportsAreRetriedJobs` is the refinement of `RetriedJobs` and needs `RunInv` only:
poisoned jobs set aside in the step that takes the next one are given up with
their tries spent, and a cancel that reaches an ended import is that of an object
whose engine still runs (`ObjectsRun`). It holds with overlapping engines.

*XeroConnection.* Four layers. `Types` is what the other two need of the types.
`Sharing`: whoever waits for another's work waits for one that makes it
(`SharingAlways`); from it `SomeoneIsWaitedFor`, and step by step
`RefreshIsOneFlight`: the refresh implements `SingleFlight`, under the mapping that
reads a waiting call's `on` as the request it shares. `Tokens`: the token on file
is the one Xero accepts, or one that the request under way has just used, or its
grant has an excuse; every request was made with a token known to be on file
then; and what is refused, or remembered as refused, has an excuse or is an app
that Xero bars (`TokensAlways`). From it `FileIsGood` and `AskedForAReason`.
`Organisations`: the list, the tokens in memory and the rows are one set
(`OrganisationsAlways`). It needs what the calls hold in hand (`InHand`): a call
that lists the organisations has a token to give them, or they would be listed
without one; the token a refresh brings is never none (`NextToken`), or a renewal
would take it from all of them. What is left of a
list is `Filtered`, a recursive function; that it lists exactly what is kept, in
the list's order, is proved once, by the least place where it would not
(`FilteredIs`, `FilteredKeeps`). From it `ConnectionTypes` and
`OneListOfOrganisations`. All of these hold for any calls, organisations, grants,
requests and restarts; `Order` is assumed to list every organisation.

*Watcher.* `Safe` is inductive (`SafeAlways`): types, with `Free(scan) # {}` wherever
a scan is pending, and the four safety properties, which hold each other up (a
retry pending at a stop is what `TimersBelong` and `StaysOff` both speak of).
From it `TypesHold`, `TimersAreTheWatchers`, `OffHasAReason`, `OffStays`.
`SeenWasQueued` adds the mails, and assumes one mailbox: with
two it is false (`MCWatcherMoved.cfg`).

*StatusSync.* `SInv` (types and the shape of a read) is inductive. On top of it
`HInv`: a row behind Xero is one the next read will ask for, by one of the three
ways, or one the read under way has in hand; it assumes `SlackIsEnough`
(`Drift + SendTime + ListAge <= Slack`), as it must (`MCStatusSyncSend.cfg`,
`MCStatusSyncList.cfg`). From them `TypesHold`, `NoRowSlipsBy` and, with `Days`, the
action property `DayIsKept`.

*ChangeDetector and LiveReports.* `DetectorSafe` is inductive: neither the cursor
nor a look is ahead of the books, and a later look starts at the cursor
(`LookSound`); until a first look has ended nothing was noticed (`BeforeFirst`);
and the cursor has nothing behind it that was not (`NothingPassedOver`). From it
`DetectorTypes` and `CursorLeavesNothing`. `LiveSafe` adds the cache and the page:
a request that has its answer, and lived through no clear, read everything noticed
by now (`ReadsFollow`). From it `ReportTypesHold`, `CacheIsNoOlder` and, for the
composition, `LiveCursorLeavesNothing`. That a set of journals has a newest comes
from the well-foundedness of the naturals.

*ModelClient.* Two invariants in one, `Safe`. Of each call for itself
`WalkSound`: everything on the keys before the one it asks is ruled out by an
answer it had, so are the models before (`Behind`), and, where this key was
never the problem, on every key; and its answers are all to requests `Before`
the one it makes, an order on keys, models, sizes and forms that every branch
of the walk goes up in. Of all of them `Limiter`: the queue has each queued call
once, `running` counts the slots taken, each call begun in the window has a stamp
of its own (an injection, `Covers`, from which the count follows), and a timer
rings no later than the oldest stamp leaves. `Moves` is what a drain makes
true and nothing else takes away. From it the six theorems, for any number of
calls, keys, models and sizes, any limits and any faults.

*Only model-checked:* the liveness properties `EveryJobSettles`, `SendsEnd`,
`EveryImportEnds`, `MailGetsQueued`, `RowsCatchUp`, `EveryChangeNoticed` and
`EveryChangeShown` (liveness under fairness is out of the prover's reach), and
what section 5 lists, which are counterexamples. Every other property of a run is
the subject of a theorem.

## 5. What the runs found

Places where the code does other than it, or a document, says. Each is stated as
a property in its module that TLC refutes within a minute, to be run by hand
(`tlc -config <cfg> <module>`): with the configuration named, or, where it is one of
section 3's ("in"), with the property in place of those it lists, without
its SYMMETRY.

| Configuration | Property | What happens | Where the code or a document says otherwise |
|---|---|---|---|
| in `MCEmailWorker.cfg` | `NoRowAfterClear` | rows are stored after Clear all, by the run the stopped worker was in | `queue/email-worker.js:207` |
| `MCInvoiceSubmissionStatus.cfg` | `OneSendPerRow` | a row is sent twice at once after a status was set by hand mid-send | `utils/invoice-handler.js:344-345` |
| `MCEmailWorkerDropped.cfg` | `DoneMeansAllBilled` | a document whose reading throws is left out, and its mail is finished | `README.md:221` |
| `MCInvoiceSubmissionTwice.cfg` | `OneRowInXeroPerBill` | two copies of a bill are sent at once and both get to Xero | `utils/invoice-handler.js:329-330` |
| in `MCClaimWorker.cfg` | `OneAtATime` | two imports run at once after a disable | `claims/claim-queue.js:17-18` |
| `MCClaimWorkerPoison.cfg` | `PoisonedIsFailed` | an import out of attempts is not marked failed at boot | `claims/claim-queue.js:168-169` |
| `MCClaimWorkerCancel.cfg` | `CancelledIsNotDone` | a cancelled import ends as done | `routes/claims.js:176` |
| in `MCEmailWorker.cfg` | `HeldJobIsReadAgain` | a job held, in its last attempt, because its account was disabled is buried unread | `queue/email-worker.js:148-150` |
| `MCEmailWorkerForward.cfg` | `DoneMeansBilled` | the second of two forwarded PDFs of one name is lost after a partial run | `queue/email-worker.js:48` |
| `MCInvoiceSubmissionDisabled.cfg` | `HeldIsForAPerson` | a row held because of a disable is posted by the boot retry | `utils/invoice-handler.js:127-128` |
| `MCInvoiceSubmissionRetry.cfg` | `InterruptedIsRetried` | a row being sent at a restart is held for review, not retried | `README.md:599` |
| `MCClaimWorkerActive.cfg` | `ActiveIsInFlight` | a cancel after the end makes a failed import look in flight for an hour | `routes/claims.js:126` |
| `MCClaimWorkerDisabled.cfg` | `NoRowWhileDisabled` | an import running when its account is disabled makes its rows | `claims/claim-worker.js:56-60` |
| `MCClaimWorkerLine.cfg` | `RepeatedLineFlagged` | a claim line without a receipt, imported again, is stored again unflagged | the design of batch claims, tier 2 |
| in `MCXeroConnection.cfg` | `DisconnectForgets` | a disconnect takes each organisation out of the list it is walking, and leaves every second one with its token and row | `routes/xero-oauth.js:140-141` |
| in `MCXeroConnection.cfg` | `LatestConsentKept` | a refresh under way during a consent writes the old grant's token over the new one | `xero/oauth.js:439` |
| in `MCWatcher.cfg` | `StopLeavesServerUp` | Stop during a search that finds mail: its answer meets no connection and the exception ends the server | `email/watcher-registry.js:298-303` |
| in `MCWatcher.cfg` | `OffQueuesNothing` | a fetch outlives Stop and queues mail | `routes/setup.js:489` |
| `MCWatcherSilent.cfg` | `MailGetsQueuedAnyway` | a server that leaves a search unanswered on an open connection: every poll after it only sets `fetchPending` | `README.md:11` |
| `MCWatcherMoved.cfg` | `SeenIsQueued` | a fetch outlives a change of mailbox and flags the mail of that number in the new one | `email/watcher-registry.js:167` |
| in `MCWatcher.cfg` | `OneFetchAtATime` | the end of an old connection's fetch lets a second one start beside the new one's | `email/watcher-registry.js:41` |
| `MCStatusSyncSend.cfg` | `NothingSlipsBy` | a send stored more than the slack after Xero answered it | `xero/status-sync.js:278` |
| `MCStatusSyncList.cfg` | `NothingSlipsBy` | a company read more than the slack after the rows were listed | `xero/status-sync.js:278` |
| in `MCChangeDetector.cfg` | `CursorReachesAll` | after a look that met the cap on pages the next one does not go on where it stopped | `xero/change-detector.js:45` |
| in `MCLiveReports.cfg` | `PlainReadIsFresh` | figures read before a clear are stored after it | `pages/XeroInsights.jsx:307` |
| in `MCLiveReports.cfg` | `NothingOutlivesConnection` | the same across a disconnect | `xero/report-cache.js:160` |
| in `MCLiveReports.cfg` | `BaselineIsShown` | a journal posted between the read of a report and the first look is never announced | `xero/change-detector.js:219` |
| in `MCLiveReports.cfg` | `AdoptedIsShown` | the stamp of a change made during a Refresh is taken as shown | `pages/XeroInsights.jsx:310` |
| in `MCModelClient.cfg` | `RequestsWithinRate` | a call counts once, however many requests it sends | `README.md:19` |

What a status written over a row mid-send costs is more than the second send above.
The row may also be edited before the first send's answer marks it posted, so that
it shows what Xero does not hold; it may be deleted, and its bill is left in Xero with
nothing here that names it; the two sends may make two bills, of which the row names
the one answered last; and set to pending before a restart it is sent again by the
boot retry, although it may have reached Xero. The properties of section 3 name such
rows (`seized`) and hold of all others. The hold of a disabled account
(`utils/invoice-handler.js:129-131`) writes `pending` over whatever status the row has
by its turn, over a posted row too: it stays known by its Xero id, which is what the
duplicate checks and deletes go by, but is listed as waiting and is corrected in Xero
by the next boot retry (`InXeroIsPosted` names the case, `held`).

A row that a failed send left in `error` is not found by the look-ups for duplicates
(`utils/invoice-store.js:640-646`, `intake/dedup.js:77-85`), so that the file may be
imported again; a person may then set the first row back to pending, and the file has
two rows that no mark tells apart. `OneRowPerFile` is stated of the rows never set
aside.

`LimitsKept` is the limit on calls; that `README.md:19` promises it of requests is the
last line of the table.

One more needs no run: `README.md:611` says that watchers are not resumed after a
restart; `routes/process.js:136-170` resumes them, and so does `Watcher` (`Boot`,
`Resume`).

## 6. Plan

Built: `EmailQueue` and `EmailWorker`, `InvoiceSubmission` over
`BillLedger`, `ClaimQueue` and `ClaimWorker` over `RetriedJobs`, `XeroConnection` over `SingleFlight`, `Watcher`, `StatusSync`,
`ChangeDetector` and `LiveReports`, `ModelClient`. Next:

1. `ReceiptReading`, `Sessions`, `Retention`: small modules.
2. An abstract specification of a read that misses nothing, which `StatusSync` and
   `ChangeDetector` both implement.
3. The projection of `xero/cash-manager.js` as operators, checked against a
   reference definition.

### Not modelled

Readers and matchers of text, report arithmetic and layout, chat, UI but for the
page of `LiveReports`, migrations, scripts, demo data; the reasons are in
`PROJECT.json`.
