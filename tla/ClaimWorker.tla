----------------------------- MODULE ClaimWorker -----------------------------
(***************************************************************************)
(* One account's batch imports: main/claims/claim-worker.js over the job   *)
(* files of ClaimQueue, with the two engines it runs. A claim import       *)
(* (claims/claim-import.js) unpacks the archives, reads the form, reads    *)
(* the receipts in groups, and only then makes the rows; it keeps a job of *)
(* its own in memory, which a cancel reaches. A bill import                *)
(* (intake/bill-intake.js) reads a PDF and stores its bill, one by one,    *)
(* and knows nothing of a cancel.                                          *)
(*                                                                         *)
(* A step is the code between two awaits that really wait: for an archive, *)
(* a form, the model, a photo's bytes or the chart of accounts. The        *)
(* worker does not await the engine: it is busy until the engine settles.  *)
(*                                                                         *)
(* A worker is the object _getWorker() makes. stopWorker() only drops it   *)
(* from the map: the engine it started goes on next to whatever is started *)
(* afterwards, and no set of jobs in flight tells the next worker.         *)
(***************************************************************************)
EXTENDS ClaimQueue, FiniteSets

CONSTANTS Jobs,       \* ids of job files, in order of creation
          Workers,    \* worker objects
          NoWorker,   \* no worker in the map
          Items,      \* what becomes a row: a receipt, a claim line without one, a PDF
          NoItem,
          Kind,       \* [Items -> {"receipt", "line", "pdf"}]
          ItemsOf,    \* [Batches -> SUBSET Items]
          Touched,    \* items whose rows anybody touches: a bound of the checks
          BatchSize,  \* BATCH_SIZE: receipts in one model call
          MaxQueued   \* MAX_QUEUED_PER_USER

ASSUME JobsAssumption == Jobs \subseteq Nat \ {0}
ASSUME WorkersAssumption == NoWorker \notin Workers
ASSUME ItemsAssumption == /\ NoItem \notin Items
                          /\ Kind \in [Items -> {"receipt", "line", "pdf"}]
                          /\ ItemsOf \in [Batches -> SUBSET Items]
                          /\ Touched \subseteq Items
ASSUME BoundsAssumption == BatchSize \in Nat \ {0} /\ MaxQueued \in Nat \ {0}

VARIABLES
  job,        \* [Jobs -> Job]: the files under claim-queue/
  current,    \* _workers.get(userId)
  run,        \* [Workers -> Run]: the engine each worker has started
  listed,     \* _jobs of claim-import: the run whose object holds the id
  memory,     \* _jobs of claim-import: what a cancel finds of a run that ended
  hooked,     \* _hooks of claim-import: the ids with a mirror to the job file
  active,     \* users.isActive
  live,       \* [Items -> Nat]: rows of an item that were never set aside
  aside,      \* items with a row set aside: in 'error', or marked 'duplicate'
  back,       \* items with a row that a person brought back from there
  started,    \* history: how often each job was handed to an engine
  handled,    \* history: items an engine made a row of, or reported
  cancels,    \* history: jobs a person cancelled before they had ended
  overlapped  \* history: a job was once taken with an engine still running

files   == <<job, current, run>>
engine  == <<listed, memory, hooked>>
history == <<started, handled, cancels, overlapped>>
rows    == <<live, aside, back>>
vars    == <<files, engine, active, rows, history>>

Run == [at : {"idle", "stuck", "unpacking", "form", "reading", "saving", "placing"},
        id : Jobs \cup {0}, todo : SUBSET Items, item : Items \cup {NoItem},
        known : BOOLEAN, cancelled : BOOLEAN]
Idle == [at |-> "idle", id |-> 0, todo |-> {}, item |-> NoItem,
         known |-> FALSE, cancelled |-> FALSE]

Running(w) == run[w].at \notin {"idle", "stuck"}
Content(j) == ItemsOf[job[j].batch]
Receipts(j) == {i \in Content(j) : Kind[i] = "receipt"}
IsBill(j) == \E i \in Content(j) : Kind[i] = "pdf"

\* Mutant of Known: only bills are looked for.
KnownBill(i) == Kind[i] = "pdf" /\ (live[i] > 0 \/ i \in back)

\* findDuplicate, of a row about to be made: the same file, or the same bill,
\* not among the rows set aside. A claim line without a receipt has no vendor
\* and is never recognised.
Known(i) == Kind[i] # "line" /\ (live[i] > 0 \/ i \in back)

Init ==
  /\ job = [j \in Jobs |-> Unborn]
  /\ current = NoWorker
  /\ run = [w \in Workers |-> Idle]
  /\ listed = [j \in Jobs |-> NoWorker]
  /\ memory = [j \in Jobs |-> "none"]
  /\ hooked = {}
  /\ active = TRUE
  /\ live = [i \in Items |-> 0]
  /\ aside = {}
  /\ back = {}
  /\ started = [j \in Jobs |-> 0]
  /\ handled = {}
  /\ cancels = {}
  /\ overlapped = FALSE

-----------------------------------------------------------------------------
(* People                                                                  *)

\* startWorker makes a new object when the map has none.
StartedWorker ==
  IF current = NoWorker
  THEN \E w \in Workers : run[w].at = "idle" /\ current' = w
  ELSE UNCHANGED current

\* POST /import: a job is written and a worker started, unless too many wait.
Enqueue(b) ==
  /\ active
  /\ Cardinality({k \in Jobs : Waiting(job[k])}) < MaxQueued
  /\ \E j \in Jobs :
       /\ job[j] = Unborn
       /\ \A k \in Jobs : k < j => job[k] # Unborn
       /\ job' = [job EXCEPT ![j] = NewJob(b)]
  /\ StartedWorker
  /\ UNCHANGED <<run, engine, active, rows, history>>

\* DELETE /import/:id. The engine's object is told first, if there is one: its
\* mirror writes 'cancelling' over whatever the file says, and then
\* markCancelled writes 'cancelled'. An object whose run failed or was
\* cancelled becomes 'cancelling' too; one that is done stays, like none.
Cancel(j) ==
  /\ active
  /\ job' = [job EXCEPT ![j] = MarkedCancelled(IF j \in hooked THEN Saved(@, "running") ELSE @)]
  /\ run' = [w \in Workers |-> IF listed[j] = w THEN [run[w] EXCEPT !.cancelled = TRUE] ELSE run[w]]
  /\ memory' = [memory EXCEPT ![j] = IF @ = "failed" THEN "cancelling" ELSE @]
  /\ cancels' = IF Waiting(job[j]) THEN cancels \cup {j} ELSE cancels
  /\ UNCHANGED <<current, listed, hooked, active, rows, started, handled, overlapped>>

\* An admin disables the account, which stops its worker. A jammed one is
\* gone with that; one whose engine runs is kept by its engine.
Disable ==
  /\ active
  /\ active' = FALSE
  /\ current' = NoWorker
  /\ run' = [w \in Workers |-> IF Running(w) THEN run[w] ELSE Idle]
  /\ UNCHANGED <<job, engine, rows, history>>

\* Enabling starts nothing.
Enable ==
  /\ ~active
  /\ active' = TRUE
  /\ UNCHANGED <<files, engine, rows, history>>

\* A row is deleted.
RemoveRow(i) ==
  /\ \/ live[i] > 0 /\ live' = [live EXCEPT ![i] = @ - 1] /\ UNCHANGED <<aside, back>>
     \/ i \in back /\ back' = back \ {i} /\ UNCHANGED <<live, aside>>
     \/ i \in aside /\ aside' = aside \ {i} /\ UNCHANGED <<live, back>>
  /\ UNCHANGED <<files, engine, active, history>>

\* A send of a row ends in 'error' or 'duplicate': it is no longer found.
SetRowAside(i) ==
  /\ \/ live[i] > 0 /\ live' = [live EXCEPT ![i] = @ - 1] /\ UNCHANGED back
     \/ i \in back /\ back' \in {back, back \ {i}} /\ UNCHANGED live
  /\ aside' = aside \cup {i}
  /\ UNCHANGED <<files, engine, active, history>>

\* A person takes a row back from there, by its status or by sending it again:
\* it counts once more, whatever was stored meanwhile.
BringBack(i) ==
  /\ i \in aside
  /\ aside' \in {aside, aside \ {i}}
  /\ back' = back \cup {i}
  /\ UNCHANGED <<files, engine, active, live, history>>

-----------------------------------------------------------------------------
(* _processNext, up to the engine's first wait                             *)

\* A tick: the poll, a kick, or the chain at the end of the last run. Its look
\* at the account never turns it away: disabling stops the worker in the same
\* step.
CanTick == current # NoWorker /\ run[current].at = "idle"

NextUp(j) == /\ Pending(job[j])
             /\ \A k \in Jobs : Pending(job[k]) => j <= k

\* Mutant of SetAside: a poisoned job is left as it is.
LeftAlone == job

\* Every tick first sets the poisoned jobs aside.
SetAside == [j \in Jobs |-> IF Poisoned(job[j]) THEN Saved(job[j], "failed") ELSE job[j]]
Taken(j) == [SetAside EXCEPT ![j] = MarkedRunning(@)]

TickSetsAside ==
  /\ CanTick
  /\ \A j \in Jobs : ~Pending(job[j])
  /\ SetAside # job
  /\ job' = SetAside
  /\ UNCHANGED <<current, run, engine, active, rows, history>>

\* The histories of a job taken, and of one handed to an engine.
Overlap == overlapped' = (overlapped \/ \E w \in Workers : Running(w))
Counted(j) ==
  /\ started' = [started EXCEPT ![j] = @ + 1]
  /\ Overlap
  /\ UNCHANGED <<handled, cancels>>

Launch(j, at, todo) ==
  /\ CanTick /\ NextUp(j)
  /\ job[j].payload = "kept"
  /\ job' = Taken(j)
  /\ run' = [run EXCEPT ![current] = [Idle EXCEPT !.at = at, !.id = j, !.todo = todo]]
  /\ Counted(j)
  /\ UNCHANGED <<current, active, rows>>

\* startImport: the object and its mirror replace those of an earlier run.
LaunchClaim(j) ==
  /\ Launch(j, "unpacking", {})
  /\ ~IsBill(j)
  /\ listed' = [listed EXCEPT ![j] = current]
  /\ memory' = [memory EXCEPT ![j] = "none"]
  /\ hooked' = hooked \cup {j}

\* runBillImport, with a zip to unpack or with PDFs alone.
LaunchBill(j) ==
  /\ \/ Launch(j, "unpacking", {})
     \/ Launch(j, "reading", Content(j))
  /\ IsBill(j)
  /\ UNCHANGED engine

\* The job of an engine that ended, as the final save leaves it.
Ended(jobs, j, stage) == {[jobs EXCEPT ![j] = Saved(@, stage)], [jobs EXCEPT ![j] = Gutted(@)]}

\* A job whose payload was dropped, taken again: nothing to read, nothing to
\* wait for, done in the same step.
RerunEmptied(j) ==
  /\ CanTick /\ NextUp(j)
  /\ job[j].payload = "dropped"
  /\ job' \in Ended(Taken(j), j, "done")
  /\ Counted(j)
  /\ IF IsBill(j) THEN UNCHANGED engine
     ELSE /\ listed' = [listed EXCEPT ![j] = NoWorker]
          /\ memory' = [memory EXCEPT ![j] = "none"]
          /\ hooked' = hooked \ {j}
  /\ UNCHANGED <<current, run, active, rows>>

\* Mutant of FailLaunch: the files that are gone are left out of the import.
ImportWhatIsLeft(j) ==
  /\ CanTick /\ NextUp(j)
  /\ job[j].payload = "gone"
  /\ job' = [Taken(j) EXCEPT ![j] = Saved(@, "done")]
  /\ UNCHANGED <<current, run, engine, active, rows, history>>

\* readPayload misses a file, or markRunning cannot write: the job fails.
FailLaunch(j) ==
  /\ CanTick /\ NextUp(j)
  /\ \/ job[j].payload = "gone" /\ job' = [Taken(j) EXCEPT ![j] = Saved(@, "failed")]
     \/ job' = [SetAside EXCEPT ![j] = Saved(@, "failed")]
  /\ Overlap
  /\ UNCHANGED <<current, run, engine, active, rows, started, handled, cancels>>

\* The same, and the markFailed that answers cannot write either: the worker
\* stays busy, with nothing running.
Jam(j) ==
  /\ CanTick /\ NextUp(j)
  /\ \/ job' = [SetAside EXCEPT ![j] = Gutted(@)]
     \/ job[j].payload = "gone" /\ job' = Taken(j)
  /\ run' = [run EXCEPT ![current].at = "stuck"]
  /\ Overlap
  /\ UNCHANGED <<current, engine, active, rows, started, handled, cancels>>

-----------------------------------------------------------------------------
(* The engines                                                             *)

At(w, at, bill) == run[w].at = at /\ IsBill(run[w].id) = bill

\* The engine's last write, the end of its object and mirror, and onSettle:
\* the worker is free.
Settle(w, stage) ==
  LET j == run[w].id IN
  /\ job' \in Ended(job, j, stage)
  /\ run' = [run EXCEPT ![w] = Idle]
  /\ hooked' = hooked \ {j}
  /\ IF listed[j] = w
     THEN /\ listed' = [listed EXCEPT ![j] = NoWorker]
          /\ memory' = [memory EXCEPT ![j] = IF stage = "done" THEN "none" ELSE "failed"]
     ELSE UNCHANGED <<listed, memory>>
  /\ UNCHANGED <<current, active>>

\* A stage or a count of the claim engine, mirrored to the job file.
Mirror(w) == job' = IF run[w].id \in hooked THEN [job EXCEPT ![run[w].id] = Saved(@, "running")] ELSE job

Move(w, at, todo) == run' = [run EXCEPT ![w].at = at, ![w].todo = todo]

\* The archives are listed and the forms, if any, go to their reader.
Unpacked(w) ==
  /\ At(w, "unpacking", FALSE)
  /\ Move(w, "form", {})
  /\ Mirror(w)
  /\ UNCHANGED <<current, engine, active, rows, history>>

\* On to the receipts, if there are any, or straight to the rows. A cancel is
\* seen here, before the next receipts are read, and nowhere else.
FormRead(w) ==
  LET receipts == Receipts(run[w].id) IN
  /\ At(w, "form", FALSE)
  /\ ~run[w].cancelled \/ receipts = {}
  /\ IF receipts = {} THEN Move(w, "saving", Content(run[w].id))
                      ELSE Move(w, "reading", receipts)
  /\ Mirror(w)
  /\ UNCHANGED <<current, engine, active, rows, history>>

StopAfterForm(w) ==
  /\ At(w, "form", FALSE)
  /\ run[w].cancelled /\ Receipts(run[w].id) # {}
  /\ Settle(w, "cancelled")
  /\ UNCHANGED <<rows, history>>

\* The model answers for a group of receipts; unreadable ones take part too.
Group(w) == {g \in SUBSET run[w].todo :
               Cardinality(g) = BatchSize \/ (g = run[w].todo /\ Cardinality(g) < BatchSize)}

GroupRead(w) ==
  \E g \in Group(w) :
    /\ At(w, "reading", FALSE)
    /\ ~run[w].cancelled \/ g = run[w].todo
    /\ IF g = run[w].todo THEN Move(w, "saving", Content(run[w].id))
                          ELSE Move(w, "reading", run[w].todo \ g)
    /\ Mirror(w)
    /\ UNCHANGED <<current, engine, active, rows, history>>

StopReading(w) ==
  /\ At(w, "reading", FALSE)
  /\ run[w].cancelled /\ \E g \in Group(w) : g # run[w].todo
  /\ Settle(w, "cancelled")
  /\ UNCHANGED <<rows, history>>

\* createClaimRecord on the next item, its bytes loaded: the look for a
\* duplicate, then the wait for the chart of accounts.
LookUp(w, i) ==
  /\ At(w, "saving", FALSE)
  /\ i \in run[w].todo
  /\ run' = [run EXCEPT ![w].at = "placing", ![w].item = i, ![w].known = Known(i)]
  /\ UNCHANGED <<job, current, engine, active, rows, history>>

\* A receipt that is known makes a row marked 'duplicate', a known bill none.
Stored(i, known) ==
  /\ live' = IF known THEN live ELSE [live EXCEPT ![i] = @ + 1]
  /\ aside' = IF known /\ Kind[i] = "receipt" THEN aside \cup {i} ELSE aside
  /\ UNCHANGED back

Handled(i) == handled' = handled \cup {i} /\ UNCHANGED <<started, cancels, overlapped>>

\* An item is dealt with; after the last one the import is done.
Proceed(w, at, i) ==
  LET rest == run[w].todo \ {i} IN
  IF rest = {} THEN Settle(w, "done")
  ELSE /\ run' = [run EXCEPT ![w].at = at, ![w].todo = rest, ![w].item = NoItem, ![w].known = FALSE]
       /\ UNCHANGED <<job, current, engine, active>>

PlaceRow(w) ==
  /\ At(w, "placing", FALSE)
  /\ Stored(run[w].item, run[w].known)
  /\ Handled(run[w].item)
  /\ Proceed(w, "saving", run[w].item)

\* The zip is unpacked; its first progress is the one that writes a stage.
BillsUnpacked(w) ==
  /\ At(w, "unpacking", TRUE)
  /\ Move(w, "reading", Content(run[w].id))
  /\ job' = [job EXCEPT ![run[w].id] = Saved(@, "running")]
  /\ UNCHANGED <<current, engine, active, rows, history>>

\* intakeBillPdf: the PDF is read, and its bill stored or the file reported as
\* rejected.
ReadBill(w, i) ==
  /\ At(w, "reading", TRUE)
  /\ i \in run[w].todo
  /\ Stored(i, Known(i)) \/ UNCHANGED rows
  /\ Handled(i)
  /\ Proceed(w, "reading", i)

\* The engine refuses the archive or throws. (Unpacking the zip of a bill
\* import may only take the process down: see Restart.)
FailRun(w) ==
  /\ Running(w) /\ ~At(w, "unpacking", TRUE)
  /\ Settle(w, "failed")
  /\ UNCHANGED <<rows, history>>

-----------------------------------------------------------------------------
(* Time and restarts                                                       *)

\* sweep(): an hour after it ended, a job's file goes.
Sweep(j) ==
  /\ current # NoWorker
  /\ Terminal(job[j])
  /\ job' = [job EXCEPT ![j] = Swept(@)]
  /\ UNCHANGED <<current, run, engine, active, rows, history>>

\* _sweep(): so does the object in memory.
Forget(j) ==
  /\ listed[j] = NoWorker /\ memory[j] # "none"
  /\ memory' = [memory EXCEPT ![j] = "none"]
  /\ UNCHANGED <<files, listed, hooked, active, rows, history>>

\* The process dies, at any point, and boots again. recoverPendingJobs sweeps
\* and, if a job is pending, starts a worker, unless the account is disabled.
Restart ==
  /\ run' = [w \in Workers |-> Idle]
  /\ listed' = [j \in Jobs |-> NoWorker]
  /\ memory' = [j \in Jobs |-> "none"]
  /\ hooked' = {}
  /\ IF active /\ \E j \in Jobs : Pending(job[j])
     THEN current' \in Workers ELSE current' = NoWorker
  /\ \E expired \in SUBSET {j \in Jobs : active /\ Terminal(job[j])} :
       job' = [j \in Jobs |-> IF j \in expired THEN Swept(job[j]) ELSE job[j]]
  /\ UNCHANGED <<active, rows, history>>

TouchRow(i) == RemoveRow(i) \/ SetRowAside(i) \/ BringBack(i)

Tick ==
  \/ TickSetsAside
  \/ \E j \in Jobs : LaunchClaim(j) \/ LaunchBill(j) \/ RerunEmptied(j) \/ FailLaunch(j) \/ Jam(j)

Step(w) ==
  \/ Unpacked(w) \/ FormRead(w) \/ StopAfterForm(w) \/ GroupRead(w) \/ StopReading(w)
  \/ PlaceRow(w) \/ BillsUnpacked(w) \/ FailRun(w)
  \/ \E i \in Items : LookUp(w, i) \/ ReadBill(w, i)

Next ==
  \/ \E b \in Batches : Enqueue(b)
  \/ \E j \in Jobs : Cancel(j) \/ Sweep(j) \/ Forget(j)
  \/ \E i \in Touched : TouchRow(i)
  \/ Tick
  \/ \E w \in Workers : Step(w)
  \/ Disable \/ Enable \/ Restart

Spec == Init /\ [][Next]_vars

\* The poll fires every five seconds, and every wait of an engine ends one way
\* or another. Nothing is assumed about people.
Fairness == WF_vars(Tick) /\ \A w \in Workers : WF_vars(Step(w))

FairSpec == Spec /\ Fairness

-----------------------------------------------------------------------------
(* Properties                                                              *)

\* What RetriedJobs sees of the jobs and of who is on them.
PhaseIn == [unborn |-> "absent", queued |-> "waiting", running |-> "waiting", done |-> "finished",
            failed |-> "abandoned", cancelled |-> "dropped", swept |-> "swept"]
PhaseOf(stage) == PhaseIn[stage]

phase == [j \in Jobs |-> PhaseOf(job[j].stage)]
tries == [j \in Jobs |-> job[j].attempts]
on    == [w \in Workers |-> IF Running(w) THEN run[w].id ELSE 0]

TypeOK ==
  /\ job \in [Jobs -> Job]
  /\ current \in Workers \cup {NoWorker}
  /\ run \in [Workers -> Run]
  /\ listed \in [Jobs -> Workers \cup {NoWorker}]
  /\ memory \in [Jobs -> {"none", "failed", "cancelling"}]
  /\ hooked \subseteq Jobs
  /\ active \in BOOLEAN
  /\ live \in [Items -> Nat]
  /\ aside \subseteq Items /\ back \subseteq Items
  /\ started \in [Jobs -> Nat]
  /\ handled \subseteq Items
  /\ cancels \subseteq Jobs
  /\ overlapped \in BOOLEAN

\* No import is handed to an engine more than MAX_ATTEMPTS times, whatever mix
\* of crashes, lost writes, cancels and second workers ends its runs
\* (markRunning counts on disk, before the engine starts).
StartsBounded == \A j \in Jobs : started[j] <= MaxAttempts

\* An import nobody cancelled says 'done' only when everything in it has
\* become a row or been reported, over any number of partial runs, even if its
\* files were unlinked by a final save that did not reach the job file
\* (readPayload, save). It does not survive two engines at once.
DoneMeansHandled ==
  \A j \in Jobs : job[j].stage = "done" /\ j \notin cancels /\ ~overlapped
                  => Content(j) \subseteq handled

\* A file uploaded twice, or read again after a crash, makes one row that was
\* never set aside: the others are marked as duplicates (createClaimRecord's
\* look before each row, which sees the rows of a run the crash cut short). The
\* look and the row are apart, so this too needs one engine at a time; and a
\* row that is brought back stands next to one stored while it was in 'error',
\* which the look does not find (findByReceiptHash).
OneRowPerFile ==
  ~overlapped => \A i \in Items : Kind[i] # "line" => live[i] <= 1

\* What claim-queue.js says: claim-worker takes the imports one at a time.
OneAtATime == \A v, w \in Workers : Running(v) /\ Running(w) => v = w

\* What makes the properties above and the next one inductive. A running
\* engine's job was created, a row is of an item, and no start goes uncounted.
RunsOwnJobs ==
  /\ \A w \in Workers :
       /\ Running(w) => run[w].id \in Jobs /\ job[run[w].id].stage # "unborn"
       /\ run[w].at = "placing" => run[w].item \in Items
  /\ \A j \in Jobs : job[j].stage # "unborn" => job[j].batch \in Batches

StartsCounted ==
  \A j \in Jobs : started[j] <= job[j].attempts /\ job[j].attempts <= MaxAttempts

\* An object of claim-import that has not ended is that of an engine running
\* its job, and only such an object has a mirror.
ObjectsRun ==
  \A j \in Jobs :
    /\ listed[j] # NoWorker => Running(listed[j]) /\ run[listed[j]].id = j
    /\ j \in hooked => listed[j] # NoWorker

RunInv == TypeOK /\ RunsOwnJobs /\ StartsCounted /\ ObjectsRun

\* What is not left to do has been done, once an engine makes rows.
MakesRows(w) == run[w].at \in {"saving", "placing"} \/ At(w, "reading", TRUE)
RestHandled == \A w \in Workers : MakesRows(w) => Content(run[w].id) \ run[w].todo \subseteq handled

\* A job loses its files while it may still be run only to a cancel, as long
\* as engines run one at a time.
DroppedByCancel ==
  \A j \in Jobs :
    /\ job[j].payload = "dropped" /\ job[j].attempts < MaxAttempts
    /\ Waiting(job[j]) \/ \E w \in Workers : Running(w) /\ run[w].id = j
    => j \in cancels \/ overlapped

\* An ended job has no files.
EndedDropped == \A j \in Jobs : Terminal(job[j]) => job[j].payload = "dropped"

\* The answer of the look for a duplicate still holds when the row is made.
LookHolds ==
  \A w \in Workers : run[w].at = "placing" =>
    run[w].known \/ Kind[run[w].item] = "line" \/ live[run[w].item] = 0 \/ overlapped

RowInv ==
  /\ ~overlapped => OneAtATime
  /\ RestHandled /\ DroppedByCancel /\ EndedDropped /\ LookHolds
  /\ DoneMeansHandled /\ OneRowPerFile

\* Once an import has ended and no engine is on it, nothing brings it back: a
\* cancel that came before the worker sticks (markCancelled), a poisoned job
\* stays failed.
EndedStays ==
  [][\A j \in Jobs :
       Terminal(job[j]) /\ (\A w \in Workers : Running(w) => run[w].id # j)
         => job'[j].stage \in {job[j].stage, "swept"}]_vars

\* The imports keep what RetriedJobs says: two engines may be on one job, and
\* one writes over its end, but no job is tried too often, finished by anyone
\* else, or brought back once its file was swept.
Retried == INSTANCE RetriedJobs WITH None <- 0, MaxTries <- MaxAttempts, Shared <- TRUE, Reopened <- TRUE
JobsAreRetried == Retried!Spec

\* While the account is active and its worker up and not jammed, every import
\* ends, even if the process crashes for ever (the poll, the attempts, the
\* poisoned jobs set aside).
EveryImportEnds ==
  <>[](active /\ current # NoWorker /\ run[current].at # "stuck")
    => \A j \in Jobs : Waiting(job[j]) ~> ~Waiting(job[j])

\* What claim-queue.js says of getPoisoned: an interrupted job out of attempts
\* is marked failed on the next boot.
PoisonedIsFailed ==
  \A j \in Jobs : Poisoned(job[j]) /\ active ~> ~Poisoned(job[j]) \/ ~active

\* What routes/claims.js says of DELETE /import/:id: it stops a run in
\* progress.
CancelledIsNotDone == \A j \in cancels : job[j].stage # "done"

\* GET /active: the stage it finds in memory, if that is not an end.
InFlightInMemory(j) == listed[j] # NoWorker \/ memory[j] = "cancelling"

\* What routes/claims.js says of GET /active: it returns an import that is in
\* flight or queued.
ActiveIsInFlight ==
  \A j \in Jobs : InFlightInMemory(j) =>
    Pending(job[j]) \/ \E w \in Workers : Running(w) /\ run[w].id = j

\* What claim-worker.js says of _accountActive: an import creates no records
\* for a disabled account.
NoRowWhileDisabled == [][(\E i \in Items : live'[i] > live[i]) => active]_vars

\* What the design of batch claims says of a claim line without an image: one
\* that repeats an existing claim is flagged.
RepeatedLineFlagged ==
  ~overlapped => \A i \in Items : Kind[i] = "line" => live[i] <= 1
=============================================================================
