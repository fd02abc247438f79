------------------------- MODULE InvoiceSubmission -------------------------
(***************************************************************************)
(* How one account's rows get to Xero: main/utils/invoice-handler.js       *)
(* (submitInvoiceToXero and the automatic chain), the status rules of      *)
(* main/utils/invoice-store.js, the routes of main/routes/invoices.js that *)
(* move a row, and the release and retry at boot in main/index.js. Xero    *)
(* itself is a set of bills that repeats the answer to a repeated create   *)
(* for a while (its idempotency window).                                   *)
(*                                                                         *)
(* Node runs one callback at a time and the store is synchronous, so a     *)
(* caller's check, the duplicate check and the claim are one step. A send  *)
(* then waits for Xero twice: until Xero has the document, and until the   *)
(* answer (and the attachments) are through.                               *)
(***************************************************************************)
EXTENDS Integers, FiniteSets

CONSTANTS Rows,        \* invoice rows
          NoRow,
          BillOf,      \* the bill a row was read from, as _matchesInvoice sees it
          Photos,      \* rows read from a photo
          Sends,       \* calls of submitInvoiceToXero that can be under way
          Ids,         \* Xero invoice ids
          NoId,
          MaxVersion,  \* bound on edits of a row
          Routes,      \* bound: the routes rows join the send queue by
          MayForce     \* whether people send a bill Xero already has a match of

ASSUME RowsAssumption == NoRow \notin Rows /\ Photos \subseteq Rows
ASSUME IdsAssumption == NoId \notin Ids
ASSUME VersionAssumption == MaxVersion \in Nat
ASSUME RoutesAssumption == Routes \subseteq {"all", "some"}
ASSUME MayForceAssumption == MayForce \in BOOLEAN

VARIABLES
  row,      \* [Rows -> Row]: the table invoices
  send,     \* [Sends -> Send]: the sends under way
  waiting,  \* [Queues -> SUBSET Rows]: the automatic chain, and the send queue by route
  stuck,    \* the rows the boot retry still has to try
  booted,   \* the boot retry has not listed its rows yet
  active,   \* users.isActive
  bills,    \* what Xero holds; lost is history: an answer about the bill never reached its row
  cutOff,   \* history: cut off in its last send by a restart, and no person came by since
  dirty,    \* history: edited since Xero last answered for it
  held,     \* history: made pending by the chain's hold, and not moved since
  seized    \* history: its status was written over while it was being sent

vars == <<row, send, waiting, stuck, booted, active, bills, cutOff, dirty, held, seized>>

Statuses == {"absent", "pending", "review-needed", "reviewed", "reported", "error",
             "duplicate", "submitting", "posted", "gone"}
Submittable == {"pending", "review-needed", "error", "reviewed", "posted"}
\* Mutant of Editable: a row can be edited while it is being sent.
EditableAnyTime == Submittable \cup {"submitting"}
Editable == Submittable

Queues == {"auto", "all", "some"}
Kinds  == Queues \cup {"manual", "boot"}

Versions == 0..MaxVersion
Row  == [status : Statuses, xeroId : Ids \cup {NoId}, version : Versions]
Send == [at : {"idle", "sending", "answered"}, kind : Kinds, row : Rows \cup {NoRow},
         version : Versions, target : Ids \cup {NoId}, bill : Ids \cup {NoId}]
Bill == [id : Ids, row : Rows, made : Versions, version : Versions, fresh : BOOLEAN, lost : BOOLEAN]

Ended == [at |-> "idle", kind |-> "manual", row |-> NoRow, version |-> 0,
          target |-> NoId, bill |-> NoId]

Live(s)   == send[s].at # "idle"
Exists(r) == row[r].status \notin {"absent", "gone"}
InXero(r) == row[r].xeroId # NoId

Init ==
  /\ row = [r \in Rows |-> [status |-> "absent", xeroId |-> NoId, version |-> 0]]
  /\ send = [s \in Sends |-> Ended]
  /\ waiting = [q \in Queues |-> {}]
  /\ stuck = {} /\ booted = FALSE /\ active = TRUE
  /\ bills = {} /\ cutOff = {} /\ dirty = {} /\ held = {} /\ seized = {}

-----------------------------------------------------------------------------
(* submitInvoiceToXero, up to its first wait                               *)

\* Mutant of PostedDuplicate: a row on its way to Xero counts as in Xero.
MatchOnItsWay(r) ==
  ~InXero(r) /\ \E q \in Rows \ {r} :
    BillOf[q] = BillOf[r] /\ (row[q].status \in {"posted", "submitting"} \/ InXero(q))

\* postedDuplicateOf and findPosted: another row of the bill that is in Xero.
PostedDuplicate(r) ==
  ~InXero(r) /\ \E q \in Rows \ {r} :
    BillOf[q] = BillOf[r] /\ (row[q].status = "posted" \/ InXero(q))

\* Mutant of Claim: the row is not marked as being sent.
UnmarkedClaim(s, k, r) ==
  /\ send[s].at = "idle"
  /\ row[r].status # "submitting"
  /\ send' = [send EXCEPT ![s] = [at |-> "sending", kind |-> k, row |-> r,
                version |-> row[r].version, target |-> row[r].xeroId, bill |-> NoId]]
  /\ UNCHANGED row

\* claimForSubmit, and the row as it is read right after.
Claim(s, k, r) ==
  /\ send[s].at = "idle"
  /\ row[r].status # "submitting"
  /\ row' = [row EXCEPT ![r].status = "submitting"]
  /\ send' = [send EXCEPT ![s] = [at |-> "sending", kind |-> k, row |-> r,
                version |-> row[r].version, target |-> row[r].xeroId, bill |-> NoId]]

SubmitInvoiceToXero(s, k, r, force) ==
  /\ \/ /\ ~force /\ PostedDuplicate(r)
        /\ row' = [row EXCEPT ![r].status = "duplicate"]
        /\ UNCHANGED send
     \/ (force \/ ~PostedDuplicate(r)) /\ Claim(s, k, r)
  /\ held' = held \ {r}

-----------------------------------------------------------------------------
(* The callers                                                             *)

\* findStored: another row stands for the bill.
Stored(r) ==
  \E q \in Rows : Exists(q) /\ BillOf[q] = BillOf[r]
                  /\ (row[q].status \notin {"duplicate", "error"} \/ InXero(q))

\* onInvoiceEmail stores a row no other stands for, and queues it on the
\* automatic chain, or leaves it pending, or holds it for review. A photo was
\* checked before a wait: its bill may have been stored since. Neither a photo
\* waited for nor an upload being read is stopped by a disable.
StoreRow(r) ==
  /\ row[r].status = "absent"
  /\ r \in Photos \/ ~Stored(r)
  /\ \/ row' = [row EXCEPT ![r].status = "review-needed"] /\ UNCHANGED waiting
     \/ /\ row' = [row EXCEPT ![r].status = "pending"]
        /\ waiting' \in {waiting, [waiting EXCEPT !["auto"] = @ \cup {r}]}
  /\ UNCHANGED <<send, stuck, booted, active, bills, cutOff, dirty, held, seized>>

\* A row's turn on the automatic chain, after its delay.
AutoTurn(s, r) ==
  /\ active /\ r \in waiting["auto"]
  /\ waiting' = [waiting EXCEPT !["auto"] = @ \ {r}]
  /\ IF row[r].status = "pending" THEN SubmitInvoiceToXero(s, "auto", r, FALSE)
     ELSE UNCHANGED <<row, send, held>>
  /\ UNCHANGED <<stuck, booted, active, bills, cutOff, dirty, seized>>

\* Three writes ask nothing of a row's status, "submitting" included: the chain's
\* hold, a status set by hand and a report. Mid-send they free the row for
\* whatever comes next, and its send goes on.
Overwrites(r) == seized' = IF row[r].status = "submitting" THEN seized \cup {r} ELSE seized

\* The same turn for an account disabled while the row waited: whatever the
\* row's status has become, posted included, it is written back to pending.
HoldTurn(r) ==
  /\ ~active /\ r \in waiting["auto"]
  /\ waiting' = [waiting EXCEPT !["auto"] = @ \ {r}]
  /\ IF Exists(r)
     THEN row' = [row EXCEPT ![r].status = "pending"] /\ held' = held \cup {r}
     ELSE UNCHANGED <<row, held>>
  /\ Overwrites(r)
  /\ UNCHANGED <<send, stuck, booted, active, bills, cutOff, dirty>>

\* POST /:id/submit. The refusal and the send are one tick.
SubmitNow(s, r) ==
  /\ active /\ row[r].status \in Submittable
  /\ \E force \in {FALSE, MayForce} :
       /\ force \/ ~PostedDuplicate(r)
       /\ SubmitInvoiceToXero(s, "manual", r, force)
  /\ cutOff' = cutOff \ {r}
  /\ UNCHANGED <<waiting, stuck, booted, active, bills, dirty, seized>>

\* What Submit all and Send to Xero on a selection take; asked again at the turn.
Sendable(q, r) ==
  \/ q = "all"  /\ row[r].status = "pending"
  \/ q = "some" /\ row[r].status \in {"pending", "error", "reviewed"} /\ ~InXero(r)

QueueSend(q, r) ==
  /\ active /\ q \in Routes /\ Sendable(q, r)
  /\ q = "some" => r \notin waiting["all"] \cup waiting["some"] /\ ~PostedDuplicate(r)
  /\ waiting' = [waiting EXCEPT ![q] = @ \cup {r}]
  /\ cutOff' = cutOff \ {r}
  /\ UNCHANGED <<row, send, stuck, booted, active, bills, dirty, held, seized>>

\* A row's turn in the account's send queue, where sends go one after another.
QueueTurn(s, q, r) ==
  /\ q \in {"all", "some"} /\ r \in waiting[q]
  /\ ~\E t \in Sends : Live(t) /\ send[t].kind \in {"all", "some"}
  /\ waiting' = [waiting EXCEPT ![q] = @ \ {r}]
  /\ IF active /\ Sendable(q, r) THEN SubmitInvoiceToXero(s, q, r, FALSE)
     ELSE UNCHANGED <<row, send, held>>
  /\ UNCHANGED <<stuck, booted, active, bills, cutOff, dirty, seized>>

\* retryStuckSubmissions lists the pending rows of an active account.
BootScan ==
  /\ booted /\ booted' = FALSE
  /\ stuck' = {r \in Rows : active /\ row[r].status = "pending"}
  /\ UNCHANGED <<row, send, waiting, active, bills, cutOff, dirty, held, seized>>

\* One row of that list, looked at again; a disable stops the rest.
BootTurn(s, r) ==
  /\ r \in stuck
  /\ ~\E t \in Sends : Live(t) /\ send[t].kind = "boot"
  /\ stuck' = IF active THEN stuck \ {r} ELSE {}
  /\ IF active /\ row[r].status = "pending" THEN SubmitInvoiceToXero(s, "boot", r, FALSE)
     ELSE UNCHANGED <<row, send, held>>
  /\ UNCHANGED <<waiting, booted, active, bills, cutOff, dirty, seized>>

-----------------------------------------------------------------------------
(* A send, from the claim to the row's closing update                      *)

\* The closing update of a row that may be gone by now.
Close(s, status, id) ==
  /\ row' = IF Exists(send[s].row)
            THEN [row EXCEPT ![send[s].row].status = status, ![send[s].row].xeroId = id]
            ELSE row
  /\ send' = [send EXCEPT ![s] = Ended]
  /\ held' = held \ {send[s].row}

KnownId(s) == row[send[s].row].xeroId

\* No company connected (a new row waits as pending) or an error of any kind
\* before Xero has taken the document. A correction's row stays posted.
NotSent(s) ==
  /\ send[s].at = "sending"
  /\ \E status \in {"pending", "error"} :
       Close(s, IF send[s].target # NoId THEN "posted" ELSE status, KnownId(s))
  /\ UNCHANGED <<waiting, stuck, booted, active, bills, cutOff, dirty, seized>>

\* updateDraftInvoice, as Xero carries it out.
XeroUpdates(s) ==
  /\ send[s].at = "sending" /\ send[s].target # NoId
  /\ bills' = {IF b.id = send[s].target THEN [b EXCEPT !.version = send[s].version] ELSE b : b \in bills}
  /\ send' = [send EXCEPT ![s].at = "answered", ![s].bill = send[s].target]
  /\ UNCHANGED <<row, waiting, stuck, booted, active, cutOff, dirty, held, seized>>

\* createDraftInvoice: the same row with the same body inside the window is
\* answered with the bill it made the first time.
Repeated(s) ==
  {b \in bills : b.row = send[s].row /\ b.made = send[s].version /\ b.fresh}

XeroCreates(s) ==
  /\ send[s].at = "sending" /\ send[s].target = NoId
  /\ \/ /\ Repeated(s) = {}
        /\ \E i \in Ids :
             /\ \A b \in bills : b.id # i
             /\ bills' = bills \cup {[id |-> i, row |-> send[s].row, made |-> send[s].version,
                                      version |-> send[s].version, fresh |-> TRUE, lost |-> FALSE]}
             /\ send' = [send EXCEPT ![s].at = "answered", ![s].bill = i]
     \/ /\ \E b \in Repeated(s) : send' = [send EXCEPT ![s].at = "answered", ![s].bill = b.id]
        /\ UNCHANGED bills
  /\ UNCHANGED <<row, waiting, stuck, booted, active, cutOff, dirty, held, seized>>

\* Xero forgets the keys of its idempotency window.
WindowPasses ==
  /\ \E b \in bills : b.fresh
  /\ bills' = {[b EXCEPT !.fresh = FALSE] : b \in bills}
  /\ UNCHANGED <<row, send, waiting, stuck, booted, active, cutOff, dirty, held, seized>>

Answered(s) ==
  /\ send[s].at = "answered"
  /\ Close(s, "posted", send[s].bill)
  /\ dirty' = dirty \ {send[s].row}
  /\ UNCHANGED <<waiting, stuck, booted, active, bills, cutOff, seized>>

Unheard(S) == {[b EXCEPT !.lost = @ \/ \E s \in S : send[s].bill = b.id] : b \in bills}

\* Xero has the document but its answer does not come: an error like any other.
AnswerLost(s) ==
  /\ send[s].at = "answered"
  /\ bills' = Unheard({s})
  /\ Close(s, IF send[s].target # NoId THEN "posted" ELSE "error", KnownId(s))
  /\ UNCHANGED <<waiting, stuck, booted, active, cutOff, dirty, seized>>

-----------------------------------------------------------------------------
(* What people do to a row meanwhile                                       *)

\* PATCH /:id.
Edit(r) ==
  /\ active /\ row[r].status \in Editable /\ row[r].version < MaxVersion
  /\ row' = [row EXCEPT ![r].version = @ + 1]
  /\ dirty' = dirty \cup {r}
  /\ UNCHANGED <<send, waiting, stuck, booted, active, bills, cutOff, held, seized>>

\* PATCH /:id/status, batch-status and bulk/review.
SetStatus(r, status) ==
  /\ active /\ Exists(r) /\ row[r].status # "posted" /\ ~InXero(r)
  /\ status \in {"pending", "reviewed", "reported", "review-needed"}
  /\ row' = [row EXCEPT ![r].status = status]
  /\ cutOff' = cutOff \ {r} /\ held' = held \ {r} /\ Overwrites(r)
  /\ UNCHANGED <<send, waiting, stuck, booted, active, bills, dirty>>

\* POST /:id/report. A row in Xero keeps its status.
Report(r) ==
  /\ active /\ Exists(r) /\ ~InXero(r)
  /\ row' = [row EXCEPT ![r].status = "reported"]
  /\ held' = held \ {r} /\ Overwrites(r)
  /\ UNCHANGED <<send, waiting, stuck, booted, active, bills, cutOff, dirty>>

\* PATCH /api/admin/reports/:userId/:invoiceId/resolve: an admin settles a row.
Resolve(r) ==
  /\ Exists(r)
  /\ row' = IF row[r].status = "submitting" THEN row
            ELSE [row EXCEPT ![r].status = IF InXero(r) THEN "posted" ELSE "reviewed"]
  /\ cutOff' = cutOff \ {r} /\ held' = held \ {r}
  /\ UNCHANGED <<send, waiting, stuck, booted, active, bills, dirty, seized>>

\* Mutant of Removable: the Xero id alone protects a row.
RemovableMidSend(r) == Exists(r) /\ ~InXero(r)

\* deleteRefusal: what exists only here may go, unless it is being sent.
Removable(r) == Exists(r) /\ ~InXero(r) /\ row[r].status # "submitting"

\* DELETE /:id, bulk/delete and Clear all.
Delete(gone) ==
  /\ active /\ gone # {} /\ \A r \in gone : Removable(r)
  /\ row' = [r \in Rows |-> IF r \in gone THEN [row[r] EXCEPT !.status = "gone"] ELSE row[r]]
  /\ cutOff' = cutOff \ gone /\ dirty' = dirty \ gone /\ held' = held \ gone
  /\ UNCHANGED <<send, waiting, stuck, booted, active, bills, seized>>

SetActive ==
  /\ active' = ~active
  /\ UNCHANGED <<row, send, waiting, stuck, booted, bills, cutOff, dirty, held, seized>>

\* Mutants of Released: the row waits for the boot retry; a correction is held
\* for review as well; the row stays as it was.
RetriedReleased(r) ==
  IF row[r].status # "submitting" THEN row[r]
  ELSE [row[r] EXCEPT !.status = IF InXero(r) THEN "posted" ELSE "pending"]
ReviewedReleased(r) ==
  IF row[r].status # "submitting" THEN row[r] ELSE [row[r] EXCEPT !.status = "review-needed"]
UnReleased(r) == row[r]

\* releaseInterrupted, on one row.
Released(r) ==
  IF row[r].status # "submitting" THEN row[r]
  ELSE [row[r] EXCEPT !.status = IF InXero(r) THEN "posted" ELSE "review-needed"]

\* The process dies, and boots: sends and queues are gone with its memory.
Restart ==
  /\ row' = [r \in Rows |-> Released(r)]
  /\ send' = [s \in Sends |-> Ended]
  /\ waiting' = [q \in Queues |-> {}]
  /\ stuck' = {} /\ booted' = TRUE
  /\ bills' = Unheard(Sends)
  /\ cutOff' = cutOff \cup {send[s].row : s \in {t \in Sends : Live(t)}}
  /\ UNCHANGED <<active, dirty, held, seized>>

Progress(s) == NotSent(s) \/ XeroUpdates(s) \/ XeroCreates(s) \/ Answered(s) \/ AnswerLost(s)

Next ==
  \/ \E s \in Sends : Progress(s)
  \/ \E s \in Sends, r \in Rows :
       AutoTurn(s, r) \/ SubmitNow(s, r) \/ BootTurn(s, r) \/ \E q \in Queues : QueueTurn(s, q, r)
  \/ \E r \in Rows :
       \/ StoreRow(r) \/ HoldTurn(r) \/ Edit(r) \/ Report(r) \/ Resolve(r)
       \/ \E q \in Queues : QueueSend(q, r)
       \/ \E status \in Statuses : SetStatus(r, status)
  \/ \E gone \in SUBSET Rows : Delete(gone)
  \/ BootScan \/ SetActive \/ WindowPasses \/ Restart

Spec == Init /\ [][Next]_vars

\* A call to Xero ends, with an answer or a timeout.
FairSpec == Spec /\ \A s \in Sends : WF_vars(Progress(s))

-----------------------------------------------------------------------------
(* Properties                                                              *)

TypeOK ==
  /\ row \in [Rows -> Row]
  /\ send \in [Sends -> Send]
  /\ waiting \in [Queues -> SUBSET Rows]
  /\ stuck \subseteq Rows /\ booted \in BOOLEAN /\ active \in BOOLEAN
  /\ bills \subseteq Bill
  /\ cutOff \subseteq Rows /\ dirty \subseteq Rows /\ held \subseteq Rows
  /\ seized \subseteq Rows

\* A row is in two sends at once, of whichever two of the automatic chain, the
\* boot retry, the send queue and the Submit button, only if its status was
\* written over during one of them (claimForSubmit). KeepsLedger says so too.
SendsApart ==
  \A s, t \in Sends :
    s # t /\ Live(s) /\ Live(t) /\ send[s].row = send[t].row => send[s].row \in seized

\* Every bill the program made in Xero is the one its row names, unless its
\* send is still under way, an answer never arrived, or the row's status was
\* written over during a send. No correction, deletion, Clear all or second
\* sender leaves a bill nothing here points at.
NoBillLeftBehind ==
  \A b \in bills :
    \/ row[b.row].xeroId = b.id \/ b.lost \/ b.row \in seized
    \/ \E s \in Sends : send[s].bill = b.id

\* A row in Xero never loses its Xero id: what is in Xero is corrected in place
\* (submitDraftInvoice) and never deleted here. It trades it for another only
\* after its status was written over during a send.
XeroIdSticks ==
  [][\A r \in Rows : InXero(r) =>
       row'[r].xeroId = row[r].xeroId \/ (r \in seized /\ InXero(r)')]_vars

\* A row in Xero is posted, or being sent: no refused correction, report,
\* duplicate mark, status change or restart hides it from the duplicate checks.
\* But for the chain's hold, which makes it pending, and for rows whose status
\* was written over during a send.
InXeroIsPosted ==
  \A r \in Rows \ seized : InXero(r) =>
    \/ row[r].status \in {"posted", "submitting"}
    \/ row[r].status = "pending" /\ r \in held

\* A row set aside as a duplicate has its original in Xero, for good: no bill is
\* set aside for one that failed, was deleted or went back to review.
SetAsideHasOriginal ==
  \A r \in Rows : row[r].status = "duplicate" =>
    \E q \in Rows \ {r} : BillOf[q] = BillOf[r] /\ InXero(q)

\* What Xero holds for a posted row is what the row shows, but for edits made
\* since Xero last answered: nothing is edited while it is being sent, unless
\* its status was written over meanwhile.
PostedMatches ==
  \A r \in Rows \ (dirty \cup seized) : row[r].status = "posted" =>
    \E b \in bills : b.id = row[r].xeroId /\ b.row = r /\ b.version = row[r].version

\* The sends a step starts.
Started(kinds) == {send'[s].row : s \in {t \in Sends : ~Live(t) /\ Live(t)' /\ send'[t].kind \in kinds}}

\* A row whose send was cut off by a restart is not sent again by anything
\* before a person came by (releaseInterrupted: it may have reached Xero), if
\* the restart still found it marked as being sent.
NoBlindRepeat == [][Started({"auto", "boot", "all", "some"}) \cap (cutOff \ seized) = {}]_vars

\* Every send comes to an end on its row, a restart in the middle included.
SendsEnd == \A r \in Rows : row[r].status = "submitting" ~> row[r].status # "submitting"

\* The rows and sends as BillLedger sees them: who asked for a send, how far it
\* is, what a row's status says of it and what people decided are left out.
place == [r \in Rows |-> IF Exists(r) THEN "here" ELSE row[r].status]
shown == [r \in Rows |-> row[r].version]
named == [r \in Rows |-> row[r].xeroId]
on    == [s \in Sends |-> IF Live(s) THEN send[s].row ELSE NoRow]
docs  == {[id |-> b.id, row |-> b.row, shows |-> b.version] : b \in bills}
loose == seized

Ledger == INSTANCE BillLedger

\* Every step of a row, of its sends and of what Xero answers is a step of the
\* ledger: five callers, edits, deletes, disables, lost answers and restarts, and
\* the three writes that pull a row from under its send.
KeepsLedger == Ledger!Spec

\* What makes the properties above inductive. A send's row was stored, shows no
\* less than when it was claimed, and keeps an Xero id it had. It is marked, and
\* as it was, unless its status was written over.
SendsMarked ==
  \A s \in Sends : Live(s) =>
    /\ send[s].row \in Rows
    /\ row[send[s].row].status # "absent"
    /\ send[s].version <= row[send[s].row].version
    /\ send[s].target # NoId => InXero(send[s].row)
    /\ send[s].row \notin seized =>
         /\ row[send[s].row].status = "submitting"
         /\ row[send[s].row].version = send[s].version
         /\ row[send[s].row].xeroId = send[s].target

\* A row is marked only while a send of it is under way.
MarkedIsSent ==
  \A r \in Rows : row[r].status = "submitting" => \E s \in Sends : Live(s) /\ send[s].row = r

\* A correction means a bill of its row. An answered send carries a bill of its
\* row, the one it meant if it had one.
SendsAnswered ==
  \A s \in Sends :
    /\ Live(s) /\ send[s].target # NoId =>
         \E b \in bills : b.id = send[s].target /\ b.row = send[s].row
    /\ send[s].at # "answered" => send[s].bill = NoId
    /\ send[s].at = "answered" =>
         /\ send[s].target # NoId => send[s].bill = send[s].target
         /\ \E b \in bills :
              /\ b.id = send[s].bill /\ b.row = send[s].row
              /\ b.row \in seized \/ b.version = send[s].version

PostedIsInXero == \A r \in Rows : row[r].status = "posted" => InXero(r)

\* A row's Xero id is of a bill made for it, with its content unless edited.
InXeroMatches ==
  \A r \in Rows : InXero(r) =>
    /\ Exists(r)
    /\ \E b \in bills :
         /\ b.id = row[r].xeroId /\ b.row = r
         /\ r \in dirty \cup seized \/ b.version = row[r].version

OneBillPerId == \A b, c \in bills : b.id = c.id => b = c

\* Xero shows no more than the row does, and only a bill its row names is ever
\* corrected.
BillsAsMade ==
  \A b \in bills :
    /\ b.version <= row[b.row].version
    /\ row[b.row].xeroId # b.id /\ b.row \notin seized => b.version = b.made

\* A row cut off is out of the automatic chain for good, and waits for a person
\* unless the restart did not find it marked.
CutOffWaits ==
  \A r \in cutOff :
    /\ row[r].status # "absent" /\ r \notin waiting["auto"]
    /\ r \in seized \/ row[r].status \in {"review-needed", "posted", "reported"}

SendInv ==
  /\ TypeOK /\ SendsApart /\ SendsMarked /\ MarkedIsSent /\ SendsAnswered
  /\ PostedIsInXero /\ InXeroIsPosted /\ InXeroMatches
  /\ OneBillPerId /\ BillsAsMade /\ NoBillLeftBehind
  /\ SetAsideHasOriginal /\ CutOffWaits

\* What invoice-handler.js says of the claim: a row is never sent twice at once,
\* by whichever two callers.
OneSendPerRow ==
  \A s, t \in Sends : s # t /\ Live(s) /\ Live(t) => send[s].row # send[t].row

\* What the README says of the claim: no bill is in Xero twice.
OneRowInXeroPerBill ==
  \A q, r \in Rows : q # r /\ BillOf[q] = BillOf[r] => ~(InXero(q) /\ InXero(r))

\* What invoice-handler.js says of a row held because of a disable: it is for a
\* person to review, never posted (by what runs on its own).
HeldIsForAPerson == [][Started({"auto", "boot"}) \cap held = {}]_vars

\* What the README says of a restart: the rows being sent are retried too.
InterruptedIsRetried ==
  [][Restart => \A r \in Rows : row[r].status = "submitting" =>
       row'[r].status \in {"pending", "submitting"}]_vars
=============================================================================
