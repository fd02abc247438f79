----------------------------- MODULE StatusSync -----------------------------
(***************************************************************************)
(* How what became of a document in Xero is read back, for one company of  *)
(* one account: main/xero/status-sync.js, the part of                      *)
(* main/utils/invoice-handler.js that stores what Xero answered a send,    *)
(* and main/jobs/xero-status-sync.js.                                      *)
(*                                                                         *)
(* Time is counted in changes made in Xero. Two windows are bounded by it: *)
(* from Xero's answer to a send until the send is stored (the files are    *)
(* attached in between), and from the listing of the rows until a company  *)
(* is read (its token, and the companies before it).                       *)
(***************************************************************************)
EXTENDS Naturals, FiniteSets

CONSTANTS Docs,
          BatchSize,  \* documents to a call
          Slack,      \* CLOCK_SLACK_MS
          Drift,      \* how far the server's clock may be ahead of Xero's
          SendTime,   \* how long a send is stored after Xero's answer
          ListAge,    \* how old the list may be when a company is read
          MaxClock,   \* bound on changes in Xero
          MaxFaults   \* bound on failed calls, restarts and answers not stored

ASSUME BatchAssumption == BatchSize \in Nat \ {0}
ASSUME TimesAssumption == Slack \in Nat /\ Drift \in Nat /\ SendTime \in Nat /\ ListAge \in Nat
ASSUME BoundsAssumption == MaxClock \in Nat /\ MaxFaults \in Nat

VARIABLES
  clock,
  doc,      \* Xero: [Docs -> Document]
  row,      \* the store: [Docs -> Stored]
  nowhere,  \* the rows with no company recorded, while it is not sure which one
  send,     \* when Xero answered the send that is not stored yet, 0 for none
  last,     \* xero_status_sync: when the last complete read began, 0 for never
  caughtUp, \* xero_status_sync: the row "paid-on:..."
  sync,     \* the read under way
  faults

vars == <<clock, doc, row, nowhere, send, last, caughtUp, sync, faults>>

Final    == {"VOIDED"}
Statuses == {"DRAFT", "AUTHORISED", "PAID"} \cup Final
Document == [st : Statuses \cup {"none"}, day : Nat, mod : Nat]
\* A row: not known to be in Xero, in Xero but never read, or as last read.
Stored   == [st : Statuses \cup {"new", "unread"}, day : Nat]
\* How rows are asked: in summary, in summary if changed since, in full.
Ways     == {"plain", "since", "full"}

Now(d) == [st |-> doc[d].st, day |-> doc[d].day]
NotRead == [st |-> "unread", day |-> 0]

NoSync == [pc |-> "no", time |-> 0, since |-> 0, rows |-> {}, left |-> [w \in Ways |-> {}],
           got |-> {}, snap |-> [d \in Docs |-> NotRead], seen |-> [d \in Docs |-> NotRead]]

TypeOK ==
  /\ clock \in Nat /\ faults \in Nat
  /\ doc \in [Docs -> Document]
  /\ row \in [Docs -> Stored]
  /\ nowhere \subseteq Docs
  /\ send \in [Docs -> Nat]
  /\ last \in Nat /\ caughtUp \in BOOLEAN
  /\ sync \in [pc : {"no", "listed", "ask", "undated", "settled"}, time : Nat, since : Nat,
               rows : SUBSET Docs, left : [Ways -> SUBSET Docs], got : SUBSET Docs,
               snap : [Docs -> Stored], seen : [Docs -> Stored]]

\* The store may be one an earlier version read: with rows stored as paid
\* without their day, and rows it never knew the company of.
Init ==
  \E undated, lost \in SUBSET Docs :
    LET old   == undated \cup lost
        begun == IF old = {} THEN 0 ELSE Slack + 1
    IN /\ undated \cap lost = {}
       /\ clock = begun /\ last = begun /\ caughtUp = FALSE /\ faults = 0
       /\ doc = [d \in Docs |-> IF d \in old THEN [st |-> "PAID", day |-> 1, mod |-> 1]
                                ELSE [st |-> "none", day |-> 0, mod |-> 0]]
       /\ row = [d \in Docs |-> IF d \in undated THEN [st |-> "PAID", day |-> 0]
                                ELSE IF d \in lost THEN NotRead ELSE [st |-> "new", day |-> 0]]
       /\ nowhere = lost
       /\ send = [d \in Docs |-> 0]
       /\ sync = NoSync

Fault == faults < MaxFaults /\ faults' = faults + 1

-----------------------------------------------------------------------------
(* Xero.                                                                   *)

\* The windows named above are short enough for one more change.
InTime == /\ \A d \in Docs : send[d] # 0 => clock < send[d] + SendTime
          /\ sync.pc = "listed" => clock < sync.time + ListAge

Tick == clock < MaxClock /\ InTime /\ clock' = clock + 1

BecomesAt(d, st, day) == doc' = [doc EXCEPT ![d] = [st |-> st, day |-> day, mod |-> clock + 1]]

\* What people do with a document there. One settled by a credit note, say, has
\* no day; a payment can be taken back.
XeroMoves(d) ==
  /\ Tick
  /\ \/ doc[d].st = "DRAFT" /\ BecomesAt(d, "AUTHORISED", 0)
     \/ doc[d].st = "AUTHORISED" /\ \E day \in {0, clock + 1} : BecomesAt(d, "PAID", day)
     \/ doc[d].st = "PAID" /\ BecomesAt(d, "AUTHORISED", 0)
     \/ doc[d].st \in {"DRAFT", "AUTHORISED"} /\ BecomesAt(d, "VOIDED", 0)
  /\ UNCHANGED <<nowhere, row, send, last, caughtUp, sync, faults>>

\* A send creates the draft, or corrects it while it still is one.
XeroTakesSend(d) ==
  /\ Tick
  /\ send[d] = 0
  /\ doc[d].st \in {"none", "DRAFT"}
  /\ BecomesAt(d, "DRAFT", 0)
  /\ send' = [send EXCEPT ![d] = clock + 1]
  /\ UNCHANGED <<nowhere, row, last, caughtUp, sync, faults>>

-----------------------------------------------------------------------------
(* The end of a send: submitInvoiceToXero after its await.                 *)

\* _recordXeroAnswer: what Xero answered is stored, whatever was read since.
SendStored(d) ==
  /\ send[d] # 0
  /\ row' = [row EXCEPT ![d] = [st |-> "DRAFT", day |-> 0]]
  /\ send' = [send EXCEPT ![d] = 0]
  /\ UNCHANGED <<nowhere, clock, doc, last, caughtUp, sync, faults>>

\* The answer cannot be stored; the document's ID is.
AnswerNotStored(d) ==
  /\ send[d] # 0
  /\ Fault
  /\ row' = [row EXCEPT ![d] = IF @.st = "new" THEN NotRead ELSE @]
  /\ send' = [send EXCEPT ![d] = 0]
  /\ UNCHANGED <<nowhere, clock, doc, last, caughtUp, sync>>

-----------------------------------------------------------------------------
(* A read of the company.                                                  *)

\* listInXero, less the rows that are final and those with no company to ask.
Listed == {d \in Docs \ nowhere : row[d].st \notin {"new"} \cup Final}

\* A person chooses the company rows go to by default, or leaves only one.
CompanyChosen ==
  /\ nowhere # {}
  /\ nowhere' = {}
  /\ UNCHANGED <<clock, doc, row, send, last, caughtUp, sync, faults>>

SyncLists ==
  /\ sync.pc = "no"
  /\ Listed # {}
  /\ sync' = [NoSync EXCEPT !.pc = "listed", !.time = clock, !.rows = Listed, !.snap = row]
  /\ UNCHANGED <<nowhere, clock, doc, row, send, last, caughtUp, faults>>

\* Mutant of Since: the clocks are trusted.
SinceExactly(t) == t
Since(t) == IF t > Slack THEN t - Slack ELSE 0

\* Mutant of CatchUp: a paid row without its day is left to the summary.
NoCatchUp == {}
CatchUp == IF last = 0 \/ caughtUp THEN {}
           ELSE {d \in sync.rows : sync.snap[d] = [st |-> "PAID", day |-> 0]}

Unread == {d \in sync.rows : last = 0 \/ sync.snap[d] = NotRead}

Plan == [w \in Ways |-> CASE w = "plain" -> Unread
                          [] w = "since" -> (sync.rows \ Unread) \ CatchUp
                          [] w = "full"  -> CatchUp]

\* The token is there; the time is taken before the first call.
SyncStarts ==
  /\ sync.pc = "listed"
  /\ \E t \in clock..(clock + Drift) :
       sync' = [sync EXCEPT !.pc = "ask", !.time = t, !.since = Since(last), !.left = Plan]
  /\ UNCHANGED <<nowhere, clock, doc, row, send, last, caughtUp, faults>>

\* The way that is next: all the rows of one way before those of the next.
Turn(w) == /\ sync.left[w] # {}
           /\ w \in {"since", "full"} => sync.left["plain"] = {}
           /\ w = "full" => sync.left["since"] = {}

Answers(w, batch) == {d \in batch : w = "since" => doc[d].mod > sync.since}

\* What an answer says of a document: a summary has no day.
Says(w, d) == [Now(d) EXCEPT !.day = IF w = "full" THEN @ ELSE 0]

\* One call: Xero answers it.
XeroAnswers(w, batch) ==
  LET got  == Answers(w, batch)
      paid == {d \in got : w # "full" /\ doc[d].st = "PAID"}
  IN /\ sync.pc = "ask" /\ Turn(w)
     /\ batch # {} /\ batch \subseteq sync.left[w] /\ Cardinality(batch) <= BatchSize
     /\ sync' = [sync EXCEPT !.pc = IF paid = {} THEN "settled" ELSE "undated",
                             !.left[w] = @ \ batch, !.got = got,
                             !.seen = [d \in Docs |-> IF d \in got THEN Says(w, d) ELSE NotRead]]
     /\ UNCHANGED <<nowhere, clock, doc, row, send, last, caughtUp, faults>>

\* The paid ones are asked again, for their day only.
XeroAnswersInFull ==
  /\ sync.pc = "undated"
  /\ sync' = [sync EXCEPT !.pc = "settled",
                          !.seen = [d \in Docs |-> IF sync.seen[d].st = "PAID"
                                                   THEN [st |-> "PAID", day |-> doc[d].day]
                                                   ELSE sync.seen[d]]]
  /\ UNCHANGED <<nowhere, clock, doc, row, send, last, caughtUp, faults>>

Stores(what) == row' = [d \in Docs |-> IF d \in sync.got THEN what[d] ELSE row[d]]

Finished == \A w \in Ways : sync.left[w] = {}

\* Mutant of CompleteAt: the time at which the read ended.
CompleteNow == clock
CompleteAt == sync.time

\* The answers are stored. After the last of them the read is complete.
SyncStores ==
  /\ sync.pc = "settled"
  /\ Stores(sync.seen)
  /\ IF Finished
     THEN sync' = NoSync /\ last' = CompleteAt /\ caughtUp' = TRUE
     ELSE /\ sync' = [sync EXCEPT !.pc = "ask", !.got = {}, !.seen = NoSync.seen]
          /\ UNCHANGED <<last, caughtUp>>
  /\ UNCHANGED <<nowhere, clock, doc, send, faults>>

\* Mutant of WithoutDay: the day a row has is lost to the summary.
AsSummary(d) == sync.seen[d]
\* The summary's word, with the day the row had when it was listed.
WithoutDay(d) == IF sync.seen[d].st = "PAID" /\ sync.snap[d].st = "PAID"
                 THEN sync.snap[d] ELSE sync.seen[d]

\* Mutant of Forgotten: the catch-up stays done.
NotForgotten == caughtUp
Forgotten == FALSE

\* The asking again fails: the summary is stored and the read ends.
FullFails ==
  /\ sync.pc = "undated"
  /\ Fault
  /\ Stores([d \in Docs |-> WithoutDay(d)])
  /\ caughtUp' = Forgotten
  /\ sync' = NoSync
  /\ UNCHANGED <<nowhere, clock, doc, send, last>>

\* No token, the daily limit, or a call that fails.
SyncFails ==
  /\ sync.pc \in {"listed", "ask"}
  /\ Fault
  /\ sync' = NoSync
  /\ UNCHANGED <<nowhere, clock, doc, row, send, last, caughtUp>>

\* What was under way is gone; a send will be found again, or corrected again.
Restart ==
  /\ Fault
  /\ sync' = NoSync
  /\ send' = [d \in Docs |-> 0]
  /\ UNCHANGED <<nowhere, clock, doc, row, last, caughtUp>>

-----------------------------------------------------------------------------
SyncStep == \/ SyncLists \/ SyncStarts \/ XeroAnswersInFull \/ SyncStores
            \/ \E w \in Ways : \E batch \in SUBSET Docs : XeroAnswers(w, batch)

Next == \/ CompanyChosen \/ SyncStep \/ FullFails \/ SyncFails \/ Restart
        \/ \E d \in Docs : XeroMoves(d) \/ XeroTakesSend(d) \/ SendStored(d) \/ AnswerNotStored(d)

Spec == Init /\ [][Next]_vars

\* The job runs every three hours, calls have time limits, and sends end.
FairSpec == Spec /\ WF_vars(SyncStep) /\ \A d \in Docs : WF_vars(SendStored(d))

-----------------------------------------------------------------------------
(* Properties.                                                             *)

Behind(d) == row[d].st \notin {"new", "unread"} /\ row[d] # Now(d)

\* Sends are stored, and companies read, soon enough for the slack to cover it.
SlackIsEnough == Drift + SendTime + ListAge <= Slack

\* A row that does not say what Xero says is one the next read asks for:
\* whatever changes in Xero while a read or a send is under way, whatever
\* fails, and although a send's answer may overwrite a newer status
\* (status-sync.js:278, "the next read picks it up"; :195, "The next complete
\* read's catch-up asks it").
NothingSlipsBy ==
  \A d \in Docs : Behind(d) => \/ doc[d].mod > Since(last)
                               \/ row[d] = [st |-> "PAID", day |-> 0] /\ ~caughtUp

\* A stored day of payment that still is Xero's is never lost to an answer
\* without days (status-sync.js:327, "keeps the day it has rather than losing it").
PaidDayKept ==
  [][\A d \in Docs : row[d].day # 0 /\ row[d] = Now(d) /\ row'[d].st = "PAID" => row'[d] = row[d]]_vars

\* Once Xero is quiet, every row comes to say what Xero says.
RowsCatchUp == \A d \in Docs : <>[](row[d].st = "new" \/ d \in nowhere \/ row[d] = Now(d))
=============================================================================
