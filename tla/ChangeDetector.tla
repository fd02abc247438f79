--------------------------- MODULE ChangeDetector ---------------------------
(***************************************************************************)
(* How a change made in Xero is noticed for one company:                   *)
(* main/xero/change-detector.js and main/jobs/xero-change-detector.js.     *)
(*                                                                         *)
(* The books are the sequence of changes made in Xero, each a journal or a *)
(* budget edit; a journal's number, and any time, is a position in it.     *)
(***************************************************************************)
EXTENDS Naturals, Sequences, FiniteSets

CONSTANTS Kinds,        \* what changes in Xero: journals, budget edits or both
          PageSize,     \* journals to a call
          MaxPages,     \* calls to a look
          MaxChanges,   \* bound on changes in Xero
          MaxFaults     \* bound on failed calls, restarts, disconnects and bars coming up

ASSUME KindsAssumption == Kinds \subseteq {"journal", "budget"}
ASSUME PagingAssumption == PageSize \in Nat \ {0} /\ MaxPages \in Nat \ {0}
ASSUME BoundsAssumption == MaxChanges \in Nat /\ MaxFaults \in Nat

VARIABLES
  books,      \* Xero: the changes made, oldest first
  row,        \* the company's row of xero_change_cursor
  look,       \* the look under way
  connected,  \* the company is on file for the account
  barred,     \* there is a reason to take no look (_whyNotLive)
  faults,
  noticed,    \* history: the changes announced, or taken as the baseline
  baseline    \* history: those taken as the baseline

detector == <<row, look, noticed, baseline>>

Times  == 0..MaxChanges
NoLook == [pc |-> "no", page |-> 0, start |-> 0, since |-> 0, newest |-> 0, fresh |-> FALSE]

DetectorTypeOK ==
  /\ books \in Seq(Kinds) /\ Len(books) <= MaxChanges
  /\ row \in [polled : BOOLEAN, since : Times, number : Times, budget : Times,
              live : BOOLEAN, stamp : Nat]
  /\ look \in [pc : {"no", "journals", "budgets"}, page : 0..MaxPages, start : Times,
               since : Times, newest : Times, fresh : BOOLEAN]
  /\ connected \in BOOLEAN /\ barred \in BOOLEAN /\ faults \in Nat
  /\ noticed \subseteq DOMAIN books /\ baseline \subseteq noticed

DetectorInit ==
  /\ books = <<>>
  /\ row = [polled |-> FALSE, since |-> 0, number |-> 0, budget |-> 0, live |-> FALSE, stamp |-> 0]
  /\ look = NoLook /\ connected = TRUE /\ barred = FALSE /\ faults = 0
  /\ noticed = {} /\ baseline = {}

Fault == faults < MaxFaults /\ faults' = faults + 1

-----------------------------------------------------------------------------
(* Xero.                                                                   *)

Post(kind) == /\ Len(books) < MaxChanges
              /\ books' = Append(books, kind)
              /\ UNCHANGED <<detector, connected, barred, faults>>

\* One page of getJournals: numbered after offset, changed since, in order.
Journals(offset, since) ==
  LET all == {i \in DOMAIN books : books[i] = "journal" /\ i > offset /\ i > since}
  IN {i \in all : Cardinality({j \in all : j < i}) < PageSize}

Latest(S) == IF S = {} THEN 0 ELSE CHOOSE i \in S : \A j \in S : j <= i
BudgetsUpdated == Latest({i \in DOMAIN books : books[i] = "budget"})

-----------------------------------------------------------------------------
(* A look at the company: pollTenant. The job takes one at a time.         *)

\* Journals changed since the last look started, less a slack that may reach
\* back over any of them; without a last look, since about now. A time no later
\* than the journal they are numbered after asks for the same as none.
LookStarts ==
  /\ look = NoLook
  /\ connected /\ ~barred
  /\ \E since \in {0} \cup (row.number + 1)..(IF row.polled THEN row.since ELSE Len(books)) :
       look' = [pc |-> "journals", page |-> 0, start |-> Len(books), since |-> since,
                newest |-> row.number, fresh |-> FALSE]
  /\ UNCHANGED <<books, row, connected, barred, faults, noticed, baseline>>

More(got) == Cardinality(got) = PageSize /\ look.page + 1 < MaxPages

ReadJournals ==
  LET got == Journals(look.newest, look.since)
  IN /\ look.pc = "journals"
     /\ look' = [look EXCEPT !.pc = IF More(got) THEN "journals" ELSE "budgets",
                             !.page = @ + 1,
                             !.newest = Latest(got \cup {@}),
                             !.fresh = @ \/ (row.polled /\ got # {})]
     /\ UNCHANGED <<books, row, connected, barred, faults, noticed, baseline>>

\* Mutant of Changed: a budget edit is no change.
JournalsChanged == look.fresh
Changed == look.fresh \/ (row.polled /\ BudgetsUpdated # row.budget)

\* Mutant of Since: the next look asks from where this one ended.
SinceNow == Len(books)
Since == look.start

\* What a look that ends has taken in: all that was there when it started, and
\* what it read of what came meanwhile.
TakenIn == {i \in DOMAIN books : \/ i <= look.start
                                 \/ books[i] = "journal" /\ i <= look.newest
                                 \/ books[i] = "budget" /\ i <= BudgetsUpdated}

\* The budgets are read, and the row is written.
ReadBudgets ==
  /\ look.pc = "budgets"
  /\ row' = [polled |-> TRUE, since |-> Since, number |-> look.newest, budget |-> BudgetsUpdated,
             live |-> TRUE, stamp |-> IF Changed THEN row.stamp + 1 ELSE row.stamp]
  /\ noticed' = IF Changed \/ ~row.polled THEN noticed \cup TakenIn ELSE noticed
  /\ baseline' = IF row.polled THEN baseline ELSE TakenIn
  /\ look' = NoLook
  /\ UNCHANGED <<books, connected, barred, faults>>

\* Mutant of NotLive: a look that failed moves the cursor over what it read.
NotLiveMoved == [row EXCEPT !.live = FALSE, !.number = IF look = NoLook THEN @ ELSE look.newest]
NotLive == [row EXCEPT !.live = FALSE]

\* A look is due and there is a reason to take none: it is written when it is new.
LookSkipped ==
  /\ look = NoLook
  /\ connected /\ barred /\ row.live
  /\ row' = NotLive
  /\ UNCHANGED <<books, look, connected, barred, faults, noticed, baseline>>

\* A call fails: by a fault, or since what bars a look came up during it.
LookFails ==
  /\ look # NoLook \/ (connected /\ ~barred)
  /\ IF barred THEN UNCHANGED faults ELSE Fault
  /\ row' = NotLive
  /\ look' = NoLook
  /\ UNCHANGED <<books, connected, barred, noticed, baseline>>

\* A restart: the look is gone, the row is not.
LookLost == /\ Fault
            /\ look' = NoLook
            /\ UNCHANGED <<books, row, connected, barred, noticed, baseline>>

\* The scope is not granted, refused or declined, the connection is a Custom
\* Connection or needs reconnecting, the day's allowance is nearly spent: this
\* lasts until a person, or the next day, ends it.
BarComesUp == /\ ~barred /\ Fault
              /\ barred' = TRUE
              /\ UNCHANGED <<books, detector, connected>>

BarGoes == /\ barred
           /\ barred' = FALSE
           /\ UNCHANGED <<books, detector, connected, faults>>

Disconnects == /\ connected /\ Fault
               /\ connected' = FALSE
               /\ UNCHANGED <<books, detector, barred>>

Connects == /\ ~connected
            /\ connected' = TRUE
            /\ UNCHANGED <<books, detector, barred, faults>>

-----------------------------------------------------------------------------
Look == LookStarts \/ LookSkipped \/ ReadJournals \/ ReadBudgets

DetectorNext == \/ \E kind \in Kinds : Post(kind)
                \/ Look \/ LookFails \/ LookLost
                \/ BarComesUp \/ BarGoes \/ Disconnects \/ Connects

detectorVars == <<books, detector, connected, barred, faults>>

\* The job ticks every minute, and calls to Xero have time limits.
DetectorSpec == DetectorInit /\ [][DetectorNext]_detectorVars /\ WF_detectorVars(Look)

-----------------------------------------------------------------------------
(* Properties.                                                             *)

\* What the cursor has moved over was announced, or was there at the first
\* look: looks that fail, restarts, full pages and changes made while a look
\* is under way leave no change behind the cursor (change-detector.js:29, "so
\* nothing is skipped over").
NothingPassedOver ==
  \A i \in DOMAIN books : i <= (IF books[i] = "journal" THEN row.number ELSE row.budget) => i \in noticed

\* Every change made in Xero is noticed, while the company stays connected and
\* a look may be taken. When none may, the page can tell: the row is not live
\* (change-detector.js:20, "When it does not run, it says why").
EveryChangeNoticed ==
  \A i \in 1..MaxChanges :
    i \in DOMAIN books ~> i \in noticed \/ ~connected \/ (barred /\ ~row.live)

\* After a look that met the cap on pages "the next look carries on from where
\* this one stopped" (change-detector.js:45), so that the cursor reaches every
\* journal announced. The code does not keep it: the next look only asks for
\* what changed since this one started.
CursorReachesAll ==
  \A i \in 1..MaxChanges :
    i \in noticed \ baseline /\ books[i] = "journal" ~> row.number >= i \/ ~connected
=============================================================================
