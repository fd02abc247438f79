-------------------------- MODULE LiveReportsProofs --------------------------
(***************************************************************************)
(* The safety of ChangeDetector and of LiveReports over it, for any number *)
(* of changes, reports, pages to a look and journals to a page.            *)
(***************************************************************************)
EXTENDS LiveReports, WellFoundedInduction, TLAPS

-----------------------------------------------------------------------------
(* The newest of a list.                                                   *)

\* A bounded set of numbers has a greatest: the one nearest to the bound.
LEMMA Greatest ==
  ASSUME NEW n \in Nat, NEW S \in SUBSET (0..n), S # {}
  PROVE  \E i \in S : \A j \in S : j <= i
<1> DEFINE T == {n - i : i \in S}
<1>1. T \subseteq Nat /\ T # {}
  <2>1. \A i \in S : n - i \in Nat
    OBVIOUS
  <2>2. PICK i \in S : TRUE
    OBVIOUS
  <2>3. n - i \in T
    BY <2>2
  <2> QED
    BY <2>1, <2>3
<1>2. \E x \in T : \A y \in T : ~ (<<y, x>> \in OpToRel(<, Nat))
  BY <1>1, NatLessThanWellFounded, WFMin, Zenon
<1>3. PICK x \in T : \A y \in T : ~ (<<y, x>> \in OpToRel(<, Nat))
  BY <1>2
<1>4. \A y \in T : ~ (y < x)
  BY <1>1, <1>3, Zenon DEF OpToRel
<1>5. PICK i \in S : x = n - i
  BY <1>3
<1>6. \A j \in S : j <= i
  <2> TAKE j \in S
  <2>1. n - j \in T
    OBVIOUS
  <2>2. ~ (n - j < n - i)
    BY <2>1, <1>4, <1>5
  <2> QED
    BY <2>2
<1> QED
  BY <1>6

LEMMA LatestIs ==
  ASSUME NEW n \in Nat, NEW S \in SUBSET (0..n)
  PROVE  /\ Latest(S) \in 0..n
         /\ \A j \in S : j <= Latest(S)
         /\ S # {} => Latest(S) \in S
<1>1. CASE S = {}
  BY <1>1 DEF Latest
<1>2. CASE S # {}
  BY <1>2, Greatest DEF Latest
<1> QED
  BY <1>1, <1>2

-----------------------------------------------------------------------------
(* The detector.                                                           *)

Rows  == [polled : BOOLEAN, since : Times, number : Times, budget : Times,
          live : BOOLEAN, stamp : Nat]
Looks == [pc : {"no", "journals", "budgets"}, page : 0..MaxPages, start : Times,
          since : Times, newest : Times, fresh : BOOLEAN]

\* A look knows no more than there is, and has a page left to read while it
\* reads; unless it found something new it is where the cursor is.
LookSound ==
  /\ row.number <= Len(books) /\ row.budget <= Len(books)
  /\ look.newest <= Len(books) /\ look.start <= Len(books)
  /\ look.pc = "journals" => look.page < MaxPages
  /\ look.pc # "no" /\ row.polled /\ ~look.fresh => look.newest = row.number

\* Until the first look ends the cursor is nowhere and nothing is noticed.
BeforeFirst == ~row.polled => noticed = {} /\ baseline = {}

DetectorSafe == DetectorTypeOK /\ LookSound /\ BeforeFirst /\ NothingPassedOver

LEMMA NoLookType == NoLook \in Looks
  BY PagingAssumption, BoundsAssumption DEF NoLook, Looks, Times

LEMMA DetectorStarts == DetectorInit => DetectorSafe
<1> SUFFICES ASSUME DetectorInit PROVE DetectorSafe
  OBVIOUS
<1>1. DetectorTypeOK
  <2>1. row \in Rows
    BY BoundsAssumption DEF DetectorInit, Rows, Times
  <2>2. look \in Looks
    BY NoLookType DEF DetectorInit
  <2>3. books \in Seq(Kinds) /\ Len(books) <= MaxChanges /\ noticed \subseteq DOMAIN books /\ baseline \subseteq noticed
    BY BoundsAssumption DEF DetectorInit
  <2>4. connected \in BOOLEAN /\ barred \in BOOLEAN /\ faults \in Nat
    BY DEF DetectorInit
  <2> QED
    BY <2>1, <2>2, <2>3, <2>4 DEF DetectorTypeOK, Rows, Looks
<1>2. LookSound /\ BeforeFirst /\ NothingPassedOver
  BY DEF DetectorInit, LookSound, BeforeFirst, NothingPassedOver, NoLook
<1> QED
  BY <1>1, <1>2 DEF DetectorSafe

\* What a page brings is in the books, after the offset.
LEMMA BooksFacts ==
  ASSUME DetectorTypeOK
  PROVE  /\ Len(books) \in Nat /\ Len(books) \in Times /\ DOMAIN books = 1..Len(books)
         /\ BudgetsUpdated \in 0..Len(books)
         /\ \A i \in DOMAIN books : books[i] = "budget" => i <= BudgetsUpdated
         /\ \A offset, since : Journals(offset, since) \subseteq {i \in DOMAIN books : books[i] = "journal"}
<1>1. Len(books) \in Nat /\ Len(books) \in Times /\ DOMAIN books = 1..Len(books)
  BY BoundsAssumption DEF DetectorTypeOK, Times
<1> DEFINE S == {i \in DOMAIN books : books[i] = "budget"}
<1>2. S \in SUBSET (0..Len(books))
  BY <1>1
<1>3. BudgetsUpdated = Latest(S)
  BY DEF BudgetsUpdated
<1>4. Latest(S) \in 0..Len(books) /\ \A j \in S : j <= Latest(S)
  BY <1>1, <1>2, LatestIs
<1>5. \A offset, since : Journals(offset, since) \subseteq {i \in DOMAIN books : books[i] = "journal"}
  BY DEF Journals
<1> QED
  BY <1>1, <1>3, <1>4, <1>5

LEMMA PostSafe == ASSUME DetectorSafe, NEW kind \in Kinds, Post(kind) PROVE DetectorSafe'
<1>1. /\ books' \in Seq(Kinds) /\ Len(books') = Len(books) + 1 /\ Len(books') <= MaxChanges
      /\ \A i \in DOMAIN books : books'[i] = books[i]
      /\ DOMAIN books' = 1..(Len(books) + 1)
  BY BoundsAssumption DEF DetectorSafe, DetectorTypeOK, Post
<1>2. row' = row /\ look' = look /\ connected' = connected /\ barred' = barred /\ faults' = faults
      /\ noticed' = noticed /\ baseline' = baseline
  BY DEF Post, detector
<1>3. Len(books) \in Nat /\ DOMAIN books = 1..Len(books)
  BY BooksFacts DEF DetectorSafe
<1>4. DetectorTypeOK'
  BY <1>1, <1>2, <1>3 DEF DetectorSafe, DetectorTypeOK
<1>5. LookSound'
  <2>1. row \in Rows /\ look \in Looks
    BY DEF DetectorSafe, DetectorTypeOK, Rows, Looks
  <2> QED
    BY <1>1, <1>2, <1>3, <2>1 DEF DetectorSafe, LookSound, Rows, Looks, Times
<1>6. BeforeFirst'
  BY <1>2 DEF DetectorSafe, BeforeFirst
<1>7. NothingPassedOver'
  <2> SUFFICES ASSUME NEW i \in DOMAIN books',
                      i <= (IF books'[i] = "journal" THEN row.number ELSE row.budget)
               PROVE  i \in noticed
    BY <1>2 DEF NothingPassedOver
  <2>1. i <= Len(books)
    <3>1. row \in Rows
      BY DEF DetectorSafe, DetectorTypeOK, Rows
    <3> QED
      BY <1>1, <1>3, <3>1 DEF DetectorSafe, LookSound, Rows, Times
  <2>2. i \in DOMAIN books /\ books'[i] = books[i]
    BY <1>1, <1>3, <2>1
  <2> QED
    BY <2>2 DEF DetectorSafe, NothingPassedOver
<1> QED
  BY <1>4, <1>5, <1>6, <1>7 DEF DetectorSafe

LEMMA StartSafe == ASSUME DetectorSafe, LookStarts PROVE DetectorSafe'
<1>1. PICK since \in {0} \cup (row.number + 1)..(IF row.polled THEN row.since ELSE Len(books)) :
        look' = [pc |-> "journals", page |-> 0, start |-> Len(books), since |-> since,
                 newest |-> row.number, fresh |-> FALSE]
  BY DEF LookStarts
<1>2. UNCHANGED <<books, row, connected, barred, faults, noticed, baseline>>
  BY DEF LookStarts
<1>3. Len(books) \in Times /\ row \in Rows
  BY BooksFacts DEF DetectorSafe, DetectorTypeOK, Rows
<1>4. since \in Times
  BY <1>3, BoundsAssumption DEF Times, Rows
<1>5. look' \in Looks
  BY <1>1, <1>3, <1>4, PagingAssumption DEF Looks, Rows
<1>6. DetectorTypeOK'
  BY <1>2, <1>5 DEF DetectorSafe, DetectorTypeOK, Looks
<1>7. LookSound'
  BY <1>1, <1>2, <1>3, PagingAssumption DEF DetectorSafe, LookSound, Rows, Times
<1> QED
  BY <1>2, <1>6, <1>7 DEF DetectorSafe, BeforeFirst, NothingPassedOver

\* A page moves on to the newest it brought, and only then.
LEMMA PageSafe == ASSUME DetectorSafe, ReadJournals PROVE DetectorSafe'
<1> DEFINE got == Journals(look.newest, look.since)
<1>1. look.pc = "journals" /\ UNCHANGED <<books, row, connected, barred, faults, noticed, baseline>>
  BY DEF ReadJournals
<1>2. look' = [look EXCEPT !.pc = IF More(got) THEN "journals" ELSE "budgets",
                           !.page = @ + 1,
                           !.newest = Latest(got \cup {@}),
                           !.fresh = @ \/ (row.polled /\ got # {})]
  BY DEF ReadJournals
<1>3. Len(books) \in Nat /\ Len(books) \in Times /\ row \in Rows /\ look \in Looks
  BY BooksFacts DEF DetectorSafe, DetectorTypeOK, Rows, Looks
<1>4. got \subseteq 1..Len(books)
  BY BooksFacts DEF DetectorSafe
<1>5. look.newest \in 0..Len(books)
  BY <1>3 DEF DetectorSafe, LookSound, Looks, Times
<1> HIDE DEF got
<1>6. Latest(got \cup {look.newest}) \in 0..Len(books)
  BY <1>3, <1>4, <1>5, LatestIs
<1>7. got = {} => Latest(got \cup {look.newest}) = look.newest
  <2> SUFFICES ASSUME got = {} PROVE Latest({look.newest}) = look.newest
    OBVIOUS
  <2>1. {look.newest} \in SUBSET (0..Len(books))
    BY <1>5
  <2> QED
    BY <1>3, <2>1, LatestIs
<1>8. look.page + 1 \in 0..MaxPages /\ (More(got) => look.page + 1 < MaxPages)
  BY <1>1, <1>3, PagingAssumption DEF DetectorSafe, LookSound, Looks, More
<1>9. (look.fresh \/ (row.polled /\ got # {})) \in BOOLEAN
  BY <1>3 DEF Looks, Rows
<1>10. look' \in Looks
  <2>1. Latest(got \cup {look.newest}) \in Times
    BY <1>3, <1>6, BoundsAssumption DEF Times
  <2> QED
    BY <1>2, <1>3, <1>8, <1>9, <2>1 DEF Looks
<1>11. DetectorTypeOK'
  BY <1>1, <1>10 DEF DetectorSafe, DetectorTypeOK, Looks
<1>12. LookSound'
  <2>1. look'.newest = Latest(got \cup {look.newest}) /\ look'.start = look.start
        /\ look'.page = look.page + 1 /\ look'.pc = (IF More(got) THEN "journals" ELSE "budgets")
        /\ look'.fresh = (look.fresh \/ (row.polled /\ got # {}))
    BY <1>2, <1>3 DEF Looks
  <2>2. look'.newest <= Len(books)
    BY <2>1, <1>6
  <2>3. row.polled /\ ~look'.fresh => got = {} /\ ~look.fresh
    BY <2>1
  <2>4. row.polled /\ ~look'.fresh => look'.newest = row.number
    BY <1>1, <1>7, <2>1, <2>3 DEF DetectorSafe, LookSound
  <2>5. look'.pc = "journals" => look'.page < MaxPages
    BY <1>8, <2>1
  <2>6. row'.number <= Len(books') /\ row'.budget <= Len(books') /\ look'.start <= Len(books')
    BY <1>1, <2>1 DEF DetectorSafe, LookSound
  <2> QED
    BY <1>1, <2>2, <2>4, <2>5, <2>6 DEF LookSound
<1> QED
  BY <1>1, <1>11, <1>12 DEF DetectorSafe, BeforeFirst, NothingPassedOver

\* The row is written. Where that moves the cursor, all it moves over is noticed.
LEMMA BudgetsSafe == ASSUME DetectorSafe, ReadBudgets PROVE DetectorSafe'
<1>1. look.pc = "budgets" /\ look' = NoLook /\ UNCHANGED <<books, connected, barred, faults>>
  BY DEF ReadBudgets
<1>2. /\ row' = [polled |-> TRUE, since |-> look.start, number |-> look.newest, budget |-> BudgetsUpdated,
                 live |-> TRUE, stamp |-> IF Changed THEN row.stamp + 1 ELSE row.stamp]
      /\ noticed' = (IF Changed \/ ~row.polled THEN noticed \cup TakenIn ELSE noticed)
      /\ baseline' = (IF row.polled THEN baseline ELSE TakenIn)
  BY DEF ReadBudgets, Since
<1>3. Len(books) \in Nat /\ DOMAIN books = 1..Len(books) /\ row \in Rows /\ look \in Looks
  BY BooksFacts DEF DetectorSafe, DetectorTypeOK, Rows, Looks
<1>4. BudgetsUpdated \in 0..Len(books) /\ Len(books) <= MaxChanges
      /\ \A i \in DOMAIN books : books[i] = "budget" => i <= BudgetsUpdated
  BY BooksFacts DEF DetectorSafe, DetectorTypeOK
<1>5. TakenIn \subseteq DOMAIN books
  BY DEF TakenIn
<1>6. row' \in Rows
  <2>1. BudgetsUpdated \in Times
    BY <1>3, <1>4, BoundsAssumption DEF Times
  <2> QED
    BY <1>2, <1>3, <2>1 DEF Rows, Looks
<1>7. DetectorTypeOK'
  <2>1. noticed' \subseteq DOMAIN books /\ baseline' \subseteq noticed'
    BY <1>2, <1>5 DEF DetectorSafe, DetectorTypeOK
  <2> QED
    BY <1>1, <1>6, <2>1, NoLookType DEF DetectorSafe, DetectorTypeOK, Rows, Looks
<1>8. LookSound'
  <2>1. row'.number = look.newest /\ row'.budget = BudgetsUpdated
    BY <1>2
  <2> QED
    BY <1>1, <1>3, <1>4, <2>1 DEF DetectorSafe, LookSound, NoLook
<1>9. BeforeFirst'
  BY <1>2 DEF BeforeFirst
<1>10. NothingPassedOver'
  <2> SUFFICES ASSUME NEW i \in DOMAIN books,
                      i <= (IF books[i] = "journal" THEN look.newest ELSE BudgetsUpdated)
               PROVE  i \in noticed'
    BY <1>1, <1>2 DEF NothingPassedOver
  <2>1. books[i] \in {"journal", "budget"}
    <3>1. books \in Seq(Kinds)
      BY DEF DetectorSafe, DetectorTypeOK
    <3>2. books[i] \in Kinds
      BY <3>1
    <3> QED
      BY <3>2, KindsAssumption
  <2>2. CASE Changed \/ ~row.polled
    BY <1>2, <2>1, <2>2 DEF TakenIn
  <2>3. CASE ~(Changed \/ ~row.polled)
    <3>1. ~look.fresh /\ row.polled /\ BudgetsUpdated = row.budget
      BY <2>3 DEF Changed
    <3>2. look.newest = row.number
      BY <1>1, <3>1 DEF DetectorSafe, LookSound
    <3> QED
      BY <1>2, <2>3, <3>1, <3>2 DEF DetectorSafe, NothingPassedOver
  <2> QED
    BY <2>2, <2>3
<1> QED
  BY <1>7, <1>8, <1>9, <1>10 DEF DetectorSafe

\* A look that is gone leaves the cursor where it was.
LEMMA GoneSafe ==
  ASSUME DetectorSafe, row' \in {row, NotLive}, look' \in {look, NoLook}, connected' \in BOOLEAN,
         barred' \in BOOLEAN, faults' \in Nat, UNCHANGED <<books, noticed, baseline>>
  PROVE  DetectorSafe'
<1>1. row \in Rows /\ look \in Looks /\ Len(books) \in Nat
  BY BooksFacts DEF DetectorSafe, DetectorTypeOK, Rows, Looks
<1>2. row' \in Rows /\ row'.number = row.number /\ row'.budget = row.budget /\ row'.polled = row.polled
  BY <1>1 DEF Rows, NotLive
<1>3. look' \in Looks
  BY <1>1, NoLookType
<1>4. DetectorTypeOK'
  BY <1>2, <1>3 DEF DetectorSafe, DetectorTypeOK, Rows, Looks
<1>5. LookSound'
  BY <1>1, <1>2 DEF DetectorSafe, LookSound, NoLook
<1> QED
  BY <1>2, <1>4, <1>5 DEF DetectorSafe, BeforeFirst, NothingPassedOver

LEMMA FaultType == ASSUME DetectorSafe, Fault PROVE faults' \in Nat
  BY DEF DetectorSafe, DetectorTypeOK, Fault

LEMMA DetectorSame == ASSUME DetectorSafe, UNCHANGED detectorVars PROVE DetectorSafe'
<1>1. UNCHANGED <<books, row, look, connected, barred, faults, noticed, baseline>>
  BY DEF detectorVars, detector
<1> QED
  BY <1>1 DEF DetectorSafe, DetectorTypeOK, LookSound, BeforeFirst, NothingPassedOver, BudgetsUpdated

LEMMA DetectorStep == DetectorSafe /\ [DetectorNext]_detectorVars => DetectorSafe'
<1> SUFFICES ASSUME DetectorSafe, [DetectorNext]_detectorVars PROVE DetectorSafe'
  OBVIOUS
<1>1. CASE \E kind \in Kinds : Post(kind)
  BY <1>1, PostSafe
<1>2. CASE Look
  <2>1. LookSkipped => DetectorSafe'
    BY GoneSafe DEF LookSkipped, DetectorSafe, DetectorTypeOK
  <2> QED
    BY <1>2, <2>1, StartSafe, PageSafe, BudgetsSafe DEF Look
<1>3. CASE LookFails
  <2>1. faults' \in Nat
    BY <1>3, FaultType DEF LookFails, DetectorSafe, DetectorTypeOK
  <2> QED
    BY <1>3, <2>1, GoneSafe DEF LookFails, DetectorSafe, DetectorTypeOK
<1>4. CASE LookLost
  BY <1>4, FaultType, GoneSafe DEF LookLost, DetectorSafe, DetectorTypeOK
<1>5. CASE Disconnects
  BY <1>5, FaultType, GoneSafe DEF Disconnects, detector, DetectorSafe, DetectorTypeOK
<1>6. CASE Connects
  <2>1. faults' \in Nat
    BY <1>6 DEF Connects, DetectorSafe, DetectorTypeOK
  <2> QED
    BY <1>6, <2>1, GoneSafe DEF Connects, detector, DetectorSafe, DetectorTypeOK
<1>7. CASE BarComesUp \/ BarGoes
  <2>1. faults' \in Nat
    BY <1>7, FaultType DEF BarComesUp, BarGoes, DetectorSafe, DetectorTypeOK
  <2> QED
    BY <1>7, <2>1, GoneSafe DEF BarComesUp, BarGoes, detector, DetectorSafe, DetectorTypeOK
<1>8. CASE UNCHANGED detectorVars
  BY <1>8, DetectorSame
<1> QED
  BY <1>1, <1>2, <1>3, <1>4, <1>5, <1>6, <1>7, <1>8 DEF DetectorNext

LEMMA DetectorAlways == DetectorSpec => []DetectorSafe
<1>1. DetectorInit => DetectorSafe
  BY DetectorStarts
<1>2. DetectorSafe /\ [DetectorNext]_detectorVars => DetectorSafe'
  BY DetectorStep
<1> QED
  BY <1>1, <1>2, PTL DEF DetectorSpec

\* Every reachable state of the detector has the types DetectorTypeOK gives: a
\* look never reads more than MAX_PAGES_PER_POLL pages and never knows of more
\* than there is.
THEOREM DetectorTypes == DetectorSpec => []DetectorTypeOK
<1>1. DetectorSafe => DetectorTypeOK
  BY DEF DetectorSafe
<1> QED
  BY <1>1, DetectorAlways, PTL

\* What the cursor has moved over was noticed, whatever pages, failures,
\* restarts and changes come in whatever order.
THEOREM CursorLeavesNothing == DetectorSpec => []NothingPassedOver
<1>1. DetectorSafe => NothingPassedOver
  BY DEF DetectorSafe
<1> QED
  BY <1>1, DetectorAlways, PTL

-----------------------------------------------------------------------------
(* The reports over it.                                                    *)

Shown == [at : Times, late : BOOLEAN]

ReportTypes ==
  /\ cache \in [Reports -> Entry \cup {NoFigures}]
  /\ fetches \in [Requests -> Fetch]
  /\ asks \in [Reports -> {"no", "plain", "forced"}]
  /\ shown \in [Reports -> Shown]
  /\ seen \in Nat /\ adopting \in BOOLEAN /\ refreshing \in BOOLEAN
  /\ refreshes \in Nat
  /\ excused \subseteq noticed

\* What a request has read is no older than a change announced since.
ReadsFollow ==
  \A k \in Requests : fetches[k].pc = "read" /\ ~fetches[k].late =>
                         noticed \ baseline \subseteq 1..fetches[k].at

LiveSafe == DetectorSafe /\ ReportTypes /\ ReadsFollow /\ CacheFollowsNotice

LEMMA NothingTypes ==
  /\ NoFigures \notin Entry /\ NotShown \in Shown /\ NoFetch \in Fetch /\ 0 \in Times
  /\ Empty \in [Reports -> Entry \cup {NoFigures}]
<1>1. 0 \in Times
  BY BoundsAssumption DEF Times
<1> QED
  BY <1>1 DEF NoFigures, Entry, NotShown, Shown, NoFetch, Fetch, Empty

LEMMA LiveInit == Init => LiveSafe
<1> SUFFICES ASSUME Init PROVE LiveSafe
  OBVIOUS
<1>1. DetectorSafe
  BY DetectorStarts DEF Init
<1>2. ReportTypes
  <2>1. seen \in Nat
    BY BoundsAssumption DEF Init, Unseen
  <2>2. cache \in [Reports -> Entry \cup {NoFigures}]
    BY NothingTypes DEF Init
  <2>3. fetches \in [Requests -> Fetch]
    BY NothingTypes DEF Init
  <2>4. asks \in [Reports -> {"no", "plain", "forced"}] /\ shown \in [Reports -> Shown]
    BY NothingTypes DEF Init
  <2> QED
    BY <2>1, <2>2, <2>3, <2>4 DEF Init, ReportTypes
<1>3. ReadsFollow /\ CacheFollowsNotice
  BY DEF Init, DetectorInit, ReadsFollow, CacheFollowsNotice, NoFetch
<1> QED
  BY <1>1, <1>2, <1>3 DEF LiveSafe

\* A step of the detector that announces nothing leaves what is cached as good
\* as it was.
LEMMA QuietStep ==
  ASSUME LiveSafe, UNCHANGED reports, noticed \subseteq noticed', noticed' \ baseline' \subseteq noticed \ baseline
  PROVE  ReportTypes' /\ ReadsFollow' /\ CacheFollowsNotice'
<1>1. UNCHANGED <<cache, fetches, asks, shown, seen, adopting, refreshing, refreshes, excused>>
  BY DEF reports, page
<1>2. ReportTypes'
  BY <1>1 DEF LiveSafe, ReportTypes, Requests
<1>3. ReadsFollow'
  BY <1>1 DEF LiveSafe, ReadsFollow, Requests
<1>4. CacheFollowsNotice'
  BY <1>1 DEF LiveSafe, CacheFollowsNotice
<1> QED
  BY <1>2, <1>3, <1>4

\* A clear leaves no entry, and marks what was read before it.
LEMMA ClearTypes ==
  ASSUME ReportTypes
  PROVE  /\ ClearedFetches \in [Requests -> Fetch]
         /\ \A k \in Requests : ClearedFetches[k].pc = "read" => ClearedFetches[k].late
<1>1. \A k \in Requests : [fetches[k] EXCEPT !.late = TRUE] \in Fetch /\ [fetches[k] EXCEPT !.late = TRUE].late
  BY DEF ReportTypes, Fetch
<1> QED
  BY <1>1 DEF ClearedFetches, ReportTypes

LEMMA ClearedSafe ==
  ASSUME LiveSafe, cache' = Empty, fetches' = ClearedFetches, UNCHANGED <<page, refreshes, excused>>,
         noticed \subseteq noticed'
  PROVE  ReportTypes' /\ ReadsFollow' /\ CacheFollowsNotice'
<1>1. UNCHANGED <<asks, shown, seen, adopting, refreshing, refreshes, excused>>
  BY DEF page
<1>2. ReportTypes'
  BY <1>1, ClearTypes, NothingTypes DEF LiveSafe, ReportTypes
<1>3. ReadsFollow'
  BY ClearTypes DEF LiveSafe, ReadsFollow
<1>4. CacheFollowsNotice'
  BY DEF CacheFollowsNotice, Empty
<1> QED
  BY <1>2, <1>3, <1>4

LEMMA LookEndsSafe == ASSUME LiveSafe, LookEnds PROVE LiveSafe'
<1>1. DetectorSafe'
  BY BudgetsSafe DEF LiveSafe, LookEnds
<1>2. noticed \subseteq noticed'
  BY DEF LookEnds, ReadBudgets
<1>3. CASE Changed
  BY <1>1, <1>2, <1>3, ClearedSafe DEF LookEnds, ClearedEntries, LiveSafe
<1>4. CASE ~Changed
  <2>1. noticed' \ baseline' \subseteq noticed \ baseline
    BY <1>4 DEF LookEnds, ReadBudgets, LiveSafe, DetectorSafe, BeforeFirst
  <2>2. UNCHANGED reports
    BY <1>4 DEF LookEnds, reports
  <2> QED
    BY <1>1, <1>2, <2>1, <2>2, QuietStep DEF LiveSafe
<1> QED
  BY <1>3, <1>4

\* The steps of the detector that announce nothing.
LEMMA DetectorOnly ==
  ASSUME LiveSafe, DetectorNext \/ UNCHANGED detectorVars, ~ReadBudgets, UNCHANGED reports
  PROVE  LiveSafe'
<1>1. DetectorSafe'
  BY DetectorStep DEF LiveSafe
<1>2. noticed' = noticed /\ baseline' = baseline
  BY DEF DetectorNext, Look, Post, LookStarts, LookSkipped, ReadJournals, LookFails, LookLost, Disconnects, Connects,
         BarComesUp, BarGoes, detectorVars, detector
<1> QED
  BY <1>1, <1>2, QuietStep DEF LiveSafe

\* A step of the cache or the page leaves the detector alone.
LEMMA ReportsOnly ==
  ASSUME LiveSafe, UNCHANGED <<books, detector, connected, barred>>, faults' \in Nat
  PROVE  DetectorSafe' /\ UNCHANGED <<noticed, baseline>>
<1>1. UNCHANGED <<books, row, look, connected, barred, noticed, baseline>>
  BY DEF detector
<1>2. DetectorSafe'
  BY <1>1, GoneSafe DEF LiveSafe, DetectorSafe, DetectorTypeOK
<1> QED
  BY <1>1, <1>2

LEMMA AnswerSafe == ASSUME LiveSafe, NEW k \in Requests, XeroAnswers(k) PROVE LiveSafe'
<1>1. UNCHANGED <<books, detector, connected, barred, faults, cache, asks, shown, seen, adopting, refreshing, refreshes, excused>>
  BY DEF XeroAnswers, detectorVars, page
<1>2. DetectorSafe' /\ UNCHANGED <<noticed, baseline>>
  BY <1>1, ReportsOnly DEF LiveSafe, DetectorSafe, DetectorTypeOK
<1>3. Len(books) \in Times /\ noticed \subseteq 1..Len(books)
  BY BooksFacts DEF LiveSafe, DetectorSafe, DetectorTypeOK
<1>4. fetches' = [fetches EXCEPT ![k] = [fetches[k] EXCEPT !.pc = "read", !.at = Len(books)]]
  BY DEF XeroAnswers
<1>5. fetches' \in [Requests -> Fetch]
  BY <1>3, <1>4 DEF LiveSafe, ReportTypes, Fetch
<1>6. ReadsFollow'
  <2>1. fetches'[k].at = Len(books)
    BY <1>4 DEF LiveSafe, ReportTypes, Fetch
  <2>2. \A j \in Requests \ {k} : fetches'[j] = fetches[j]
    BY <1>4 DEF LiveSafe, ReportTypes
  <2> QED
    BY <1>2, <1>3, <2>1, <2>2 DEF LiveSafe, ReadsFollow
<1>7. ReportTypes'
  BY <1>1, <1>2, <1>5 DEF LiveSafe, ReportTypes
<1> QED
  BY <1>1, <1>2, <1>6, <1>7 DEF LiveSafe, CacheFollowsNotice

LEMMA LandedTypes == ASSUME ReportTypes, NEW k, Landed(k) PROVE adopting' \in BOOLEAN /\ refreshing' \in BOOLEAN
  BY DEF ReportTypes, Landed

LEMMA EndSafe == ASSUME LiveSafe, NEW k \in Requests, FetchEnds(k) PROVE LiveSafe'
<1> DEFINE entry == [at |-> fetches[k].at, late |-> fetches[k].late, held |-> "new"]
<1>1. UNCHANGED <<books, detector, connected, barred, faults, seen, refreshes, excused>>
  BY DEF FetchEnds, detectorVars
<1>2. DetectorSafe' /\ UNCHANGED <<noticed, baseline>>
  BY <1>1, ReportsOnly DEF LiveSafe, DetectorSafe, DetectorTypeOK
<1>3. k[1] \in Reports /\ fetches[k] \in Fetch
  BY DEF Requests, LiveSafe, ReportTypes
<1>4. entry \in Entry /\ FiguresOf(entry) \in Shown
  BY <1>3 DEF Fetch, Entry, FiguresOf, Shown
<1>5. fetches[k].pc = "read" /\ cache' = [cache EXCEPT ![k[1]] = entry] /\ fetches' = [fetches EXCEPT ![k] = NoFetch]
      /\ shown' = (IF WaitsOn(k[1], k[2]) THEN [shown EXCEPT ![k[1]] = FiguresOf(entry)] ELSE shown)
      /\ asks' = (IF WaitsOn(k[1], k[2]) THEN [asks EXCEPT ![k[1]] = "no"] ELSE asks)
  BY DEF FetchEnds
<1>6. adopting' \in BOOLEAN /\ refreshing' \in BOOLEAN
  BY LandedTypes DEF LiveSafe, FetchEnds
<1>9. entry.at = fetches[k].at /\ entry.late = fetches[k].late
  OBVIOUS
<1> HIDE DEF entry
<1>7. ReportTypes'
  BY <1>1, <1>2, <1>3, <1>4, <1>5, <1>6, NothingTypes DEF LiveSafe, ReportTypes
<1>8. ReadsFollow' /\ CacheFollowsNotice'
  <2>1. \A j \in Requests : fetches'[j] = fetches[j] \/ fetches'[j] = NoFetch
    BY <1>5 DEF LiveSafe, ReportTypes
  <2>2. \A r \in Reports : cache'[r] = cache[r] \/ cache'[r] = entry
    BY <1>5 DEF LiveSafe, ReportTypes
  <2>3. ~entry.late => noticed \ baseline \subseteq 1..entry.at
    BY <1>5, <1>9 DEF LiveSafe, ReadsFollow
  <2> QED
    BY <1>2, <2>1, <2>2, <2>3 DEF LiveSafe, ReadsFollow, CacheFollowsNotice, NoFetch
<1> QED
  BY <1>2, <1>7, <1>8 DEF LiveSafe

LEMMA FailSafe == ASSUME LiveSafe, NEW k \in Requests, FetchFails(k) PROVE LiveSafe'
<1>1. UNCHANGED <<books, detector, connected, barred, cache, shown, seen, refreshes>> /\ faults' \in Nat
  BY FaultType DEF FetchFails, LiveSafe
<1>2. DetectorSafe' /\ UNCHANGED <<noticed, baseline>>
  BY <1>1, ReportsOnly
<1>3. k[1] \in Reports
  BY DEF Requests
<1>4. fetches' = [fetches EXCEPT ![k] = NoFetch]
      /\ asks' = (IF WaitsOn(k[1], k[2]) THEN [asks EXCEPT ![k[1]] = "no"] ELSE asks)
      /\ excused' \in {excused, noticed}
  BY DEF FetchFails
<1>5. adopting' \in BOOLEAN /\ refreshing' \in BOOLEAN
  BY LandedTypes DEF LiveSafe, FetchFails
<1>6. ReportTypes'
  BY <1>1, <1>2, <1>3, <1>4, <1>5, NothingTypes DEF LiveSafe, ReportTypes
<1>7. \A j \in Requests : fetches'[j] = fetches[j] \/ fetches'[j] = NoFetch
  BY <1>4 DEF LiveSafe, ReportTypes
<1> QED
  BY <1>1, <1>2, <1>6, <1>7 DEF LiveSafe, ReadsFollow, CacheFollowsNotice, NoFetch

LEMMA AgeSafe == ASSUME LiveSafe, NEW r \in Reports, Age(r) PROVE LiveSafe'
<1>1. UNCHANGED <<books, detector, connected, barred, faults, fetches, asks, shown, seen, adopting, refreshing, refreshes, excused>>
  BY DEF Age, detectorVars, page
<1>2. DetectorSafe' /\ UNCHANGED <<noticed, baseline>>
  BY <1>1, ReportsOnly DEF LiveSafe, DetectorSafe, DetectorTypeOK
<1> DEFINE older == IF cache[r].held = "new" THEN [cache[r] EXCEPT !.held = "past grace"] ELSE NoFigures
<1>3. cache' = [cache EXCEPT ![r] = older]
  BY DEF Age
<1>4. cache[r] \in Entry
  BY DEF Age, LiveSafe, ReportTypes
<1>5. older = NoFigures \/ (older \in Entry /\ older.at = cache[r].at /\ older.late = cache[r].late)
  BY <1>4 DEF Entry
<1> HIDE DEF older
<1>6. ReportTypes'
  BY <1>1, <1>2, <1>3, <1>5 DEF LiveSafe, ReportTypes
<1>7. CacheFollowsNotice'
  BY <1>2, <1>3, <1>4, <1>5, NothingTypes DEF LiveSafe, ReportTypes, CacheFollowsNotice
<1> QED
  BY <1>1, <1>2, <1>6, <1>7 DEF LiveSafe, ReadsFollow

\* What the page does: it asks, and notes what it is told.
LEMMA AskedTypes ==
  ASSUME ReportTypes, NEW S, NEW force
  PROVE  /\ Asked(S, force) \in [Requests -> Fetch]
         /\ \A k \in Requests : Asked(S, force)[k] = fetches[k] \/ Asked(S, force)[k].pc = "asked"
<1>1. [NoFetch EXCEPT !.pc = "asked"] \in Fetch /\ [NoFetch EXCEPT !.pc = "asked"].pc = "asked"
  BY NothingTypes DEF NoFetch, Fetch
<1> QED
  BY <1>1 DEF Asked, ReportTypes

LEMMA PageStep ==
  ASSUME LiveSafe, UNCHANGED <<detectorVars, cache>>,
         fetches' = fetches \/ \E force \in BOOLEAN : fetches' = Asked(Reports, force),
         asks' \in [Reports -> {"no", "plain", "forced"}], shown' \in [Reports -> Shown],
         seen' \in Nat, adopting' \in BOOLEAN, refreshing' \in BOOLEAN, refreshes' \in Nat,
         excused' \in {excused, noticed}
  PROVE  LiveSafe'
<1>1. UNCHANGED <<books, detector, connected, barred, faults>> /\ faults \in Nat
  BY DEF detectorVars, LiveSafe, DetectorSafe, DetectorTypeOK
<1>2. DetectorSafe' /\ UNCHANGED <<noticed, baseline>>
  BY <1>1, ReportsOnly
<1>3. fetches' \in [Requests -> Fetch] /\ \A k \in Requests : fetches'[k] = fetches[k] \/ fetches'[k].pc = "asked"
  BY AskedTypes DEF LiveSafe, ReportTypes
<1>4. ReportTypes'
  BY <1>2, <1>3 DEF LiveSafe, ReportTypes
<1> QED
  BY <1>2, <1>3, <1>4 DEF LiveSafe, ReadsFollow, CacheFollowsNotice

\* What an Ask of every report leaves.
LEMMA AskTypes ==
  ASSUME LiveSafe, NEW force \in BOOLEAN, Ask(Reports, force)
  PROVE  /\ fetches' = Asked(Reports, force)
         /\ asks' \in [Reports -> {"no", "plain", "forced"}]
         /\ shown' \in [Reports -> Shown]
<1>1. \A r \in Reports : Hit(r, force) => FiguresOf(cache[r]) \in Shown
  BY DEF LiveSafe, ReportTypes, Hit, Entry, FiguresOf, Shown
<1> QED
  BY <1>1 DEF Ask, LiveSafe, ReportTypes

LEMMA PageSteps == ASSUME LiveSafe, Open \/ Refresh \/ PollVersion \/ AdoptVersion PROVE LiveSafe'
<1>1. row.stamp \in Nat /\ ReportTypes
  BY DEF LiveSafe, DetectorSafe, DetectorTypeOK
<1>2. CASE Open
  <2>1. Ask(Reports, FALSE) /\ UNCHANGED <<detectorVars, cache, seen, adopting, refreshing, refreshes, excused>>
    BY <1>2 DEF Open
  <2> QED
    BY <1>1, <2>1, AskTypes, PageStep DEF ReportTypes
<1>3. CASE Refresh
  <2>1. Ask(Reports, TRUE) /\ UNCHANGED <<detectorVars, cache, seen, excused>> /\ refreshes' = refreshes + 1
        /\ adopting' \in {adopting, TRUE} /\ refreshing' \in {refreshing, TRUE}
    BY <1>3 DEF Refresh
  <2>2. adopting' \in BOOLEAN
    BY <1>1, <2>1, Zenon DEF ReportTypes
  <2>3. refreshing' \in BOOLEAN
    BY <1>1, <2>1, Zenon DEF ReportTypes
  <2>4. refreshes' \in Nat
    BY <1>1, <2>1 DEF ReportTypes
  <2> QED
    BY <1>1, <2>1, <2>2, <2>3, <2>4, AskTypes, PageStep DEF ReportTypes
<1>4. CASE PollVersion
  <2>1. UNCHANGED <<detectorVars, cache, refreshing, refreshes>> /\ seen' = row.stamp /\ adopting' = FALSE
        /\ excused' \in {excused, noticed}
    BY <1>4 DEF PollVersion
  <2>2. CASE Moved
    <3>1. Ask(Reports, FALSE)
      BY <1>4, <2>2 DEF PollVersion
    <3> QED
      BY <1>1, <2>1, <3>1, AskTypes, PageStep DEF ReportTypes
  <2>3. CASE ~Moved
    <3>1. UNCHANGED <<asks, shown, fetches>>
      BY <1>4, <2>3 DEF PollVersion
    <3> QED
      BY <1>1, <2>1, <3>1, PageStep DEF ReportTypes
  <2> QED
    BY <2>2, <2>3
<1>5. CASE AdoptVersion
  <2>1. /\ UNCHANGED <<detectorVars, cache, fetches, asks, shown, refreshing, refreshes>>
        /\ seen' = row.stamp /\ adopting' = FALSE /\ excused' = noticed
    BY <1>5 DEF AdoptVersion
  <2> QED
    BY <1>1, <2>1, PageStep DEF ReportTypes
<1> QED
  BY <1>2, <1>3, <1>4, <1>5

LEMMA RestartSafe == ASSUME LiveSafe, Restart PROVE LiveSafe'
<1>1. LookLost /\ cache' = Empty /\ fetches' = [k \in Requests |-> NoFetch]
      /\ asks' = [r \in Reports |-> "no"] /\ adopting' = FALSE /\ refreshing' = FALSE
      /\ excused' \in {excused, noticed} /\ UNCHANGED <<shown, seen, refreshes>>
  BY DEF Restart
<1>2. DetectorSafe'
  BY <1>1, DetectorStep DEF LiveSafe, DetectorNext
<1>3. noticed' = noticed
  BY <1>1 DEF LookLost
<1>4. ReportTypes'
  BY <1>1, <1>3, NothingTypes DEF LiveSafe, ReportTypes
<1>5. ReadsFollow' /\ CacheFollowsNotice'
  BY <1>1 DEF ReadsFollow, CacheFollowsNotice, NoFetch, Empty
<1> QED
  BY <1>2, <1>4, <1>5 DEF LiveSafe

LEMMA DisconnectSafe == ASSUME LiveSafe, Disconnect PROVE LiveSafe'
<1>1. Disconnects /\ cache' = Empty /\ fetches' = ClearedFetches /\ UNCHANGED <<page, refreshes, excused>>
  BY DEF Disconnect, ClearedEntries
<1>2. DetectorSafe'
  BY <1>1, DetectorStep DEF LiveSafe, DetectorNext
<1>3. noticed' = noticed
  BY <1>1 DEF Disconnects, detector
<1> QED
  BY <1>1, <1>2, <1>3, ClearedSafe DEF LiveSafe

LEMMA LiveStep == LiveSafe /\ [Next]_vars => LiveSafe'
<1> SUFFICES ASSUME LiveSafe, [Next]_vars PROVE LiveSafe'
  OBVIOUS
<1>1. CASE (LookFails \/ BarComesUp \/ BarGoes \/ \E kind \in Kinds : Post(kind)) /\ UNCHANGED reports
  <2>1. DetectorNext /\ UNCHANGED reports
    BY <1>1 DEF DetectorNext
  <2>2. UNCHANGED <<noticed, baseline>>
    BY <1>1 DEF LookFails, BarComesUp, BarGoes, Post, detector
  <2>3. DetectorSafe'
    BY <2>1, DetectorStep DEF LiveSafe
  <2> QED
    BY <2>1, <2>2, <2>3, QuietStep DEF LiveSafe
<1>2. CASE LookEnds
  BY <1>2, LookEndsSafe
<1>3. CASE (LookStarts \/ LookSkipped \/ ReadJournals) /\ UNCHANGED reports
  <2>1. DetectorSafe'
    BY <1>3, DetectorStep DEF LiveSafe, DetectorNext, Look
  <2>2. UNCHANGED <<noticed, baseline>>
    BY <1>3 DEF LookStarts, LookSkipped, ReadJournals
  <2> QED
    BY <1>3, <2>1, <2>2, QuietStep DEF LiveSafe
<1>4. CASE \E k \in Requests : XeroAnswers(k) \/ FetchEnds(k) \/ FetchFails(k)
  BY <1>4, AnswerSafe, EndSafe, FailSafe
<1>5. CASE \E r \in Reports : Age(r)
  BY <1>5, AgeSafe
<1>6. CASE Open \/ Refresh \/ PollVersion \/ AdoptVersion
  BY <1>6, PageSteps
<1>7. CASE Restart
  BY <1>7, RestartSafe
<1>8. CASE Disconnect
  BY <1>8, DisconnectSafe
<1>9. CASE Connect
  <2>1. DetectorSafe' /\ UNCHANGED <<noticed, baseline>>
    BY <1>9, DetectorStep DEF LiveSafe, Connect, DetectorNext, Connects, detector
  <2> QED
    BY <1>9, <2>1, QuietStep DEF LiveSafe, Connect
<1>10. CASE UNCHANGED vars
  <2>1. UNCHANGED detectorVars /\ UNCHANGED reports
    BY <1>10 DEF vars
  <2>2. DetectorSafe' /\ UNCHANGED <<noticed, baseline>>
    BY <2>1, DetectorSame DEF LiveSafe, detectorVars, detector
  <2> QED
    BY <2>1, <2>2, QuietStep DEF LiveSafe
<1> QED
  BY <1>1, <1>2, <1>3, <1>4, <1>5, <1>6, <1>7, <1>8, <1>9, <1>10 DEF Next, Detecting

LEMMA LiveAlways == Spec => []LiveSafe
<1>1. Init => LiveSafe
  BY LiveInit
<1>2. LiveSafe /\ [Next]_vars => LiveSafe'
  BY LiveStep
<1> QED
  BY <1>1, <1>2, PTL DEF Spec

\* Every variable of the reports keeps its type, next to those of the detector.
THEOREM ReportTypesHold == Spec => []TypeOK
<1>1. LiveSafe => TypeOK
  BY NothingTypes DEF LiveSafe, DetectorSafe, ReportTypes, TypeOK, Shown
<1> QED
  BY <1>1, LiveAlways, PTL

\* Nothing in the cache is older than a change announced, but what was being
\* read while the cache was cleared: for any reports and any number of requests,
\* plain and forced, that end in any order.
THEOREM CacheIsNoOlder == Spec => []CacheFollowsNotice
<1>1. LiveSafe => CacheFollowsNotice
  BY DEF LiveSafe
<1> QED
  BY <1>1, LiveAlways, PTL

\* The cursor leaves nothing behind when the reports are there too.
THEOREM LiveCursorLeavesNothing == Spec => []NothingPassedOver
<1>1. LiveSafe => NothingPassedOver
  BY DEF LiveSafe, DetectorSafe
<1> QED
  BY <1>1, LiveAlways, PTL

=============================================================================
