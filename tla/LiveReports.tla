----------------------------- MODULE LiveReports -----------------------------
(***************************************************************************)
(* The reports of one company on the Dashboard, and how a change in Xero   *)
(* reaches them: ChangeDetector with the cache and the sharing of requests *)
(* in main/xero/report-cache.js, the report routes, and the page           *)
(* (ui/src/pages/XeroInsights.jsx).                                        *)
(*                                                                         *)
(* Figures are known by the position in the books they were read at.       *)
(***************************************************************************)
EXTENDS ChangeDetector

CONSTANTS Reports,      \* the reports on screen
          Summary,      \* the one whose refresh asks for the version again
          MaxRefreshes  \* bound on presses of Refresh

ASSUME SummaryAssumption == Summary \in Reports
ASSUME RefreshesAssumption == MaxRefreshes \in Nat

VARIABLES
  cache,      \* report-cache _cache: [Reports -> entry]
  fetches,    \* report-cache _inflight: [Reports \X BOOLEAN -> Fetch]; TRUE is forced
  asks,       \* page: what it waits for, by report
  shown,      \* page: the figures on screen, by report
  seen,       \* page: the stamp it last saw
  adopting,   \* page: the version is out, to be taken as known
  refreshing, \* page: a forced summary is out, after which the version is excused
  refreshes,
  excused     \* history: the changes noticed when the page took a stamp as known,
              \* or a request of it failed

page    == <<asks, shown, seen, adopting, refreshing>>
reports == <<cache, fetches, page, refreshes, excused>>
vars    == <<detectorVars, reports>>

\* undefined: no version was read yet. No stamp gets that far: each announces
\* a change no stamp announced before.
Unseen == MaxChanges + 1

\* Figures in the cache or on screen; late: read before a clear and kept after
\* it; held: whether the grace of a forced read is over.
NoFigures == [at |-> 0, late |-> FALSE, held |-> "no"]
Entry == [at : Times, late : BOOLEAN, held : {"new", "past grace"}]
Fetch == [pc : {"no", "asked", "read"}, at : Times, late : BOOLEAN]
NotShown == [at |-> 0, late |-> TRUE]
FiguresOf(e) == [at |-> e.at, late |-> e.late]
NoFetch == [pc |-> "no", at |-> 0, late |-> FALSE]
Empty == [r \in Reports |-> NoFigures]
Requests == Reports \X BOOLEAN

TypeOK ==
  /\ DetectorTypeOK
  /\ cache \in [Reports -> Entry \cup {NoFigures}]
  /\ fetches \in [Requests -> Fetch]
  /\ asks \in [Reports -> {"no", "plain", "forced"}]
  /\ shown \in [Reports -> [at : Times, late : BOOLEAN] \cup {NotShown}]
  /\ seen \in Nat /\ adopting \in BOOLEAN /\ refreshing \in BOOLEAN
  /\ refreshes \in Nat
  /\ excused \subseteq noticed

Init ==
  /\ DetectorInit
  /\ cache = Empty /\ fetches = [k \in Requests |-> NoFetch]
  /\ asks = [r \in Reports |-> "no"] /\ shown = [r \in Reports |-> NotShown]
  /\ seen = Unseen /\ adopting = FALSE /\ refreshing = FALSE
  /\ refreshes = 0 /\ excused = {}

-----------------------------------------------------------------------------
(* The detector, and the cache it drops.                                   *)

\* Mutant of ClearedEntries: nothing goes.
KeptEntries == cache
\* clearTenant and clearCache: every entry goes. A request under way is not
\* touched, and what it has read is kept when it ends.
ClearedEntries == Empty
ClearedFetches == [k \in Requests |->
                     IF fetches[k].pc = "read" THEN [fetches[k] EXCEPT !.late = TRUE] ELSE fetches[k]]

\* The look ends: the cache is dropped, and the row written.
LookEnds ==
  /\ ReadBudgets
  /\ cache' = IF Changed THEN ClearedEntries ELSE cache
  /\ fetches' = IF Changed THEN ClearedFetches ELSE fetches
  /\ UNCHANGED <<page, refreshes, excused>>

-----------------------------------------------------------------------------
(* The routes, the sharing of requests and the cache: report-cache.js.     *)

\* A request under way is shared before the cache is looked at; a forced read
\* takes an entry only within its grace.
Hit(r, force) == /\ fetches[<<r, force>>] = NoFetch
                 /\ cache[r] # NoFigures
                 /\ force => cache[r].held = "new"

\* Mutant of Asked: a request of its own instead of the one under way.
AskedAgain(S, force) == [k \in Requests |->
  IF k[1] \in S /\ k[2] = force /\ ~Hit(k[1], force) THEN [NoFetch EXCEPT !.pc = "asked"] ELSE fetches[k]]
Asked(S, force) == [k \in Requests |->
  IF k[1] \in S /\ k[2] = force /\ fetches[k] = NoFetch /\ ~Hit(k[1], force)
  THEN [NoFetch EXCEPT !.pc = "asked"] ELSE fetches[k]]

\* The page asks for the reports of S: the newest request of each is the one
\* whose answer it takes.
Ask(S, force) ==
  /\ asks' = [r \in Reports |-> IF r \notin S THEN asks[r]
                                ELSE IF Hit(r, force) THEN "no" ELSE IF force THEN "forced" ELSE "plain"]
  /\ shown' = [r \in Reports |-> IF r \in S /\ Hit(r, force) THEN FiguresOf(cache[r]) ELSE shown[r]]
  /\ fetches' = Asked(S, force)

XeroAnswers(k) ==
  /\ fetches[k].pc = "asked"
  /\ fetches' = [fetches EXCEPT ![k].pc = "read", ![k].at = Len(books)]
  /\ UNCHANGED <<detectorVars, cache, page, refreshes, excused>>

WaitsOn(r, force) == asks[r] = IF force THEN "forced" ELSE "plain"

\* The forced summary has landed, well or not: the version is asked for.
Landed(k) == LET adopt == k = <<Summary, TRUE>> /\ refreshing
             IN /\ adopting' = (adopting \/ adopt)
                /\ refreshing' = (refreshing /\ ~adopt)

FetchEnds(k) ==
  LET entry == [at |-> fetches[k].at, late |-> fetches[k].late, held |-> "new"]
  IN /\ fetches[k].pc = "read"
     /\ cache' = [cache EXCEPT ![k[1]] = entry]
     /\ fetches' = [fetches EXCEPT ![k] = NoFetch]
     /\ shown' = IF WaitsOn(k[1], k[2]) THEN [shown EXCEPT ![k[1]] = FiguresOf(entry)] ELSE shown
     /\ asks' = IF WaitsOn(k[1], k[2]) THEN [asks EXCEPT ![k[1]] = "no"] ELSE asks
     /\ Landed(k)
     /\ UNCHANGED <<detectorVars, seen, refreshes, excused>>

FetchFails(k) ==
  /\ fetches[k] # NoFetch
  /\ Fault /\ UNCHANGED <<books, detector, connected, barred>>
  /\ fetches' = [fetches EXCEPT ![k] = NoFetch]
  /\ asks' = IF WaitsOn(k[1], k[2]) THEN [asks EXCEPT ![k[1]] = "no"] ELSE asks
  /\ Landed(k)
  /\ excused' = IF WaitsOn(k[1], k[2]) THEN noticed ELSE excused
  /\ UNCHANGED <<cache, shown, seen, refreshes>>

\* An entry grows older: past the grace of a forced read, then past its life.
Age(r) ==
  /\ cache[r] # NoFigures
  /\ cache' = [cache EXCEPT ![r] = IF @.held = "new" THEN [@ EXCEPT !.held = "past grace"] ELSE NoFigures]
  /\ UNCHANGED <<detectorVars, fetches, page, refreshes, excused>>

-----------------------------------------------------------------------------
(* The page.                                                               *)

\* Opened: every report is asked for.
Open ==
  /\ connected /\ seen = Unseen
  /\ \A r \in Reports : asks[r] = "no" /\ shown[r] = NotShown
  /\ Ask(Reports, FALSE)
  /\ UNCHANGED <<detectorVars, cache, seen, adopting, refreshing, refreshes, excused>>

Refresh ==
  /\ connected /\ shown[Summary] # NotShown
  /\ refreshes < MaxRefreshes
  /\ refreshes' = refreshes + 1
  /\ Ask(Reports, TRUE)
  /\ IF Hit(Summary, TRUE) THEN adopting' = TRUE /\ UNCHANGED refreshing
                           ELSE refreshing' = TRUE /\ UNCHANGED adopting
  /\ UNCHANGED <<detectorVars, cache, seen, excused>>

\* Mutant of Moved: a stamp after none is not a change.
MovedFromOne == seen \notin {Unseen, 0} /\ row.stamp > seen
Moved == seen # Unseen /\ row.stamp > seen

\* GET /version answers from the row: a stamp that moved has everything on
\* screen asked for again. It replaces one that is out.
PollVersion ==
  /\ connected /\ shown[Summary] # NotShown
  /\ seen' = row.stamp
  /\ adopting' = FALSE
  /\ IF Moved THEN Ask(Reports, FALSE) /\ UNCHANGED excused
     ELSE /\ excused' = IF seen = Unseen THEN noticed ELSE excused
          /\ UNCHANGED <<asks, shown, fetches>>
  /\ UNCHANGED <<detectorVars, cache, refreshing, refreshes>>

\* The version asked for after a Refresh is taken as known.
AdoptVersion ==
  /\ connected /\ adopting
  /\ seen' = row.stamp
  /\ adopting' = FALSE
  /\ excused' = noticed
  /\ UNCHANGED <<detectorVars, cache, fetches, asks, shown, refreshing, refreshes>>

-----------------------------------------------------------------------------
(* A restart, and a disconnect.                                            *)

\* What was only in memory is gone, and so are the requests that waited.
Restart ==
  /\ LookLost
  /\ cache' = Empty /\ fetches' = [k \in Requests |-> NoFetch]
  /\ asks' = [r \in Reports |-> "no"] /\ adopting' = FALSE /\ refreshing' = FALSE
  /\ excused' = IF \A r \in Reports : asks[r] = "no" THEN excused ELSE noticed
  /\ UNCHANGED <<shown, seen, refreshes>>

Disconnect ==
  /\ Disconnects
  /\ cache' = ClearedEntries /\ fetches' = ClearedFetches
  /\ UNCHANGED <<page, refreshes, excused>>

Connect == Connects /\ UNCHANGED reports

-----------------------------------------------------------------------------
Detecting == LookEnds \/ ((LookStarts \/ LookSkipped \/ ReadJournals) /\ UNCHANGED reports)

Next == \/ (LookFails \/ BarComesUp \/ BarGoes \/ \E kind \in Kinds : Post(kind)) /\ UNCHANGED reports
        \/ Detecting
        \/ \E k \in Requests : XeroAnswers(k) \/ FetchEnds(k) \/ FetchFails(k)
        \/ \E r \in Reports : Age(r)
        \/ Open \/ Refresh \/ PollVersion \/ AdoptVersion
        \/ Restart \/ Disconnect \/ Connect

Spec == Init /\ [][Next]_vars

\* The job ticks every minute; calls to Xero have time limits; a page in view
\* asks for the version every minute.
Fairness == /\ WF_vars(Detecting)
            /\ \A k \in Requests : WF_vars(XeroAnswers(k) \/ FetchEnds(k))
            /\ WF_vars(PollVersion)

FairSpec == Spec /\ Fairness

-----------------------------------------------------------------------------
(* Properties.                                                             *)

\* No entry of the cache is older than a change that was announced, but one
\* whose reading of Xero was under way at the announcement.
CacheFollowsNotice ==
  \A r \in Reports : cache[r] # NoFigures /\ ~cache[r].late =>
                       noticed \ baseline \subseteq 1..cache[r].at

\* Every change noticed reaches the screen without anyone pressing Refresh,
\* but where the figures were read across it, the page took its stamp as
\* already known, a request failed, or it was taken as the baseline.
EveryChangeShown ==
  \A i \in 1..MaxChanges : \A r \in Reports :
    shown[Summary] # NotShown /\ i \in noticed
      ~> shown[r].at >= i \/ shown[r].late \/ i \in excused \cup baseline \/ ~connected

\* After a change was announced a plain read is fresh (XeroInsights.jsx:307,
\* "after one a plain fetch of each is fresh"). The code does not keep it.
PlainReadIsFresh ==
  \A r \in Reports : cache[r] # NoFigures => noticed \ baseline \subseteq 1..cache[r].at

\* Nothing in the cache outlives the connection it came from
\* (report-cache.js:160). The code does not keep it.
NothingOutlivesConnection == ~connected => cache = Empty

\* What the first look finds is what the reports already show
\* (change-detector.js:219). The code does not keep it.
BaselineIsShown ==
  \A r \in Reports : cache[r] # NoFigures => baseline \subseteq 1..cache[r].at

\* The stamp adopted after a Refresh is of changes the page shows
\* (XeroInsights.jsx:310, "after a manual Refresh that has already brought
\* everything up to date"). The code does not keep it.
AdoptedIsShown ==
  [][AdoptVersion => \A r \in Reports : noticed \ baseline \subseteq 1..shown[r].at]_vars
=============================================================================
