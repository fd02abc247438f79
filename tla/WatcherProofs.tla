---------------------------- MODULE WatcherProofs ----------------------------
(***************************************************************************)
(* The safety of a watcher, for any mailboxes, any number of retries and   *)
(* any number of searches and fetches that outlive their connection.       *)
(***************************************************************************)
EXTENDS Watcher, TLAPS

\* A retry is only ever counted while there is one left, and a watcher that is
\* connected or about to be was started.
Started ==
  /\ attempt \in Nat
  /\ imap # "none" \/ retry => attempt <= MaxTries /\ reason = "none"
  /\ ~Serving => imap = "none" /\ ~retry /\ ~poll /\ ~debounce /\ ~lateOpen

\* What holds in every state, each part relying on the ones before.
Safe == TypeOK /\ Started /\ TimersBelong /\ NeverSilentlyOff /\ StopIsFinal /\ DisabledNotWatched

-----------------------------------------------------------------------------
(* Scans.                                                                  *)

\* NoFetch and NoScan are of their types.
LEMMA NoFetchType == NoFetch \in Fetch /\ NoFetch.on = "none" /\ NoScan \in Scan
<1>1. AnyBox \in Boxes
  BY BoxesAssumption DEF AnyBox
<1> QED
  BY <1>1 DEF NoFetch, Fetch, NoScan, Scan

\* A scan with room for one more search has its type.
LEMMA ScannedType ==
  ASSUME NEW s \in Scan, s.busy \/ Free(s) # {}, site \in Boxes
  PROVE  Scanned(s) \in Scan
<1>1. CASE s.busy
  BY <1>1 DEF Scanned, Scan
<1>2. CASE ~s.busy
  <2> DEFINE j == CHOOSE i \in Free(s) : \A k \in Free(s) : i <= k
             f == [on |-> "live", at |-> "search", box |-> site, left |-> {}]
  <2>1. f \in Fetch
    BY DEF Fetch
  <2>2. Scanned(s) = [s EXCEPT !.busy = TRUE, !.at = [s.at EXCEPT ![j] = f]]
    BY <1>2 DEF Scanned
  <2> HIDE DEF j, f
  <2>3. [s.at EXCEPT ![j] = f] \in [Slots -> Fetch]
    BY <2>1 DEF Scan
  <2> QED
    BY <2>2, <2>3 DEF Scan
<1> QED
  BY <1>1, <1>2

\* So does one that is over, and left room for the scan asked for meanwhile.
LEMMA OverType ==
  ASSUME NEW s \in Scan, s.again => Free(s) # {}, site \in Boxes
  PROVE  Over(s) \in Scan
<1> DEFINE t == [s EXCEPT !.busy = FALSE, !.again = FALSE]
<1>1. t \in Scan /\ t.at = s.at
  BY DEF Scan
<1>2. Free(t) = Free(s)
  BY <1>1 DEF Free
<1>3. s.again => Scanned(t) \in Scan
  BY <1>1, <1>2, ScannedType
<1> QED
  BY <1>1, <1>3 DEF Over

\* Replacing one fetch by another keeps the type, and a free slot is room.
LEMMA ReplacedType ==
  ASSUME NEW s \in Scan, NEW i \in Slots, NEW f \in Fetch
  PROVE  /\ [s EXCEPT !.at[i] = f] \in Scan
         /\ f.on = "none" => Free([s EXCEPT !.at[i] = f]) # {}
<1>1. [s EXCEPT !.at[i] = f] = [s EXCEPT !.at = [s.at EXCEPT ![i] = f]]
  OBVIOUS
<1>2. [s.at EXCEPT ![i] = f] \in [Slots -> Fetch]
  BY DEF Scan
<1>3. [s EXCEPT !.at[i] = f] \in Scan
  BY <1>1, <1>2 DEF Scan
<1>4. [s EXCEPT !.at[i] = f].at[i] = f
  BY <1>1 DEF Scan
<1> QED
  BY <1>3, <1>4 DEF Free

\* What a fetch becomes when its connection is let go or lost is a fetch.
LEMMA RemainsType ==
  ASSUME NEW f \in Fetch, NEW come \in SUBSET Mails
  PROVE  Remains(f, come) \in Fetch
  BY NoFetchType DEF Remains, Fetch

LEMMA LetGoType ==
  ASSUME NEW s \in Scan
  PROVE  LetGo(s) \in Scan /\ \A come \in SUBSET Mails : CutOff(s, come) \in Scan
<1>1. \A i \in Slots : s.at[i] \in Fetch
  BY DEF Scan
<1>2. LetGo(s) \in Scan
  BY SMTT(30), <1>1 DEF LetGo, Scan, Fetch
<1>3. ASSUME NEW come \in SUBSET Mails
      PROVE  CutOff(s, come) \in Scan
  <2>1. \A i \in Slots : Remains(s.at[i], come) \in Fetch
    BY <1>1, RemainsType
  <2> QED
    BY <1>1, <2>1 DEF CutOff, Scan
<1> QED
  BY <1>2, <1>3

\* A fetch less one of its mails.
LEMMA WithoutType ==
  ASSUME scan \in Scan, NEW i \in Slots, NEW m \in Mails
  PROVE  Without(i, m) \in Scan
<1>1. scan.at[i] \in Fetch
  BY DEF Scan
<1>2. Less(scan.at[i], m) \in Fetch
  BY <1>1, NoFetchType DEF Fetch, Less
<1> QED
  BY <1>2, ReplacedType DEF Without

-----------------------------------------------------------------------------
LEMMA SafeInit == Init => Safe
<1> SUFFICES ASSUME Init PROVE Safe
  OBVIOUS
<1>1. AnyBox \in Boxes
  BY BoxesAssumption DEF AnyBox
<1>2. TypeOK
  <2>1. scan \in Scan /\ site \in Boxes
    BY <1>1, NoFetchType DEF Init
  <2>2. attempt \in 0..(MaxTries + 1) /\ faults \in 0..MaxFaults
    BY TriesAssumption, BoundsAssumption DEF Init
  <2>3. mail \in [Mails -> {"away", "new", "seen"}] /\ queued \subseteq Mails
    BY DEF Init
  <2> QED
    BY <2>1, <2>2, <2>3 DEF Init, TypeOK
<1>3. Started /\ TimersBelong /\ NeverSilentlyOff /\ StopIsFinal /\ DisabledNotWatched
  BY TriesAssumption DEF Init, Started, Serving, TimersBelong, NeverSilentlyOff, StopIsFinal, DisabledNotWatched, Off
<1> QED
  BY <1>2, <1>3 DEF Safe

\* A step of the searches and fetches alone: the watcher stays as it is.
Quietly == UNCHANGED <<person, process, reason, imap, site, timers, attempt, lateOpen>>

LEMMA QuietStep ==
  ASSUME Safe, Quietly, scan' \in Scan, mail' \in [Mails -> {"away", "new", "seen"}],
         queued' \subseteq Mails, faults' \in 0..MaxFaults
  PROVE  Safe'
<1>1. TypeOK'
  BY DEF Safe, TypeOK, Quietly, person, timers, Scan
<1>2. Started' /\ TimersBelong' /\ NeverSilentlyOff' /\ StopIsFinal' /\ DisabledNotWatched'
  BY DEF Safe, Quietly, person, timers, Started, Serving, TimersBelong, NeverSilentlyOff, StopIsFinal, DisabledNotWatched, Off
<1> QED
  BY <1>1, <1>2 DEF Safe

\* A fault is one more, within the bound.
LEMMA FaultType == ASSUME TypeOK, Fault PROVE faults' \in 0..MaxFaults
  BY BoundsAssumption DEF TypeOK, Fault

\* The process ends: nothing is left of the watcher.
LEMMA EndsStep ==
  ASSUME Safe, NEW how \in {"down", "crashed"}, Ends(how), UNCHANGED <<person, post>>,
         faults' \in 0..MaxFaults
  PROVE  Safe'
<1>1. AnyBox \in Boxes
  BY BoxesAssumption DEF AnyBox
<1>2. TypeOK'
  <2>1. poll' \in BOOLEAN /\ debounce' \in BOOLEAN /\ retry' \in BOOLEAN /\ lateOpen' \in BOOLEAN
    BY DEF Ends
  <2> QED
    BY <2>1, <1>1, NoFetchType, TriesAssumption DEF Safe, TypeOK, Ends, person, post
<1>3. Started' /\ TimersBelong' /\ NeverSilentlyOff' /\ StopIsFinal' /\ DisabledNotWatched'
  BY DEF Ends, Started, Serving, TimersBelong, NeverSilentlyOff, StopIsFinal, DisabledNotWatched, Off
<1> QED
  BY <1>2, <1>3 DEF Safe

\* Every action of a search or fetch is quiet, but for the crash.
LEMMA FetchStep ==
  ASSUME Safe, NEW i \in Slots,
         \/ SearchAnswers(i) \/ SearchFails(i) \/ StaleCut(i) \/ Takes(i) \/ FetchEnds(i)
         \/ FetchFails(i) \/ \E m \in Mails : MailLost(i, m)
  PROVE  Safe'
<1>0. scan \in Scan /\ site \in Boxes /\ mail \in [Mails -> {"away", "new", "seen"}]
      /\ queued \subseteq Mails /\ faults \in 0..MaxFaults /\ TypeOK
  BY DEF Safe, TypeOK, Scan
<1>1. scan.at[i] \in Fetch
  BY <1>0 DEF Scan
<1>2. [scan EXCEPT !.at[i] = NoFetch] \in Scan /\ Free([scan EXCEPT !.at[i] = NoFetch]) # {}
  BY <1>0, NoFetchType, ReplacedType
<1>3. Over([scan EXCEPT !.at[i] = NoFetch]) \in Scan
  BY <1>0, <1>2, OverType
<1>4. CASE SearchAnswers(i)
  <2> DEFINE found == Unseen(scan.at[i].box)
             f == [on |-> "live", at |-> "fetch", box |-> site, left |-> Numbered(found, site)]
  <2>1. CASE found = {}
    <3>1. scan' = Over([scan EXCEPT !.at[i] = NoFetch]) /\ Quietly /\ UNCHANGED <<post, faults>>
      BY <1>4, <2>1 DEF SearchAnswers, Quietly
    <3> QED
      BY <1>0, <1>3, <3>1, QuietStep DEF post
  <2>2. CASE found # {} /\ imap = "open"
    <3>1. f \in Fetch
      BY <1>0 DEF Fetch, Numbered
    <3>2. scan' = [scan EXCEPT !.at[i] = f] /\ Quietly /\ UNCHANGED <<post, faults>>
      BY <1>4, <2>2 DEF SearchAnswers, Quietly
    <3> HIDE DEF f
    <3>3. scan' \in Scan
      BY <1>0, <3>1, <3>2, ReplacedType
    <3> QED
      BY <1>0, <3>2, <3>3, QuietStep DEF post
  <2>3. CASE found # {} /\ imap # "open"
    <3>1. Ends("crashed") /\ UNCHANGED <<person, post, faults>>
      BY <1>4, <2>3 DEF SearchAnswers
    <3>2. faults' \in 0..MaxFaults
      BY <1>0, <3>1
    <3> QED
      BY <3>1, <3>2, EndsStep
  <2> QED
    BY <2>1, <2>2, <2>3
<1>5. CASE SearchFails(i)
  <2>1. scan' = Over([scan EXCEPT !.at[i] = NoFetch]) /\ Quietly /\ UNCHANGED post /\ faults' \in 0..MaxFaults
    BY <1>5, <1>0, FaultType DEF SearchFails, Quietly
  <2> QED
    BY <1>0, <1>3, <2>1, QuietStep DEF post
<1>6. CASE StaleCut(i)
  <2>1. PICK come \in SUBSET Mails : scan' = [scan EXCEPT !.at[i] = Remains(@, come)]
    BY <1>6 DEF StaleCut
  <2>2. scan' \in Scan
    BY <1>0, <1>1, <2>1, RemainsType, ReplacedType
  <2>3. Quietly /\ UNCHANGED post /\ faults' \in 0..MaxFaults
    BY <1>6, <1>0, FaultType DEF StaleCut, Quietly
  <2> QED
    BY <1>0, <2>2, <2>3, QuietStep DEF post
<1>7. CASE Takes(i)
  <2>1. PICK m \in Mails : MailTaken(i, m)
    BY <1>7 DEF Takes
  <2>2. scan' \in Scan
    BY <1>0, <2>1, WithoutType DEF MailTaken
  <2>3. Flagged(m) \in [Mails -> {"away", "new", "seen"}]
    BY <1>0 DEF Flagged
  <2>4. mail' \in [Mails -> {"away", "new", "seen"}] /\ queued' \subseteq Mails
        /\ faults' \in 0..MaxFaults /\ Quietly
    BY <1>0, <2>1, <2>3, FaultType DEF MailTaken, Quietly
  <2> QED
    BY <2>2, <2>4, QuietStep
<1>8. CASE FetchEnds(i)
  <2>1. scan' = Over([scan EXCEPT !.at[i] = NoFetch]) /\ Quietly /\ UNCHANGED <<post, faults>>
    BY <1>8 DEF FetchEnds, Quietly
  <2> QED
    BY <1>0, <1>3, <2>1, QuietStep DEF post
<1>9. CASE FetchFails(i)
  <2>1. PICK come \in SUBSET Mails :
          LET s == [scan EXCEPT !.at[i] = Remains(@, come)]
          IN (s.again => Free(s) # {}) /\ scan' = Over(s)
    BY <1>9 DEF FetchFails
  <2>2. [scan EXCEPT !.at[i] = Remains(@, come)] \in Scan
    BY <1>0, <1>1, RemainsType, ReplacedType
  <2>3. scan' \in Scan
    BY <1>0, <2>1, <2>2, OverType
  <2>4. Quietly /\ UNCHANGED post /\ faults' \in 0..MaxFaults
    BY <1>9, <1>0, FaultType DEF FetchFails, Quietly
  <2> QED
    BY <1>0, <2>3, <2>4, QuietStep DEF post
<1>10. ASSUME NEW m \in Mails, MailLost(i, m)
       PROVE  Safe'
  <2>1. scan' \in Scan
    BY <1>0, <1>10, WithoutType DEF MailLost
  <2>2. Quietly /\ UNCHANGED post /\ faults' \in 0..MaxFaults
    BY <1>10, <1>0, FaultType DEF MailLost, Untaken, Quietly, post
  <2> QED
    BY <1>0, <2>1, <2>2, QuietStep DEF post
<1> QED
  BY <1>4, <1>5, <1>6, <1>7, <1>8, <1>9, <1>10

-----------------------------------------------------------------------------
(* Connections, starts and stops.                                          *)

\* A connection lost, or not opened.
LEMMA ReconnectsStep ==
  ASSUME Safe, imap # "none", Reconnects, scan' \in Scan, faults' \in 0..MaxFaults,
         UNCHANGED <<person, process, site, debounce, lateOpen, post>>
  PROVE  Safe'
<1>1. attempt \in Nat /\ attempt <= MaxTries /\ reason = "none" /\ Serving /\ ~retry
  BY DEF Safe, Started, TimersBelong
<1>2. attempt' = attempt + 1
  BY DEF Reconnects, Counted
<1>3. TypeOK'
  <2>1. poll' \in BOOLEAN /\ retry' \in BOOLEAN
    BY <1>1 DEF Safe, TypeOK, Reconnects
  <2> QED
    BY <2>1, <1>1, <1>2, TriesAssumption DEF Safe, TypeOK, Reconnects, GaveUp, person, post
<1>4. \/ attempt' > MaxTries /\ reason' = "retries" /\ retry' = FALSE
      \/ ~(attempt' > MaxTries) /\ reason' = reason /\ retry' = TRUE
  BY <1>1 DEF Safe, TypeOK, Reconnects, GaveUp
<1>5. Started'
  BY <1>1, <1>2, <1>4, TriesAssumption DEF Reconnects, Started, Serving
<1>6. TimersBelong' /\ NeverSilentlyOff'
  BY <1>1, <1>4 DEF Reconnects, TimersBelong, NeverSilentlyOff, Off
<1>7. StopIsFinal' /\ DisabledNotWatched'
  BY <1>1, <1>4 DEF Safe, StopIsFinal, DisabledNotWatched, Off, person
<1> QED
  BY <1>3, <1>5, <1>6, <1>7 DEF Safe

\* A stop, for any reason.
LEMMA StopsStep ==
  ASSUME Safe, NEW r \in {"manual", "idle", "auth"}, StopsFor(r), Serving \/ imap # "none",
         enabled' \in BOOLEAN, wanted' \in BOOLEAN, owner' \in {"here", "away", "disabled"},
         UNCHANGED <<process, post>>, faults' \in 0..MaxFaults
  PROVE  Safe'
<1>1. scan' \in Scan
  BY LetGoType DEF Safe, TypeOK, StopsFor, Scan
<1>2. TypeOK'
  <2>1. poll' \in BOOLEAN /\ debounce' \in BOOLEAN /\ retry' \in BOOLEAN /\ lateOpen' \in BOOLEAN
    BY DEF Safe, TypeOK, StopsFor, TimersOff
  <2> QED
    BY <2>1, <1>1, TriesAssumption DEF Safe, TypeOK, StopsFor, TimersOff, post
<1>3. Serving'
  BY DEF Safe, Started, Serving
<1>4. Started'
  BY <1>3, TriesAssumption DEF StopsFor, TimersOff, Started
<1>5. TimersBelong' /\ NeverSilentlyOff' /\ StopIsFinal' /\ DisabledNotWatched'
  BY DEF StopsFor, TimersOff, TimersBelong, NeverSilentlyOff, StopIsFinal, DisabledNotWatched, Off
<1> QED
  BY <1>2, <1>4, <1>5 DEF Safe

\* A start, by a person or at boot.
LEMMA StartsStep ==
  ASSUME Safe, NEW b \in Boxes, StartsWith(b), owner' = "here", process' \in {"up", "resuming"},
         enabled' \in BOOLEAN, wanted' \in BOOLEAN, wanted' \/ enabled',
         UNCHANGED post, faults' \in 0..MaxFaults
  PROVE  Safe'
<1>1. scan' \in Scan
  BY DEF Safe, TypeOK, StartsWith, Connect, Fresh, Scan
<1>2. TypeOK'
  <2>1. poll' \in BOOLEAN /\ debounce' \in BOOLEAN /\ retry' \in BOOLEAN
    BY DEF StartsWith
  <2> QED
    BY <2>1, <1>1, TriesAssumption DEF Safe, TypeOK, StartsWith, Connect, post
<1>3. Started' /\ TimersBelong' /\ NeverSilentlyOff' /\ StopIsFinal' /\ DisabledNotWatched'
  BY TriesAssumption DEF StartsWith, Connect, Started, Serving, TimersBelong, NeverSilentlyOff, StopIsFinal, DisabledNotWatched, Off
<1> QED
  BY <1>2, <1>3 DEF Safe

\* A setting that is saved, or not, is a setting.
LEMMA SavesType ==
  ASSUME TypeOK, NEW on \in BOOLEAN, Saves(on)
  PROVE  enabled' \in BOOLEAN /\ faults' \in 0..MaxFaults
  BY FaultType DEF Saves, TypeOK

\* What all parts of Safe are about.
LEMMA SafeSame ==
  ASSUME Safe, UNCHANGED vars
  PROVE  Safe'
  BY DEF Safe, vars, person, watch, post, TypeOK, Started, Serving, TimersBelong, NeverSilentlyOff,
         StopIsFinal, DisabledNotWatched, Off

LEMMA SafeStep == Safe /\ [Next]_vars => Safe'
<1> SUFFICES ASSUME Safe, [Next]_vars PROVE Safe'
  OBVIOUS
<1>0. TypeOK /\ scan \in Scan /\ site \in Boxes /\ faults \in 0..MaxFaults
      /\ mail \in [Mails -> {"away", "new", "seen"}] /\ queued \subseteq Mails
  BY DEF Safe, TypeOK, Scan
<1>1. CASE Start
  <2>1. wanted' = TRUE /\ owner = "here" /\ UNCHANGED <<owner, process, post>> /\ Serving
    BY <1>1 DEF Start
  <2>2. enabled' \in BOOLEAN /\ faults' \in 0..MaxFaults
    BY <1>0, <1>1, SavesType DEF Start
  <2>3. CASE imap # "none"
    <3>1. UNCHANGED watch
      BY <1>1, <2>3 DEF Start
    <3>2. TypeOK'
      BY <2>1, <2>2, <3>1 DEF Safe, TypeOK, watch, post
    <3>3. Started' /\ TimersBelong' /\ NeverSilentlyOff' /\ StopIsFinal' /\ DisabledNotWatched'
      BY <2>1, <3>1 DEF Safe, watch, Started, Serving, TimersBelong, NeverSilentlyOff, StopIsFinal, DisabledNotWatched, Off
    <3> QED
      BY <3>2, <3>3 DEF Safe
  <2>4. CASE imap = "none"
    <3>1. PICK b \in Boxes : StartsWith(b)
      BY <1>1, <2>4 DEF Start
    <3> QED
      BY <2>1, <2>2, <3>1, StartsStep DEF Serving
  <2> QED
    BY <2>3, <2>4
<1>2. CASE Stop
  <2>1. StopsFor("manual") /\ Serving /\ wanted' = FALSE /\ UNCHANGED <<owner, process, post>>
    BY <1>2 DEF Stop
  <2>2. enabled' \in BOOLEAN /\ faults' \in 0..MaxFaults
    BY <1>0, <1>2, SavesType DEF Stop
  <2>3. owner' \in {"here", "away", "disabled"}
    BY <2>1 DEF Safe, TypeOK
  <2> QED
    BY <2>1, <2>2, <2>3, StopsStep
<1>3. CASE Disable
  <2>1. StopsFor("manual") /\ Serving /\ wanted' = FALSE /\ owner' = "disabled" /\ UNCHANGED <<process, post>>
    BY <1>3 DEF Disable
  <2>2. enabled' \in BOOLEAN /\ faults' \in 0..MaxFaults
    BY <1>0, <1>3, SavesType DEF Disable
  <2> QED
    BY <2>1, <2>2, StopsStep
<1>4. CASE OwnerMoves
  <2>1. TypeOK'
    BY <1>4 DEF Safe, TypeOK, OwnerMoves, watch, post
  <2>2. Started' /\ TimersBelong' /\ NeverSilentlyOff' /\ StopIsFinal' /\ DisabledNotWatched'
    BY <1>4 DEF Safe, OwnerMoves, watch, Started, Serving, TimersBelong, NeverSilentlyOff, StopIsFinal, DisabledNotWatched, Off
  <2> QED
    BY <2>1, <2>2 DEF Safe
<1>5. CASE IdleSweep
  <2>1. StopsFor("idle") /\ imap # "none" /\ UNCHANGED <<person, process, post, faults>>
    BY <1>5 DEF IdleSweep
  <2> QED
    BY <1>0, <2>1, StopsStep DEF TypeOK, person
<1>6. CASE Boot
  <2>1. TypeOK'
    BY <1>6 DEF Safe, TypeOK, Boot, watch, post, person
  <2>2. Started' /\ TimersBelong' /\ NeverSilentlyOff' /\ StopIsFinal' /\ DisabledNotWatched'
    BY <1>6 DEF Safe, Boot, watch, person, Started, Serving, TimersBelong, NeverSilentlyOff, StopIsFinal, DisabledNotWatched, Off
  <2> QED
    BY <2>1, <2>2 DEF Safe
<1>7. CASE Resume
  <2>1. process' = "up" /\ UNCHANGED <<person, post, faults>> /\ Serving
    BY <1>7 DEF Resume, Serving
  <2>2. CASE Blocked
    <3>1. UNCHANGED watch
      BY <1>7, <2>2 DEF Resume
    <3>2. TypeOK'
      BY <2>1, <3>1 DEF Safe, TypeOK, watch, post, person
    <3>3. Started' /\ TimersBelong' /\ NeverSilentlyOff' /\ StopIsFinal' /\ DisabledNotWatched'
      BY <2>1, <3>1 DEF Safe, watch, person, Started, Serving, TimersBelong, NeverSilentlyOff, StopIsFinal, DisabledNotWatched, Off
    <3> QED
      BY <3>2, <3>3 DEF Safe
  <2>3. CASE ~Blocked
    <3>1. PICK b \in Boxes : StartsWith(b)
      BY <1>7, <2>3 DEF Resume
    <3>2. owner' = "here" /\ enabled' /\ enabled' \in BOOLEAN /\ wanted' \in BOOLEAN /\ faults' \in 0..MaxFaults
      BY <1>0, <2>1, <2>3 DEF Blocked, person, TypeOK
    <3> QED
      BY <2>1, <3>1, <3>2, StartsStep
  <2> QED
    BY <2>2, <2>3
<1>8. CASE ProcessEnds
  <2>1. Ends("down") /\ UNCHANGED <<person, post>> /\ faults' \in 0..MaxFaults
    BY <1>0, <1>8, FaultType DEF ProcessEnds
  <2> QED
    BY <2>1, EndsStep
<1>9. CASE Ready
  <2>1. TypeOK'
    BY <1>9, TriesAssumption DEF Safe, TypeOK, Ready, person, timers, post
  <2>2. Started' /\ TimersBelong' /\ NeverSilentlyOff' /\ StopIsFinal' /\ DisabledNotWatched'
    BY <1>9, TriesAssumption DEF Safe, Ready, person, timers, Started, Serving, TimersBelong, NeverSilentlyOff, StopIsFinal, DisabledNotWatched, Off
  <2> QED
    BY <2>1, <2>2 DEF Safe
<1>10. CASE Refused
  <2>1. StopsFor("auth") /\ imap # "none" /\ UNCHANGED <<person, process, post, faults>>
    BY <1>10 DEF Refused
  <2> QED
    BY <1>0, <2>1, StopsStep DEF TypeOK, person
<1>11. CASE Opens
  <2>1. scan' \in Scan
    BY <1>0, <1>11, ScannedType DEF Opens, CanScan
  <2>2. TypeOK'
    BY <1>11, <2>1 DEF Safe, TypeOK, Opens, person, post
  <2>3. Started' /\ TimersBelong' /\ NeverSilentlyOff' /\ StopIsFinal' /\ DisabledNotWatched'
    BY <1>11 DEF Safe, Opens, person, Started, Serving, TimersBelong, NeverSilentlyOff, StopIsFinal, DisabledNotWatched, Off
  <2> QED
    BY <2>2, <2>3 DEF Safe
<1>12. CASE OpensLate
  <2>1. poll' = poll
    BY <1>0, <1>12 DEF OpensLate, Superseded, TypeOK
  <2>2. TypeOK'
    <3>1. lateOpen' \in BOOLEAN
      BY <1>12 DEF OpensLate
    <3> QED
      BY <3>1, <1>12, <2>1 DEF Safe, TypeOK, OpensLate, person, post
  <2>3. Started' /\ TimersBelong' /\ NeverSilentlyOff' /\ StopIsFinal' /\ DisabledNotWatched'
    BY <1>12, <2>1 DEF Safe, OpensLate, person, Started, Serving, TimersBelong, NeverSilentlyOff, StopIsFinal, DisabledNotWatched, Off
  <2> QED
    BY <2>2, <2>3 DEF Safe
<1>13. CASE Drops
  <2>1. scan' \in Scan
    BY <1>0, <1>13, LetGoType DEF Drops
  <2>2. faults' \in 0..MaxFaults
    BY <1>0, <1>13, FaultType DEF Drops
  <2> QED
    BY <1>13, <2>1, <2>2, ReconnectsStep DEF Drops
<1>14. CASE OpenFails
  <2>1. scan' \in Scan /\ faults' \in 0..MaxFaults
    BY <1>0, <1>14, FaultType DEF OpenFails
  <2> QED
    BY <1>14, <2>1, ReconnectsStep DEF OpenFails
<1>15. CASE RetryFires
  <2>1. scan' \in Scan
    BY <1>0, <1>15 DEF RetryFires, Connect, Fresh, Scan
  <2>2. TypeOK'
    BY ZenonT(30), <1>15, <2>1 DEF Safe, TypeOK, RetryFires, Connect, person, post
  <2>3. Started' /\ TimersBelong' /\ NeverSilentlyOff' /\ StopIsFinal' /\ DisabledNotWatched'
    BY <1>15 DEF Safe, RetryFires, Connect, person, Started, Serving, TimersBelong, NeverSilentlyOff, StopIsFinal, DisabledNotWatched, Off
  <2> QED
    BY <2>2, <2>3 DEF Safe
<1>16. CASE Rescan
  <2>1. scan' \in Scan /\ Quietly /\ UNCHANGED <<post, faults>>
    BY <1>0, <1>16, ScannedType DEF Rescan, CanScan, Quietly
  <2> QED
    BY <1>0, <2>1, QuietStep DEF post
<1>17. CASE Polls
  <2>1. scan' \in Scan /\ Quietly /\ UNCHANGED <<post, faults>>
    BY <1>0, <1>17, ScannedType DEF Polls, TimerScans, CanScan, Quietly
  <2> QED
    BY <1>0, <2>1, QuietStep DEF post
<1>18. CASE Debounced
  <2>1. scan' \in Scan
    BY <1>0, <1>18, ScannedType DEF Debounced, TimerScans, CanScan
  <2>2. TypeOK'
    <3>1. debounce' \in BOOLEAN
      BY <1>18 DEF Debounced
    <3> QED
      BY <1>18, <2>1, <3>1 DEF Safe, TypeOK, Debounced, person, post
  <2>3. Started' /\ TimersBelong' /\ NeverSilentlyOff' /\ StopIsFinal' /\ DisabledNotWatched'
    BY <1>18 DEF Safe, Debounced, person, Started, Serving, TimersBelong, NeverSilentlyOff, StopIsFinal, DisabledNotWatched, Off
  <2> QED
    BY <2>2, <2>3 DEF Safe
<1>19. ASSUME NEW i \in Slots,
         \/ SearchAnswers(i) \/ SearchFails(i) \/ StaleCut(i) \/ Takes(i) \/ FetchEnds(i)
         \/ FetchFails(i) \/ \E m \in Mails : MailLost(i, m)
       PROVE  Safe'
  BY <1>19, FetchStep
<1>20. ASSUME NEW m \in Mails, Arrives(m)
       PROVE  Safe'
  <2>1. scan' \in Scan /\ Quietly /\ UNCHANGED <<queued, faults>>
    BY <1>0, <1>20, ScannedType DEF Arrives, CanScan, Quietly
  <2>2. mail' \in [Mails -> {"away", "new", "seen"}]
    BY <1>0, <1>20 DEF Arrives
  <2> QED
    BY <1>0, <2>1, <2>2, QuietStep
<1>21. ASSUME NEW m \in Mails, MarkedUnread(m)
       PROVE  Safe'
  <2>1. TypeOK'
    BY <1>21 DEF Safe, TypeOK, MarkedUnread, person
  <2>2. debounce' => debounce \/ imap # "none"
    BY <1>0, <1>21 DEF MarkedUnread, TypeOK
  <2>3. Started' /\ TimersBelong' /\ NeverSilentlyOff' /\ StopIsFinal' /\ DisabledNotWatched'
    BY <1>21, <2>2 DEF Safe, MarkedUnread, person, Started, Serving, TimersBelong, NeverSilentlyOff, StopIsFinal, DisabledNotWatched, Off
  <2> QED
    BY <2>1, <2>3 DEF Safe
<1>22. CASE UNCHANGED vars
  BY <1>22, SafeSame
<1> QED
  BY <1>1, <1>2, <1>3, <1>4, <1>5, <1>6, <1>7, <1>8, <1>9, <1>10, <1>11, <1>12, <1>13, <1>14, <1>15,
     <1>16, <1>17, <1>18, <1>19, <1>20, <1>21, <1>22 DEF Next, Handshake

LEMMA SafeAlways == Spec => []Safe
  BY SafeInit, SafeStep, PTL DEF Spec

\* The state of a watcher is of its types; above all, one drop of a connection
\* counts as one try, so that a retry never goes past RECONNECT_MAX_TRIES.
THEOREM TypesHold == Spec => []TypeOK
<1>1. Safe => TypeOK
  BY DEF Safe
<1> QED
  BY <1>1, SafeAlways, PTL

\* Every timer that runs belongs to the connection, or the lack of one, that
\* there is: no poll is left by an openBox answered late, and no retry runs
\* beside a connection.
THEOREM TimersAreTheWatchers == Spec => []TimersBelong
<1>1. Safe => TimersBelong
  BY DEF Safe
<1> QED
  BY <1>1, SafeAlways, PTL

\* A watcher that was started and is neither connected nor about to be says why.
THEOREM OffHasAReason == Spec => []NeverSilentlyOff
<1>1. Safe => NeverSilentlyOff
  BY DEF Safe
<1> QED
  BY <1>1, SafeAlways, PTL

\* After a stop, nothing but a start brings the watcher back: no retry, no
\* answer that comes late, no resume at boot; and the mailbox of a disabled
\* account is not watched, whatever was under way when it was disabled.
THEOREM OffStays == Spec => []StaysOff
<1>1. Safe => StaysOff
  BY DEF Safe, StaysOff
<1> QED
  BY <1>1, SafeAlways, PTL

-----------------------------------------------------------------------------
(* What is marked as seen was queued, as long as there is one mailbox.     *)

OneMailbox == \A a, b \in Boxes : a = b

LEMMA SeenStep ==
  ASSUME OneMailbox, Safe, SeenIsQueued, [Next]_vars
  PROVE  SeenIsQueued'
<1>0. site \in Boxes /\ mail \in [Mails -> {"away", "new", "seen"}]
  BY DEF Safe, TypeOK
<1>1. CASE UNCHANGED post
  BY <1>1 DEF SeenIsQueued, post
<1>2. ASSUME NEW i \in Slots, NEW m \in Mails, MailTaken(i, m)
      PROVE  SeenIsQueued'
  <2>1. [box |-> site, uid |-> m.uid] = m
    BY <1>0 DEF OneMailbox, Mails
  <2>2. \A n \in Mails : mail'[n] = "seen" => mail[n] = "seen" \/ n = m
    BY <1>0, <1>2, <2>1 DEF MailTaken, Flagged
  <2> QED
    BY <1>2, <2>2 DEF MailTaken, SeenIsQueued
<1>3. ASSUME NEW i \in Slots, NEW m \in Mails, MailLost(i, m)
      PROVE  SeenIsQueued'
  BY <1>3 DEF MailLost, Untaken, SeenIsQueued
<1>4. ASSUME NEW m \in Mails, Arrives(m)
      PROVE  SeenIsQueued'
  BY <1>0, <1>4 DEF Arrives, SeenIsQueued
<1>5. ASSUME NEW m \in Mails, MarkedUnread(m)
      PROVE  SeenIsQueued'
  BY <1>0, <1>5 DEF MarkedUnread, SeenIsQueued
<1>6. ASSUME NEW i \in Slots,
             SearchAnswers(i) \/ SearchFails(i) \/ StaleCut(i) \/ FetchEnds(i) \/ FetchFails(i)
      PROVE  UNCHANGED post
  BY <1>6 DEF SearchAnswers, SearchFails, StaleCut, FetchEnds, FetchFails
<1>7. Start \/ Stop \/ Disable \/ OwnerMoves \/ IdleSweep \/ Boot \/ Resume \/ ProcessEnds => UNCHANGED post
  BY DEF Start, Stop, Disable, OwnerMoves, IdleSweep, Boot, Resume, ProcessEnds
<1>8. Handshake \/ Opens \/ OpensLate \/ Drops \/ OpenFails \/ RetryFires \/ Rescan \/ Polls \/ Debounced => UNCHANGED post
  BY DEF Handshake, Ready, Refused, Opens, OpensLate, Drops, OpenFails, RetryFires, Rescan, Polls, Debounced
<1>9. UNCHANGED vars => UNCHANGED post
  BY DEF vars
<1> QED
  BY <1>1, <1>2, <1>3, <1>4, <1>5, <1>6, <1>7, <1>8, <1>9 DEF Next, Takes

\* With one mailbox, a mail is marked as seen only once it is queued.
THEOREM SeenWasQueued == OneMailbox /\ Spec => []SeenIsQueued
<1> SUFFICES ASSUME OneMailbox PROVE Spec => []SeenIsQueued
  OBVIOUS
<1>1. Init => SeenIsQueued
  BY DEF Init, SeenIsQueued
<1>2. Safe /\ SeenIsQueued /\ [Next]_vars => SeenIsQueued'
  BY SeenStep
<1> QED
  BY <1>1, <1>2, SafeAlways, PTL DEF Spec
=============================================================================
