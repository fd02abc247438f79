------------------------------- MODULE Watcher -------------------------------
(***************************************************************************)
(* The mailbox watcher of one account: main/email/watcher-registry.js with *)
(* who starts and stops it (main/routes/process.js, logging out, an admin, *)
(* main/email/idle-sweeper.js, boot and shutdown).                         *)
(*                                                                         *)
(* A connection that is let go is asked to log out, which waits behind     *)
(* what it is doing: the answer to its search or fetch still comes, and    *)
(* finds the state of whatever watcher there is by then. One whose socket  *)
(* is gone answers nothing more; only mails it had delivered are queued.   *)
(***************************************************************************)
EXTENDS Naturals

CONSTANTS Boxes,       \* mailboxes the account may be set to watch
          Uids,        \* a mail is a number in a mailbox
          MaxTries,    \* RECONNECT_MAX_TRIES
          MaxFetches,  \* bound on searches and fetches not over
          MaxFaults    \* bound on what goes wrong

ASSUME BoxesAssumption == Boxes # {}
ASSUME TriesAssumption == MaxTries \in Nat \ {0}
ASSUME BoundsAssumption == MaxFetches \in Nat \ {0} /\ MaxFaults \in Nat

VARIABLES
  enabled,   \* user_settings.watcher_enabled
  wanted,    \* what a person last asked for
  owner,     \* of the account: here, away past the cutoff, disabled
  process,   \* of the server: running, still resuming watchers, down or crashed
  reason,    \* stopReason; "absent" before the first start
  imap,      \* s.imap and how far it is
  site,      \* the mailbox in s.settings
  poll, debounce, retry,  \* the timers
  attempt,   \* reconnectAttempt
  lateOpen,  \* a connection let go has its openBox unanswered
  scan,      \* fetchInProgress, fetchPending and the searches and fetches not over
  mail, queued,
  faults

timers == <<poll, debounce, retry>>
watch  == <<reason, imap, site, poll, debounce, retry, attempt, lateOpen, scan>>
person == <<enabled, wanted, owner>>
post   == <<mail, queued>>
vars   == <<person, process, watch, post, faults>>

Mails == [box : Boxes, uid : Uids]
Slots == 1..MaxFetches
\* on: its connection is the watcher's, was let go, or is cut off
Fetch == [on : {"none", "live", "stale", "cut"}, at : {"search", "fetch"},
          box : Boxes, left : SUBSET Mails]
\* fetchInProgress, fetchPending
Scan  == [busy : BOOLEAN, again : BOOLEAN, at : [Slots -> Fetch]]

AnyBox == CHOOSE b \in Boxes : TRUE
NoFetch == [on |-> "none", at |-> "search", box |-> AnyBox, left |-> {}]
NoScan  == [busy |-> FALSE, again |-> FALSE, at |-> [i \in Slots |-> NoFetch]]

TypeOK ==
  /\ enabled \in BOOLEAN /\ wanted \in BOOLEAN
  /\ owner \in {"here", "away", "disabled"}
  /\ process \in {"up", "resuming", "down", "crashed"}
  /\ reason \in {"absent", "none", "manual", "idle", "auth", "retries"}
  /\ imap \in {"none", "handshake", "opening", "open"}
  /\ site \in Boxes
  /\ poll \in BOOLEAN /\ debounce \in BOOLEAN /\ retry \in BOOLEAN
  /\ attempt \in 0..(MaxTries + 1)
  /\ lateOpen \in BOOLEAN
  /\ scan \in Scan
  /\ mail \in [Mails -> {"away", "new", "seen"}]
  /\ queued \subseteq Mails
  /\ faults \in 0..MaxFaults

Init ==
  /\ enabled = FALSE /\ wanted = FALSE /\ owner = "here" /\ process = "up"
  /\ reason = "absent" /\ imap = "none" /\ site = AnyBox /\ attempt = 0 /\ scan = NoScan
  /\ poll = FALSE /\ debounce = FALSE /\ retry = FALSE /\ lateOpen = FALSE
  /\ mail = [m \in Mails |-> "away"] /\ queued = {} /\ faults = 0

Fault == faults < MaxFaults /\ faults' = faults + 1

Serving == process \in {"up", "resuming"}

-----------------------------------------------------------------------------
(* Scans: _fetchUnseen, and the end of one.                                *)

Free(s) == {i \in Slots : s.at[i].on = "none"}

\* A scan asked for, the mailbox being open. The guard bounds the model.
CanScan(s) == s.busy \/ Free(s) # {}
Scanned(s) ==
  IF s.busy THEN [s EXCEPT !.again = TRUE]
  ELSE LET i == CHOOSE i \in Free(s) : \A k \in Free(s) : i <= k
       IN [s EXCEPT !.busy = TRUE,
                    !.at[i] = [on |-> "live", at |-> "search", box |-> site, left |-> {}]]

\* Whichever fetch it is that ends, the next one may begin.
Over(s) == LET t == [s EXCEPT !.busy = FALSE, !.again = FALSE]
           IN IF s.again /\ imap = "open" THEN Scanned(t) ELSE t

\* The connection is let go: what it does goes on.
LetGo(s) == [s EXCEPT !.at = [i \in Slots |-> IF s.at[i].on = "live"
                                              THEN [s.at[i] EXCEPT !.on = "stale"] ELSE s.at[i]]]

\* What is left of a fetch that is cut off: the mails that had come.
Remains(f, come) == IF f.left \cap come = {} THEN NoFetch
                    ELSE [f EXCEPT !.on = "cut", !.left = @ \cap come]
CutOff(s, come) == [s EXCEPT !.at = [i \in Slots |-> IF s.at[i].on = "live"
                                                     THEN Remains(s.at[i], come) ELSE s.at[i]]]

\* Mutant of Fresh: a new connection waits for the fetch of the old one.
Kept(s) == s
\* _connect forgets the scan of the connection before.
Fresh(s) == [s EXCEPT !.busy = FALSE, !.again = FALSE]

-----------------------------------------------------------------------------
(* Connections.                                                            *)

Connect(b) ==
  /\ imap' = "handshake"
  /\ site' = b
  /\ scan' = Fresh(scan)

Ready ==
  /\ imap = "handshake"
  /\ imap' = "opening"
  /\ attempt' = 0
  /\ UNCHANGED <<person, process, reason, site, timers, lateOpen, scan, post, faults>>

Opens ==
  /\ imap = "opening" /\ CanScan(scan)
  /\ imap' = "open"
  /\ poll' = TRUE
  /\ scan' = Scanned(scan)
  /\ UNCHANGED <<person, process, reason, site, debounce, retry, attempt, lateOpen, post, faults>>

\* Mutant of Superseded: the answer is taken for the current connection's.
NotSuperseded == FALSE
Superseded == lateOpen

\* The openBox of a connection let go is answered.
OpensLate ==
  /\ lateOpen
  /\ lateOpen' = FALSE
  /\ poll' = (poll \/ ~Superseded)
  /\ UNCHANGED <<person, process, reason, imap, site, debounce, retry, attempt, scan, post, faults>>

Counted(n) == n + 1

\* Mutant of GaveUp: nothing says why.
GaveUpUnsaid == reason
GaveUp == "retries"

\* _scheduleReconnect
Reconnects ==
  /\ imap' = "none"
  /\ poll' = FALSE
  /\ attempt' = Counted(attempt)
  /\ IF attempt' > MaxTries THEN reason' = GaveUp /\ UNCHANGED retry
     ELSE retry' = TRUE /\ UNCHANGED reason

Drops ==
  /\ imap # "none"
  /\ Fault
  /\ Reconnects
  /\ \E come \in SUBSET Mails : scan' = CutOff(scan, come)
  /\ UNCHANGED <<person, process, site, debounce, lateOpen, post>>

OpenFails ==
  /\ imap = "opening"
  /\ Fault
  /\ Reconnects
  /\ UNCHANGED <<person, process, site, debounce, lateOpen, scan, post>>

RetryFires ==
  /\ retry
  /\ retry' = FALSE
  /\ Connect(site)
  /\ UNCHANGED <<person, process, reason, poll, debounce, attempt, lateOpen, post, faults>>

-----------------------------------------------------------------------------
(* Stops: stop() with each of its reasons.                                 *)

TimersOff == poll' = FALSE /\ debounce' = FALSE /\ retry' = FALSE

StopsFor(r) ==
  /\ TimersOff
  /\ imap' = "none"
  /\ attempt' = 0
  /\ lateOpen' = (lateOpen \/ imap = "opening")
  /\ scan' = LetGo(scan)
  /\ reason' = IF reason = "absent" THEN reason ELSE r
  /\ UNCHANGED site

\* A setting is saved, or cannot be: that is only logged.
Saves(on) == \/ enabled' = on /\ UNCHANGED faults
             \/ Fault /\ UNCHANGED enabled

\* The Stop button, logging out, an admin.
Stop ==
  /\ Serving
  /\ wanted' = FALSE
  /\ Saves(FALSE)
  /\ StopsFor("manual")
  /\ UNCHANGED <<owner, process, post>>

Disable ==
  /\ Serving /\ owner # "disabled"
  /\ owner' = "disabled"
  /\ wanted' = FALSE
  /\ Saves(FALSE)
  /\ StopsFor("manual")
  /\ UNCHANGED <<process, post>>

Refused ==
  /\ imap = "handshake"
  /\ StopsFor("auth")
  /\ UNCHANGED <<person, process, post, faults>>

IdleSweep ==
  /\ owner = "away" /\ imap # "none"
  /\ StopsFor("idle")
  /\ UNCHANGED <<person, process, post, faults>>

-----------------------------------------------------------------------------
(* Starts: the Start button, and the resume at boot.                       *)

StartsWith(b) ==
  /\ poll' = FALSE /\ debounce' = FALSE /\ retry' = FALSE
  /\ attempt' = 0
  /\ reason' = "none"
  /\ Connect(b)
  /\ UNCHANGED lateOpen

Start ==
  /\ Serving /\ owner = "here"
  /\ wanted' = TRUE
  /\ Saves(TRUE)
  /\ IF imap # "none" THEN UNCHANGED watch ELSE \E b \in Boxes : StartsWith(b)
  /\ UNCHANGED <<owner, process, post>>

\* Mutant of Blocked: the account is not looked at again.
BlockedBySetting == ~enabled \/ imap # "none"
Blocked == owner # "here" \/ ~enabled \/ imap # "none"

\* This account's turn, some time after boot.
Resume ==
  /\ process = "resuming"
  /\ process' = "up"
  /\ IF Blocked THEN UNCHANGED watch ELSE \E b \in Boxes : StartsWith(b)
  /\ UNCHANGED <<person, post, faults>>

Boot ==
  /\ ~Serving
  /\ process' = IF enabled THEN "resuming" ELSE "up"
  /\ UNCHANGED <<person, watch, post, faults>>

\* The process ends: memory is gone, whatever stopAll had recorded in it.
Ends(how) ==
  /\ process' = how
  /\ reason' = "absent" /\ imap' = "none" /\ site' = AnyBox /\ attempt' = 0 /\ scan' = NoScan
  /\ poll' = FALSE /\ debounce' = FALSE /\ retry' = FALSE /\ lateOpen' = FALSE

ProcessEnds ==
  /\ Serving
  /\ Fault
  /\ Ends("down")
  /\ UNCHANGED <<person, post>>

OwnerMoves ==
  /\ \/ owner = "here" /\ owner' = "away"
     \/ owner \in {"away", "disabled"} /\ owner' = "here"
  /\ UNCHANGED <<enabled, wanted, process, watch, post, faults>>

-----------------------------------------------------------------------------
(* Fetching.                                                               *)

Rescan ==
  /\ imap = "open" /\ CanScan(scan)
  /\ scan' = Scanned(scan)
  /\ UNCHANGED <<person, process, reason, imap, site, timers, attempt, lateOpen, post, faults>>

\* A timer finds the mailbox open, or does nothing.
TimerScans == CanScan(scan) /\ scan' = IF imap = "open" THEN Scanned(scan) ELSE scan

Polls ==
  /\ poll /\ TimerScans
  /\ UNCHANGED <<person, process, reason, imap, site, timers, attempt, lateOpen, post, faults>>

Debounced ==
  /\ debounce /\ TimerScans
  /\ debounce' = FALSE
  /\ UNCHANGED <<person, process, reason, imap, site, poll, retry, attempt, lateOpen, post, faults>>

Unseen(b) == {m \in Mails : m.box = b /\ mail[m] = "new"}

\* The same numbers, asked of another mailbox.
Numbered(ms, b) == {m \in Mails : m.box = b /\ mail[m] # "away" /\ \E n \in ms : n.uid = m.uid}

Searching(i) == scan.at[i].at = "search" /\ scan.at[i].on \in {"live", "stale"}

\* The numbers found are fetched over the connection there is now.
SearchAnswers(i) ==
  LET found == Unseen(scan.at[i].box)
  IN /\ Searching(i)
     /\ IF found = {}
        THEN scan' = Over([scan EXCEPT !.at[i] = NoFetch]) /\ UNCHANGED <<process, reason, imap, site, timers, attempt, lateOpen>>
        ELSE IF imap = "open"
        THEN /\ scan' = [scan EXCEPT !.at[i] = [on |-> "live", at |-> "fetch", box |-> site,
                                                left |-> Numbered(found, site)]]
             /\ UNCHANGED <<process, reason, imap, site, timers, attempt, lateOpen>>
        ELSE Ends("crashed")
     /\ UNCHANGED <<person, post, faults>>

SearchFails(i) ==
  /\ Searching(i)
  /\ Fault
  /\ scan' = Over([scan EXCEPT !.at[i] = NoFetch])
  /\ UNCHANGED <<person, process, reason, imap, site, timers, attempt, lateOpen, post>>

\* The connection let go loses its socket too.
StaleCut(i) ==
  /\ scan.at[i].on = "stale"
  /\ Fault
  /\ \E come \in SUBSET Mails : scan' = [scan EXCEPT !.at[i] = Remains(@, come)]
  /\ UNCHANGED <<person, process, reason, imap, site, timers, attempt, lateOpen, post>>

Less(f, m) == IF f.on = "cut" /\ f.left = {m} THEN NoFetch ELSE [f EXCEPT !.left = @ \ {m}]
Without(i, m) == [scan EXCEPT !.at[i] = Less(@, m)]

\* Its flag is set by the connection there is now, on the mail of that number.
Flagged(m) == LET n == [box |-> site, uid |-> m.uid]
              IN IF imap = "open" /\ mail[n] # "away" THEN [mail EXCEPT ![n] = "seen"] ELSE mail

\* A mail is read, queued, and marked as seen, unless that fails.
MailTaken(i, m) ==
  /\ m \in scan.at[i].left
  /\ scan' = Without(i, m)
  /\ queued' = queued \cup {m}
  /\ \/ mail' = Flagged(m) /\ UNCHANGED faults
     \/ Fault /\ UNCHANGED mail
  /\ UNCHANGED <<person, process, reason, imap, site, timers, attempt, lateOpen>>

\* Mutant of Untaken: what is fetched is seen, queued or not.
UntakenSeen(m) == Flagged(m)
Untaken(m) == mail

\* It cannot be read, or not be queued.
MailLost(i, m) ==
  /\ m \in scan.at[i].left
  /\ Fault
  /\ scan' = Without(i, m)
  /\ mail' = Untaken(m)
  /\ UNCHANGED <<person, process, reason, imap, site, timers, attempt, lateOpen, queued>>

Fetching(i) == scan.at[i].at = "fetch" /\ scan.at[i].on \in {"live", "stale"}

FetchEnds(i) ==
  /\ Fetching(i) /\ scan.at[i].left = {}
  /\ scan' = Over([scan EXCEPT !.at[i] = NoFetch])
  /\ UNCHANGED <<person, process, reason, imap, site, timers, attempt, lateOpen, post, faults>>

FetchFails(i) ==
  /\ Fetching(i)
  /\ Fault
  /\ \E come \in SUBSET Mails : LET s == [scan EXCEPT !.at[i] = Remains(@, come)]
                               IN (s.again => Free(s) # {}) /\ scan' = Over(s)
  /\ UNCHANGED <<person, process, reason, imap, site, timers, attempt, lateOpen, post>>

\* New mail, which an open mailbox is told of.
Arrives(m) ==
  /\ mail[m] = "away"
  /\ mail' = [mail EXCEPT ![m] = "new"]
  /\ IF imap = "open" /\ m.box = site THEN CanScan(scan) /\ scan' = Scanned(scan) ELSE UNCHANGED scan
  /\ UNCHANGED <<person, process, reason, imap, site, timers, attempt, lateOpen, queued, faults>>

\* A person marks it as unread, to have it processed again.
MarkedUnread(m) ==
  /\ mail[m] = "seen"
  /\ mail' = [mail EXCEPT ![m] = "new"]
  /\ queued' = queued \ {m}
  /\ debounce' = (debounce \/ (imap = "open" /\ m.box = site))
  /\ UNCHANGED <<person, process, reason, imap, site, poll, retry, attempt, lateOpen, scan, faults>>

-----------------------------------------------------------------------------
Handshake == Ready \/ Refused
Takes(i) == \E m \in Mails : MailTaken(i, m)
TakesCut(i) == scan.at[i].on = "cut" /\ Takes(i)

Next ==
  \/ Start \/ Stop \/ Disable \/ OwnerMoves \/ IdleSweep
  \/ Boot \/ Resume \/ ProcessEnds
  \/ Handshake \/ Opens \/ OpensLate \/ Drops \/ OpenFails \/ RetryFires
  \/ Rescan \/ Polls \/ Debounced
  \/ \E i \in Slots : \/ SearchAnswers(i) \/ SearchFails(i) \/ StaleCut(i)
                      \/ Takes(i) \/ FetchEnds(i) \/ FetchFails(i)
                      \/ \E m \in Mails : MailLost(i, m)
  \/ \E m \in Mails : Arrives(m) \/ MarkedUnread(m)

Spec == Init /\ [][Next]_vars

\* Timers fire, handshakes have a time limit, and a mail that came is parsed and
\* queued. Once the handshake is over nothing limits how long an answer takes.
FairSpec ==
  /\ Spec
  /\ WF_vars(Handshake) /\ WF_vars(RetryFires) /\ WF_vars(Polls)
  /\ \A i \in Slots : WF_vars(TakesCut(i))

-----------------------------------------------------------------------------
(* Properties.                                                             *)

Off == imap = "none" /\ ~retry

\* Whatever a poll or a retry belongs to is there: an answer that comes late
\* from a connection let go starts nothing (watcher-registry.js:348).
TimersBelong == (poll => imap = "open") /\ (retry => imap = "none")

\* A watcher that was started watches, is about to, or says why not
\* (watcher-registry.js:285, "off for good, with nothing to say so").
NeverSilentlyOff == reason = "none" => ~Off

\* After a person's stop that could be saved nothing brings the watcher back
\* but a start: no retry, poll, late answer, boot or sweep.
StopIsFinal == ~wanted /\ ~enabled => Off /\ ~poll /\ ~debounce

\* A disabled account is not watched (admin.js:493-497), although its setting
\* may have stayed on, and whenever its turn comes after a boot.
DisabledNotWatched == owner = "disabled" => Off

\* What is off stays off, by a person's stop or an admin's.
StaysOff == StopIsFinal /\ DisabledNotWatched

\* What was marked as seen was queued (watcher-registry.js:167).
SeenIsQueued == \A m \in Mails : mail[m] = "seen" => m \in queued

\* New mail gets queued, whatever fails on the way, unless the watcher is off.
\* The code does not keep it: a server that leaves a search unanswered for ever
\* leaves fetchInProgress set, and every poll only sets fetchPending.
MailGetsQueuedAnyway == \A m \in Mails : mail[m] = "new" ~> (m \in queued \/ Off)

\* The mail server leaves no openBox, search or fetch of it unanswered for ever.
ServerAnswers ==
  /\ WF_vars(Opens)
  /\ \A i \in Slots : WF_vars(SearchAnswers(i)) /\ WF_vars(Takes(i)) /\ WF_vars(FetchEnds(i))

\* New mail gets queued, whatever fails on the way, unless the watcher is off or
\* the mail server falls silent on an open connection.
MailGetsQueued == ServerAnswers => MailGetsQueuedAnyway

\* Letting a connection go does not end the server (watcher-registry.js:298-303).
StopLeavesServerUp == process # "crashed"

\* With the watcher off nothing more is queued (setup.js:489, "the mailbox
\* watcher must be off").
OffQueuesNothing == [][Off => queued' \subseteq queued]_vars

\* One search or fetch at a time on a connection (fetchInProgress).
OneFetchAtATime == \A i, k \in Slots : scan.at[i].on = "live" /\ scan.at[k].on = "live" => i = k
=============================================================================
