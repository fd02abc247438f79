-------------------------- MODULE StatusSyncProofs --------------------------
(***************************************************************************)
(* That no row slips by the reads, for any number of documents and any     *)
(* windows the slack covers.                                               *)
(***************************************************************************)
EXTENDS StatusSync, TLAPS

Reading == sync.pc \in {"ask", "undated", "settled"}
Pending == sync.left["plain"] \cup sync.left["since"] \cup sync.left["full"] \cup sync.got
Draft   == [st |-> "DRAFT", day |-> 0]
Undated == [st |-> "PAID", day |-> 0]
Voided  == [st |-> "VOIDED", day |-> 0]

\* What documents and rows can be, and which are asked.
Shape ==
  /\ \A d \in Docs :
       /\ doc[d].st = "none" => row[d].st = "new" /\ send[d] = 0
       /\ d \in nowhere => row[d].st = "unread" /\ send[d] = 0 /\ doc[d].st \notin {"none", "DRAFT"}
  /\ sync.got \subseteq sync.rows
  /\ \A w \in Ways : sync.left[w] \subseteq sync.rows
  /\ \A d \in sync.rows : d \notin nowhere /\ row[d].st # "new"
  /\ \A d \in sync.got : sync.seen[d].st \in Statuses

SInv == TypeOK /\ Shape

-----------------------------------------------------------------------------
(* Types.                                                                  *)

\* NoSync has the type of a read.
LEMMA NoSyncType ==
  /\ NoSync.pc = "no" /\ NoSync.time \in Nat /\ NoSync.since \in Nat
  /\ NoSync.rows = {} /\ NoSync.got = {} /\ \A w \in Ways : NoSync.left[w] = {}
  /\ NoSync \in [pc : {"no", "listed", "ask", "undated", "settled"}, time : Nat, since : Nat,
                 rows : SUBSET Docs, left : [Ways -> SUBSET Docs], got : SUBSET Docs,
                 snap : [Docs -> Stored], seen : [Docs -> Stored]]
  BY DEF NoSync, NotRead, Stored

\* Since gives a time.
LEMMA SinceType == ASSUME NEW t \in Nat PROVE Since(t) \in Nat
  BY TimesAssumption DEF Since

LEMMA ShapeInit == Init => SInv
  <1>1. SUFFICES ASSUME NEW undated \in SUBSET Docs, NEW lost \in SUBSET Docs,
                        undated \cap lost = {},
                        clock = (IF undated \cup lost = {} THEN 0 ELSE Slack + 1), last = clock,
                        caughtUp = FALSE, faults = 0,
                        doc = [d \in Docs |-> IF d \in undated \cup lost
                                              THEN [st |-> "PAID", day |-> 1, mod |-> 1]
                                              ELSE [st |-> "none", day |-> 0, mod |-> 0]],
                        row = [d \in Docs |-> IF d \in undated THEN [st |-> "PAID", day |-> 0]
                                              ELSE IF d \in lost THEN NotRead
                                              ELSE [st |-> "new", day |-> 0]],
                        nowhere = lost, send = [d \in Docs |-> 0], sync = NoSync
                 PROVE  SInv
    BY DEF Init
  <1>2. TypeOK
    <2>1. doc \in [Docs -> Document]
      BY <1>1 DEF Document, Statuses, Final
    <2>2. row \in [Docs -> Stored]
      BY <1>1 DEF Stored, Statuses, Final, NotRead
    <2>3. clock \in Nat /\ faults \in Nat /\ last \in Nat /\ send \in [Docs -> Nat]
      BY <1>1, TimesAssumption
    <2> QED BY <1>1, <2>1, <2>2, <2>3, NoSyncType DEF TypeOK
  <1>3. Shape
    BY <1>1, NoSyncType DEF Shape, NotRead
  <1> QED BY <1>2, <1>3 DEF SInv

\* Each step keeps types and shape.
LEMMA ShapeStep == SInv /\ [Next]_vars => SInv'
  <1> SUFFICES ASSUME TypeOK, Shape, [Next]_vars PROVE TypeOK' /\ Shape'
    BY DEF SInv
  <1>1. CASE CompanyChosen
    BY <1>1 DEF CompanyChosen, TypeOK, Shape
  <1>2. CASE SyncLists
    <2>1. TypeOK'
      BY <1>2, NoSyncType DEF SyncLists, TypeOK, Listed
    <2>2. Shape'
      BY <1>2, NoSyncType DEF SyncLists, Shape, Listed, TypeOK
    <2> QED BY <2>1, <2>2
  <1>3. CASE SyncStarts
    <2>1. PICK t \in clock..(clock + Drift) :
            sync' = [sync EXCEPT !.pc = "ask", !.time = t, !.since = Since(last), !.left = Plan]
      BY <1>3 DEF SyncStarts
    <2>2. Plan \in [Ways -> SUBSET sync.rows]
      BY DEF Plan, Unread, CatchUp, Ways, TypeOK
    <2>3. UNCHANGED <<nowhere, clock, doc, row, send, last, caughtUp, faults>>
      BY <1>3 DEF SyncStarts
    <2>4. t \in Nat /\ Since(last) \in Nat
      BY SinceType, TimesAssumption DEF TypeOK
    <2>5. TypeOK'
      BY <2>1, <2>2, <2>3, <2>4 DEF TypeOK
    <2>6. Shape'
      BY <2>1, <2>2, <2>3 DEF Shape, TypeOK
    <2> QED BY <2>5, <2>6
  <1>4. ASSUME NEW w \in Ways, NEW batch \in SUBSET Docs, XeroAnswers(w, batch)
        PROVE TypeOK' /\ Shape'
    <2> DEFINE got == Answers(w, batch)
    <2>1. UNCHANGED <<nowhere, clock, doc, row, send, last, caughtUp, faults>>
      BY <1>4 DEF XeroAnswers
    <2>2. got \subseteq batch /\ batch \subseteq sync.left[w]
      BY <1>4 DEF XeroAnswers, Answers
    <2>3. got \subseteq sync.rows /\ got \subseteq Docs
      BY <2>2 DEF Shape, TypeOK
    <2>4. \A d \in got : Says(w, d) \in Stored /\ Says(w, d).st \in Statuses
      BY <2>3 DEF Says, Now, Stored, Shape, TypeOK, Document, Statuses
    <2>5. \E pc \in {"settled", "undated"} :
            sync' = [sync EXCEPT !.pc = pc, !.left[w] = @ \ batch, !.got = got,
                       !.seen = [d \in Docs |-> IF d \in got THEN Says(w, d) ELSE NotRead]]
      BY <1>4 DEF XeroAnswers
    <2>6. [d \in Docs |-> IF d \in got THEN Says(w, d) ELSE NotRead] \in [Docs -> Stored]
      BY <2>4 DEF NotRead, Stored
    <2> HIDE DEF got
    <2>7. TypeOK'
      <3>1. sync.left \in [Ways -> SUBSET Docs]
        BY DEF TypeOK
      <3>2. [sync.left EXCEPT ![w] = @ \ batch] \in [Ways -> SUBSET Docs]
        BY <3>1
      <3>3. PICK pc \in {"settled", "undated"} :
              sync' = [sync EXCEPT !.pc = pc, !.left = [sync.left EXCEPT ![w] = @ \ batch],
                       !.got = got, !.seen = [d \in Docs |-> IF d \in got THEN Says(w, d) ELSE NotRead]]
        BY ZenonT(30), <2>5
      <3> QED BY <2>1, <2>3, <2>6, <3>2, <3>3 DEF TypeOK
    <2>8. Shape'
      BY <2>1, <2>3, <2>4, <2>5 DEF Shape, TypeOK
    <2> QED BY <2>7, <2>8
  <1>5. CASE XeroAnswersInFull
    <2>1. TypeOK'
      BY <1>5 DEF XeroAnswersInFull, TypeOK, Stored, Document, Statuses
    <2>2. Shape'
      BY <1>5 DEF XeroAnswersInFull, TypeOK, Shape, Statuses
    <2> QED BY <2>1, <2>2
  <1>6. CASE SyncStores
    <2>1. row' \in [Docs -> Stored] /\ \A d \in Docs : row'[d].st = row[d].st \/ (d \in sync.got /\ row'[d].st \in Statuses)
      BY <1>6 DEF SyncStores, Stores, TypeOK, Shape
    <2>2. sync' = NoSync \/ sync' = [sync EXCEPT !.pc = "ask", !.got = {}, !.seen = NoSync.seen]
      BY <1>6 DEF SyncStores
    <2>3. NoSync.seen \in [Docs -> Stored]
      BY DEF NoSync, NotRead, Stored
    <2>4. last' \in Nat /\ caughtUp' \in BOOLEAN /\ UNCHANGED <<nowhere, clock, doc, send, faults>>
      BY <1>6 DEF SyncStores, CompleteAt, TypeOK
    <2>5. TypeOK'
      BY <2>1, <2>2, <2>3, <2>4, NoSyncType DEF TypeOK
    <2>6. Shape'
      <3>1. \A d \in Docs :
              /\ doc'[d].st = "none" => row'[d].st = "new" /\ send'[d] = 0
              /\ d \in nowhere' => /\ row'[d].st = "unread" /\ send'[d] = 0
                                  /\ doc'[d].st \notin {"none", "DRAFT"}
        BY <2>1, <2>4 DEF Shape
      <3>2. \A d \in sync.rows : d \notin nowhere' /\ row'[d].st # "new"
        BY <2>1, <2>4 DEF Shape, Statuses, Final, TypeOK
      <3>3. sync'.got = {} /\ sync'.rows \subseteq sync.rows
            /\ \A w \in Ways : sync'.left[w] \subseteq sync'.rows
        BY <2>2, NoSyncType DEF Shape, TypeOK
      <3> QED BY <3>1, <3>2, <3>3 DEF Shape
    <2> QED BY <2>5, <2>6
  <1>7. CASE FullFails
    <2>a. \A d \in sync.got : WithoutDay(d) \in Stored /\ WithoutDay(d).st \in Statuses
      BY DEF WithoutDay, TypeOK, Shape, Statuses
    <2>b. row' = [d \in Docs |-> IF d \in sync.got THEN [e \in Docs |-> WithoutDay(e)][d] ELSE row[d]]
      BY <1>7 DEF FullFails, Stores
    <2>c. row \in [Docs -> Stored]
      BY DEF TypeOK
    <2>1. row' \in [Docs -> Stored] /\ \A d \in Docs : row'[d].st = row[d].st \/ (d \in sync.got /\ row'[d].st \in Statuses)
      BY <2>a, <2>b, <2>c
    <2>2. sync' = NoSync /\ caughtUp' = FALSE /\ UNCHANGED <<nowhere, clock, doc, send, last>> /\ faults' = faults + 1
      BY <1>7 DEF FullFails, Forgotten, Fault
    <2>3. TypeOK'
      <3>1. row' \in [Docs -> Stored]
        BY <2>1
      <3>2. faults' \in Nat
        BY <2>2 DEF TypeOK
      <3>4. caughtUp' \in BOOLEAN
        BY <2>2, Zenon
      <3>3. /\ clock' \in Nat /\ doc' \in [Docs -> Document] /\ nowhere' \subseteq Docs
            /\ send' \in [Docs -> Nat] /\ last' \in Nat
        BY <2>2 DEF TypeOK
      <3> QED BY <2>2, <3>1, <3>2, <3>3, <3>4, NoSyncType DEF TypeOK
    <2>4. Shape'
      BY <2>1, <2>2, NoSyncType DEF Shape, TypeOK, Statuses, Final
    <2> QED BY <2>3, <2>4
  <1>8. CASE SyncFails
    BY <1>8, NoSyncType DEF SyncFails, Fault, TypeOK, Shape
  <1>9. CASE Restart
    <2>1. TypeOK'
      BY <1>9, NoSyncType DEF Restart, Fault, TypeOK
    <2>2. Shape'
      BY <1>9, NoSyncType DEF Restart, Fault, TypeOK, Shape
    <2> QED BY <2>1, <2>2
  <1>10. ASSUME NEW d \in Docs, XeroMoves(d) PROVE TypeOK' /\ Shape'
    <2>1. TypeOK'
      BY <1>10, BoundsAssumption DEF XeroMoves, Tick, BecomesAt, TypeOK, Document, Statuses, Final
    <2>2. Shape'
      BY <1>10 DEF XeroMoves, Tick, BecomesAt, TypeOK, Shape
    <2> QED BY <2>1, <2>2
  <1>11. ASSUME NEW d \in Docs, XeroTakesSend(d) PROVE TypeOK' /\ Shape'
    <2>1. TypeOK'
      BY <1>11 DEF XeroTakesSend, Tick, BecomesAt, TypeOK, Document, Statuses, Final
    <2>2. Shape'
      BY <1>11 DEF XeroTakesSend, Tick, BecomesAt, TypeOK, Shape
    <2> QED BY <2>1, <2>2
  <1>12. ASSUME NEW d \in Docs, SendStored(d) PROVE TypeOK' /\ Shape'
    <2>1. TypeOK'
      BY <1>12 DEF SendStored, TypeOK, Stored, Statuses
    <2>2. Shape'
      BY <1>12 DEF SendStored, TypeOK, Shape
    <2> QED BY <2>1, <2>2
  <1>13. ASSUME NEW d \in Docs, AnswerNotStored(d) PROVE TypeOK' /\ Shape'
    <2>1. TypeOK'
      BY <1>13 DEF AnswerNotStored, Fault, TypeOK, Stored, NotRead
    <2>2. Shape'
      BY <1>13 DEF AnswerNotStored, TypeOK, Shape, NotRead
    <2> QED BY <2>1, <2>2
  <1>14. CASE UNCHANGED vars
    BY <1>14 DEF vars, TypeOK, Shape
  <1> QED
    BY <1>1, <1>2, <1>3, <1>4, <1>5, <1>6, <1>7, <1>8, <1>9, <1>10, <1>11, <1>12, <1>13, <1>14
    DEF Next, SyncStep

\* The variables have their types in every reachable state.
THEOREM TypesHold == Spec => []TypeOK
  <1>1. Spec => []SInv
    BY ShapeInit, ShapeStep, PTL DEF Spec
  <1>2. SInv => TypeOK
    BY DEF SInv
  <1> QED BY <1>1, <1>2, PTL

-----------------------------------------------------------------------------
(* The invariant: what is true of times, and of each stage of a read.      *)

\* How far apart the times can be.
Windows ==
  /\ \A d \in Docs : /\ doc[d].mod <= clock
                     /\ send[d] # 0 => send[d] <= clock /\ clock <= send[d] + SendTime
  /\ last <= clock + Drift
  /\ sync.pc = "listed" => sync.time <= clock /\ clock <= sync.time + ListAge
  /\ Reading => sync.time <= clock + Drift

\* What a document is at the time it changed.
Moments ==
  \A d \in Docs :
    /\ doc[d].st # "PAID" => doc[d].day = 0
    /\ doc[d].mod = 0 => doc[d].st = "none"
    /\ send[d] # 0 => send[d] <= doc[d].mod /\ (send[d] = doc[d].mod => Now(d) = Draft)
    /\ row[d].st = "VOIDED" => row[d] = Voided /\ Now(d) = Voided

\* A row that is still to be asked is as it was listed, but for a send.
AsListed(d) == row[d] = sync.snap[d] \/ row[d] = Draft
Plans ==
  /\ Reading => /\ sync.since = Since(last)
                /\ \A d \in sync.left["plain"] : last = 0 \/ sync.snap[d] = NotRead
                /\ \A d \in sync.left["since"] : caughtUp \/ sync.snap[d] # Undated
                /\ \A w \in Ways : \A d \in sync.left[w] :
                     AsListed(d) /\ d \notin sync.got /\ \A v \in Ways \ {w} : d \notin sync.left[v]
  /\ sync.pc = "listed" => \A d \in sync.rows : AsListed(d)

\* Of the rows that were not listed, those behind changed about then or later.
NotListed == sync.pc = "listed" =>
               \A d \in Docs \ sync.rows : Behind(d) => doc[d].mod + SendTime > sync.time

\* Of the rows that are done, those behind changed after the read began.
Done == Reading => \A d \in Docs \ Pending : Behind(d) => doc[d].mod > Since(sync.time)

\* What Xero answered is so, or changed since.
Recent(d) == doc[d].mod > Since(sync.time) /\ doc[d].mod > Since(last)
Seen ==
  /\ sync.pc \in {"listed", "ask"} => sync.got = {}
  /\ \A d \in sync.got :
       /\ sync.seen[d].st = "VOIDED" => sync.seen[d] = Voided /\ Now(d) = Voided
       /\ sync.pc = "settled" => sync.seen[d] = Now(d) \/ Recent(d)
       /\ sync.pc = "undated" => /\ sync.seen[d].day = 0
                                 /\ sync.seen[d].st = doc[d].st \/ Recent(d)
                                 /\ sync.snap[d].st = "PAID" => doc[d].mod > sync.since

HInv == /\ Windows /\ Moments /\ Plans
        /\ NotListed /\ Done /\ Seen /\ NothingSlipsBy

\* A change that is no more than the slack before t is after Since(t).
LEMMA AfterSince ==
  ASSUME NEW t \in Nat, NEW m \in Nat, m # 0, m + Slack > t
  PROVE  m > Since(t)
  BY TimesAssumption DEF Since

LEMMA SlipInit == Init => HInv
  <1> SUFFICES ASSUME NEW undated \in SUBSET Docs, NEW lost \in SUBSET Docs,
                      undated \cap lost = {},
                      clock = (IF undated \cup lost = {} THEN 0 ELSE Slack + 1), last = clock,
                      caughtUp = FALSE,
                      doc = [d \in Docs |-> IF d \in undated \cup lost
                                            THEN [st |-> "PAID", day |-> 1, mod |-> 1]
                                            ELSE [st |-> "none", day |-> 0, mod |-> 0]],
                      row = [d \in Docs |-> IF d \in undated THEN [st |-> "PAID", day |-> 0]
                                            ELSE IF d \in lost THEN NotRead
                                            ELSE [st |-> "new", day |-> 0]],
                      send = [d \in Docs |-> 0], sync = NoSync
               PROVE  HInv
    BY DEF Init
  <1>1. sync.pc = "no" /\ sync.got = {}
    BY NoSyncType
  <1>2. Windows
    BY <1>1, TimesAssumption DEF Windows, Reading
  <1>3. Moments
    BY <1>1 DEF Moments, NotRead
  <1>4. Plans /\ NotListed /\ Done /\ Seen
    BY <1>1 DEF Plans, NotListed, Done, Seen, Reading
  <1>5. NothingSlipsBy
    BY DEF NothingSlipsBy, Behind, NotRead
  <1> QED BY <1>2, <1>3, <1>4, <1>5 DEF HInv

\* The steps that end a read without storing anything.
LEMMA SlipEnds ==
  ASSUME SInv, HInv, SyncFails \/ Restart
  PROVE  HInv'
  <1>1. /\ sync' = NoSync /\ UNCHANGED <<clock, doc, row, last, caughtUp>>
        /\ send' = send \/ send' = [d \in Docs |-> 0]
    BY DEF SyncFails, Restart
  <1>2. sync'.pc = "no" /\ sync'.got = {}
    BY <1>1, NoSyncType
  <1>3. Windows'
    BY <1>1, <1>2 DEF HInv, Windows, Reading
  <1>4. Moments'
    BY <1>1 DEF HInv, Moments, Now
  <1>5. NothingSlipsBy'
    BY <1>1 DEF HInv, NothingSlipsBy, Behind, Now
  <1> QED BY <1>2, <1>3, <1>4, <1>5 DEF HInv, Plans, NotListed, Done, Seen, Reading

\* A change made now is one that any read, past or under way, still asks for.
LEMMA ChangeNow ==
  ASSUME SlackIsEnough, SInv, HInv
  PROVE  /\ clock + 1 > Since(last)
         /\ Reading => clock + 1 > Since(sync.time)
  <1>1. clock \in Nat /\ last \in Nat /\ sync.time \in Nat
    BY DEF SInv, TypeOK
  <1>2. last <= clock + Drift /\ (Reading => sync.time <= clock + Drift)
    BY DEF HInv, Windows
  <1>3. clock + 1 \in Nat /\ clock + 1 # 0 /\ Drift <= Slack
    BY <1>1, TimesAssumption DEF SlackIsEnough
  <1>4. clock + 1 + Slack > last /\ (Reading => clock + 1 + Slack > sync.time)
    BY <1>1, <1>2, <1>3, TimesAssumption
  <1> QED BY <1>1, <1>3, <1>4, AfterSince

\* A change made at Xero, by people or by a send.
LEMMA SlipChange ==
  ASSUME SlackIsEnough, SInv, HInv, NEW e \in Docs, XeroMoves(e) \/ XeroTakesSend(e)
  PROVE  HInv'
  <1>1. PICK st \in Statuses, day \in Nat :
          /\ doc' = [doc EXCEPT ![e] = [st |-> st, day |-> day, mod |-> clock + 1]]
          /\ st # "PAID" => day = 0
          /\ doc[e].st # "VOIDED"
          /\ \/ send' = send
             \/ send[e] = 0 /\ send' = [send EXCEPT ![e] = clock + 1] /\ st = "DRAFT"
    BY DEF XeroMoves, XeroTakesSend, BecomesAt, SInv, TypeOK, Statuses, Final
  <1>2. /\ InTime /\ clock' = clock + 1
        /\ UNCHANGED <<nowhere, row, last, caughtUp, sync>>
    BY DEF XeroMoves, XeroTakesSend, Tick
  <1>3. /\ clock \in Nat /\ send \in [Docs -> Nat] /\ sync.time \in Nat
        /\ \A d \in Docs : doc[d].mod \in Nat
        /\ doc \in [Docs -> Document]
    BY DEF SInv, TypeOK, Document
  <1>4. \A d \in Docs : d # e => doc'[d] = doc[d]
    BY <1>1, <1>3
  <1>5. doc'[e] = [st |-> st, day |-> day, mod |-> clock + 1]
    BY <1>1, <1>3
  <1>6. Windows'
    <2>1. last <= clock + 1 + Drift
      BY <1>2, <1>3, TimesAssumption DEF HInv, Windows, SInv, TypeOK
    <2>2. sync.pc = "listed" => sync.time <= clock + 1 /\ clock + 1 <= sync.time + ListAge
      BY <1>2, <1>3, TimesAssumption DEF HInv, Windows, InTime
    <2>3. Reading => sync.time <= clock + 1 + Drift
      BY <1>3, TimesAssumption DEF HInv, Windows
    <2>4. ASSUME NEW d \in Docs
          PROVE  /\ doc'[d].mod <= clock + 1
                 /\ send'[d] # 0 => send'[d] <= clock + 1 /\ clock + 1 <= send'[d] + SendTime
      <3>1. doc'[d].mod <= clock + 1
        BY <1>3, <1>4, <1>5 DEF HInv, Windows
      <3>2. CASE send'[d] = send[d]
        BY <3>1, <3>2, <1>2, <1>3, TimesAssumption DEF HInv, Windows, InTime
      <3>3. CASE send'[d] = clock + 1
        BY <3>1, <3>3, <1>3, TimesAssumption
      <3> QED BY <3>2, <3>3, <1>1, <1>3
    <2> QED BY <1>2, <2>1, <2>2, <2>3, <2>4 DEF Windows, Reading
  <1>7. Moments'
    <2>1. ASSUME NEW d \in Docs, d # e
          PROVE  /\ doc'[d] = doc[d] /\ send'[d] = send[d]
      BY <2>1, <1>1, <1>3, <1>4
    <2>2. row[e].st # "VOIDED"
      BY <1>1 DEF HInv, Moments, Now, Voided
    <2>3. send'[e] # 0 => send'[e] <= clock + 1 /\ (send'[e] = clock + 1 => st = "DRAFT")
      BY <1>1, <1>3 DEF HInv, Windows
    <2> QED BY <1>1, <1>2, <1>3, <1>5, <2>1, <2>2, <2>3 DEF HInv, Moments, Now, Draft
  <1>8. Plans'
    BY <1>2 DEF HInv, Plans, Reading, AsListed
  <1>9. NotListed'
    BY <1>2, <1>3, <1>4, <1>5, TimesAssumption DEF HInv, NotListed, Behind, Now, Windows
  <1>10. Done'
    BY <1>2, <1>4, <1>5, ChangeNow DEF HInv, Done, Behind, Now, Reading, Pending
  <1>11. NothingSlipsBy'
    BY <1>2, <1>4, <1>5, ChangeNow DEF HInv, NothingSlipsBy, Behind, Now
  <1>12. Seen'
    <2>1. sync.pc \in {"listed", "ask"} => sync.got = {}
      BY DEF HInv, Seen
    <2>2. ASSUME NEW d \in sync.got PROVE
              /\ sync.seen[d].st = "VOIDED" => sync.seen[d] = Voided /\ Now(d)' = Voided
              /\ sync.pc = "settled" => sync.seen[d] = Now(d)' \/ Recent(d)'
              /\ sync.pc = "undated" => /\ sync.seen[d].day = 0
                                        /\ sync.seen[d].st = doc'[d].st \/ Recent(d)'
                                        /\ sync.snap[d].st = "PAID" => doc'[d].mod > sync.since
      <3>0. d \in Docs
        BY DEF SInv, TypeOK
      <3>1. CASE d # e
        BY <3>0, <3>1, <1>2, <1>4 DEF HInv, Seen, Recent, Now
      <3>2. CASE d = e
        <4>1. sync.seen[d].st # "VOIDED"
          BY <3>2, <1>1 DEF HInv, Seen, Now, Voided
        <4>2. sync.pc \in {"settled", "undated"} => Recent(d)'
          BY <3>2, <1>2, <1>5, ChangeNow DEF Recent, Reading
        <4>3. sync.pc = "undated" => doc'[d].mod > sync.since
          BY <3>2, <1>5, ChangeNow DEF HInv, Plans, Reading
        <4> QED BY <4>1, <4>2, <4>3 DEF HInv, Seen
      <3> QED BY <3>1, <3>2
    <2> QED BY <1>2, <2>1, <2>2 DEF Seen
  <1> QED BY <1>6, <1>7, <1>8, <1>9, <1>10, <1>11, <1>12 DEF HInv

\* What a send's answer overwrites: Xero still says it, or changed since.
LEMMA SendAnswer ==
  ASSUME SlackIsEnough, SInv, HInv, NEW d \in Docs, send[d] # 0
  PROVE  \/ Now(d) = Draft
         \/ /\ doc[d].mod > Since(last)
            /\ Reading => doc[d].mod > Since(sync.time)
            /\ sync.pc = "listed" => doc[d].mod + SendTime > sync.time
  <1>1. /\ clock \in Nat /\ last \in Nat /\ sync.time \in Nat
        /\ doc[d].mod \in Nat /\ send[d] \in Nat
    BY DEF SInv, TypeOK, Document
  <1>2. send[d] <= doc[d].mod /\ (send[d] = doc[d].mod => Now(d) = Draft)
    BY DEF HInv, Moments
  <1>3. /\ clock <= send[d] + SendTime /\ last <= clock + Drift
        /\ Reading => sync.time <= clock + Drift
        /\ sync.pc = "listed" => sync.time <= clock
    BY DEF HInv, Windows
  <1>4. CASE send[d] = doc[d].mod
    BY <1>2, <1>4
  <1>5. CASE send[d] < doc[d].mod
    <2>1. doc[d].mod # 0 /\ doc[d].mod + SendTime > clock
      BY <1>1, <1>3, <1>5, TimesAssumption
    <2>2. doc[d].mod + Slack > last /\ (Reading => doc[d].mod + Slack > sync.time)
      BY <1>1, <1>3, <2>1, TimesAssumption DEF SlackIsEnough
    <2>3. sync.pc = "listed" => doc[d].mod + SendTime > sync.time
      BY <1>1, <1>3, <2>1, TimesAssumption
    <2> QED BY <1>1, <2>1, <2>2, <2>3, AfterSince
  <1> QED BY <1>1, <1>2, <1>4, <1>5

LEMMA SlipSend ==
  ASSUME SlackIsEnough, SInv, HInv, NEW e \in Docs, SendStored(e) \/ AnswerNotStored(e)
  PROVE  HInv'
  <1>1. /\ UNCHANGED <<clock, doc, last, caughtUp, sync>>
        /\ send[e] # 0 /\ send' = [send EXCEPT ![e] = 0]
    BY DEF SendStored, AnswerNotStored
  <1>2. /\ \A d \in Docs : d # e => row'[d] = row[d]
        /\ row'[e] = Draft \/ row'[e] = row[e] \/ (row[e].st = "new" /\ row'[e] = NotRead)
    BY DEF SendStored, AnswerNotStored, SInv, TypeOK, Draft
  <1>3. send \in [Docs -> Nat] /\ send'[e] = 0 /\ \A d \in Docs : d # e => send'[d] = send[d]
    BY <1>1 DEF SInv, TypeOK
  <1>4. \A d \in Docs : Behind(d)' => Behind(d) \/ (d = e /\ Now(e) # Draft)
    BY <1>1, <1>2 DEF Behind, Now, NotRead
  <1>5. Windows'
    BY <1>1, <1>3 DEF HInv, Windows, Reading
  <1>6. Moments'
    BY <1>1, <1>2, <1>3 DEF HInv, Moments, Now, NotRead, Draft
  <1>7. Plans'
    <2>1. \A d \in sync.rows : AsListed(d) => AsListed(d)'
      BY <1>1, <1>2 DEF AsListed, SInv, Shape, TypeOK
    <2> QED BY <1>1, <2>1 DEF HInv, Plans, Reading, SInv, Shape
  <1>8. NotListed'
    BY <1>1, <1>4, SendAnswer DEF HInv, NotListed
  <1>9. Done'
    BY <1>1, <1>4, SendAnswer DEF HInv, Done, Reading, Pending
  <1>10. Seen'
    BY <1>1 DEF HInv, Seen, Recent, Now
  <1>11. NothingSlipsBy'
    <2> SUFFICES ASSUME NEW d \in Docs, Behind(d)'
                 PROVE  \/ doc[d].mod > Since(last)
                        \/ row'[d] = Undated /\ ~caughtUp
      BY <1>1 DEF NothingSlipsBy, Undated
    <2>1. CASE d = e /\ Now(e) # Draft
      BY <2>1, <1>1, SendAnswer
    <2>2. CASE Behind(d) /\ ~(d = e /\ Now(e) # Draft)
      <3>1. row'[d] = row[d]
        BY <2>2, <1>1, <1>2 DEF Behind, Now, NotRead
      <3> QED BY <2>2, <3>1 DEF HInv, NothingSlipsBy, Undated
    <2> QED BY <1>4, <2>1, <2>2
  <1> QED BY <1>5, <1>6, <1>7, <1>8, <1>9, <1>10, <1>11 DEF HInv

\* The rows are listed.
LEMMA SlipLists ==
  ASSUME SInv, HInv, SyncLists
  PROVE  HInv'
  <1>1. /\ sync' = [NoSync EXCEPT !.pc = "listed", !.time = clock, !.rows = Listed, !.snap = row]
        /\ UNCHANGED <<nowhere, clock, doc, row, send, last, caughtUp, faults>>
    BY DEF SyncLists
  <1>2. /\ sync'.pc = "listed" /\ sync'.time = clock /\ sync'.rows = Listed /\ sync'.snap = row
        /\ sync'.got = {}
    BY <1>1, NoSyncType DEF NoSync
  <1>3. Windows'
    BY <1>1, <1>2, TimesAssumption DEF HInv, Windows, Reading, SInv, TypeOK
  <1>4. Moments' /\ NothingSlipsBy'
    BY <1>1 DEF HInv, Moments, NothingSlipsBy, Behind, Now
  <1>5. Plans' /\ Done' /\ Seen'
    BY <1>1, <1>2 DEF Plans, AsListed, Done, Seen, Reading
  <1>6. NotListed'
    <2>1. ASSUME NEW d \in Docs \ Listed PROVE ~Behind(d)
      BY <2>1 DEF Listed, Behind, Final, SInv, Shape, HInv, Moments
    <2> QED BY <1>1, <1>2, <2>1 DEF NotListed, Behind, Now
  <1> QED BY <1>3, <1>4, <1>5, <1>6 DEF HInv

\* The read of the company begins.
LEMMA SlipStarts ==
  ASSUME SlackIsEnough, SInv, HInv, SyncStarts
  PROVE  HInv'
  <1>1. PICK t \in clock..(clock + Drift) :
          sync' = [sync EXCEPT !.pc = "ask", !.time = t, !.since = Since(last), !.left = Plan]
    BY DEF SyncStarts
  <1>2. sync.pc = "listed" /\ UNCHANGED <<nowhere, clock, doc, row, send, last, caughtUp, faults>>
    BY DEF SyncStarts
  <1>3. /\ sync'.pc = "ask" /\ sync'.time = t /\ sync'.since = Since(last) /\ sync'.left = Plan
        /\ sync'.rows = sync.rows /\ sync'.snap = sync.snap
        /\ sync'.got = sync.got /\ sync'.seen = sync.seen
    BY <1>1 DEF SInv, TypeOK
  <1>4. clock \in Nat /\ t \in Nat /\ t <= clock + Drift /\ sync.time \in Nat
    BY TimesAssumption DEF SInv, TypeOK
  <1>5. /\ Plan["plain"] = Unread /\ Plan["since"] = (sync.rows \ Unread) \ CatchUp
        /\ Plan["full"] = CatchUp
    BY DEF Plan, Ways
  <1>6. CatchUp \subseteq sync.rows /\ Unread \subseteq sync.rows
    BY DEF CatchUp, Unread
  <1>7. Windows'
    BY <1>2, <1>3, <1>4, TimesAssumption DEF HInv, Windows, Reading
  <1>8. Moments' /\ NothingSlipsBy'
    BY <1>2 DEF HInv, Moments, NothingSlipsBy, Behind, Now
  <1>9. sync.got = {}
    BY <1>2 DEF HInv, Seen
  <1>10. Plans'
    <2>1. \A d \in Plan["plain"] : last = 0 \/ sync.snap[d] = NotRead
      BY <1>5 DEF Unread
    <2>2. \A d \in Plan["since"] : caughtUp \/ sync.snap[d] # Undated
      BY <1>5 DEF Unread, CatchUp, Undated
    <2>3. \A w \in Ways : \A d \in Plan[w] : AsListed(d)
      BY <1>2, <1>5, <1>6 DEF HInv, Plans, Ways
    <2>4. CatchUp \cap Unread = {}
      BY DEF CatchUp, Unread, NotRead
    <2>5. \A w \in Ways : \A d \in Plan[w] : \A v \in Ways \ {w} : d \notin Plan[v]
      BY <1>5, <2>4 DEF Ways
    <2> QED BY <1>2, <1>3, <1>9, <2>1, <2>2, <2>3, <2>5 DEF Plans, AsListed
  <1>11. NotListed' /\ Seen'
    BY <1>3, <1>9 DEF NotListed, Seen
  <1>12. Done'
    <2> SUFFICES ASSUME NEW d \in Docs, d \notin Pending', Behind(d)
                 PROVE  doc[d].mod > Since(t)
      BY <1>2, <1>3 DEF Done, Behind, Now
    <2>1. d \notin sync.rows
      BY <1>3, <1>5, <1>6 DEF Pending
    <2>2. doc[d].mod \in Nat /\ doc[d].mod + SendTime > sync.time
      BY <1>2, <2>1 DEF HInv, NotListed, SInv, TypeOK, Document
    <2>3. doc[d].mod # 0
      BY DEF HInv, Moments, Behind, SInv, Shape
    <2>4. clock <= sync.time + ListAge
      BY <1>2 DEF HInv, Windows
    <2>5. doc[d].mod + Slack > t
      BY <1>4, <2>2, <2>4, TimesAssumption DEF SlackIsEnough
    <2> QED BY <1>4, <2>2, <2>3, <2>5, AfterSince
  <1> QED BY <1>7, <1>8, <1>10, <1>11, <1>12 DEF HInv

\* Xero answers a call.
LEMMA SlipAnswers ==
  ASSUME SInv, SInv', HInv, NEW w \in Ways, NEW batch \in SUBSET Docs, XeroAnswers(w, batch)
  PROVE  HInv'
  <1> DEFINE got  == Answers(w, batch)
             paid == {d \in got : w # "full" /\ doc[d].st = "PAID"}
             seen == [d \in Docs |-> IF d \in got THEN Says(w, d) ELSE NotRead]
             pc   == IF paid = {} THEN "settled" ELSE "undated"
  <1>1. /\ sync' = [sync EXCEPT !.pc = pc, !.left = [sync.left EXCEPT ![w] = @ \ batch],
                                !.got = got, !.seen = seen]
        /\ sync.pc = "ask" /\ batch \subseteq sync.left[w]
        /\ UNCHANGED <<nowhere, clock, doc, row, send, last, caughtUp, faults>>
    BY DEF XeroAnswers
  <1>2. got \subseteq batch /\ (w = "since" => \A d \in got : doc[d].mod > sync.since)
    BY DEF Answers
  <1>3. \A d \in got : seen[d] = Says(w, d) /\ d \in Docs /\ d \in sync.rows
    BY <1>1, <1>2 DEF SInv, Shape
  <1>4. pc \in {"settled", "undated"}
    OBVIOUS
  <1>5. /\ sync'.pc = pc /\ sync'.time = sync.time /\ sync'.since = sync.since
        /\ sync'.rows = sync.rows /\ sync'.snap = sync.snap /\ sync'.got = got /\ sync'.seen = seen
        /\ sync'.left[w] = sync.left[w] \ batch
        /\ \A v \in Ways : v # w => sync'.left[v] = sync.left[v]
    BY <1>1 DEF SInv, TypeOK
  <1>6. \A d \in batch : (w = "since" /\ ~(doc[d].mod > sync.since)) \/ d \in got
    BY DEF Answers
  <1>7. \A d \in Docs : Says(w, d) = [st |-> doc[d].st, day |-> IF w = "full" THEN doc[d].day ELSE 0]
    BY DEF Says, Now
  <1>8. pc = "settled" => w = "full" \/ \A d \in got : doc[d].st # "PAID"
    OBVIOUS
  <1>9. pc = "undated" => w # "full"
    OBVIOUS
  <1> HIDE DEF got, paid, seen, pc
  <1>10. Windows' /\ Moments' /\ NothingSlipsBy' /\ NotListed'
    BY <1>1, <1>4, <1>5 DEF HInv, Windows, Moments, NothingSlipsBy, NotListed, Behind, Now, Reading
  <1>11. Plans'
    <2>1. \A v \in Ways : sync'.left[v] \subseteq sync.left[v]
      BY <1>5
    <2>2. \A v \in Ways : \A d \in sync'.left[v] : d \notin got
      BY <1>1, <1>2, <1>5, <2>1 DEF HInv, Plans, Reading
    <2>3. \A v \in Ways : \A d \in sync'.left[v] :
            AsListed(d) /\ \A u \in Ways \ {v} : d \notin sync'.left[u]
      BY <1>1, <2>1 DEF HInv, Plans, Reading
    <2> QED BY <1>1, <1>4, <1>5, <2>1, <2>2, <2>3 DEF HInv, Plans, Reading, AsListed, Ways
  <1>12. Done'
    <2> SUFFICES ASSUME NEW d \in Docs, d \notin Pending', Behind(d)
                 PROVE  doc[d].mod > Since(sync.time)
      BY <1>1, <1>5 DEF Done, Behind, Now
    <2>1. CASE d \notin Pending
      BY <1>1, <2>1 DEF HInv, Done, Reading
    <2>2. CASE d \in Pending
      <3>1. d \in sync.left[w] /\ d \in batch /\ d \notin got
        BY <1>1, <1>5, <2>2 DEF Pending, HInv, Seen, Ways
      <3>2. w = "since" /\ ~(doc[d].mod > Since(last))
        BY <1>1, <1>6, <3>1 DEF HInv, Plans, Reading
      <3>3. row[d] = Undated /\ ~caughtUp
        BY <3>2 DEF HInv, NothingSlipsBy, Undated
      <3>4. sync.snap[d] # Undated /\ AsListed(d)
        BY <1>1, <3>1, <3>2, <3>3 DEF HInv, Plans, Reading
      <3> QED BY <3>3, <3>4 DEF AsListed, Draft, Undated
    <2> QED BY <2>1, <2>2
  <1>13. Seen'
    <2> SUFFICES ASSUME NEW d \in got
                 PROVE  /\ seen[d].st = "VOIDED" => seen[d] = Voided /\ Now(d) = Voided
                        /\ pc = "settled" => seen[d] = Now(d)
                        /\ pc = "undated" => /\ seen[d].day = 0 /\ seen[d].st = doc[d].st
                                             /\ sync.snap[d].st = "PAID" => doc[d].mod > sync.since
      BY <1>1, <1>4, <1>5 DEF Seen, Now
    <2>1. /\ seen[d] = [st |-> doc[d].st, day |-> IF w = "full" THEN doc[d].day ELSE 0]
          /\ doc[d].st # "PAID" => doc[d].day = 0
      BY <1>3, <1>7 DEF HInv, Moments
    <2>2. sync.snap[d].st = "PAID" => doc[d].mod > sync.since \/ w = "full"
      <3>1. CASE w = "since"
        BY <1>2, <3>1
      <3>2. CASE w = "plain" /\ sync.snap[d].st = "PAID"
        <4>1. last = 0
          BY <1>1, <1>2, <3>2 DEF HInv, Plans, Reading, NotRead
        <4>2. sync.since = 0
          BY <1>1, <4>1, TimesAssumption DEF HInv, Plans, Reading, Since
        <4>3. doc[d].mod # 0 /\ doc[d].mod \in Nat
          BY SMTT(30), <1>3 DEF HInv, Moments, SInv, Shape, TypeOK, Document
        <4> QED BY <4>2, <4>3
      <3> QED BY <3>1, <3>2 DEF Ways
    <2> QED BY <1>8, <1>9, <2>1, <2>2 DEF Voided, Now
  <1> QED BY <1>10, <1>11, <1>12, <1>13 DEF HInv

\* The paid ones are answered in full.
LEMMA SlipInFull ==
  ASSUME SInv, HInv, XeroAnswersInFull
  PROVE  HInv'
  <1> DEFINE seen == [d \in Docs |-> IF sync.seen[d].st = "PAID"
                                     THEN [st |-> "PAID", day |-> doc[d].day] ELSE sync.seen[d]]
  <1>1. /\ sync' = [sync EXCEPT !.pc = "settled", !.seen = seen]
        /\ sync.pc = "undated"
        /\ UNCHANGED <<nowhere, clock, doc, row, send, last, caughtUp, faults>>
    BY DEF XeroAnswersInFull
  <1>2. /\ sync'.pc = "settled" /\ sync'.time = sync.time /\ sync'.since = sync.since
        /\ sync'.rows = sync.rows /\ sync'.snap = sync.snap /\ sync'.got = sync.got
        /\ sync'.left = sync.left /\ sync'.seen = seen
    BY <1>1 DEF SInv, TypeOK
  <1> HIDE DEF seen
  <1>3. Windows' /\ Moments' /\ NothingSlipsBy' /\ NotListed' /\ Done' /\ Plans'
    BY <1>1, <1>2 DEF HInv, Windows, Moments, NothingSlipsBy, NotListed, Done, Plans, Behind, Now,
                      Reading, Pending, AsListed
  <1>4. Seen'
    <2> SUFFICES ASSUME NEW d \in sync.got
                 PROVE  /\ seen[d].st = "VOIDED" => seen[d] = Voided /\ Now(d) = Voided
                        /\ seen[d] = Now(d) \/ Recent(d)
      BY <1>1, <1>2 DEF Seen, Now, Recent
    <2>1. /\ d \in Docs /\ sync.seen[d] \in Stored
          /\ seen[d] = IF sync.seen[d].st = "PAID" THEN [st |-> "PAID", day |-> doc[d].day]
                                                   ELSE sync.seen[d]
      BY DEF seen, SInv, TypeOK
    <2>2. /\ sync.seen[d].st = "VOIDED" => sync.seen[d] = Voided /\ Now(d) = Voided
          /\ sync.seen[d].day = 0
          /\ sync.seen[d].st = doc[d].st \/ Recent(d)
          /\ doc[d].st # "PAID" => doc[d].day = 0
      BY <1>1, <2>1 DEF HInv, Seen, Moments
    <2>3. sync.seen[d].st = doc[d].st => seen[d] = Now(d)
      BY <2>1, <2>2 DEF Now, Stored
    <2> QED BY <2>1, <2>2, <2>3
  <1> QED BY <1>3, <1>4 DEF HInv

\* The answers of a call are stored.
LEMMA SlipStores ==
  ASSUME SInv, HInv, SyncStores
  PROVE  HInv'
  <1>1. /\ sync.pc = "settled" /\ UNCHANGED <<nowhere, clock, doc, send, faults>>
        /\ row \in [Docs -> Stored] /\ sync.got \subseteq Docs
    BY DEF SyncStores, SInv, TypeOK
  <1>2. \A d \in Docs : row'[d] = IF d \in sync.got THEN sync.seen[d] ELSE row[d]
    BY DEF SyncStores, Stores
  <1>3. /\ \A d \in sync.got : /\ sync.seen[d].st = "VOIDED" => sync.seen[d] = Voided /\ Now(d) = Voided
                               /\ sync.seen[d] = Now(d) \/ Recent(d)
    BY <1>1 DEF HInv, Seen
  <1>4. Moments'
    BY <1>1, <1>2, <1>3 DEF HInv, Moments, Now
  <1>5. \A d \in Docs : Behind(d)' => (d \in sync.got /\ Recent(d)) \/ (d \notin sync.got /\ Behind(d))
    BY <1>1, <1>2, <1>3 DEF Behind, Now
  <1>6. CASE Finished
    <2>1. sync' = NoSync /\ last' = sync.time
      BY <1>6 DEF SyncStores, CompleteAt
    <2>2. sync'.pc = "no" /\ sync'.got = {}
      BY <2>1, NoSyncType
    <2>3. Windows'
      BY <1>1, <2>1, <2>2 DEF HInv, Windows, Reading
    <2>4. \A d \in Docs \ sync.got : Behind(d) => doc[d].mod > Since(sync.time)
      BY <1>1, <1>6 DEF HInv, Done, Reading, Pending, Finished, Ways
    <2>5. NothingSlipsBy'
      BY <1>1, <1>5, <2>1, <2>4 DEF NothingSlipsBy, Recent
    <2> QED BY <1>4, <2>2, <2>3, <2>5 DEF HInv, Plans, NotListed, Done, Seen, Reading
  <1>7. CASE ~Finished
    <2>1. /\ sync' = [sync EXCEPT !.pc = "ask", !.got = {}, !.seen = NoSync.seen]
          /\ UNCHANGED <<last, caughtUp>>
      BY <1>7 DEF SyncStores
    <2>2. /\ sync'.pc = "ask" /\ sync'.time = sync.time /\ sync'.since = sync.since
          /\ sync'.rows = sync.rows /\ sync'.snap = sync.snap /\ sync'.got = {}
          /\ sync'.left = sync.left
      BY <2>1 DEF SInv, TypeOK
    <2>3. Windows' /\ NotListed' /\ Seen'
      BY <1>1, <2>1, <2>2 DEF HInv, Windows, NotListed, Seen, Reading
    <2>4. Done'
      <3> SUFFICES ASSUME NEW d \in Docs, d \notin Pending', Behind(d)'
                   PROVE  doc[d].mod > Since(sync.time)
        BY <1>1, <2>2 DEF Done
      <3>1. CASE d \in sync.got
        BY <1>5, <3>1 DEF Recent
      <3>2. CASE d \notin sync.got
        BY <1>1, <1>5, <2>2, <3>2 DEF HInv, Done, Reading, Pending
      <3> QED BY <3>1, <3>2
    <2>5. NothingSlipsBy'
      <3> SUFFICES ASSUME NEW d \in Docs, Behind(d)'
                   PROVE  doc[d].mod > Since(last) \/ (row'[d] = Undated /\ ~caughtUp)
        BY <1>1, <2>1 DEF NothingSlipsBy, Undated
      <3>1. CASE d \in sync.got
        BY <1>5, <3>1 DEF Recent
      <3>2. CASE d \notin sync.got
        BY <1>2, <1>5, <3>2 DEF HInv, NothingSlipsBy, Undated
      <3> QED BY <3>1, <3>2
    <2>6. Plans'
      <3>1. \A w \in Ways : \A d \in sync.left[w] : row'[d] = row[d]
        BY <1>1, <1>2 DEF HInv, Plans, Reading, SInv, TypeOK
      <3> QED BY <1>1, <2>1, <2>2, <3>1 DEF HInv, Plans, Reading, AsListed
    <2> QED BY <1>4, <2>3, <2>4, <2>5, <2>6 DEF HInv
  <1> QED BY <1>6, <1>7

\* The asking again fails: the summary is stored, the catch-up is to be done again.
LEMMA SlipFullFails ==
  ASSUME SInv, HInv, FullFails
  PROVE  HInv'
  <1>1. /\ sync.pc = "undated" /\ UNCHANGED <<nowhere, clock, doc, send, last>>
        /\ sync' = NoSync /\ row \in [Docs -> Stored] /\ sync.got \subseteq Docs
    BY DEF FullFails, SInv, TypeOK
  <1>2. \A d \in Docs : row'[d] = IF d \in sync.got THEN WithoutDay(d) ELSE row[d]
    BY DEF FullFails, Stores
  <1>3. ~caughtUp'
    BY DEF FullFails, Forgotten
  <1>4. sync'.pc = "no" /\ sync'.got = {}
    BY <1>1, NoSyncType
  <1>5. \A d \in sync.got : /\ sync.seen[d].st = "VOIDED" => sync.seen[d] = Voided /\ Now(d) = Voided
                            /\ sync.seen[d].day = 0 /\ sync.seen[d] \in Stored
                            /\ sync.seen[d].st = doc[d].st \/ Recent(d)
                            /\ sync.snap[d].st = "PAID" => doc[d].mod > Since(last)
    BY <1>1 DEF HInv, Seen, Plans, Reading, SInv, TypeOK
  <1>6. Windows'
    BY <1>1, <1>4 DEF HInv, Windows, Reading
  <1>7. Moments'
    BY <1>1, <1>2, <1>5 DEF HInv, Moments, Now, WithoutDay
  <1>8. NothingSlipsBy'
    <2> SUFFICES ASSUME NEW d \in Docs, Behind(d)'
                 PROVE  doc[d].mod > Since(last) \/ row'[d] = Undated
      BY <1>1, <1>3 DEF NothingSlipsBy, Undated
    <2>1. CASE d \notin sync.got
      BY <1>1, <1>2, <2>1 DEF HInv, NothingSlipsBy, Undated, Behind, Now
    <2>2. CASE d \in sync.got /\ sync.seen[d].st = "PAID"
      <3>1. sync.snap[d].st = "PAID" => doc[d].mod > Since(last)
        BY <1>5, <2>2
      <3>2. sync.snap[d].st # "PAID" => row'[d] = Undated
        BY <1>2, <1>5, <2>2 DEF WithoutDay, Stored, Undated
      <3> QED BY <3>1, <3>2
    <2>3. CASE d \in sync.got /\ sync.seen[d].st # "PAID"
      <3>1. row'[d] = [st |-> sync.seen[d].st, day |-> 0]
        BY <1>2, <1>5, <2>3 DEF WithoutDay, Stored
      <3>2. sync.seen[d].st = doc[d].st => doc[d].day = 0
        BY <2>3 DEF HInv, Moments
      <3> QED BY <1>1, <1>5, <2>3, <3>1, <3>2 DEF Behind, Now, Recent
    <2> QED BY <2>1, <2>2, <2>3
  <1> QED BY <1>4, <1>6, <1>7, <1>8 DEF HInv, Plans, NotListed, Done, Seen, Reading

LEMMA SlipStep == SlackIsEnough /\ SInv /\ SInv' /\ HInv /\ [Next]_vars => HInv'
  <1> SUFFICES ASSUME SlackIsEnough, SInv, SInv', HInv, [Next]_vars PROVE HInv'
    OBVIOUS
  <1>1. CASE CompanyChosen \/ UNCHANGED vars
    <2>1. UNCHANGED <<clock, doc, row, send, last, caughtUp, sync>>
      BY <1>1 DEF CompanyChosen, vars
    <2> QED BY <2>1 DEF HInv, Windows, Moments, Plans, AsListed, NotListed, Done, Seen, Recent,
                        NothingSlipsBy, Behind, Now, Reading, Pending
  <1>2. CASE SyncStep
    BY <1>2, SlipLists, SlipStarts, SlipInFull, SlipStores, SlipAnswers DEF SyncStep
  <1>3. CASE FullFails
    BY <1>3, SlipFullFails
  <1>4. CASE SyncFails \/ Restart
    BY <1>4, SlipEnds
  <1>5. ASSUME NEW d \in Docs,
               XeroMoves(d) \/ XeroTakesSend(d) \/ SendStored(d) \/ AnswerNotStored(d)
        PROVE  HInv'
    BY <1>5, SlipChange, SlipSend
  <1> QED BY <1>1, <1>2, <1>3, <1>4, <1>5 DEF Next

\* Where the slack covers the drift and the two windows, no row that is behind
\* Xero slips by the reads.
THEOREM NoRowSlipsBy == SlackIsEnough /\ Spec => []NothingSlipsBy
  <1> DEFINE I == SlackIsEnough /\ SInv /\ HInv
  <1>1. SlackIsEnough /\ Init => I
    BY ShapeInit, SlipInit
  <1>2. I /\ [Next]_vars => I'
    <2>1. SlackIsEnough => SlackIsEnough'
      BY DEF SlackIsEnough
    <2> QED BY <2>1, ShapeStep, SlipStep
  <1>3. I => NothingSlipsBy
    BY DEF HInv
  <1> QED BY <1>1, <1>2, <1>3, PTL DEF Spec

-----------------------------------------------------------------------------
(* The day of payment.                                                     *)

\* A day is the time of the payment. What Xero answered is so, or the payment
\* on file is older than the document; what is in hand is as it was listed.
Days ==
  /\ \A d \in Docs :
       /\ row[d].day <= clock /\ sync.snap[d].day <= clock /\ sync.seen[d].day <= clock
       /\ doc[d].day # 0 => doc[d].day = doc[d].mod
  /\ \A d \in sync.got :
       /\ sync.pc \in {"settled", "undated"} => AsListed(d)
       /\ sync.pc = "settled" => sync.seen[d] = Now(d) \/ row[d].day < doc[d].mod
       /\ sync.pc = "undated" => sync.seen[d].st = doc[d].st \/ row[d].day < doc[d].mod

LEMMA DaysInit == Init => Days
  <1>1. SUFFICES ASSUME Init PROVE Days
    OBVIOUS
  <1>2. /\ \A d \in Docs : /\ row[d].day = 0 /\ doc[d].day = doc[d].mod
        /\ sync = NoSync /\ clock \in Nat
    BY <1>1, TimesAssumption DEF Init, NotRead
  <1>3. /\ sync.got = {}
        /\ \A d \in Docs : sync.snap[d].day = 0 /\ sync.seen[d].day = 0
    BY <1>2 DEF NoSync, NotRead
  <1> QED BY <1>2, <1>3 DEF Days

LEMMA DaysStep == SInv /\ HInv /\ Days /\ [Next]_vars => Days'
  <1> SUFFICES ASSUME SInv, HInv, Days, [Next]_vars PROVE Days'
    OBVIOUS
  <1>0. /\ clock \in Nat /\ sync.got \subseteq Docs /\ row \in [Docs -> Stored]
        /\ send \in [Docs -> Nat] /\ doc \in [Docs -> Document]
        /\ \A d \in Docs : /\ row[d].day \in Nat /\ doc[d].mod \in Nat /\ doc[d].day \in Nat
                           /\ doc[d].mod <= clock
                           /\ sync.seen[d] \in Stored /\ sync.snap[d] \in Stored
    BY DEF SInv, TypeOK, Stored, Document, HInv, Windows
  <1>a. \A d \in Docs : doc[d].day <= clock /\ sync.seen[d].day <= clock /\ 0 <= clock
    BY <1>0 DEF Days
  <1>1. CASE sync' = NoSync /\ UNCHANGED <<clock, doc, row>>
    <2>1. sync'.got = {} /\ \A d \in Docs : sync'.snap[d].day = 0 /\ sync'.seen[d].day = 0
      BY <1>1 DEF NoSync, NotRead
    <2> QED BY <1>0, <1>1, <2>1 DEF Days
  <1>2. CASE UNCHANGED <<clock, doc, row, sync>>
    BY <1>2 DEF Days, AsListed, Now
  <1>3. ASSUME NEW e \in Docs, XeroMoves(e) \/ XeroTakesSend(e) PROVE Days'
    <2>1. PICK st \in Statuses, day \in Nat :
            /\ doc' = [doc EXCEPT ![e] = [st |-> st, day |-> day, mod |-> clock + 1]]
            /\ day \in {0, clock + 1}
      BY <1>0, <1>3 DEF XeroMoves, XeroTakesSend, BecomesAt, Statuses, Final
    <2>2. clock' = clock + 1 /\ UNCHANGED <<row, sync>>
      BY <1>3 DEF XeroMoves, XeroTakesSend, Tick
    <2>3. /\ \A d \in Docs : d # e => doc'[d] = doc[d]
          /\ doc'[e].day \in {0, clock + 1} /\ doc'[e].mod = clock + 1
      BY <1>0, <2>1
    <2>4. row[e].day < clock + 1
      BY <1>0 DEF Days
    <2>5. /\ \A d \in Docs : /\ row[d].day <= clock + 1 /\ sync.snap[d].day <= clock + 1
                             /\ sync.seen[d].day <= clock + 1
      BY <1>0 DEF Days, Stored
    <2> QED BY <1>0, <2>2, <2>3, <2>4, <2>5 DEF Days, AsListed, Now
  <1>4. ASSUME NEW e \in Docs, SendStored(e) \/ AnswerNotStored(e) PROVE Days'
    <2>1. /\ UNCHANGED <<clock, doc, sync>>
          /\ \A d \in Docs : d # e => row'[d] = row[d]
          /\ row'[e] = Draft \/ row'[e] = row[e] \/ (row[e].st = "new" /\ row'[e] = NotRead)
      BY <1>0, <1>4 DEF SendStored, AnswerNotStored, Draft
    <2>2. \A d \in Docs : row'[d].day <= row[d].day /\ row'[d].day \in Nat
      BY <1>0, <2>1 DEF Draft, NotRead
    <2>3. \A d \in sync.got : AsListed(d) => AsListed(d)'
      BY <1>0, <2>1 DEF AsListed, SInv, Shape
    <2>4. \A d \in Docs : /\ row[d].day <= clock => row'[d].day <= clock
                          /\ row[d].day < doc[d].mod => row'[d].day < doc[d].mod
      BY <1>0, <2>2
    <2>5. \A d \in Docs : row'[d].day <= clock
      BY <2>4 DEF Days
    <2> QED BY <1>0, <2>1, <2>3, <2>4, <2>5 DEF Days, Now
  <1>5. CASE SyncLists
    <2>1. /\ sync'.got = {} /\ sync'.snap = row /\ sync'.seen = NoSync.seen
          /\ UNCHANGED <<clock, doc, row>>
      BY <1>5 DEF SyncLists, NoSync
    <2>2. \A d \in Docs : NoSync.seen[d].day = 0
      BY DEF NoSync, NotRead
    <2> QED BY <1>0, <2>1, <2>2 DEF Days
  <1>6. CASE SyncStarts
    <2>1. /\ sync'.got = sync.got /\ sync'.snap = sync.snap /\ sync'.seen = sync.seen
          /\ sync'.pc = "ask" /\ UNCHANGED <<clock, doc, row>>
      BY <1>6 DEF SyncStarts, SInv, TypeOK
    <2> QED BY <2>1 DEF Days
  <1>7. ASSUME NEW w \in Ways, NEW batch \in SUBSET Docs, XeroAnswers(w, batch) PROVE Days'
    <2> DEFINE got  == Answers(w, batch)
               seen == [d \in Docs |-> IF d \in got THEN Says(w, d) ELSE NotRead]
    <2>1. /\ sync'.got = got /\ sync'.snap = sync.snap /\ sync'.seen = seen
          /\ UNCHANGED <<clock, doc, row>>
          /\ sync.pc = "ask" /\ got \subseteq sync.left[w] /\ got \subseteq Docs
          /\ sync'.pc = "settled" => w = "full" \/ \A d \in got : doc[d].st # "PAID"
      BY <1>7 DEF XeroAnswers, Answers, SInv, TypeOK
    <2>2. \A d \in got : AsListed(d)
      BY <2>1 DEF HInv, Plans, Reading
    <2>3. \A d \in got : /\ seen[d] = [st |-> doc[d].st, day |-> IF w = "full" THEN doc[d].day ELSE 0]
                         /\ doc[d].st # "PAID" => doc[d].day = 0
      BY <2>1 DEF Says, Now, HInv, Moments
    <2>5. \A d \in Docs \ got : seen[d].day = 0
      BY DEF NotRead
    <2>8. ASSUME NEW d \in got
          PROVE  seen[d].st = doc[d].st /\ seen[d].day \in {0, doc[d].day}
      <3>1. seen[d] = Says(w, d)
        BY <2>1
      <3>2. Says(w, d) = [st |-> doc[d].st, day |-> IF w = "full" THEN doc[d].day ELSE 0]
        BY DEF Says, Now
      <3> QED BY <3>1, <3>2
    <2> HIDE DEF got, seen
    <2>4. \A d \in Docs : seen[d].day <= clock
      <3>1. \A d \in got : seen[d].day \in {0, doc[d].day}
        BY <2>8
      <3> QED BY <1>a, <2>1, <2>5, <3>1
    <2>6. \A d \in got : sync'.pc = "settled" => seen[d] = Now(d)
      BY <2>1, <2>3 DEF Now
    <2>7. \A d \in got : seen[d].st = doc[d].st
      BY <2>8
    <2> QED BY <2>1, <2>2, <2>4, <2>6, <2>7 DEF Days, AsListed, Now
  <1>8. CASE XeroAnswersInFull
    <2>1. /\ sync'.got = sync.got /\ sync'.snap = sync.snap
          /\ sync.pc = "undated" /\ sync'.pc = "settled" /\ UNCHANGED <<clock, doc, row>>
          /\ \A d \in Docs : sync'.seen[d] = IF sync.seen[d].st = "PAID"
                                             THEN [st |-> "PAID", day |-> doc[d].day] ELSE sync.seen[d]
      BY <1>8 DEF XeroAnswersInFull, SInv, TypeOK
    <2>2. \A d \in Docs : sync'.seen[d].day <= clock
      <3> SUFFICES ASSUME NEW d \in Docs PROVE sync'.seen[d].day <= clock
        OBVIOUS
      <3>1. CASE sync.seen[d].st = "PAID"
        <4>1. sync'.seen[d] = [st |-> "PAID", day |-> doc[d].day]
          BY <2>1, <3>1
        <4> QED BY <1>a, <4>1
      <3>2. CASE sync.seen[d].st # "PAID"
        BY <1>a, <2>1, <3>2
      <3> QED BY <3>1, <3>2
    <2>3. ASSUME NEW d \in sync.got, ~(row[d].day < doc[d].mod) PROVE sync'.seen[d] = Now(d)
      <3>1. sync.seen[d].st = doc[d].st /\ sync.seen[d].day = 0 /\ (doc[d].st # "PAID" => doc[d].day = 0)
        BY <1>0, <2>1, <2>3 DEF Days, HInv, Seen, Moments
      <3> QED BY <1>0, <2>1, <3>1 DEF Now, Stored
    <2> QED BY <1>0, <2>1, <2>2, <2>3 DEF Days, AsListed, Now
  <1>9. CASE SyncStores
    <2>1. /\ sync'.got = {} /\ sync.pc = "settled" /\ UNCHANGED <<clock, doc>>
          /\ sync'.snap = sync.snap \/ sync'.snap = NoSync.snap
          /\ sync'.seen = NoSync.seen
      BY <1>9, NoSyncType DEF SyncStores, SInv, TypeOK
    <2>2. \A d \in Docs : row'[d].day <= clock
      BY <1>0, <1>9 DEF SyncStores, Stores, Days
    <2>3. \A d \in Docs : NoSync.snap[d].day = 0 /\ NoSync.seen[d].day = 0
      BY DEF NoSync, NotRead
    <2> QED BY <1>0, <2>1, <2>2, <2>3 DEF Days
  <1>10. CASE FullFails
    <2>1. sync' = NoSync /\ UNCHANGED <<clock, doc>>
      BY <1>10 DEF FullFails
    <2>2. \A d \in Docs : row'[d].day <= clock
      BY <1>0, <1>10 DEF FullFails, Stores, WithoutDay, Days
    <2>3. sync'.got = {} /\ \A d \in Docs : sync'.snap[d].day = 0 /\ sync'.seen[d].day = 0
      BY <2>1 DEF NoSync, NotRead
    <2> QED BY <1>0, <2>1, <2>2, <2>3 DEF Days
  <1>11. CASE CompanyChosen \/ UNCHANGED vars
    BY <1>2, <1>11 DEF CompanyChosen, vars
  <1>12. CASE SyncFails \/ Restart
    BY <1>1, <1>12 DEF SyncFails, Restart
  <1> QED
    BY <1>3, <1>4, <1>5, <1>6, <1>7, <1>8, <1>9, <1>10, <1>11, <1>12 DEF Next, SyncStep

\* Whatever fails, a stored day of payment that still is Xero's is kept.
THEOREM DayIsKept == SlackIsEnough /\ Spec => PaidDayKept
  <1> DEFINE I == SlackIsEnough /\ SInv /\ HInv /\ Days
             Kept == \A d \in Docs : row[d].day # 0 /\ row[d] = Now(d) /\ row'[d].st = "PAID"
                                     => row'[d] = row[d]
  <1>1. SlackIsEnough /\ Init => I
    BY ShapeInit, SlipInit, DaysInit
  <1>2. I /\ [Next]_vars => I'
    <2>1. SlackIsEnough => SlackIsEnough'
      BY DEF SlackIsEnough
    <2> QED BY <2>1, ShapeStep, SlipStep, DaysStep
  <1>3. I /\ [Next]_vars => [Kept]_vars
    <2> SUFFICES ASSUME I, Next, NEW d \in Docs, row[d].day # 0, row[d] = Now(d), row'[d].st = "PAID"
                 PROVE  row'[d] = row[d]
      OBVIOUS
    <2>1. /\ doc[d].st = "PAID" /\ row[d].st = "PAID" /\ row[d].day = doc[d].mod
          /\ row \in [Docs -> Stored] /\ doc[d].mod \in Nat
      BY DEF Now, Days, HInv, Moments, SInv, TypeOK, Document
    <2>2. CASE row' = row
      BY <2>2
    <2>3. ASSUME NEW e \in Docs, SendStored(e) \/ AnswerNotStored(e) PROVE row'[d] = row[d]
      BY <2>1, <2>3 DEF SendStored, AnswerNotStored
    <2>4. CASE SyncStores
      <3>1. CASE d \in sync.got
        <4>1. sync.seen[d] = Now(d)
          BY <2>1, <2>4, <3>1 DEF SyncStores, Days
        <4> QED BY <2>4, <3>1, <4>1 DEF SyncStores, Stores
      <3> QED BY <2>4, <3>1 DEF SyncStores, Stores
    <2>5. CASE FullFails
      <3>1. CASE d \in sync.got
        <4>1. row[d] = sync.snap[d]
          BY <2>1, <2>5, <3>1 DEF FullFails, Days, AsListed, Draft
        <4>2. row'[d] = WithoutDay(d)
          BY <2>5, <3>1 DEF FullFails, Stores
        <4> QED BY <2>1, <4>1, <4>2 DEF WithoutDay
      <3> QED BY <2>5, <3>1 DEF FullFails, Stores
    <2> QED
      BY <2>2, <2>3, <2>4, <2>5
      DEF Next, SyncStep, CompanyChosen, SyncLists, SyncStarts, XeroAnswersInFull, XeroAnswers,
          SyncFails, Restart, XeroMoves, XeroTakesSend
  <1>4. PaidDayKept <=> [][Kept]_vars
    BY PTL DEF PaidDayKept
  <1> QED BY <1>1, <1>2, <1>3, <1>4, PTL DEF Spec
=============================================================================
